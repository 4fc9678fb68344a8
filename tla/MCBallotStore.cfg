CONSTANTS
  Voter = {v1, v2}
  Song = {a, b, c, d, e}
  NoSong = NoSong
  MaxRounds = 2
  CooldownChoices = {1, 2}
  Catalogues <- AnyCatalogue
  Title <- OneTitle
SYMMETRY Interchangeable
SPECIFICATION CallSpec
INVARIANTS
  TypeOK
  OnlyNewestOpen
  BallotsWithinLimit
  NoBallotForLockedSong
PROPERTIES
  AllowanceRespected
  EndedRoundsGainNothing
  ImplementsBallot
