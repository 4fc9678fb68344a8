CONSTANTS
  Voter = {v1}
  Song = {a, b, c}
  NoSong = NoSong
  Show = {x, y}
  Admin = {m1, m2}
  Category = {p}
  MaxRounds = 2
  CooldownChoices = {0}
  Catalogues <- SomeSongs
  Title <- OneTitle
  Seeds <- SameShows
  Chores <- SmallChores
SYMMETRY Interchangeable
SPECIFICATION CatalogSpec
CHECK_DEADLOCK FALSE
INVARIANTS
  CatalogTypeOK
  HistoryKeepsItsSongs
  NoAliasChains
  OrphansAreReported
PROPERTIES
  RenamesCarryHistory
  CatalogueKeepsBallots
  SyncTouchesOneShow
  TallyStartsAtReset
