CONSTANTS
  Opener = {t1, t2}
  NoOne = NoOne
  Salt = {s1, s2}
  NoSalt = NoSalt
  Allowance <- BusyNight
SPECIFICATION FairConnection
INVARIANTS
  WholeOnDisk
  OneSalt
PROPERTIES
  ImplementsVotingFile
  EverybodyOpens
