CONSTANTS
  t1 = t1
  s1 = s1
  s2 = s2
  v1 = v1
  v2 = v2
  v3 = v3
  Tab = {t1}
  Voter = {v1, v2}
  NoVoter = NoVoter
  OwnTokens <- AnyBrowser
  Song = {s1, s2, s3}
  NoSong = NoSong
  MaxRounds = 2
  CooldownChoices = {0}
  Catalogues <- TwoOrAll
  Title <- OneTitle
  Buffer = 1
  Quotas <- BusyQuotas
SPECIFICATION BusyPage
INVARIANT PageTypeOK
PROPERTIES
  PageConverges
  TapMeansWhatItShows
  NextTapIsTaken
  BroadcastEnds
