CONSTANTS
  a = a
  b = b
  v1 = v1
  t1 = t1
  Song = {a, b}
  Voter = {v1}
  Client = {t1}
  Holder <- OneClient
  NoSong = NoSong
  Catalogues <- AllSeen
  Title <- TitleRank
  MaxRounds = 6
  Messages = 6
  CooldownChoices = {0}
  Playlists <- OnePlaylist
  Budget <- HealthyBudget
SPECIFICATION MqttSpec
PROPERTY RoundsDecidedNearTheirEnd
