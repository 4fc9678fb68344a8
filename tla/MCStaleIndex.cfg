CONSTANTS
  a = a
  b = b
  c = c
  v1 = v1
  v2 = v2
  t1 = t1
  t2 = t2
  Song = {a, b, c}
  Voter = {v1, v2}
  Client = {t1}
  Holder <- TwoVoters
  NoSong = NoSong
  Catalogues <- CNotYetSeen
  Title <- TitleRank
  MaxRounds = 6
  CooldownChoices = {0}
  Playlists <- TwoPlaylists
  Budget <- EditBudget
SPECIFICATION ServiceSpec
PROPERTY StartsTheWinner
