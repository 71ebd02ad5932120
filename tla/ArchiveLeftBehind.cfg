CONSTANTS
  rick = rick
  bot = bot
  ann = ann
  c1 = c1
  Rick = rick
  OtherBots = {bot}
  Posts <- OneVoice
  ChunkGap = 1
  ChunkMaxMsgs = 1
  ChunkMaxChars = 5
  ReadLimit = 9
  EmbedBatch = 2
  BackfillBatch = 1
  ListLimit = 1
  MaxPosts = 2
  LastPost = 0
  MaxTime = 1
  MaxFaults = 0
SPECIFICATION Spec
INVARIANTS NoneLeftBehind
CHECK_DEADLOCK FALSE
