CONSTANTS
  ann = ann
  c1 = c1
  OtherBots = {}
  Posts <- TwoSizes
  ChunkGap = 1
  ChunkMaxMsgs = 2
  ChunkMaxChars = 5
  ReadLimit = 2
  EmbedBatch = 2
  MaxPosts = 3
  LastPost = 2
  MaxTime = 3
  MaxFaults = 1
SPECIFICATION FairSpec
INVARIANTS ChunkedAsOnePass PassedOverIsLate
PROPERTIES StoredIsSearchable
CHECK_DEADLOCK FALSE
