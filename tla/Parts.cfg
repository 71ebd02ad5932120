CONSTANTS
  h1 = h1
  h2 = h2
  Humans = {h1, h2}
  Rick = rick
  Window = 2
  MinMsgs = 1
  MinAuthors = 1
  Cooldown = 3
  DailyCap = 2
  EvalDebounce = 2
  CheckTimeout = 1
  Day = 4
  MaxTime = 4
  MaxMsgs = 2
  MaxFaults = 1
  Ids = {1, 2, 3}
  AuthorOf <- MCAuthorOf
  ChannelOf <- MCChannelOf
  Changing = {2}
  MinNew = 1
  MaxPerRun = 1
  MaxAuthors = 1
  Scorers = {1, 2}
  Persons = {1, 2}
  Outsider = 3
  Judged <- MCJudged
  MaxDelta = 2
  MaxScore = 3
  Baseline <- MCBaseline
  m1 = m1
  m2 = m2
  m3 = m3
  Mentions = {m1, m2, m3}
  Where <- MCWhere
  MaxGoroutines = 2
  Traces = {1, 2, 3, 4}
  MaxEntries = 2
  ChunkGap = 2
  ChunkMaxMsgs = 3
  ChunkMaxChars = 5
  Pauses = {1, 2, 3}
  Lengths = {1, 3, 6}
  MaxLen = 5
  TopK = 2
  RerankMinScore = 3
  Fetch = 3
  Scale = 10000
  MaxQueries = 2
  NeighborChunks = 1
  Requests <- MCRequests
  Queries <- MCQueries
  MaxItems = 3
  TicksPerDay = 2
  Archived <- MCArchived
  MaxRecords = 3
  DayLength = 2
  LogRetention = 1
  MaxLogAge = 2
  MaxProblems = 2
  MaxLogTime = 4
  word = word
  Blank = blank
  LineEnd = nl
  Tokens <- MCTokens
  Texts <- MCTexts
  Olds <- MCOlds
  News <- MCNews
  NewLines <- MCNewLines
  Lines <- MCLines
  MaxText = 4
SPECIFICATION PartsSpec
SYMMETRY MCSymmetry
INVARIANTS CooldownHolds DebounceHolds FiresNeverOverstated DeletedStaysDeleted
  WatermarkIsTrue ScoreAddsUp OneTyper CompleteMeansIdle RingIsRecent
  CutsAreRight RecallIsRight EditsAreRight LogsRemember
CHECK_DEADLOCK FALSE
