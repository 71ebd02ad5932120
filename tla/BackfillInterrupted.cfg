CONSTANTS
  rick = rick
  ann = ann
  c1 = c1
  c2 = c2
  Channels = {c1, c2}
  Rick = rick
  BackfillBatch = 2
  ListLimit = 2
  Histories <- TwoChannels
  MaxFaults = 1
SPECIFICATION Spec
INVARIANTS InterruptedIsRecorded
CHECK_DEADLOCK FALSE
