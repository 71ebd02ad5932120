SPECIFICATION FairSpec
CONSTANTS
  t1 = t1
  t2 = t2
  code = code
  sql = sql
  old = old
  Turn = {t1, t2}
  Batches <- MCBatches
  Callers <- MCCallers
  Nobody = Nobody
  Edits = {sql}
  Migrations = {sql}
  Embedded = {}
  MaxCommits = 1
  Checkouts <- MCCheckouts
  MaxToolIter = 1
  CodeMaxToolIter = 2
INVARIANTS CompletionsBounded
PROPERTIES BusyOnlyByOthers TurnEnds
