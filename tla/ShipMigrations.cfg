SPECIFICATION Spec
CONSTANTS
  t1 = t1
  t2 = t2
  code = code
  sql = sql
  old = old
  Turn = {t1, t2}
  Batches <- EditAndShip
  Callers <- MCCallers
  Nobody = Nobody
  Edits = {code, sql}
  Migrations = {sql}
  Embedded = {old}
  MaxCommits = 1
  Checkouts <- MCCheckouts
  MaxToolIter = 1
  CodeMaxToolIter = 2
INVARIANT PushedMigrationsWereRun
CHECK_DEADLOCK FALSE
