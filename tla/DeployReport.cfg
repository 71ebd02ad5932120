CONSTANTS
  Commits = {c1, c2}
  Base = base
  None = None
  MaxTime = 2
  MaxBoots = 3
  MaxFaults = 1
  MaxTears = 1
  sql = sql
  Callers = {a, b}
  Nobody = nobody
  Edits = {sql}
  Migrations = {sql}
  Embedded = {}
  Checkouts <- MCCheckouts
  MaxCommits = 2
SPECIFICATION DeploysSpec
SYMMETRY Symmetry
INVARIANTS AnnouncedOnce CrashFirst CrashFileAnnouncedOnce BlameIsRight
  OnlyShellSlipsIn JournalTellsTruth
CHECK_DEADLOCK FALSE
