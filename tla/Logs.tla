-------------------------------- MODULE Logs --------------------------------
(***************************************************************************)
(* The process logs (internal/runtimehome): a file for each day, written   *)
(* under a lock by whoever logs, pruned when the process starts, and read  *)
(* by the tool sys_logs.  A record has its time before it has the lock, so *)
(* one of yesterday may come after one of today.                           *)
(*                                                                         *)
(* A file is the sequence of the writes that left something in it, each    *)
(* with what that is: the whole "line"; the "text" without its line end;   *)
(* or a "half" of the text.  After one of the latter two the next write    *)
(* goes on in the same line, of which a reader sees at most the first      *)
(* record: the rest of a line is ignored after an object and spoils half a *)
(* one (parseLogLine).  Which file is open is left out: a write opens the  *)
(* one it needs, after a rotation as after the log was closed (rotate).    *)
(***************************************************************************)
EXTENDS Integers, Sequences, FiniteSets, SequencesExt

CONSTANTS
  DayLength,
  LogRetention, \* in days
  MaxLogAge,    \* how far back sys_logs may ask (maxLogHours)
  MaxProblems,
  MaxLogTime, MaxRecords  \* bounds

ASSUME LogsAssumption ==
  /\ {DayLength, MaxProblems} \subseteq Nat \ {0}
  /\ {LogRetention, MaxLogAge, MaxLogTime, MaxRecords} \subseteq Nat
  /\ MaxLogAge <= LogRetention * DayLength   \* both are two weeks

VARIABLES
  logTime,
  made,         \* how many records have been made
  noted,        \* records that have their time and wait for the lock
  files,        \* the log of each day, <<>> when there is none
  written       \* history: records whose text has been written

logsVars == <<logTime, made, noted, files, written>>

Kinds == {"info", "warn", "long"}   \* long: over maxLogLineBytes
DayOf(t) == t \div DayLength
Days == 0..DayOf(MaxLogTime)

LogsInit ==
  /\ logTime = 0 /\ made = 0 /\ noted = {} /\ written = {}
  /\ files = [d \in Days |-> <<>>]

\* A logger makes its record.
Note(kind) ==
  /\ made < MaxRecords
  /\ made' = made + 1
  /\ noted' = noted \cup {[id |-> made + 1, at |-> logTime, kind |-> kind]}
  /\ UNCHANGED <<logTime, files, written>>

\* Write k of a day begins a line.
BeginsLine(day, k) == k = 1 \/ files[day][k-1].part = "line"

\* Whether its line is too long with what is written of r: half of a long record
\* may do, and so may any record that goes on in a line.
TooLong(r, day, part) ==
  IF r.kind = "long" /\ part # "half" THEN {TRUE}
  ELSE IF r.kind = "long" \/ ~BeginsLine(day, Len(files[day]) + 1) THEN BOOLEAN
  ELSE {FALSE}

Write(r, day, part) ==
  /\ \E long \in TooLong(r, day, part) :
       files' = [files EXCEPT ![day] =
                   Append(@, [rec |-> r, part |-> part, long |-> long])]
  /\ written' = IF part = "half" THEN written ELSE written \cup {r}

\* Handle: to the file of the record's own day, forth or back, the whole line or,
\* when the write fails or the process dies in it, a part; or the file does not
\* open, or takes nothing of the record.
HandleRecord(r) ==
  /\ noted' = noted \ {r}
  /\ \/ \E part \in {"line", "text", "half"} : Write(r, DayOf(r.at), part)
     \/ UNCHANGED <<files, written>>
  /\ UNCHANGED <<logTime, made>>

\* Mutant: the day of the cutoff goes, too.
OldOrJustNot == {d \in Days : d <= DayOf(logTime) - LogRetention}

\* pruneLogs: the days before the cutoff.
Old == {d \in Days : d < DayOf(logTime) - LogRetention}

\* The process starts again, after an exit or a crash (Open); a file may fail
\* to go.
OpenHome ==
  /\ noted' = {}
  /\ \E gone \in SUBSET Old :
       files' = [d \in Days |-> IF d \in gone THEN <<>> ELSE files[d]]
  /\ UNCHANGED <<logTime, made, written>>

LogsTick ==
  /\ logTime < MaxLogTime
  /\ logTime' = logTime + 1
  /\ UNCHANGED <<made, noted, files, written>>

LogsNext ==
  \/ \E kind \in Kinds : Note(kind)
  \/ \E r \in noted : HandleRecord(r)
  \/ OpenHome \/ LogsTick

LogsSpec == LogsInit /\ [][LogsNext]_logsVars

-----------------------------------------------------------------------------
\* A place is a day and a write in its file.
WriteAt(place) == files[place[1]][place[2]]

\* The lines a reader comes to, each by its first write: the scanner stops at one
\* that is too long.
Scanned(day) ==
  {k \in DOMAIN files[day] :
     /\ BeginsLine(day, k)
     /\ \A j \in DOMAIN files[day] :
          files[day][j].long => \E i \in k+1..j : BeginsLine(day, i)}

\* readProblemsFile.
ProblemsOf(day, since) ==
  {place \in {day} \X Scanned(day) :
     /\ WriteAt(place).part # "half"
     /\ WriteAt(place).rec.kind # "info" /\ WriteAt(place).rec.at >= since}

\* Every file of the days from since to now.
Found(since) == UNION {ProblemsOf(day, since) : day \in DayOf(since)..DayOf(logTime)}

\* A stable sort by time: of one time, in the order of the files.
Before(p, q) ==
  \/ WriteAt(p).rec.at < WriteAt(q).rec.at
  \/ WriteAt(p).rec.at = WriteAt(q).rec.at /\ (p[1] < q[1] \/ (p[1] = q[1] /\ p[2] < q[2]))

Sorted(places, s) ==
  /\ s \in [1..Cardinality(places) -> places]
  /\ \A i, j \in DOMAIN s : i < j => Before(s[i], s[j])

InOrder(places) ==
  CHOOSE s \in [1..Cardinality(places) -> places] : Sorted(places, s)

\* The newest of them.
Problems(since) ==
  LET order   == InOrder(Found(since))
      skipped == IF Len(order) > MaxProblems THEN Len(order) - MaxProblems ELSE 0
  IN  [k \in 1..Len(order) - skipped |-> WriteAt(order[skipped + k]).rec]

-----------------------------------------------------------------------------
\* r went on in a line: the write before it had failed, and left no line end.
Swallowed(r) ==
  LET file == files[DayOf(r.at)]
  IN  \E k \in DOMAIN file : file[k].rec = r /\ ~BeginsLine(DayOf(r.at), k)

\* Rick can look up what went wrong, however far back he may ask and over all
\* restarts ("they survive restarts"): the problems found are those written
\* since, in their order, and one that is missing is older than MaxProblems
\* others, shares a day with an overlong line, for which the tool reports a read
\* error, or is the one record that went on in a line which a failed write had
\* left without its end, for which it reports nothing (sys_logs, Problems).
LogsRemember ==
  \A since \in {t \in 0..logTime : logTime - t <= MaxLogAge} :
    LET found == Problems(since)
        wanted == {r \in written : r.kind = "warn" /\ r.at >= since}
    IN  /\ ToSet(found) \subseteq wanted
        /\ \A k \in 1..Len(found)-1 : found[k].at <= found[k+1].at
        /\ \A r \in wanted \ ToSet(found) :
             \/ Len(found) = MaxProblems /\ r.at <= found[1].at
             \/ \E w \in ToSet(files[DayOf(r.at)]) : w.long
             \/ Swallowed(r)
=============================================================================
