---------------------------- MODULE DeployReport ----------------------------
(***************************************************************************)
(* Reporting a self-made deploy after a restart.  code_ship pushes a       *)
(* commit and notes it in the journal runtime/deploys.jsonl; every process *)
(* notes its boot and writes the stack of a panic to a crash file named    *)
(* after the second of its boot; the first GuildReady event of a process   *)
(* makes ReportDeploy read both, decide what to announce, note that in the *)
(* journal and then send it.                                               *)
(*                                                                         *)
(* Journal and crash files outlive the process.  Time is a number of       *)
(* seconds.  A write to the journal fails at most MaxFaults times with     *)
(* nothing written and at most MaxTears times with half a line written.    *)
(***************************************************************************)
EXTENDS Integers, Sequences, FiniteSets

CONSTANTS
  Commits,   \* commits the program ships
  Base,      \* the commit deployed first
  None,
  MaxTime, MaxBoots, MaxFaults, MaxTears

ASSUME DeployAssumption ==
  /\ Base \notin Commits /\ None \notin Commits \cup {Base} \cup Nat
  /\ {MaxTime, MaxBoots, MaxFaults, MaxTears} \subseteq Nat

VARIABLES
  clock,
  journal,    \* the lines of deploys.jsonl
  crash,      \* by name of a crash file: what is in it
  pushed,     \* commits on main, the program's own ones
  up,         \* the commit that runs, None when the process is down
  file,       \* crash file of the process
  loaded, records,    \* Journal: the records read from the file
  shipping,   \* the commit code_ship has pushed and not yet noted
  reporter,   \* ReportDeploy: pc and its Announcement
  boots, faults, tears,
  shared,     \* crash files that two processes have opened
  announced   \* messages sent: the announcement and the number of the boot

process == <<up, file, loaded, records, shipping, reporter>>
bounds  == <<boots, faults, tears>>
vars == <<clock, journal, crash, pushed, process, bounds, shared, announced>>

Times == 0..MaxTime
AllCommits == Commits \cup {Base}

(***************************************************************************)
(* The journal                                                             *)
(***************************************************************************)

Record(kind, commit, crashFile) ==
  [kind |-> kind, commit |-> commit, file |-> crashFile, at |-> clock]
Half == [kind |-> "half", commit |-> None, file |-> None, at |-> 0]
Garbage == [Half EXCEPT !.kind = "garbage"]

Torn == journal # <<>> /\ journal[Len(journal)] = Half

\* O_APPEND: what is written after half a line makes one line with it.
Written(line) ==
  IF Torn THEN [journal EXCEPT ![Len(journal)] = IF line = Half THEN Half ELSE Garbage]
          ELSE Append(journal, line)

\* ReadDeploys skips the lines that do not parse: here they stay in place,
\* with a kind no reader of the records looks for.
ReadDeploys == journal

\* Journal.Append, when the write goes through ...
AppendDeploy(r) ==
  /\ journal' = Written(r)
  /\ records' = IF loaded THEN Append(records, r) ELSE records
  /\ UNCHANGED <<faults, tears>>

\* ... and when it returns an error.
AppendFails ==
  /\ \/ faults < MaxFaults /\ faults' = faults + 1 /\ UNCHANGED <<journal, tears>>
     \/ tears < MaxTears /\ tears' = tears + 1 /\ journal' = Written(Half)
        /\ UNCHANGED faults
  /\ UNCHANGED records

(***************************************************************************)
(* EvaluateBoot                                                            *)
(***************************************************************************)

In(rs) == {rs[i] : i \in 1..Len(rs)}
Of(rs, kind) == {i \in 1..Len(rs) : rs[i].kind = kind}

LatestShip(rs) == rs[CHOOSE i \in Of(rs, "ship") : \A j \in Of(rs, "ship") : j <= i]

ReportsOf(rs, commit) == {r \in In(rs) : r.kind = "reported" /\ r.commit = commit}

\* Mutant: a crash announcement does not count as a report of the ship.
ShipReportedRunning(rs, commit) == \E r \in ReportsOf(rs, commit) : r.file = None

ShipReported(rs, commit) == ReportsOf(rs, commit) # {}
CrashReported(rs, commit) == \E r \in ReportsOf(rs, commit) : r.file # None
ReportedFiles(rs) == {r.file : r \in {q \in In(rs) : q.kind = "reported"}} \ {None}

\* Mutant: the last boot with the crash file is blamed.
LastBootCommit(rs, f) ==
  LET all == Of(rs, "boot")
  IN  IF all = {} THEN None ELSE rs[CHOOSE i \in all : \A j \in all : j <= i].commit

BootCommit(rs, f) ==
  LET own == {i \in Of(rs, "boot") : rs[i].file = f}
  IN  IF own = {} THEN None ELSE rs[CHOOSE i \in own : \A j \in own : i <= j].commit

Crashes == {f \in Times : crash[f].by # None}

\* Mutant: crashes of the files announced before are news again.
NewCrashesRepeated(rs, ship) ==
  {f \in Crashes : f # file /\ crash[f].at >= ship.at}

NewCrashes(rs, ship) ==
  {f \in Crashes : /\ f # file
                   /\ f \notin ReportedFiles(rs)
                   /\ crash[f].at >= ship.at}

Announcement(outcome, ship, f, blamed) ==
  [outcome |-> outcome, commit |-> ship.commit, file |-> f, blamed |-> blamed]

\* What the boot may announce: the newest crash since the ship, if none was
\* announced for it, or else that the shipped commit runs.
EvaluateBoot(rs) ==
  IF Of(rs, "ship") = {} THEN {}
  ELSE LET ship   == LatestShip(rs)
           new    == IF CrashReported(rs, ship.commit) THEN {} ELSE NewCrashes(rs, ship)
           latest == {f \in new : \A g \in new : crash[g].at <= crash[f].at}
       IN  IF new # {}
             THEN {Announcement("crash", ship, f, BootCommit(rs, f)) : f \in latest}
           ELSE IF up = ship.commit /\ ~ShipReported(rs, ship.commit)
             THEN {Announcement("success", ship, None, None)}
           ELSE {}

(***************************************************************************)
(* The program                                                             *)
(***************************************************************************)

NoNews == [outcome |-> "none", commit |-> None, file |-> None, blamed |-> None]
Waiting == [pc |-> "wait", ann |-> NoNews]
Finished == [pc |-> "done", ann |-> NoNews]

Init ==
  /\ clock = 0 /\ journal = <<>>
  /\ crash = [f \in Times |-> [by |-> None, at |-> 0]]
  /\ pushed = {}
  /\ up = None /\ file = None /\ loaded = FALSE /\ records = <<>>
  /\ shipping = None /\ reporter = Finished
  /\ boots = 0 /\ faults = 0 /\ tears = 0
  /\ shared = {} /\ announced = {}

Tick ==
  /\ clock < MaxTime
  /\ clock' = clock + 1
  /\ UNCHANGED <<journal, crash, pushed, process, bounds, shared, announced>>

\* A process of any commit ever pushed starts: Open names the crash file,
\* RecordBoot notes both, or fails.
Boot(c) ==
  /\ up = None /\ boots < MaxBoots
  /\ c \in pushed \cup {Base}
  /\ up' = c /\ boots' = boots + 1
  /\ file' = clock
  /\ shared' = IF file = clock THEN shared \cup {clock} ELSE shared
  /\ AppendDeploy(Record("boot", c, clock)) \/ AppendFails
  /\ loaded' = FALSE
  /\ shipping' = None /\ reporter' = Waiting
  /\ UNCHANGED <<clock, crash, pushed, announced>>

\* code_ship pushes a new commit ...
Push(c) ==
  /\ up # None /\ shipping = None
  /\ c \in Commits \ pushed
  /\ pushed' = pushed \cup {c}
  /\ shipping' = c
  /\ UNCHANGED <<clock, journal, crash, up, file, loaded, records, reporter,
                 bounds, shared, announced>>

\* ... and recordShip notes it, or only logs that it could not.
RecordShip ==
  /\ shipping # None
  /\ AppendDeploy(Record("ship", shipping, None)) \/ AppendFails
  /\ shipping' = None
  /\ UNCHANGED <<clock, crash, pushed, up, file, loaded, reporter, boots, shared,
                 announced>>

\* The first call of Records (also for the deploy vitals of a turn) reads the
\* file, later ones answer from memory.
LoadRecords ==
  /\ up # None /\ ~loaded
  /\ loaded' = TRUE /\ records' = ReadDeploys
  /\ UNCHANGED <<clock, journal, crash, pushed, up, file, shipping, reporter,
                 bounds, shared, announced>>

\* GuildReady: ReportDeploy decides, or ends with nothing to announce.
Evaluate ==
  /\ up # None /\ reporter.pc = "wait" /\ loaded
  /\ LET news == EvaluateBoot(records)
     IN  IF news = {} THEN reporter' = Finished
         ELSE \E a \in news : reporter' = [pc |-> "append", ann |-> a]
  /\ UNCHANGED <<clock, journal, crash, pushed, up, file, loaded, records,
                 shipping, bounds, shared, announced>>

\* Mutant: a report that could not be noted is sent all the same.
ReportUnnoted ==
  /\ up # None /\ reporter.pc = "append"
  /\ \/ AppendDeploy(Record("reported", reporter.ann.commit, reporter.ann.file))
     \/ AppendFails
  /\ reporter' = [reporter EXCEPT !.pc = "send"]
  /\ UNCHANGED <<clock, crash, pushed, up, file, loaded, shipping, boots, shared,
                 announced>>

\* The announcement is noted before it is sent, and not sent if it could not
\* be noted.
Report ==
  /\ up # None /\ reporter.pc = "append"
  /\ \/ /\ AppendDeploy(Record("reported", reporter.ann.commit, reporter.ann.file))
        /\ reporter' = [reporter EXCEPT !.pc = "send"]
     \/ AppendFails /\ reporter' = Finished
  /\ UNCHANGED <<clock, crash, pushed, up, file, loaded, shipping, boots, shared,
                 announced>>

\* handleAmbient sends it or fails; nobody tries again.
Announce ==
  /\ up # None /\ reporter.pc = "send"
  /\ \/ announced' = announced \cup {[ann |-> reporter.ann, boot |-> boots]}
     \/ UNCHANGED announced
  /\ reporter' = Finished
  /\ UNCHANGED <<clock, journal, crash, pushed, up, file, loaded, records,
                 shipping, bounds, shared>>

Down == /\ up' = None /\ shipping' = None /\ reporter' = Finished
        /\ UNCHANGED <<file, loaded, records>>

\* A panic writes the crash file; a kill or a regular end leaves it empty.
Panic ==
  /\ up # None
  /\ crash' = [crash EXCEPT ![file] = [by |-> up, at |-> clock]]
  /\ Down
  /\ UNCHANGED <<clock, journal, pushed, bounds, shared, announced>>

Stop ==
  /\ up # None
  /\ Down
  /\ UNCHANGED <<clock, journal, crash, pushed, bounds, shared, announced>>

Next ==
  \/ Tick \/ RecordShip \/ LoadRecords \/ Evaluate \/ Report \/ Announce
  \/ Panic \/ Stop
  \/ \E c \in AllCommits : Boot(c)
  \/ \E c \in Commits : Push(c)

Spec == Init /\ [][Next]_vars

(***************************************************************************)
(* Properties                                                              *)
(***************************************************************************)

Files == Times \cup {None}
Lines == [kind : {"ship", "boot", "reported", "half", "garbage"},
          commit : AllCommits \cup {None}, file : Files, at : Times]
News  == [outcome : {"none", "success", "crash"}, commit : AllCommits \cup {None},
          file : Files, blamed : AllCommits \cup {None}]

\* The variables keep their types.
TypeOK ==
  /\ clock \in Times
  /\ journal \in Seq(Lines) /\ records \in Seq(Lines)
  /\ crash \in [Times -> [by : AllCommits \cup {None}, at : Times]]
  /\ pushed \in SUBSET Commits
  /\ up \in AllCommits \cup {None} /\ file \in Files /\ loaded \in BOOLEAN
  /\ shipping \in Commits \cup {None}
  /\ reporter \in [pc : {"wait", "append", "send", "done"}, ann : News]
  /\ boots \in 0..MaxBoots /\ faults \in 0..MaxFaults /\ tears \in 0..MaxTears
  /\ shared \in SUBSET Times
  /\ announced \in SUBSET [ann : News, boot : 0..MaxBoots]

SameNews(a, b) == a.ann.commit = b.ann.commit /\ a.ann.outcome = b.ann.outcome

\* "at most one success and one crash announcement per shipped commit"
\* (deploy.go), through every restart, panic and failed write, as long as the
\* journal has no half line.
AnnouncedOnce ==
  tears = 0 => \A a, b \in announced : SameNews(a, b) => a = b

\* "crash first" (deploy.go): once a crash was announced for a shipped commit
\* no later boot announces that the deploy worked.
CrashFirst ==
  tears = 0 => \A a, b \in announced :
     (/\ a.ann.commit = b.ann.commit
      /\ a.ann.outcome = "crash" /\ b.ann.outcome = "success") => b.boot < a.boot

\* A crash file is announced for one shipped commit only, though later ships
\* and later boots find it again.
CrashFileAnnouncedOnce ==
  tears = 0 => \A a, b \in announced :
     (a.ann.file = b.ann.file /\ a.ann.file # None) => a = b

\* The commit a crash announcement blames is the one that wrote the crash
\* file, unless two processes opened that file in the same second.
BlameIsRight ==
  \A a \in announced :
     (a.ann.blamed # None /\ a.ann.file \notin shared) =>
        a.ann.blamed = crash[a.ann.file].by
=============================================================================
