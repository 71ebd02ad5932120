------------------------- MODULE DeployReportProofs -------------------------
(***************************************************************************)
(* DeployReport for any commits, number of boots and of failed writes: the *)
(* journal remembers every announcement, and ReportDeploy looks there      *)
(* before it notes and sends one.  TypeOK and NotedInv together are        *)
(* inductive; AnnouncedOnce, CrashFirst and CrashFileAnnouncedOnce follow. *)
(***************************************************************************)
EXTENDS DeployReport, TLAPS, WellFoundedInduction

\* The journal rs holds the report of announcement a.
Noted(a, rs) ==
  \E i \in 1..Len(rs) : /\ rs[i].kind = "reported"
                        /\ rs[i].commit = a.commit /\ rs[i].file = a.file

\* An announcement that is not in the way of rs: what EvaluateBoot looks for.
Fresh(a, rs) ==
  \A i \in 1..Len(rs) : rs[i].kind = "reported" =>
     /\ a.outcome = "success" => rs[i].commit # a.commit
     /\ a.outcome = "crash" => /\ rs[i].file # a.file
                               /\ rs[i].commit = a.commit => rs[i].file = None

\* A crash announcement names a file, a success does not.
WellFormed(a) ==
  \/ a.outcome = "success" /\ a.file = None
  \/ a.outcome = "crash" /\ a.file # None

\* The announcement to be sent meets none that was sent before.
Unsent(a) ==
  \A b \in announced :
    /\ ~(b.ann.commit = a.commit /\ b.ann.outcome = a.outcome)
    /\ b.ann.file = a.file => a.file = None
    /\ a.outcome = "success" /\ b.ann.commit = a.commit => b.ann.outcome # "crash"

\* Every announcement sent is in the journal, every one about to be noted is
\* not, and every one about to be sent is noted and new.
NotedInv ==
  /\ \A i \in 1..Len(journal) : journal[i].kind \notin {"half", "garbage"}
  /\ up # None /\ loaded => records = journal
  /\ \A b \in announced : /\ Noted(b.ann, journal) /\ WellFormed(b.ann)
                          /\ b.boot <= boots
                          /\ b.boot = boots => reporter.pc = "done"
  /\ reporter.pc = "append" =>
       up # None /\ loaded /\ WellFormed(reporter.ann) /\ Fresh(reporter.ann, journal)
  /\ reporter.pc = "send" =>
       WellFormed(reporter.ann) /\ Noted(reporter.ann, journal) /\ Unsent(reporter.ann)

\* Nothing is promised once a write has left half a line.
Inv == tears = 0 => NotedInv /\ AnnouncedOnce /\ CrashFirst /\ CrashFileAnnouncedOnce

-----------------------------------------------------------------------------
(* The first and the last of some lines exist.                             *)

\* A nonempty set of naturals has a least element.
LEMMA HasLeast ==
  ASSUME NEW T \in SUBSET Nat, T # {}
  PROVE  \E x \in T : \A y \in T : x <= y
<1> DEFINE R == OpToRel(<, Nat)
<1>1. \E x \in T : \A y \in T : ~ (<<y, x>> \in R)
  <2>1. IsWellFoundedOn(R, Nat)
    BY NatLessThanWellFounded
  <2>2. T \subseteq Nat
    OBVIOUS
  <2> HIDE DEF R
  <2> QED
    BY <2>1, <2>2, WFMin
<1>2. \A x, y \in Nat : ~ (<<y, x>> \in R) => x <= y
  BY DEF OpToRel
<1> QED
  BY <1>1, <1>2

\* A nonempty set of indices has a greatest element.
LEMMA HasGreatest ==
  ASSUME NEW n \in Nat, NEW T \in SUBSET (1..n), T # {}
  PROVE  \E x \in T : \A y \in T : y <= x
<1> DEFINE S == {n - i : i \in T}
<1>1. S \in SUBSET Nat /\ S # {}
  <2>1. \A i \in T : n - i \in Nat
    OBVIOUS
  <2> QED
    BY <2>1
<1>2. PICK x \in S : \A y \in S : x <= y
  BY <1>1, HasLeast
<1>3. PICK i \in T : x = n - i
  BY <1>2
<1>4. \A j \in T : n - i <= n - j
  BY <1>2, <1>3
<1> QED
  BY <1>3, <1>4

\* The latest ship of a journal with one is one of its lines.
LEMMA LatestShipIsLine ==
  ASSUME NEW rs \in Seq(Lines), Of(rs, "ship") # {}
  PROVE  LatestShip(rs) \in Lines
<1>1. \E i \in Of(rs, "ship") : \A j \in Of(rs, "ship") : j <= i
  <2>1. Len(rs) \in Nat /\ Of(rs, "ship") \in SUBSET (1..Len(rs))
    BY DEF Of
  <2> QED
    BY <2>1, HasGreatest
<1>2. \A i \in Of(rs, "ship") : rs[i] \in Lines
  BY DEF Of
<1> QED
  BY <1>1, <1>2 DEF LatestShip

\* A crash is blamed on a commit or on nobody.
LEMMA BlamedType ==
  ASSUME NEW rs \in Seq(Lines), NEW f
  PROVE  BootCommit(rs, f) \in AllCommits \cup {None}
<1> DEFINE own == {i \in Of(rs, "boot") : rs[i].file = f}
<1>1. CASE own = {}
  BY <1>1 DEF BootCommit
<1>2. CASE own # {}
  <2>1. own \in SUBSET Nat /\ \A i \in own : rs[i] \in Lines
    BY DEF Of
  <2>2. \E i \in own : \A j \in own : i <= j
    BY <2>1, <1>2, HasLeast
  <2>3. (CHOOSE i \in own : \A j \in own : i <= j) \in own
    BY <2>2
  <2>4. BootCommit(rs, f) = rs[CHOOSE i \in own : \A j \in own : i <= j].commit
    BY <1>2 DEF BootCommit
  <2> HIDE DEF own
  <2> QED
    BY <2>1, <2>3, <2>4 DEF Lines
<1> QED
  BY <1>1, <1>2

-----------------------------------------------------------------------------
(* What EvaluateBoot returns.                                              *)

\* Whatever the journal, an announcement of EvaluateBoot has the type of one,
\* names a file exactly for a crash, and is not in the journal yet.
LEMMA EvaluateBootIsFresh ==
  ASSUME NEW rs \in Seq(Lines), NEW a \in EvaluateBoot(rs)
  PROVE  a \in News /\ WellFormed(a) /\ Fresh(a, rs)
<1> DEFINE ship == LatestShip(rs)
           new  == IF CrashReported(rs, ship.commit) THEN {} ELSE NewCrashes(rs, ship)
<1>1. Of(rs, "ship") # {}
  BY DEF EvaluateBoot
<1>2. ship.commit \in AllCommits \cup {None}
  BY <1>1, LatestShipIsLine DEF Lines
<1>3. \A i \in 1..Len(rs) : rs[i] \in In(rs)
  BY DEF In
<1>4. CASE new # {}
  <2>1. PICK f \in new : a = Announcement("crash", ship, f, BootCommit(rs, f))
    BY <1>1, <1>4 DEF EvaluateBoot
  <2>2. f \in Times /\ f \notin ReportedFiles(rs) /\ ~CrashReported(rs, ship.commit)
    BY <2>1 DEF NewCrashes, Crashes
  <2>3. f # None
    BY <2>2, DeployAssumption DEF Times
  <2>4. /\ a.outcome = "crash" /\ a.file = f /\ a.commit = ship.commit
        /\ a = [outcome |-> "crash", commit |-> ship.commit, file |-> f,
                blamed |-> BootCommit(rs, f)]
    BY <2>1 DEF Announcement
  <2>5. a \in News
    BY <2>2, <2>4, <1>2, BlamedType DEF News, Files
  <2>6. ASSUME NEW i \in 1..Len(rs), rs[i].kind = "reported"
        PROVE  rs[i].file # f /\ (rs[i].commit = ship.commit => rs[i].file = None)
    BY <2>2, <2>3, <2>6, <1>3 DEF ReportedFiles, CrashReported, ReportsOf
  <2> QED
    BY <2>3, <2>4, <2>5, <2>6 DEF WellFormed, Fresh
<1>5. CASE new = {}
  <2>1. /\ a = Announcement("success", ship, None, None)
        /\ ~ShipReported(rs, ship.commit)
    BY <1>1, <1>5 DEF EvaluateBoot
  <2>2. /\ a.outcome = "success" /\ a.file = None /\ a.commit = ship.commit
        /\ a = [outcome |-> "success", commit |-> ship.commit, file |-> None,
                blamed |-> None]
    BY <2>1 DEF Announcement
  <2>3. a \in News
    BY <2>2, <1>2 DEF News, Files
  <2>4. ASSUME NEW i \in 1..Len(rs), rs[i].kind = "reported"
        PROVE  rs[i].commit # ship.commit
    BY <2>1, <2>4, <1>3 DEF ShipReported, ReportsOf
  <2> QED
    BY <2>2, <2>3, <2>4 DEF WellFormed, Fresh
<1> QED
  BY <1>4, <1>5

-----------------------------------------------------------------------------
(* Types.                                                                  *)

\* The bounds are natural numbers.
LEMMA BoundsType ==
  /\ MaxTime \in Nat /\ MaxBoots \in Nat /\ MaxFaults \in Nat /\ MaxTears \in Nat
  /\ 0 \in Times
<1>1. MaxTime \in Nat /\ MaxBoots \in Nat /\ MaxFaults \in Nat /\ MaxTears \in Nat
  BY DeployAssumption, Zenon
<1> QED
  BY <1>1 DEF Times

\* Half a line, and what is glued to it, count as lines.
LEMMA HalfType == Half \in Lines /\ Garbage \in Lines
<1>1. Half \in Lines
  BY BoundsType DEF Half, Lines, Files
<1>2. Garbage = [kind |-> "garbage", commit |-> None, file |-> None, at |-> 0]
  BY DEF Garbage, Half
<1>3. Garbage \in Lines
  BY <1>2, BoundsType DEF Lines, Files
<1> QED
  BY <1>1, <1>3

\* A write, whole or half, leaves a sequence of lines.
LEMMA WrittenType ==
  ASSUME NEW line \in Lines, journal \in Seq(Lines)
  PROVE  Written(line) \in Seq(Lines)
<1>1. Half \in Lines /\ Garbage \in Lines
  BY HalfType
<1>2. CASE Torn
  <2>1. Len(journal) \in 1..Len(journal)
    BY <1>2 DEF Torn
  <2> QED
    BY <1>1, <1>2, <2>1 DEF Written
<1>3. CASE ~Torn
  BY <1>3 DEF Written
<1> QED
  BY <1>2, <1>3

\* A successful write keeps the types of the journal and its copy.
LEMMA AppendType ==
  ASSUME TypeOK, NEW r \in Lines, AppendDeploy(r)
  PROVE  /\ journal' \in Seq(Lines) /\ records' \in Seq(Lines)
         /\ faults' \in 0..MaxFaults /\ tears' \in 0..MaxTears
<1>1. journal' \in Seq(Lines)
  BY WrittenType DEF TypeOK, AppendDeploy
<1>2. records' \in Seq(Lines)
  BY DEF TypeOK, AppendDeploy
<1> QED
  BY <1>1, <1>2 DEF TypeOK, AppendDeploy

\* So does a failed one.
LEMMA FailType ==
  ASSUME TypeOK, AppendFails
  PROVE  /\ journal' \in Seq(Lines) /\ records' \in Seq(Lines)
         /\ faults' \in 0..MaxFaults /\ tears' \in 0..MaxTears
<1>1. Half \in Lines
  BY HalfType
<1>2. Written(Half) \in Seq(Lines)
  BY <1>1, WrittenType DEF TypeOK
<1> QED
  BY <1>2, BoundsType DEF TypeOK, AppendFails

\* Every step keeps the variables in their types.
LEMMA TypeStep ==
  TypeOK /\ [Next]_vars => TypeOK'
<1> SUFFICES ASSUME TypeOK, [Next]_vars PROVE TypeOK'
  OBVIOUS
<1> USE DEF process, bounds
<1>1. CASE UNCHANGED vars
  BY <1>1 DEF vars, TypeOK
<1>2. CASE Tick
  <2>1. clock' \in Times
    BY <1>2, BoundsType DEF Tick, TypeOK, Times
  <2> QED
    BY <1>2, <2>1 DEF Tick, TypeOK
<1>3. CASE RecordShip
  <2>1. Record("ship", shipping, None) \in Lines
    BY <1>3 DEF RecordShip, Record, Lines, Files, AllCommits, TypeOK
  <2>2. /\ journal' \in Seq(Lines) /\ records' \in Seq(Lines)
        /\ faults' \in 0..MaxFaults /\ tears' \in 0..MaxTears
    BY <2>1, <1>3, AppendType, FailType DEF RecordShip
  <2> QED
    BY <1>3, <2>2 DEF RecordShip, TypeOK
<1>4. CASE LoadRecords
  BY <1>4 DEF LoadRecords, ReadDeploys, TypeOK
<1>5. CASE Evaluate
  <2>1. reporter' \in [pc : {"wait", "append", "send", "done"}, ann : News]
    <3>1. CASE EvaluateBoot(records) = {}
      BY <1>5, <3>1 DEF Evaluate, Finished, NoNews, News, Files
    <3>2. CASE EvaluateBoot(records) # {}
      <4>1. PICK a \in EvaluateBoot(records) : reporter' = [pc |-> "append", ann |-> a]
        BY <1>5, <3>2 DEF Evaluate
      <4>2. a \in News
        BY EvaluateBootIsFresh DEF TypeOK
      <4> QED
        BY <4>1, <4>2
    <3> QED
      BY <3>1, <3>2
  <2> QED
    BY <1>5, <2>1 DEF Evaluate, TypeOK
<1>6. CASE Report
  <2>1. Record("reported", reporter.ann.commit, reporter.ann.file) \in Lines
    BY DEF Record, Lines, News, TypeOK
  <2>2. /\ journal' \in Seq(Lines) /\ records' \in Seq(Lines)
        /\ faults' \in 0..MaxFaults /\ tears' \in 0..MaxTears
    BY <2>1, <1>6, AppendType, FailType DEF Report
  <2>3. reporter' \in [pc : {"wait", "append", "send", "done"}, ann : News]
    BY <1>6 DEF Report, Finished, NoNews, News, Files, TypeOK
  <2> QED
    BY <1>6, <2>2, <2>3 DEF Report, TypeOK
<1>7. CASE Announce
  BY <1>7 DEF Announce, Finished, NoNews, News, Files, TypeOK
<1>8. CASE Panic
  BY <1>8 DEF Panic, Down, Finished, NoNews, News, Files, TypeOK
<1>9. CASE Stop
  BY <1>9 DEF Stop, Down, Finished, NoNews, News, Files, TypeOK
<1>10. ASSUME NEW c \in AllCommits, Boot(c) PROVE TypeOK'
  <2>1. Record("boot", c, clock) \in Lines
    BY DEF Record, Lines, Files, TypeOK
  <2>2. /\ journal' \in Seq(Lines) /\ records' \in Seq(Lines)
        /\ faults' \in 0..MaxFaults /\ tears' \in 0..MaxTears
    BY <2>1, <1>10, AppendType, FailType DEF Boot
  <2>3. reporter' \in [pc : {"wait", "append", "send", "done"}, ann : News]
    BY <1>10 DEF Boot, Waiting, NoNews, News, Files
  <2>4. boots' \in 0..MaxBoots
    BY <1>10, BoundsType DEF Boot, TypeOK
  <2>5. up' \in AllCommits \cup {None} /\ file' \in Files /\ shared' \in SUBSET Times
    BY <1>10 DEF Boot, TypeOK, Files
  <2>6. /\ loaded' = FALSE /\ shipping' = None
        /\ UNCHANGED <<clock, crash, pushed, announced>>
    BY <1>10 DEF Boot
  <2> QED
    BY <2>2, <2>3, <2>4, <2>5, <2>6 DEF TypeOK
<1>11. ASSUME NEW c \in Commits, Push(c) PROVE TypeOK'
  BY <1>11 DEF Push, TypeOK
<1> QED
  BY <1>1, <1>2, <1>3, <1>4, <1>5, <1>6, <1>7, <1>8, <1>9, <1>10, <1>11 DEF Next

\* The initial values have their types.
LEMMA TypeInit == Init => TypeOK
<1> SUFFICES ASSUME Init PROVE TypeOK
  OBVIOUS
<1>1. crash \in [Times -> [by : AllCommits \cup {None}, at : Times]]
  BY BoundsType DEF Init
<1>2. reporter \in [pc : {"wait", "append", "send", "done"}, ann : News]
  BY DEF Init, Finished, NoNews, News, Files
<1>3. /\ clock \in Times /\ boots \in 0..MaxBoots
      /\ faults \in 0..MaxFaults /\ tears \in 0..MaxTears
  BY BoundsType DEF Init
<1>4. journal \in Seq(Lines) /\ records \in Seq(Lines)
  BY DEF Init
<1>5. /\ pushed = {} /\ shared = {} /\ announced = {} /\ loaded = FALSE
      /\ up = None /\ file = None /\ shipping = None
  BY DEF Init
<1> QED
  BY <1>1, <1>2, <1>3, <1>4, <1>5 DEF TypeOK, Files

\* The variables of the deploy report keep their types, whatever the journal
\* holds: the latest ship and the blamed boot exist whenever they are used.
THEOREM TypeCorrect == Spec => []TypeOK
BY TypeInit, TypeStep, PTL DEF Spec

-----------------------------------------------------------------------------
(* Announcements.                                                          *)

\* What is noted stays noted when a record is appended.
LEMMA NotedStays ==
  ASSUME NEW rs \in Seq(Lines), NEW r, NEW a, Noted(a, rs)
  PROVE  Noted(a, Append(rs, r))
BY DEF Noted

\* A record of another kind takes no announcement's freshness.
LEMMA FreshStays ==
  ASSUME NEW rs \in Seq(Lines), NEW r, NEW a, Fresh(a, rs), r.kind # "reported"
  PROVE  Fresh(a, Append(rs, r))
BY DEF Fresh

\* Without half lines a write appends its record, to the file and to the
\* records in memory.
LEMMA AppendPlain ==
  ASSUME TypeOK, NotedInv, NEW r, AppendDeploy(r)
  PROVE  /\ journal' = Append(journal, r)
         /\ records' = IF loaded THEN Append(records, r) ELSE records
<1>1. ~Torn
  <2>1. ASSUME Torn PROVE FALSE
    <3>1. Len(journal) \in 1..Len(journal) /\ journal[Len(journal)].kind = "half"
      BY <2>1 DEF Torn, TypeOK, Half
    <3> QED
      BY <3>1 DEF NotedInv
  <2> QED
    BY <2>1
<1> QED
  BY <1>1 DEF AppendDeploy, Written

\* Sending an announcement that meets none sent before keeps the promises.
LEMMA AnnounceKeeps ==
  ASSUME NEW a, NEW n \in Nat, announced' = announced \cup {[ann |-> a, boot |-> n]},
         WellFormed(a), Unsent(a), AnnouncedOnce, CrashFirst, CrashFileAnnouncedOnce,
         tears = 0, tears' = 0,
         \A b \in announced : b.boot \in Nat /\ b.boot < n
  PROVE  AnnouncedOnce' /\ CrashFirst' /\ CrashFileAnnouncedOnce'
<1> DEFINE new == [ann |-> a, boot |-> n]
<1>1. AnnouncedOnce'
  BY DEF AnnouncedOnce, SameNews, Unsent
<1>2. CrashFirst'
  BY DEF CrashFirst, Unsent, WellFormed
<1>3. CrashFileAnnouncedOnce'
  BY DEF CrashFileAnnouncedOnce, Unsent
<1> QED
  BY <1>1, <1>2, <1>3

\* Every step keeps Inv.
LEMMA InvStep ==
  TypeOK /\ Inv /\ [Next]_vars => Inv'
<1> SUFFICES ASSUME TypeOK, Inv, [Next]_vars, tears' = 0 PROVE
      NotedInv' /\ AnnouncedOnce' /\ CrashFirst' /\ CrashFileAnnouncedOnce'
  BY DEF Inv
<1> USE DEF process, bounds
<1>0. tears = 0
  BY DEF TypeOK, Next, Tick, RecordShip, LoadRecords, Evaluate, Report, Announce, Panic,
         Stop, Boot, Push, AppendDeploy, AppendFails, vars
<1>a. NotedInv /\ AnnouncedOnce /\ CrashFirst /\ CrashFileAnnouncedOnce
  BY <1>0 DEF Inv
<1>b. announced' = announced => AnnouncedOnce' /\ CrashFirst' /\ CrashFileAnnouncedOnce'
  BY <1>0, <1>a DEF AnnouncedOnce, CrashFirst, CrashFileAnnouncedOnce, SameNews
<1>c. AppendFails => journal' = journal /\ records' = records
  BY <1>0 DEF AppendFails, TypeOK
<1>1. CASE UNCHANGED vars
  BY <1>1, <1>a, <1>b DEF vars, NotedInv, Unsent
<1>2. CASE Tick
  BY <1>2, <1>a, <1>b DEF Tick, NotedInv, Unsent
<1>3. CASE RecordShip
  <2>1. NotedInv'
    <3>1. CASE AppendFails
      BY <3>1, <1>3, <1>a, <1>c DEF RecordShip, NotedInv, Unsent
    <3>2. CASE AppendDeploy(Record("ship", shipping, None))
      <4> DEFINE r == Record("ship", shipping, None)
      <4>1. /\ journal' = Append(journal, r)
            /\ records' = IF loaded THEN Append(records, r) ELSE records
        BY <3>2, <1>a, AppendPlain
      <4>2. r.kind = "ship"
        BY DEF Record
      <4> HIDE DEF r
      <4>3. \A a : Noted(a, journal) => Noted(a, journal')
        BY <4>1, NotedStays DEF TypeOK
      <4>4. \A a : Fresh(a, journal) => Fresh(a, journal')
        BY <4>1, <4>2, FreshStays DEF TypeOK
      <4>5. \A i \in 1..Len(journal') : journal'[i].kind \notin {"half", "garbage"}
        BY <4>1, <4>2, <1>a DEF NotedInv, TypeOK
      <4>6. UNCHANGED <<up, loaded, reporter, boots, announced>>
        BY <1>3 DEF RecordShip
      <4> QED
        BY <4>1, <4>3, <4>4, <4>5, <4>6, <1>a DEF NotedInv, Unsent
    <3> QED
      BY <3>1, <3>2, <1>3 DEF RecordShip
  <2> QED
    BY <2>1, <1>3, <1>b DEF RecordShip
<1>4. CASE LoadRecords
  BY <1>4, <1>a, <1>b DEF LoadRecords, ReadDeploys, NotedInv, Unsent
<1>5. CASE Evaluate
  <2>1. NotedInv'
    <3>1. CASE reporter' = Finished
      BY <1>5, <3>1, <1>a DEF Evaluate, NotedInv, Unsent, Finished
    <3>2. CASE reporter' # Finished
      <4>1. PICK a \in EvaluateBoot(records) : reporter' = [pc |-> "append", ann |-> a]
        BY <1>5, <3>2 DEF Evaluate
      <4>2. WellFormed(a) /\ Fresh(a, records)
        BY EvaluateBootIsFresh DEF TypeOK
      <4>3. records = journal /\ up # None /\ loaded
        BY <1>5, <1>a DEF Evaluate, NotedInv
      <4>4. reporter'.pc = "append" /\ reporter'.ann = a
        BY <4>1
      <4>5. reporter.pc = "wait" /\ UNCHANGED <<journal, records, up, loaded, boots, announced>>
        BY <1>5 DEF Evaluate
      <4>6. \A b \in announced : b.boot # boots
        BY <4>5, <1>a DEF NotedInv
      <4> QED
        BY <4>2, <4>3, <4>4, <4>5, <4>6, <1>a DEF NotedInv
    <3> QED
      BY <3>1, <3>2
  <2> QED
    BY <2>1, <1>5, <1>b DEF Evaluate
<1>6. CASE Report
  <2>1. NotedInv'
    <3> DEFINE a == reporter.ann
               r == Record("reported", a.commit, a.file)
    <3>0. UNCHANGED <<up, loaded, boots, announced>> /\ reporter.pc = "append"
      BY <1>6 DEF Report
    <3>1. CASE AppendFails /\ reporter' = Finished
      BY <3>0, <3>1, <1>a, <1>c DEF NotedInv, Unsent, Finished
    <3>2. CASE AppendDeploy(r) /\ reporter' = [reporter EXCEPT !.pc = "send"]
      <4>1. /\ journal' = Append(journal, r)
            /\ records' = IF loaded THEN Append(records, r) ELSE records
        BY <3>2, <1>a, AppendPlain
      <4>2. r.kind = "reported" /\ r.commit = a.commit /\ r.file = a.file
        BY DEF Record
      <4>3. reporter'.pc = "send" /\ reporter'.ann = a
        BY <3>2 DEF TypeOK
      <4>4. WellFormed(a) /\ Fresh(a, journal)
        BY <3>0, <1>a DEF NotedInv
      <4>5. Unsent(a)
        <5>1. ASSUME NEW b \in announced
              PROVE  /\ ~(b.ann.commit = a.commit /\ b.ann.outcome = a.outcome)
                     /\ b.ann.file = a.file => a.file = None
                     /\ a.outcome = "success" /\ b.ann.commit = a.commit
                          => b.ann.outcome # "crash"
          <6>1. Noted(b.ann, journal) /\ WellFormed(b.ann)
            BY <1>a DEF NotedInv
          <6> QED
            BY <6>1, <4>4 DEF Noted, Fresh, WellFormed
        <5> QED
          BY <5>1 DEF Unsent
      <4> HIDE DEF r, a
      <4>6. \A c : Noted(c, journal) => Noted(c, journal')
        BY <4>1, NotedStays DEF TypeOK
      <4>7. Noted(a, journal')
        <5>1. Len(journal) + 1 \in 1..Len(journal') /\ journal'[Len(journal) + 1] = r
          BY <4>1 DEF TypeOK
        <5> QED
          BY <5>1, <4>2 DEF Noted
      <4>8. \A i \in 1..Len(journal') : journal'[i].kind \notin {"half", "garbage"}
        BY <4>1, <4>2, <1>a DEF NotedInv, TypeOK
      <4>9. Unsent(a)'
        BY <4>3, <4>5, <3>0 DEF Unsent, a
      <4>10. \A b \in announced : b.boot # boots
        BY <3>0, <1>a DEF NotedInv
      <4>11. up' # None /\ loaded' => records' = journal'
        BY <4>1, <3>0, <1>a DEF NotedInv
      <4> QED
        BY <4>3, <4>4, <4>5, <4>6, <4>7, <4>8, <4>10, <4>11, <3>0, <1>a DEF NotedInv, Unsent
    <3> QED
      BY <3>1, <3>2, <1>6 DEF Report
  <2> QED
    BY <2>1, <1>6, <1>b DEF Report
<1>7. CASE Announce
  <2> DEFINE a == reporter.ann
  <2>1. /\ reporter.pc = "send" /\ reporter' = Finished
        /\ UNCHANGED <<journal, up, loaded, records, boots>>
    BY <1>7 DEF Announce
  <2>2. WellFormed(a) /\ Noted(a, journal) /\ Unsent(a)
    BY <2>1, <1>a DEF NotedInv
  <2>3. \A b \in announced : b.boot \in Nat /\ b.boot < boots
    BY <2>1, <1>a, BoundsType DEF NotedInv, TypeOK
  <2>4. CASE announced' = announced
    BY <2>1, <2>4, <1>a, <1>b DEF NotedInv, Finished
  <2>5. CASE announced' = announced \cup {[ann |-> a, boot |-> boots]}
    <3>0. boots \in Nat
      BY BoundsType DEF TypeOK
    <3>1. AnnouncedOnce' /\ CrashFirst' /\ CrashFileAnnouncedOnce'
      <4> HIDE DEF a
      <4> QED
        BY <3>0, <2>2, <2>3, <2>5, <1>0, <1>a, AnnounceKeeps
    <3>2. NotedInv'
      BY <2>1, <2>2, <2>5, <1>a DEF NotedInv, Finished, TypeOK
    <3> QED
      BY <3>1, <3>2
  <2> QED
    BY <2>4, <2>5, <1>7 DEF Announce
<1>8. CASE Panic
  BY <1>8, <1>a, <1>b DEF Panic, Down, Finished, NotedInv, Unsent
<1>9. CASE Stop
  BY <1>9, <1>a, <1>b DEF Stop, Down, Finished, NotedInv, Unsent
<1>10. ASSUME NEW c \in AllCommits, Boot(c)
       PROVE  NotedInv' /\ AnnouncedOnce' /\ CrashFirst' /\ CrashFileAnnouncedOnce'
  <2>1. NotedInv'
    <3>0. /\ up = None /\ boots' = boots + 1 /\ announced' = announced
          /\ loaded' = FALSE /\ reporter' = Waiting
      BY <1>10 DEF Boot
    <3>1. /\ \A a : Noted(a, journal) => Noted(a, journal')
          /\ \A i \in 1..Len(journal') : journal'[i].kind \notin {"half", "garbage"}
      <4>1. CASE AppendFails
        BY <4>1, <1>a, <1>c DEF NotedInv
      <4>2. CASE AppendDeploy(Record("boot", c, clock))
        <5>1. journal' = Append(journal, Record("boot", c, clock))
          BY <4>2, <1>a, AppendPlain
        <5>2. Record("boot", c, clock).kind = "boot"
          BY DEF Record
        <5>3. \A a : Noted(a, journal) => Noted(a, journal')
          BY <5>1, NotedStays DEF TypeOK
        <5> QED
          BY <5>1, <5>2, <5>3, <1>a DEF NotedInv, TypeOK
      <4> QED
        BY <4>1, <4>2, <1>10 DEF Boot
    <3>2. \A b \in announced : b.boot <= boots' /\ b.boot # boots'
      BY <3>0, <1>a DEF NotedInv, TypeOK
    <3> QED
      BY <3>0, <3>1, <3>2, <1>a DEF NotedInv, Waiting
  <2> QED
    BY <2>1, <1>10, <1>b DEF Boot
<1>11. ASSUME NEW c \in Commits, Push(c)
       PROVE  NotedInv' /\ AnnouncedOnce' /\ CrashFirst' /\ CrashFileAnnouncedOnce'
  BY <1>11, <1>a, <1>b DEF Push, NotedInv, Unsent
<1> QED
  BY <1>1, <1>2, <1>3, <1>4, <1>5, <1>6, <1>7, <1>8, <1>9, <1>10, <1>11 DEF Next

\* Nothing is announced at first.
LEMMA InvInit == Init => Inv
BY DEF Init, Inv, NotedInv, AnnouncedOnce, CrashFirst, CrashFileAnnouncedOnce, Finished

\* Inv holds throughout.
LEMMA InvHolds == Spec => []Inv
BY TypeInit, TypeStep, InvInit, InvStep, PTL DEF Spec

\* "at most one success and one crash announcement per shipped commit"
\* (deploy.go) for every number of commits, boots and failed writes.
THEOREM OnePerOutcome == Spec => []AnnouncedOnce
<1>1. Inv => AnnouncedOnce
  BY DEF Inv, AnnouncedOnce
<1> QED
  BY <1>1, InvHolds, PTL

\* "crash first" (deploy.go): no later boot announces a success for a commit a
\* crash was announced for.
THEOREM NoSuccessAfterCrash == Spec => []CrashFirst
<1>1. Inv => CrashFirst
  BY DEF Inv, CrashFirst
<1> QED
  BY <1>1, InvHolds, PTL

\* No crash file is announced twice, for one ship or for two.
THEOREM OnePerCrashFile == Spec => []CrashFileAnnouncedOnce
<1>1. Inv => CrashFileAnnouncedOnce
  BY DEF Inv, CrashFileAnnouncedOnce
<1> QED
  BY <1>1, InvHolds, PTL

-----------------------------------------------------------------------------
(* Blame.                                                                  *)

\* A boot line names a crash file of this process or of one before; unless the
\* file is shared it was that line's commit that wrote the file, or is running.
BootLineOK(l) ==
  l.kind = "boot" =>
    /\ l.file \in Times /\ file # None /\ l.file <= file
    /\ l.file \notin shared =>
         /\ crash[l.file].by # None => l.commit = crash[l.file].by
         /\ l.file = file /\ up # None => l.commit = up

\* An announcement that blames somebody blames the writer of the file.
BlamesWriter(a) ==
  a.blamed # None /\ a.file \notin shared =>
    a.file \in Times /\ crash[a.file].by = a.blamed

\* Crash files are opened in the order of their names, so that a process finds
\* its own written to only if it shares it; holds over torn lines too.
BlameInv ==
  /\ file # None => file <= clock
  /\ up # None => file # None
  /\ \A f \in Times : crash[f].by # None =>
       /\ file # None /\ f <= file
       /\ up # None /\ f = file => f \in shared
  /\ \A l \in In(journal) : BootLineOK(l)
  /\ up # None /\ loaded => \A l \in In(records) : BootLineOK(l)
  /\ BlamesWriter(reporter.ann)
  /\ \A b \in announced : BlamesWriter(b.ann)

\* A write adds no boot line but the one that was to be written.
LEMMA WrittenLines ==
  ASSUME TypeOK, NEW r \in Lines, AppendDeploy(r) \/ AppendFails
  PROVE  /\ \A l \in In(journal') : l.kind = "boot" => l \in In(journal) \cup {r}
         /\ \A l \in In(records') : l \in In(records) \cup {r}
<1>1. ASSUME NEW line \in Lines, NEW l \in In(Written(line)), l.kind = "boot"
      PROVE  l \in In(journal) \cup {line}
  <2>1. Half.kind = "half" /\ Garbage.kind = "garbage"
    BY DEF Half, Garbage
  <2>2. PICK i \in 1..Len(Written(line)) : l = Written(line)[i]
    BY DEF In
  <2>3. CASE Torn
    <3> DEFINE new == IF line = Half THEN Half ELSE Garbage
    <3>1. Written(line) = [journal EXCEPT ![Len(journal)] = new]
      BY <2>3 DEF Written
    <3>2. Len(Written(line)) = Len(journal)
      BY <3>1 DEF TypeOK
    <3>3. l = new \/ l = journal[i]
      <4>1. i \in 1..Len(journal) /\ Len(journal) \in 1..Len(journal)
        BY <2>2, <3>2 DEF TypeOK
      <4> HIDE DEF new
      <4> QED
        BY <2>2, <3>1, <4>1 DEF TypeOK
    <3> QED
      BY <1>1, <2>1, <2>2, <3>2, <3>3 DEF In
  <2>4. CASE ~Torn
    <3>1. Written(line) = Append(journal, line)
      BY <2>4 DEF Written
    <3> QED
      BY <2>2, <3>1 DEF In, TypeOK
  <2> QED
    BY <2>3, <2>4
<1>2. \A l \in In(journal') : l.kind = "boot" => l \in In(journal) \cup {r}
  <2>1. CASE journal' = journal
    BY <2>1
  <2>2. CASE journal' = Written(r)
    BY <1>1, <2>2
  <2>3. CASE journal' = Written(Half)
    <3>1. Half \in Lines /\ Half.kind # "boot"
      BY HalfType DEF Half
    <3> QED
      BY <1>1, <2>3, <3>1
  <2> QED
    BY <2>1, <2>2, <2>3 DEF AppendDeploy, AppendFails
<1>3. \A l \in In(records') : l \in In(records) \cup {r}
  <2>1. records' = records \/ records' = Append(records, r)
    BY DEF AppendDeploy, AppendFails
  <2>2. CASE records' = Append(records, r)
    BY <2>2 DEF In, TypeOK
  <2> QED
    BY <2>1, <2>2
<1> QED
  BY <1>2, <1>3

\* EvaluateBoot blames the commit of a boot line that names the crash file.
LEMMA BlamesBootLine ==
  ASSUME NEW rs \in Seq(Lines), NEW a \in EvaluateBoot(rs), a.blamed # None
  PROVE  /\ a.file \in Times /\ crash[a.file].by # None
         /\ \E l \in In(rs) : l.kind = "boot" /\ l.file = a.file /\ l.commit = a.blamed
<1> DEFINE ship == LatestShip(rs)
           new  == IF CrashReported(rs, ship.commit) THEN {} ELSE NewCrashes(rs, ship)
<1>1. PICK f \in new : a = Announcement("crash", ship, f, BootCommit(rs, f))
  <2>1. a.blamed # None => a # Announcement("success", ship, None, None)
    BY DEF Announcement
  <2> QED
    BY <2>1 DEF EvaluateBoot
<1>2. a.file = f /\ a.blamed = BootCommit(rs, f) /\ f \in Times /\ crash[f].by # None
  BY <1>1 DEF Announcement, NewCrashes, Crashes
<1> DEFINE own == {i \in Of(rs, "boot") : rs[i].file = f}
<1>3. own # {}
  BY <1>2 DEF BootCommit
<1>4. own \in SUBSET Nat /\ \A i \in own : rs[i] \in In(rs) /\ rs[i].kind = "boot"
  BY DEF Of, In
<1>5. \E i \in own : \A j \in own : i <= j
  BY <1>3, <1>4, HasLeast
<1>6. (CHOOSE i \in own : \A j \in own : i <= j) \in own
  BY <1>5
<1>7. BootCommit(rs, f) = rs[CHOOSE i \in own : \A j \in own : i <= j].commit
  BY <1>3 DEF BootCommit
<1>8. \A i \in own : rs[i].file = f
  OBVIOUS
<1> HIDE DEF own
<1> QED
  BY <1>2, <1>4, <1>6, <1>7, <1>8

LEMMA BlameInit == Init => BlameInv
<1> SUFFICES ASSUME Init PROVE BlameInv
  OBVIOUS
<1>1. In(journal) = {} /\ \A f \in Times : crash[f].by = None
  BY DEF Init, In
<1> QED
  BY <1>1 DEF Init, BlameInv, BlamesWriter, Finished, NoNews

LEMMA BlameStep == TypeOK /\ BlameInv /\ [Next]_vars => BlameInv'
<1> SUFFICES ASSUME TypeOK, BlameInv, [Next]_vars PROVE BlameInv'
  OBVIOUS
<1> USE DEF process, bounds
<1>0. /\ clock \in Nat /\ Times \subseteq Nat /\ None \notin Times
      /\ file \in Times \cup {None}
  BY BoundsType, DeployAssumption DEF TypeOK, Times, Files
\* A write of another line than a boot, which nothing else goes with.
<1>a. ASSUME NEW r \in Lines, r.kind # "boot", AppendDeploy(r) \/ AppendFails,
             UNCHANGED <<clock, crash, up, file, loaded, shared, announced>>,
             reporter'.ann = reporter.ann \/ reporter' = Finished
      PROVE  BlameInv'
  <2>1. \A l \in In(journal') : BootLineOK(l)'
    BY <1>a, WrittenLines DEF BlameInv, BootLineOK
  <2>2. up # None /\ loaded => \A l \in In(records') : BootLineOK(l)'
    BY <1>a, WrittenLines DEF BlameInv, BootLineOK
  <2>3. BlamesWriter(reporter.ann)'
    BY <1>a DEF BlameInv, BlamesWriter, Finished, NoNews
  <2> QED
    BY <1>a, <2>1, <2>2, <2>3 DEF BlameInv, BlamesWriter
<1>1. CASE UNCHANGED vars
  BY <1>1 DEF vars, BlameInv, BootLineOK, BlamesWriter
<1>2. CASE Tick
  BY <1>0, <1>2 DEF Tick, BlameInv, BootLineOK, BlamesWriter
<1>3. CASE RecordShip
  <2>1. /\ Record("ship", shipping, None) \in Lines
        /\ Record("ship", shipping, None).kind # "boot"
    BY <1>3 DEF RecordShip, Record, Lines, Files, AllCommits, TypeOK
  <2> QED
    BY <1>3, <1>a, <2>1 DEF RecordShip
<1>4. CASE LoadRecords
  BY <1>4 DEF LoadRecords, ReadDeploys, BlameInv, BootLineOK, BlamesWriter
<1>5. CASE Evaluate
  <2>1. BlamesWriter(reporter.ann)'
    <3>1. CASE reporter' = Finished
      BY <3>1 DEF Finished, NoNews, BlamesWriter
    <3>2. CASE reporter' # Finished
      <4>1. PICK a \in EvaluateBoot(records) : reporter' = [pc |-> "append", ann |-> a]
        BY <1>5, <3>2 DEF Evaluate
      <4>2. /\ UNCHANGED <<crash, shared>> /\ reporter'.ann = a
            /\ up # None /\ loaded
        BY <1>5, <4>1 DEF Evaluate
      <4>3. a.blamed # None =>
              /\ a.file \in Times /\ crash[a.file].by # None
              /\ \E l \in In(records) : l.kind = "boot" /\ l.file = a.file /\ l.commit = a.blamed
        BY BlamesBootLine DEF TypeOK
      <4> QED
        BY <4>2, <4>3 DEF BlamesWriter, BlameInv, BootLineOK
    <3> QED
      BY <3>1, <3>2
  <2> QED
    BY <1>5, <2>1 DEF Evaluate, BlameInv, BootLineOK, BlamesWriter
<1>6. CASE Report
  <2> DEFINE r == Record("reported", reporter.ann.commit, reporter.ann.file)
  <2>1. r \in Lines /\ r.kind # "boot"
    BY DEF Record, Lines, News, TypeOK
  <2>2. reporter'.ann = reporter.ann \/ reporter' = Finished
    BY <1>6 DEF Report, TypeOK
  <2>3. AppendDeploy(r) \/ AppendFails
    BY <1>6 DEF Report
  <2> HIDE DEF r
  <2> QED
    BY <1>6, <1>a, <2>1, <2>2, <2>3 DEF Report
<1>7. CASE Announce
  <2>1. \A b \in announced' : b \in announced \/ b.ann = reporter.ann
    BY <1>7 DEF Announce
  <2>2. \A b \in announced' : BlamesWriter(b.ann)'
    BY <1>7, <2>1 DEF Announce, BlameInv, BlamesWriter
  <2>3. BlamesWriter(reporter.ann)'
    BY <1>7 DEF Announce, Finished, NoNews, BlamesWriter
  <2> QED
    BY <1>7, <2>2, <2>3 DEF Announce, BlameInv, BootLineOK
<1>8. CASE Panic
  <2>1. /\ up # None /\ up' = None /\ file \in Times /\ reporter' = Finished
        /\ crash' = [crash EXCEPT ![file] = [by |-> up, at |-> clock]]
        /\ UNCHANGED <<clock, journal, file, shared, announced>>
    BY <1>0, <1>8 DEF Panic, Down, BlameInv
  <2>2. \A f \in Times : crash'[f].by = IF f = file THEN up ELSE crash[f].by
    BY <2>1 DEF TypeOK
  <2>3. \A f \in Times : crash'[f].by # None => file' # None /\ f <= file'
    BY <1>0, <2>1, <2>2 DEF BlameInv
  <2>4. \A l \in In(journal') : BootLineOK(l)'
    BY <2>1, <2>2 DEF BlameInv, BootLineOK
  <2>5. \A a : BlamesWriter(a) => BlamesWriter(a)'
    BY <2>1, <2>2 DEF BlameInv, BlamesWriter
  <2>6. BlamesWriter(reporter.ann)'
    BY <2>1 DEF Finished, NoNews, BlamesWriter
  <2> QED
    BY <2>1, <2>3, <2>4, <2>5, <2>6 DEF BlameInv
<1>9. CASE Stop
  <2>1. /\ up' = None /\ reporter' = Finished
        /\ UNCHANGED <<clock, journal, crash, file, shared, announced>>
    BY <1>9 DEF Stop, Down
  <2> QED
    BY <2>1 DEF BlameInv, BootLineOK, BlamesWriter, Finished, NoNews
<1>10. ASSUME NEW c \in AllCommits, Boot(c) PROVE BlameInv'
  <2> DEFINE r == Record("boot", c, clock)
  <2>1. /\ up' = c /\ file' = clock /\ loaded' = FALSE /\ reporter' = Waiting
        /\ shared' = IF file = clock THEN shared \cup {clock} ELSE shared
        /\ AppendDeploy(r) \/ AppendFails
        /\ UNCHANGED <<clock, crash, announced>>
    BY <1>10 DEF Boot
  <2>2. r \in Lines /\ r.kind = "boot" /\ r.file = clock /\ r.commit = c
    BY DEF Record, Lines, Files, TypeOK
  <2> HIDE DEF r
  <2>3. clock \in Times
    BY DEF TypeOK
  <2>30. file # None => file \in Nat /\ file <= clock
    BY <1>0 DEF BlameInv
  <2>4. clock \notin shared' => file = None \/ file < clock
    <3>1. clock \notin shared' => file # clock
      BY <2>1
    <3> QED
      BY <1>0, <2>30, <3>1
  <2>5. clock \notin shared' => crash[clock].by = None
    <3>1. crash[clock].by # None => file # None /\ clock <= file
      BY <2>3 DEF BlameInv
    <3>2. file # None /\ clock <= file => ~(file < clock)
      BY <1>0, <2>3, <2>30
    <3> QED
      BY <2>4, <3>1, <3>2
  <2>6. ASSUME NEW f \in Times, crash[f].by # None PROVE f <= clock
    <3>1. file # None /\ f <= file
      BY <2>6 DEF BlameInv
    <3> QED
      BY <1>0, <2>30, <3>1
  <2>7. ASSUME NEW l \in In(journal), l.kind = "boot" PROVE BootLineOK(l)'
    <3>1. l.file \in Times /\ file # None /\ l.file <= file /\ file <= clock
      BY <2>7 DEF BlameInv, BootLineOK
    <3>2. l.file <= clock
      <4>1. l.file \in Nat /\ file \in Nat
        BY <1>0, <2>30, <3>1
      <4> QED
        BY <1>0, <3>1, <4>1
    <3>3. l.file \notin shared' => l.file \notin shared /\ l.file # clock
      BY <1>0, <2>1, <2>4, <3>1
    <3> QED
      BY <1>0, <2>1, <2>3, <2>7, <3>1, <3>2, <3>3 DEF BlameInv, BootLineOK
  <2>8. ASSUME NEW l, l = r PROVE BootLineOK(l)'
    <3>1. clock \notin shared' => crash'[clock].by = None
      BY <2>1, <2>5
    <3>2. clock \in Nat /\ clock # None
      BY <1>0, <2>3
    <3>3. l.file \in Times /\ file' # None /\ l.file <= file'
      BY <2>1, <2>2, <2>3, <2>8, <3>2
    <3>4. l.file \notin shared' =>
            /\ crash'[l.file].by # None => l.commit = crash'[l.file].by
            /\ l.file = file' /\ up' # None => l.commit = up'
      BY <2>1, <2>2, <2>8, <3>1
    <3> QED
      BY <3>3, <3>4 DEF BootLineOK, Times
  <2>9. \A l \in In(journal') : BootLineOK(l)'
    <3>1. \A l \in In(journal') : l.kind = "boot" => l \in In(journal) \cup {r}
      BY <2>1, <2>2, WrittenLines
    <3>2. \A l : l.kind # "boot" => BootLineOK(l)'
      BY DEF BootLineOK
    <3>3. ASSUME NEW l \in In(journal'), l.kind = "boot" PROVE BootLineOK(l)'
      <4>1. CASE l \in In(journal)
        BY <2>7, <3>3, <4>1
      <4>2. CASE l = r
        BY <2>8, <4>2
      <4> QED
        BY <3>1, <3>3, <4>1, <4>2
    <3> QED
      BY <3>2, <3>3
  <2>10. \A a : BlamesWriter(a) => BlamesWriter(a)'
    BY <2>1 DEF BlamesWriter
  <2>11. BlamesWriter(reporter.ann)'
    BY <2>1 DEF Waiting, NoNews, BlamesWriter
  <2> QED
    BY <1>0, <2>1, <2>3, <2>5, <2>6, <2>9, <2>10, <2>11 DEF BlameInv
<1>11. ASSUME NEW c \in Commits, Push(c) PROVE BlameInv'
  BY <1>11 DEF Push, BlameInv, BootLineOK, BlamesWriter
<1> QED
  BY <1>1, <1>2, <1>3, <1>4, <1>5, <1>6, <1>7, <1>8, <1>9, <1>10, <1>11 DEF Next

\* Whoever is blamed for a crash has written the crash file, whatever the journal
\* lost, unless two processes opened that file in one second.
THEOREM BlameFallsRight == Spec => []BlameIsRight
<1>1. BlameInv => BlameIsRight
  BY DEF BlameInv, BlamesWriter, BlameIsRight
<1> QED
  BY <1>1, TypeInit, TypeStep, BlameInit, BlameStep, PTL DEF Spec
=============================================================================
