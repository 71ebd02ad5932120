---------------------------- MODULE TurnsProofs ----------------------------
(***************************************************************************)
(* Turns for any number of turns, batches and limits: whatever their       *)
(* models ask for, the turns use the code tools as CodeTools says, so that *)
(* what holds of its calls holds of theirs; and no turn asks too often.    *)
(*                                                                         *)
(* First CodeTools for any callers and edits, and whatever the shell makes *)
(* of the checkout.  What reaches main was tested because the ship that    *)
(* tested it holds the lock until it has staged it; the journal is true    *)
(* because a ship notes nothing before its push, and main is only gone on  *)
(* from.                                                                   *)
(*                                                                         *)
(* Then what a turn's tools do with a file, and what it recalls: an edit   *)
(* changes the one place it is asked for (FileEdits), and recall keeps the *)
(* best of what it finds (Recalls).                                        *)
(***************************************************************************)
EXTENDS Turns, FileEdits, Recalls,
  FiniteSetTheorems, SequenceTheorems, WellFoundedInduction, TLAPS

-----------------------------------------------------------------------------
(* The code tools.                                                         *)

\* The lock has one holder at most: the ship or edit that is under way.
LockInv ==
  \A c \in Callers : writer = c <=> job[c] \in ShipSteps \cup {"edit"}

\* From its test on, a ship works on a tree in which only the shell has
\* written since; what is staged, and so what is committed and on main, came
\* through such a ship or from the shell.
StagedInv ==
  /\ index \cup Tip(head) \cup Tip(remote) \subseteq tested \cup shelled
  /\ \A c \in Callers :
       job[c] \in ShipSteps \ {"test"} => tree \subseteq tested \cup shelled

\* The ship that is about to be noted has arrived, and HEAD is still what it
\* was, unless the shell has moved it.
PushedInv == \A c \in Callers : job[c] = "record" => moved \/ remote = head

IInv ==
  CodeTypeOK /\ LockInv /\ StagedInv /\ PushedInv /\ JournalTellsTruth

-----------------------------------------------------------------------------
\* One commit goes on from another when it begins with the other's trees.
LEMMA PrefixIsAgreement ==
  ASSUME NEW S, NEW s \in Seq(S), NEW t \in Seq(S)
  PROVE  IsPrefix(s, t) <=> Len(s) <= Len(t) /\ \A i \in 1..Len(s) : s[i] = t[i]
<1>1. ASSUME Len(s) <= Len(t)
      PROVE  SubSeq(s, 1, Len(s)) = SubSeq(t, 1, Len(s)) <=>
               \A i \in 1..Len(s) : s[i] = t[i]
  <2>1. Len(s) \in Nat /\ Len(t) \in Nat
    OBVIOUS
  <2>2. /\ SubSeq(s, 1, Len(s)) = [i \in 1..Len(s) |-> s[i]]
        /\ SubSeq(t, 1, Len(s)) = [i \in 1..Len(s) |-> t[i]]
    BY <1>1, <2>1
  <2> QED
    BY <2>2
<1> QED
  BY <1>1 DEF IsPrefix

\* Every commit goes on from itself, and what goes on from a commit that goes
\* on from a third goes on from the third.
LEMMA GoingOn ==
  ASSUME NEW S, NEW s \in Seq(S), NEW t \in Seq(S), NEW u \in Seq(S)
  PROVE  IsPrefix(s, s) /\ (IsPrefix(s, t) /\ IsPrefix(t, u) => IsPrefix(s, u))
<1>1. Len(s) \in Nat /\ Len(t) \in Nat /\ Len(u) \in Nat
  OBVIOUS
<1> QED
  BY <1>1, PrefixIsAgreement

\* The tree of a new commit is the one that was committed.
LEMMA TipOfAppended ==
  ASSUME NEW S, NEW s \in Seq(S), NEW e \in S
  PROVE  Append(s, e) \in Seq(S) /\ Tip(Append(s, e)) = e
BY DEF Tip, Last

-----------------------------------------------------------------------------
\* Every step keeps the variables in their types.
LEMMA CodeTypeStep ==
  CodeTypeOK /\ [CodeNext]_codeVars => CodeTypeOK'
<1> SUFFICES ASSUME CodeTypeOK, [CodeNext]_codeVars PROVE CodeTypeOK'
  OBVIOUS
<1> USE DEF CodeTypeOK, Busy, ShipSteps, Ended
<1>1. CASE UNCHANGED codeVars
  BY <1>1 DEF codeVars
<1>2. ASSUME NEW c \in Callers, StartRead(c) PROVE CodeTypeOK'
  BY <1>2 DEF StartRead
<1>3. ASSUME NEW c \in Callers, TryLock(c, "edit") \/ TryLock(c, "test") PROVE CodeTypeOK'
  BY <1>3 DEF TryLock
<1>4. ASSUME NEW c \in Callers, CodeStep(c) PROVE CodeTypeOK'
  <2>1. CASE Read(c)
    BY <2>1 DEF Read, Return
  <2>2. CASE Edit(c)
    BY <2>2 DEF Edit, Return
  <2>3. CASE Test(c)
    BY <2>3 DEF Test, Proceed, Fails, Return
  <2>4. CASE Guard(c)
    BY <2>4 DEF Guard, Proceed, Fails, Return
  <2>5. CASE VerifyMigrations(c)
    BY <2>5 DEF VerifyMigrations, Proceed, Fails, Return
  <2>6. CASE GitAdd(c)
    BY <2>6 DEF GitAdd, Proceed, Fails, Return
  <2>7. CASE GitCommit(c)
    <3>1. Append(head, index) \in Seq(SUBSET Edits)
      OBVIOUS
    <3>2. head' \in Seq(SUBSET Edits)
      BY <2>7, <3>1 DEF GitCommit, Fails
    <3> QED
      BY <2>7, <3>2 DEF GitCommit, Proceed, Fails, Return
  <2>8. CASE GitPush(c)
    BY <2>8 DEF GitPush, Arrives, Proceed, Return
  <2>9. CASE RecordHead(c)
    <3>1. [commit |-> head, moved |-> moved] \in [commit : Seq(SUBSET Edits), moved : BOOLEAN]
      OBVIOUS
    <3>2. shipped' \subseteq [commit : Seq(SUBSET Edits), moved : BOOLEAN]
      BY <2>9, <3>1 DEF RecordHead
    <3> QED
      BY <2>9, <3>2 DEF RecordHead, Return
  <2> QED
    BY <1>4, <2>1, <2>2, <2>3, <2>4, <2>5, <2>6, <2>7, <2>8, <2>9 DEF CodeStep
<1>5. ASSUME NEW c \in Callers, Take(c) PROVE CodeTypeOK'
  BY <1>5 DEF Take
<1>6. CASE Shell
  <2>1. PICK left \in Checkouts : tree' = left.tree /\ index' = left.index /\ head' = left.head
    BY <1>6 DEF Shell
  <2>2. tree' \in SUBSET Edits /\ index' \in SUBSET Edits /\ head' \in Seq(SUBSET Edits)
    BY <2>1, CodeToolsAssumption
  <2>3. Tip(head') \in SUBSET Edits
    BY <2>2 DEF Tip, Last
  <2>4. shelled' \in SUBSET Edits /\ moved' \in BOOLEAN
    BY <1>6, <2>2, <2>3 DEF Shell
  <2> QED
    BY <1>6, <2>2, <2>4 DEF Shell
<1> QED
  BY <1>1, <1>2, <1>3, <1>4, <1>5, <1>6 DEF CodeNext, StartEdit, StartShip

\* The steps of a call that holds the lock leave every other call where it is.
LEMMA LockStep ==
  CodeTypeOK /\ LockInv /\ [CodeNext]_codeVars => LockInv'
<1> SUFFICES ASSUME CodeTypeOK, LockInv, [CodeNext]_codeVars PROVE LockInv'
  OBVIOUS
<1> USE CodeToolsAssumption DEF CodeTypeOK, LockInv, Busy, ShipSteps, Ended
<1>1. CASE UNCHANGED codeVars
  BY <1>1 DEF codeVars
<1>2. ASSUME NEW c \in Callers, StartRead(c) PROVE LockInv'
  BY <1>2 DEF StartRead
<1>3. ASSUME NEW c \in Callers, TryLock(c, "edit") \/ TryLock(c, "test") PROVE LockInv'
  BY <1>3 DEF TryLock, Free
<1>4. ASSUME NEW c \in Callers, CodeStep(c) PROVE LockInv'
  <2>1. CASE Read(c)
    BY <2>1 DEF Read, Return
  <2>2. CASE Edit(c)
    BY <2>2 DEF Edit, Return
  <2>3. CASE Test(c)
    BY <2>3 DEF Test, Proceed, Fails, Return
  <2>4. CASE Guard(c)
    BY <2>4 DEF Guard, Proceed, Fails, Return
  <2>5. CASE VerifyMigrations(c)
    BY <2>5 DEF VerifyMigrations, Proceed, Fails, Return
  <2>6. CASE GitAdd(c)
    BY <2>6 DEF GitAdd, Proceed, Fails, Return
  <2>7. CASE GitCommit(c)
    BY <2>7 DEF GitCommit, Proceed, Fails, Return
  <2>8. CASE GitPush(c)
    BY <2>8 DEF GitPush, Arrives, Proceed, Return
  <2>9. CASE RecordHead(c)
    BY <2>9 DEF RecordHead, Return
  <2> QED
    BY <1>4, <2>1, <2>2, <2>3, <2>4, <2>5, <2>6, <2>7, <2>8, <2>9 DEF CodeStep
<1>5. ASSUME NEW c \in Callers, Take(c) PROVE LockInv'
  BY <1>5 DEF Take
<1>6. CASE Shell
  BY <1>6 DEF Shell
<1> QED
  BY <1>1, <1>2, <1>3, <1>4, <1>5, <1>6 DEF CodeNext, StartEdit, StartShip

\* An edit needs the lock a ship holds, so only the shell can write into a tree
\* that is being shipped.
LEMMA StagedStep ==
  CodeTypeOK /\ LockInv /\ StagedInv /\ [CodeNext]_codeVars => StagedInv'
<1> SUFFICES ASSUME CodeTypeOK, LockInv, StagedInv, [CodeNext]_codeVars
             PROVE StagedInv'
  OBVIOUS
<1> USE DEF CodeTypeOK, StagedInv, Busy, ShipSteps, Ended
<1>1. CASE UNCHANGED codeVars
  BY <1>1 DEF codeVars
<1>2. ASSUME NEW c \in Callers, StartRead(c) PROVE StagedInv'
  BY <1>2 DEF StartRead
<1>3. ASSUME NEW c \in Callers, TryLock(c, "edit") \/ TryLock(c, "test") PROVE StagedInv'
  BY <1>3 DEF TryLock
<1>4. ASSUME NEW c \in Callers, CodeStep(c) PROVE StagedInv'
  <2>1. CASE Read(c)
    BY <2>1 DEF Read, Return
  <2>2. CASE Edit(c)
    <3>1. ASSUME NEW d \in Callers PROVE job'[d] \notin ShipSteps
      BY <2>2 DEF Edit, Return, LockInv
    <3>2. UNCHANGED <<index, head, remote, tested, shelled>>
      BY <2>2 DEF Edit
    <3> QED
      BY <3>1, <3>2
  <2>3. CASE Test(c)
    BY <2>3 DEF Test, Proceed, Fails, Return
  <2>4. CASE Guard(c)
    BY <2>4 DEF Guard, Proceed, Fails, Return
  <2>5. CASE VerifyMigrations(c)
    BY <2>5 DEF VerifyMigrations, Proceed, Fails, Return
  <2>6. CASE GitAdd(c)
    BY <2>6 DEF GitAdd, Proceed, Fails, Return
  <2>7. CASE GitCommit(c)
    <3>1. Tip(Append(head, index)) = index
      BY TipOfAppended
    <3>2. Tip(head') = Tip(head) \/ Tip(head') = index
      BY <2>7, <3>1 DEF GitCommit, Fails
    <3>3. UNCHANGED <<tree, index, remote, tested, shelled>>
      BY <2>7 DEF GitCommit, Fails
    <3>4. \A d \in Callers : job'[d] \in ShipSteps \ {"test"} => job[d] \in ShipSteps \ {"test"}
      BY <2>7 DEF GitCommit, Proceed, Fails, Return
    <3> QED
      BY <3>2, <3>3, <3>4
  <2>8. CASE GitPush(c)
    BY <2>8 DEF GitPush, Arrives, Proceed, Return
  <2>9. CASE RecordHead(c)
    BY <2>9 DEF RecordHead, Return
  <2> QED
    BY <1>4, <2>1, <2>2, <2>3, <2>4, <2>5, <2>6, <2>7, <2>8, <2>9 DEF CodeStep
<1>5. ASSUME NEW c \in Callers, Take(c) PROVE StagedInv'
  BY <1>5 DEF Take
<1>6. CASE Shell
  BY <1>6 DEF Shell
<1> QED
  BY <1>1, <1>2, <1>3, <1>4, <1>5, <1>6 DEF CodeNext, StartEdit, StartShip

\* But for the shell, HEAD moves only in a commit, whose ship holds the lock:
\* nobody else can be at the record.
LEMMA PushedStep ==
  CodeTypeOK /\ LockInv /\ PushedInv /\ [CodeNext]_codeVars => PushedInv'
<1> SUFFICES ASSUME CodeTypeOK, LockInv, PushedInv, [CodeNext]_codeVars
             PROVE PushedInv'
  OBVIOUS
<1> USE DEF CodeTypeOK, PushedInv, Busy, ShipSteps, Ended
<1>1. CASE UNCHANGED codeVars
  BY <1>1 DEF codeVars
<1>2. ASSUME NEW c \in Callers, StartRead(c) PROVE PushedInv'
  BY <1>2 DEF StartRead
<1>3. ASSUME NEW c \in Callers, TryLock(c, "edit") \/ TryLock(c, "test") PROVE PushedInv'
  BY <1>3 DEF TryLock
<1>4. ASSUME NEW c \in Callers, CodeStep(c) PROVE PushedInv'
  <2>1. CASE Read(c) \/ Edit(c)
    BY <2>1 DEF Read, Edit, Return
  <2>2. CASE Test(c) \/ Guard(c) \/ VerifyMigrations(c) \/ GitAdd(c)
    BY <2>2 DEF Test, Guard, VerifyMigrations, GitAdd, Proceed, Fails, Return
  <2>3. CASE GitCommit(c)
    <3>1. ASSUME NEW d \in Callers PROVE job'[d] # "record"
      BY <2>3 DEF GitCommit, Proceed, Fails, Return, LockInv
    <3> QED
      BY <3>1
  <2>4. CASE GitPush(c)
    <3>1. ASSUME NEW d \in Callers, d # c PROVE job'[d] # "record"
      BY <2>4, <3>1 DEF GitPush, Proceed, Return, LockInv
    <3>2. job'[c] = "record" => remote' = head'
      BY <2>4 DEF GitPush, Arrives, Proceed, Return
    <3> QED
      BY <3>1, <3>2
  <2>5. CASE RecordHead(c)
    BY <2>5 DEF RecordHead, Return, LockInv
  <2> QED
    BY <1>4, <2>1, <2>2, <2>3, <2>4, <2>5 DEF CodeStep
<1>5. ASSUME NEW c \in Callers, Take(c) PROVE PushedInv'
  BY <1>5 DEF Take
<1>6. CASE Shell
  BY <1>6 DEF Shell
<1> QED
  BY <1>1, <1>2, <1>3, <1>4, <1>5, <1>6 DEF CodeNext, StartEdit, StartShip

\* Main is only gone on from, so what is noted stays on it.
LEMMA JournalStep ==
  CodeTypeOK /\ PushedInv /\ JournalTellsTruth /\ [CodeNext]_codeVars
    => JournalTellsTruth'
<1> SUFFICES ASSUME CodeTypeOK, PushedInv, JournalTellsTruth, [CodeNext]_codeVars
             PROVE JournalTellsTruth'
  OBVIOUS
<1> USE DEF JournalTellsTruth
<1>1. CASE UNCHANGED <<shipped, remote>>
  BY <1>1
<1>2. ASSUME NEW c \in Callers, GitPush(c) PROVE JournalTellsTruth'
  <2>1. CASE UNCHANGED remote
    BY <1>2, <2>1 DEF GitPush
  <2>2. CASE Arrives
    <3> SUFFICES ASSUME NEW ship \in shipped', ~ship.moved
                 PROVE  IsPrefix(ship.commit, remote')
      OBVIOUS
    <3>1. ship \in shipped /\ ship.commit \in Seq(SUBSET Edits)
      BY <1>2 DEF GitPush, CodeTypeOK
    <3>2. IsPrefix(ship.commit, remote) /\ IsPrefix(remote, head) /\ remote' = head
      BY <2>2, <3>1 DEF Arrives
    <3>3. {head, remote} \subseteq Seq(SUBSET Edits)
      BY DEF CodeTypeOK
    <3> QED
      BY <3>1, <3>2, <3>3, GoingOn
  <2> QED
    BY <1>2, <2>1, <2>2 DEF GitPush
<1>3. ASSUME NEW c \in Callers, RecordHead(c) PROVE JournalTellsTruth'
  <2>1. moved \/ IsPrefix(head, remote)
    BY <1>3, GoingOn DEF RecordHead, PushedInv, CodeTypeOK
  <2> QED
    BY <1>3, <2>1 DEF RecordHead
<1>4. ASSUME NEW c \in Callers,
             \/ StartRead(c) \/ StartEdit(c) \/ StartShip(c) \/ Take(c) \/ Read(c)
             \/ Edit(c) \/ Test(c) \/ Guard(c) \/ VerifyMigrations(c)
             \/ GitAdd(c) \/ GitCommit(c)
      PROVE UNCHANGED <<shipped, remote>>
  BY <1>4 DEF StartRead, StartEdit, StartShip, TryLock, Take, Read, Edit, Test, Guard,
    VerifyMigrations, GitAdd, GitCommit, Fails
<1>5. CASE Shell
  BY <1>5 DEF Shell
<1> QED
  BY <1>1, <1>2, <1>3, <1>4, <1>5 DEF CodeNext, CodeStep, codeVars

-----------------------------------------------------------------------------
\* The parts hold together from the start on.
THEOREM CodeInvariant == CodeSpec => []IInv
<1>1. CodeInit => IInv
  <2> SUFFICES ASSUME CodeInit PROVE IInv
    OBVIOUS
  <2>1. CodeTypeOK
    <3>1. head \in Seq(SUBSET Edits) /\ remote \in Seq(SUBSET Edits)
      BY DEF CodeInit
    <3>2. job \in [Callers -> {"none"} \cup Busy \cup Ended]
      BY DEF CodeInit
    <3>3. moved \in BOOLEAN
      BY DEF CodeInit
    <3> QED
      BY <3>1, <3>2, <3>3 DEF CodeInit, CodeTypeOK
  <2>2. LockInv /\ PushedInv /\ JournalTellsTruth
    BY CodeToolsAssumption DEF CodeInit, LockInv, PushedInv, JournalTellsTruth, ShipSteps
  <2>3. StagedInv
    BY DEF CodeInit, StagedInv, Tip, ShipSteps
  <2> QED
    BY <2>1, <2>2, <2>3 DEF IInv
<1>2. IInv /\ [CodeNext]_codeVars => IInv'
  BY CodeTypeStep, LockStep, StagedStep, PushedStep, JournalStep DEF IInv
<1> QED
  BY <1>1, <1>2, PTL DEF CodeSpec

\* The variables of the code tools keep their types.
THEOREM CodeTypeCorrect == CodeSpec => []CodeTypeOK
<1>1. IInv => CodeTypeOK
  BY DEF IInv
<1> QED
  BY <1>1, CodeInvariant, PTL

\* Whatever the callers do and wherever their commands fail, nothing reaches
\* main that was neither tested nor put into the checkout by the shell
\* (code_ship).
THEOREM ShipsAreTested == CodeSpec => []OnlyShellSlipsIn
<1>1. IInv => OnlyShellSlipsIn
  BY DEF IInv, OnlyShellSlipsIn, StagedInv
<1> QED
  BY <1>1, CodeInvariant, PTL

\* Every commit in the deploy journal is on main, also when pushes fail, are
\* refused or lose their answer and whatever the shell commits or resets before
\* and after, unless it moved HEAD between the push and the look at it
\* (recordShip).
THEOREM JournalIsTrue == CodeSpec => []JournalTellsTruth
<1>1. IInv => JournalTellsTruth
  BY DEF IInv
<1> QED
  BY <1>1, CodeInvariant, PTL

-----------------------------------------------------------------------------
(* The turns.                                                              *)

\* What a turn runs is a batch, and each of its calls is a caller.
CallsInv == calls \in [Turn -> Batches \cup {<<>>}]

\* The limit is one of two, and a turn's completions stayed below one of them.
LimitInv ==
  /\ asked \in [Turn -> Nat]
  /\ limit \in [Turn -> {MaxToolIter, CodeMaxToolIter}]
  /\ CompletionsBounded

-----------------------------------------------------------------------------
\* A call of a batch is a caller of the code tools.
LEMMA CallIsCaller ==
  ASSUME CallsInv, NEW t \in Turn, NEW i \in DOMAIN calls[t]
  PROVE  <<t, i>> \in Callers
<1>1. calls[t] \in Batches \cup {<<>>}
  BY DEF CallsInv
<1>2. calls[t] # <<>>
  OBVIOUS
<1>3. calls[t] \in Batches /\ calls[t] \in Seq(Tools \cup {"unknown"})
  BY <1>1, <1>2, TurnsAssumption
<1>4. i \in 1..Len(calls[t])
  BY <1>3
<1> QED
  BY <1>3, <1>4, TurnsAssumption

\* The calls of a batch are numbered, and none before one of them is left out.
LEMMA CallDomain ==
  ASSUME CallsInv, NEW t \in Turn, NEW i \in DOMAIN calls[t]
  PROVE  i \in Nat \ {0} /\ 1..i-1 \subseteq DOMAIN calls[t]
<1>1. calls[t] \in Seq(Tools \cup {"unknown"})
  BY TurnsAssumption DEF CallsInv
<1> QED
  BY <1>1

\* Every step keeps the batches batches.
LEMMA CallsStep == CallsInv /\ [Next]_vars => CallsInv'
<1> SUFFICES ASSUME CallsInv, [Next]_vars PROVE CallsInv'
  OBVIOUS
<1> USE DEF CallsInv
<1>1. CASE UNCHANGED calls
  BY <1>1
<1>2. ASSUME NEW t \in Turn, Gather(t) \/ Deliver(t) PROVE CallsInv'
  BY <1>2 DEF Gather, Deliver, EndTurn
<1>3. ASSUME NEW t \in Turn, Complete(t) PROVE CallsInv'
  BY <1>3 DEF Complete, EndTurn
<1>4. ASSUME NEW t \in Turn, Collect(t) PROVE CallsInv'
  BY <1>4 DEF Collect
<1>5. ASSUME NEW t \in Turn,
             \/ Mention(t) \/ ContextEnds(t) \/ LimitReached(t)
             \/ \E i \in DOMAIN calls[t] : ToolStep(t, i)
      PROVE UNCHANGED calls
  BY <1>5 DEF Mention, ContextEnds, LimitReached, ToolStep, RunTool, RunShell,
    StartCode, RunCode, FinishCode, turnVars
<1>6. CASE ShellWorks
  BY <1>6 DEF ShellWorks, turnVars
<1> QED
  BY <1>1, <1>2, <1>3, <1>4, <1>5, <1>6 DEF Next, TurnStep, vars, turnVars

\* Every step of a turn is a step of the code tools, or none that they notice.
LEMMA CodeToolsStep == CallsInv /\ [Next]_vars => [CodeNext]_codeVars
<1> SUFFICES ASSUME CallsInv, [Next]_vars PROVE CodeNext \/ UNCHANGED codeVars
  OBVIOUS
<1>1. CASE UNCHANGED vars
  BY <1>1 DEF vars
<1>2. ASSUME NEW t \in Turn,
             \/ Mention(t) \/ ContextEnds(t) \/ Gather(t) \/ Complete(t)
             \/ LimitReached(t) \/ Collect(t) \/ Deliver(t)
      PROVE UNCHANGED codeVars
  BY <1>2 DEF Mention, ContextEnds, Gather, Complete, LimitReached, Collect, Deliver,
    codeVars
<1>3. ASSUME NEW t \in Turn, NEW i \in DOMAIN calls[t], ToolStep(t, i)
      PROVE CodeNext \/ UNCHANGED codeVars
  <2>1. <<t, i>> \in Callers
    BY CallIsCaller
  <2>2. CASE RunTool(t, i)
    BY <2>2 DEF RunTool
  <2>3. CASE RunShell(t, i)
    BY <2>3 DEF RunShell
  <2>4. CASE StartCode(t, i)
    BY <2>1, <2>4 DEF StartCode, CodeNext
  <2>5. CASE RunCode(t, i)
    BY <2>1, <2>5 DEF RunCode, CodeNext
  <2>6. CASE FinishCode(t, i)
    BY <2>1, <2>6 DEF FinishCode, CodeNext
  <2> QED
    BY <1>3, <2>2, <2>3, <2>4, <2>5, <2>6 DEF ToolStep
<1>4. CASE ShellWorks
  BY <1>4 DEF ShellWorks, CodeNext
<1> QED
  BY <1>1, <1>2, <1>3, <1>4 DEF Next, TurnStep

\* Escalation changes the limit from one of the two to one of the two, and a
\* turn below the one it has stays within it with its next completion.
LEMMA LimitStep == LimitInv /\ [Next]_vars => LimitInv'
<1> SUFFICES ASSUME LimitInv, [Next]_vars PROVE LimitInv'
  OBVIOUS
<1> USE TurnsAssumption DEF LimitInv, CompletionsBounded
<1>1. CASE UNCHANGED <<asked, limit>>
  BY <1>1
<1>2. ASSUME NEW t \in Turn, EndTurn(t) PROVE LimitInv'
  BY <1>2 DEF EndTurn
<1>3. ASSUME NEW t \in Turn, Complete(t) PROVE LimitInv'
  <2>1. asked[t] < limit[t]
    BY <1>3 DEF Complete
  <2>2. CASE EndTurn(t)
    BY <1>2, <2>2
  <2>3. CASE Ask(t) /\ UNCHANGED limit
    BY <2>1, <2>3 DEF Ask
  <2>4. ASSUME NEW batch \in Batches, Ask(t), Escalate(t, batch) PROVE LimitInv'
    BY <2>1, <2>4 DEF Ask, Escalate
  <2> QED
    BY <1>3, <2>2, <2>3, <2>4 DEF Complete
<1>4. ASSUME NEW t \in Turn, Gather(t) \/ Deliver(t) PROVE LimitInv'
  BY <1>1, <1>2, <1>4 DEF Gather, Deliver
<1>5. ASSUME NEW t \in Turn,
             \/ Mention(t) \/ ContextEnds(t) \/ LimitReached(t) \/ Collect(t)
             \/ \E i \in DOMAIN calls[t] : ToolStep(t, i)
      PROVE UNCHANGED <<asked, limit>>
  BY <1>5 DEF Mention, ContextEnds, LimitReached, Collect, ToolStep, RunTool, RunShell,
    StartCode, RunCode, FinishCode, turnVars
<1>6. CASE ShellWorks
  BY <1>1, <1>6 DEF ShellWorks, turnVars
<1> QED
  BY <1>1, <1>3, <1>4, <1>5, <1>6 DEF Next, TurnStep, vars, turnVars

-----------------------------------------------------------------------------
\* Turns that run side by side, each with its lane, use the code tools as any
\* callers may (runToolCalls implements what CodeTools says of its callers).
THEOREM TurnsUseCodeTools == Spec => CodeSpec
<1>1. Init => CodeInit /\ CallsInv
  BY DEF Init, CallsInv
<1>2. CallsInv /\ [Next]_vars => CallsInv' /\ [CodeNext]_codeVars
  BY CallsStep, CodeToolsStep
<1> QED
  BY <1>1, <1>2, PTL DEF Spec, CodeSpec

\* Of any turns, nothing that was neither tested nor put into the checkout by
\* the shell reaches main.
THEOREM TurnsShipTested == Spec => []OnlyShellSlipsIn
BY TurnsUseCodeTools, ShipsAreTested, PTL

\* Of any turns, every commit in the deploy journal is on main, unless the shell
\* moved HEAD just when it was looked up.
THEOREM TurnsKeepJournalTrue == Spec => []JournalTellsTruth
BY TurnsUseCodeTools, JournalIsTrue, PTL

\* However a turn escalates, it asks for no more completions than the larger of
\* its limits, whatever the limits are (callModel).
THEOREM TurnsAreBounded == Spec => []CompletionsBounded
<1>1. Init => LimitInv
  BY TurnsAssumption DEF Init, LimitInv, CompletionsBounded
<1>2. LimitInv => CompletionsBounded
  BY DEF LimitInv
<1> QED
  BY <1>1, <1>2, LimitStep, PTL DEF Spec

-----------------------------------------------------------------------------
(* The lane of a turn.                                                     *)

\* Whoever holds the read lock reads.
ReadInv == \A c \in readers : job[c] = "read"

Places == {"idle", "gather", "ask", "tools", "deliver"}

\* Calls have outcomes, each its own.
OutcomeInv ==
  /\ DOMAIN outcome = Turn /\ outcome = [t \in Turn |-> outcome[t]]
  /\ \A t \in Turn : outcome[t] \in [DOMAIN calls[t] -> {"none", "ok", "error"}]

\* A caller of the code tools that is not at rest is the call its turn's lane has
\* come to: all code calls before it are over.
AtCall(c, t, i) ==
  /\ t \in Turn /\ i \in DOMAIN calls[t]
  /\ c = <<t, i>> /\ Running(t, i) /\ calls[t][i] \in Code
  /\ \A j \in 1..i-1 : calls[t][j] \in Code => outcome[t][j] # "none"

LaneInv == \A c \in Callers : job[c] # "none" => \E t, i : AtCall(c, t, i)

\* The callers keep the read lock while they read.
LEMMA ReadStep ==
  ASSUME CodeTypeOK, ReadInv, [CodeNext]_codeVars
  PROVE  ReadInv'
<1> USE DEF CodeTypeOK, ReadInv
<1>1. CASE UNCHANGED codeVars
  BY <1>1 DEF codeVars
<1>2. ASSUME NEW c \in Callers, StartRead(c) PROVE ReadInv'
  BY <1>2 DEF StartRead
<1>3. ASSUME NEW c \in Callers, TryLock(c, "edit") \/ TryLock(c, "test") PROVE ReadInv'
  BY <1>3 DEF TryLock
<1>4. ASSUME NEW c \in Callers, CodeStep(c) PROVE ReadInv'
  <2>1. \/ \E result : Return(c, result)
        \/ job[c] # "read" /\ \E step : Proceed(c, step)
    BY <1>4 DEF CodeStep, Read, Edit, Test, Guard, VerifyMigrations, GitAdd, GitCommit,
      GitPush, RecordHead, Fails
  <2> QED
    BY <2>1 DEF Return, Proceed
<1>5. ASSUME NEW c \in Callers, Take(c) PROVE ReadInv'
  BY <1>5 DEF Take, Ended
<1>6. CASE Shell
  BY <1>6 DEF Shell
<1> QED
  BY <1>1, <1>2, <1>3, <1>4, <1>5, <1>6 DEF CodeNext, StartEdit, StartShip

\* What a call does to the jobs: it moves its own.
LEMMA OwnJobMoves ==
  ASSUME CodeTypeOK, NEW c \in Callers,
         StartRead(c) \/ StartEdit(c) \/ StartShip(c) \/ CodeStep(c) \/ Take(c)
  PROVE  \A d \in Callers : d # c => job'[d] = job[d]
<1>1. \E step : job' = [job EXCEPT ![c] = step]
  <2>1. CASE StartRead(c) \/ StartEdit(c) \/ StartShip(c) \/ Take(c)
    BY <2>1 DEF StartRead, StartEdit, StartShip, TryLock, Take
  <2>2. CASE CodeStep(c)
    BY <2>2 DEF CodeStep, Read, Edit, Test, Guard, VerifyMigrations, GitAdd, GitCommit,
      GitPush, RecordHead, Fails, Return, Proceed
  <2> QED
    BY <2>1, <2>2
<1> QED
  BY <1>1 DEF CodeTypeOK

\* A turn that runs no tools has no call in the code tools, nor has one whose calls
\* all have their outcomes.
LEMMA AtRest ==
  ASSUME LaneInv, NEW t \in Turn,
         pc[t] # "tools" \/ \A i \in DOMAIN calls[t] : outcome[t][i] # "none"
  PROVE  \A c \in Callers : job[c] # "none" =>
           \E u, i : u # t /\ AtCall(c, u, i)
BY DEF LaneInv, AtCall, Running

\* What becomes of such a turn concerns no other.
LEMMA RestingStep ==
  ASSUME CallsInv, OutcomeInv, LaneInv, pc \in [Turn -> Places], NEW t \in Turn,
         pc[t] # "tools" \/ \A i \in DOMAIN calls[t] : outcome[t][i] # "none",
         \E where \in Places : Goto(t, where),
         \/ UNCHANGED <<calls, outcome>>
         \/ \E batch \in Batches \cup {<<>>} :
              \E result \in [DOMAIN batch -> {"none", "ok", "error"}] :
                /\ calls' = [calls EXCEPT ![t] = batch]
                /\ outcome' = [outcome EXCEPT ![t] = result],
         UNCHANGED job
  PROVE  OutcomeInv' /\ LaneInv' /\ pc' \in [Turn -> Places]
<1>1. /\ pc' \in [Turn -> Places]
      /\ \A u \in Turn : u # t => pc'[u] = pc[u]
  BY DEF Goto
<1>2. \A u \in Turn : u # t => calls'[u] = calls[u] /\ outcome'[u] = outcome[u]
  BY DEF CallsInv, OutcomeInv
<1>3. OutcomeInv'
  BY DEF OutcomeInv, CallsInv
<1>4. LaneInv'
  <2> SUFFICES ASSUME NEW c \in Callers, job[c] # "none"
               PROVE  \E u, i : AtCall(c, u, i)'
    BY DEF LaneInv
  <2>1. PICK u, i : u # t /\ AtCall(c, u, i)
    BY AtRest
  <2>2. AtCall(c, u, i)'
    BY <1>1, <1>2, <2>1 DEF AtCall, Running
  <2> QED
    BY <2>2
<1> QED
  BY <1>1, <1>3, <1>4

\* A call outside the lane ends.
LEMMA PlainStep ==
  ASSUME CallsInv, OutcomeInv, LaneInv, NEW t \in Turn, NEW i \in DOMAIN calls[t],
         calls[t][i] \notin Code, NEW result \in {"ok", "error"},
         SetOutcome(t, i, result), UNCHANGED <<job, pc, calls>>
  PROVE  OutcomeInv' /\ LaneInv'
<1>1. OutcomeInv'
  BY DEF OutcomeInv, SetOutcome
<1>2. \A u \in Turn : \A j \in DOMAIN calls[u] :
        outcome'[u][j] = IF u = t /\ j = i THEN result ELSE outcome[u][j]
  BY DEF OutcomeInv, SetOutcome
<1>3. LaneInv'
  <2> SUFFICES ASSUME NEW c \in Callers, job[c] # "none"
               PROVE  \E u, k : AtCall(c, u, k)'
    BY DEF LaneInv
  <2>1. PICK u, k : AtCall(c, u, k)
    BY DEF LaneInv
  <2>2. \A j \in 1..k-1 : j \in DOMAIN calls[u]
    BY <2>1, CallDomain DEF AtCall
  <2>3. AtCall(c, u, k)'
    BY <1>2, <2>1, <2>2 DEF AtCall, Running
  <2> QED
    BY <2>3
<1> QED
  BY <1>1, <1>3

\* A code call begins, works on or ends: all others are where they were.
LEMMA CodeCallStep ==
  ASSUME CodeTypeOK, CallsInv, OutcomeInv, LaneInv, NEW t \in Turn, NEW i \in DOMAIN calls[t],
         StartCode(t, i) \/ RunCode(t, i) \/ FinishCode(t, i)
  PROVE  OutcomeInv' /\ LaneInv'
<1>1. <<t, i>> \in Callers
  BY CallIsCaller
<1>2. \A c \in Callers : c # <<t, i>> => job'[c] = job[c]
  BY <1>1, OwnJobMoves DEF StartCode, RunCode, FinishCode
<1>3. UNCHANGED <<pc, calls>>
  BY DEF StartCode, RunCode, FinishCode, turnVars
<1>4. \A j \in 1..i-1 : j \in DOMAIN calls[t]
  BY CallDomain
<1>5. ASSUME NEW c, NEW u, NEW k, c # <<t, i>>, AtCall(c, u, k)
      PROVE  AtCall(c, u, k)'
  <2>1. CASE UNCHANGED outcome
    BY <1>3, <1>5, <2>1 DEF AtCall, Running
  <2>2. CASE FinishCode(t, i)
    <3>1. \A j \in 1..k-1 : j \in DOMAIN calls[u]
      BY <1>5, CallDomain DEF AtCall
    <3>2. PICK result \in {"ok", "error"} : SetOutcome(t, i, result)
      BY <2>2 DEF FinishCode
    <3>3. \A v \in Turn : \A j \in DOMAIN calls[v] :
            outcome'[v][j] = IF v = t /\ j = i THEN result ELSE outcome[v][j]
      BY <3>2 DEF OutcomeInv, SetOutcome
    <3> QED
      BY <1>3, <1>5, <3>1, <3>3 DEF AtCall, Running
  <2> QED
    BY <2>1, <2>2 DEF StartCode, RunCode, turnVars
<1>6. ASSUME job'[<<t, i>>] # "none"
      PROVE  AtCall(<<t, i>>, t, i)'
  <2>1. ~FinishCode(t, i)
    BY <1>1, <1>6 DEF FinishCode, Take, CodeTypeOK
  <2>2. Running(t, i) /\ UNCHANGED outcome
    BY <2>1 DEF StartCode, RunCode, turnVars
  <2>3. CASE StartCode(t, i)
    BY <1>3, <2>2, <2>3 DEF AtCall, StartCode, LaneAt, Code, Running
  <2>4. CASE RunCode(t, i)
    <3>1. job[<<t, i>>] # "none"
      BY <2>4 DEF RunCode, Busy, ShipSteps
    <3>2. PICK u, k : AtCall(<<t, i>>, u, k)
      BY <1>1, <3>1 DEF LaneInv
    <3>3. t = u /\ i = k
      BY <3>2 DEF AtCall
    <3> QED
      BY <1>3, <2>2, <3>2, <3>3 DEF AtCall, Running
  <2> QED
    BY <2>1, <2>3, <2>4
<1>7. LaneInv'
  <2> SUFFICES ASSUME NEW c \in Callers, job'[c] # "none"
               PROVE  \E u, k : AtCall(c, u, k)'
    BY <1>3 DEF LaneInv
  <2>1. CASE c = <<t, i>>
    BY <1>6, <2>1
  <2>2. CASE c # <<t, i>>
    <3>1. job[c] # "none"
      BY <1>2, <2>2
    <3>2. PICK u, k : AtCall(c, u, k)
      BY <3>1 DEF LaneInv
    <3> QED
      BY <1>5, <2>2, <3>2
  <2> QED
    BY <2>1, <2>2
<1>8. OutcomeInv'
  <2>1. CASE UNCHANGED outcome
    BY <1>3, <2>1 DEF OutcomeInv
  <2>2. CASE FinishCode(t, i)
    <3>1. PICK result \in {"ok", "error"} : SetOutcome(t, i, result)
      BY <2>2 DEF FinishCode
    <3> QED
      BY <1>3, <3>1 DEF OutcomeInv, SetOutcome
  <2> QED
    BY <2>1, <2>2 DEF StartCode, RunCode, turnVars
<1> QED
  BY <1>7, <1>8

\* The batch of a turn is gone, with its outcomes.
Cleared(t) ==
  /\ calls' = [calls EXCEPT ![t] = <<>>]
  /\ outcome' = [outcome EXCEPT ![t] = <<>>]

LEMMA ClearedIsEmptyBatch ==
  ASSUME NEW t, Cleared(t)
  PROVE  \E batch \in Batches \cup {<<>>} :
           \E result \in [DOMAIN batch -> {"none", "ok", "error"}] :
             /\ calls' = [calls EXCEPT ![t] = batch]
             /\ outcome' = [outcome EXCEPT ![t] = result]
<1>1. <<>> \in [DOMAIN <<>> -> {"none", "ok", "error"}]
  OBVIOUS
<1> QED
  BY <1>1 DEF Cleared

TurnInv ==
  CallsInv /\ OutcomeInv /\ LaneInv /\ ReadInv /\ pc \in [Turn -> Places]

LEMMA TurnInvStep ==
  ASSUME TurnInv, CodeTypeOK, [Next]_vars
  PROVE  TurnInv'
<1>1. CallsInv' /\ ReadInv'
  BY CallsStep, CodeToolsStep, ReadStep DEF TurnInv
<1>2. CASE UNCHANGED vars
  BY <1>2 DEF vars, codeVars, turnVars, TurnInv, CallsInv, OutcomeInv, LaneInv, ReadInv,
    AtCall, Running
<1>3. ASSUME NEW t \in Turn, \E i \in DOMAIN calls[t] : ToolStep(t, i)
      PROVE  TurnInv'
  <2>1. PICK i \in DOMAIN calls[t] : ToolStep(t, i)
    BY <1>3
  <2>2. UNCHANGED pc
    BY <2>1 DEF ToolStep, RunTool, RunShell, StartCode, RunCode, FinishCode, turnVars
  <2>3. CASE RunTool(t, i) \/ RunShell(t, i)
    <3>1. /\ calls[t][i] \notin Code /\ UNCHANGED <<job, pc, calls>>
          /\ \E result \in {"ok", "error"} : SetOutcome(t, i, result)
      BY <2>3 DEF RunTool, RunShell, Code, codeVars
    <3> QED
      BY <1>1, <2>2, <3>1, PlainStep DEF TurnInv
  <2>4. CASE StartCode(t, i) \/ RunCode(t, i) \/ FinishCode(t, i)
    BY <1>1, <2>2, <2>4, CodeCallStep DEF TurnInv
  <2> QED
    BY <2>1, <2>3, <2>4 DEF ToolStep
<1>4. ASSUME NEW t \in Turn,
             \/ Mention(t) \/ ContextEnds(t) \/ Gather(t) \/ Complete(t)
             \/ LimitReached(t) \/ Collect(t) \/ Deliver(t)
      PROVE  TurnInv'
  <2>1. UNCHANGED job
    BY <1>4 DEF Mention, ContextEnds, Gather, Complete, LimitReached, Collect, Deliver,
      codeVars
  <2>2. CASE ContextEnds(t)
    BY <1>1, <2>1, <2>2 DEF ContextEnds, TurnInv, OutcomeInv, LaneInv, AtCall, Running
  <2>3. CASE Mention(t) \/ LimitReached(t) \/ Gather(t) \/ Deliver(t) \/ Collect(t)
    <3>1. pc[t] # "tools" \/ \A i \in DOMAIN calls[t] : outcome[t][i] # "none"
      BY <2>3 DEF Mention, LimitReached, Gather, Deliver, Collect
    <3>2. /\ \E where \in Places : Goto(t, where)
          /\ \/ UNCHANGED <<calls, outcome>>
             \/ Cleared(t)
      <4>1. CASE Mention(t) \/ LimitReached(t)
        BY <4>1 DEF Mention, LimitReached, Goto, Places
      <4>2. CASE Gather(t) \/ Deliver(t)
        BY <4>2 DEF Gather, Deliver, EndTurn, Cleared, Goto, Places
      <4>3. CASE Collect(t)
        BY <4>3 DEF Collect, Cleared, Goto, Places
      <4> QED
        BY <2>3, <4>1, <4>2, <4>3
    <3>3. Cleared(t) => \E batch \in Batches \cup {<<>>} :
              \E result \in [DOMAIN batch -> {"none", "ok", "error"}] :
                /\ calls' = [calls EXCEPT ![t] = batch]
                /\ outcome' = [outcome EXCEPT ![t] = result]
      BY ClearedIsEmptyBatch
    <3> QED
      BY <1>1, <2>1, <3>1, <3>2, <3>3, RestingStep DEF TurnInv
  <2>4. CASE Complete(t)
    <3>1. pc[t] # "tools"
      BY <2>4 DEF Complete
    <3>2. CASE EndTurn(t)
      <4>1. Cleared(t) /\ \E where \in Places : Goto(t, where)
        BY <3>2 DEF EndTurn, Cleared, Places
      <4> QED
        BY <1>1, <2>1, <3>1, <4>1, ClearedIsEmptyBatch, RestingStep DEF TurnInv
    <3>3. CASE ~EndTurn(t)
      <4>1. CASE Goto(t, "deliver") /\ UNCHANGED <<calls, outcome>>
        <5>1. \E where \in Places : Goto(t, where)
          BY <4>1 DEF Places
        <5> QED
          BY <1>1, <2>1, <3>1, <4>1, <5>1, RestingStep DEF TurnInv
      <4>2. CASE ~(Goto(t, "deliver") /\ UNCHANGED <<calls, outcome>>)
        <5>1. PICK batch \in Batches :
                /\ calls' = [calls EXCEPT ![t] = batch]
                /\ outcome' = [outcome EXCEPT ![t] =
                     [i \in DOMAIN batch |-> IF batch[i] = "unknown" THEN "error" ELSE "none"]]
                /\ Goto(t, "tools")
          BY <2>4, <3>3, <4>2 DEF Complete
        <5> DEFINE result ==
              [i \in DOMAIN batch |-> IF batch[i] = "unknown" THEN "error" ELSE "none"]
        <5>2. result \in [DOMAIN batch -> {"none", "ok", "error"}]
          OBVIOUS
        <5>3. outcome' = [outcome EXCEPT ![t] = result]
          BY <5>1
        <5> HIDE DEF result
        <5>4. \E b \in Batches \cup {<<>>} :
                \E res \in [DOMAIN b -> {"none", "ok", "error"}] :
                  /\ calls' = [calls EXCEPT ![t] = b]
                  /\ outcome' = [outcome EXCEPT ![t] = res]
          BY <5>1, <5>2, <5>3
        <5>5. \E where \in Places : Goto(t, where)
          BY <5>1 DEF Places
        <5> QED
          BY <1>1, <2>1, <3>1, <5>4, <5>5, RestingStep DEF TurnInv
      <4> QED
        BY <4>1, <4>2
    <3> QED
      BY <3>2, <3>3
  <2> QED
    BY <1>4, <2>2, <2>3, <2>4
<1>5. CASE ShellWorks
  <2>1. UNCHANGED <<pc, calls, outcome, job>>
    BY <1>5 DEF ShellWorks, Shell, turnVars
  <2> QED
    BY <1>1, <2>1 DEF TurnInv, OutcomeInv, LaneInv, AtCall, Running
<1> QED
  BY <1>2, <1>3, <1>4, <1>5 DEF Next, TurnStep

\* However the calls of the turns interleave, a code call is only turned away by
\* a call of another turn.
THEOREM OwnBatchNeverBusy == Spec => BusyOnlyByOthers
<1> DEFINE Others ==
      \A t \in Turn : \A i \in DOMAIN calls[t] :
        job[<<t, i>>] = "none" /\ job'[<<t, i>>] = "busy" =>
          \E c \in {writer} \cup readers : c # Nobody /\ c[1] # t
<1>1. Init => TurnInv
  <2> SUFFICES ASSUME Init PROVE TurnInv
    OBVIOUS
  <2>1. CallsInv /\ pc \in [Turn -> Places] /\ LaneInv /\ ReadInv
    BY DEF Init, CodeInit, CallsInv, LaneInv, ReadInv, Places
  <2>2. \A t \in Turn : calls[t] = <<>> /\ outcome[t] = <<>>
    BY DEF Init
  <2>3. <<>> \in [DOMAIN <<>> -> {"none", "ok", "error"}]
    OBVIOUS
  <2>4. OutcomeInv
    BY <2>2, <2>3 DEF Init, OutcomeInv
  <2> QED
    BY <2>1, <2>4 DEF TurnInv
<1>2. TurnInv /\ IInv /\ [Next]_vars => TurnInv'
  BY TurnInvStep DEF IInv
<1>3. TurnInv /\ IInv /\ [Next]_vars => Others
  <2> SUFFICES ASSUME TurnInv, IInv, [Next]_vars,
                      NEW t \in Turn, NEW i \in DOMAIN calls[t],
                      job[<<t, i>>] = "none", job'[<<t, i>>] = "busy"
               PROVE  \E c \in {writer} \cup readers : c # Nobody /\ c[1] # t
    OBVIOUS
  <2>1. <<t, i>> \in Callers /\ Running(t, i) /\ LaneAt(t, i) /\ calls[t][i] \in Code
        /\ StartCode(t, i)
    <3>1. <<t, i>> \in Callers
      BY CallIsCaller DEF TurnInv
    <3>2. job' # job
      OBVIOUS
    <3>3. PICK u, k :
            /\ u \in Turn /\ k \in DOMAIN calls[u]
            /\ StartCode(u, k) \/ RunCode(u, k) \/ FinishCode(u, k)
      BY <3>2 DEF Next, TurnStep, ToolStep, vars, codeVars, turnVars, Mention, ContextEnds,
        Gather, Complete, LimitReached, Collect, Deliver, RunTool, RunShell, ShellWorks, Shell
    <3>4. <<u, k>> \in Callers
      BY <3>3, CallIsCaller DEF TurnInv
    <3>5. <<u, k>> = <<t, i>>
      BY <3>1, <3>3, <3>4, OwnJobMoves DEF IInv, StartCode, RunCode, FinishCode
    <3>6. u = t /\ k = i
      BY <3>5
    <3>7. StartCode(t, i)
      BY <3>3, <3>6 DEF RunCode, FinishCode, Take, Busy, ShipSteps, Ended
    <3> QED
      BY <3>1, <3>7 DEF StartCode, Code
  <2>2. PICK c \in {writer} \cup readers : c # Nobody
    <3>1. ~Free
      <4>1. StartRead(<<t, i>>) \/ StartEdit(<<t, i>>) \/ StartShip(<<t, i>>)
        BY <2>1 DEF StartCode
      <4> QED
        BY <2>1, <4>1 DEF StartRead, StartEdit, StartShip, TryLock, Free, IInv, CodeTypeOK
    <3> QED
      BY <3>1, CodeToolsAssumption DEF Free, IInv, CodeTypeOK
  <2>3. c \in Callers /\ job[c] # "none"
    BY <2>2 DEF IInv, CodeTypeOK, LockInv, TurnInv, ReadInv, ShipSteps
  <2>4. PICK u, k : AtCall(c, u, k)
    BY <2>3 DEF TurnInv, LaneInv
  <2>5. u # t
    <3> SUFFICES ASSUME u = t PROVE FALSE
      OBVIOUS
    <3>1. k # i
      BY <2>3, <2>4 DEF AtCall
    <3>2. k < i \/ i < k
      BY <2>4, <3>1, CallDomain DEF TurnInv, AtCall
    <3>3. ~(i < k)
      BY <2>1, <2>4, CallDomain DEF TurnInv, AtCall, Running
    <3>4. ~(k < i)
      BY <2>1, <2>4, CallDomain DEF TurnInv, AtCall, Running, LaneAt
    <3> QED
      BY <3>2, <3>3, <3>4
  <2> QED
    BY <2>2, <2>4, <2>5 DEF AtCall
<1>4. Spec => []IInv
  BY TurnsUseCodeTools, CodeInvariant, PTL
<1> QED
  BY <1>1, <1>2, <1>3, <1>4, PTL DEF Spec, BusyOnlyByOthers

-----------------------------------------------------------------------------
(* The edits of a file.                                                    *)

\* Induction, of a set instead of a formula: the numbers outside it have no least.
LEMMA NatSetInduction ==
  ASSUME NEW S, 0 \in S, \A n \in Nat : n \in S => n + 1 \in S
  PROVE  Nat \subseteq S
<1> DEFINE T == Nat \ S
           R == OpToRel(<, Nat)
<1> SUFFICES ASSUME T # {} PROVE FALSE
  OBVIOUS
<1>1. IsWellFoundedOn(R, Nat)
  BY NatLessThanWellFounded
<1> HIDE DEF R
<1>2. PICK x \in T : \A y \in T : <<y, x>> \notin R
  BY <1>1, WFMin, T \subseteq Nat
<1>3. \A y \in T : ~(y < x)
  BY <1>2 DEF R, OpToRel
<1>4. x # 0 /\ x - 1 \in Nat /\ x - 1 \notin T
  BY <1>3
<1> QED
  BY <1>2, <1>4

\* Induction over the first numbers.
LEMMA CountUp ==
  ASSUME NEW n \in Nat, NEW K, 0 \in K, \A i \in 1..n : i - 1 \in K => i \in K
  PROVE  \A i \in 0..n : i \in K
<1> DEFINE S == {k \in Nat : k <= n => k \in K}
<1>1. 0 \in S
  OBVIOUS
<1>2. ASSUME NEW k \in Nat, k \in S PROVE k + 1 \in S
  <2>1. ASSUME k + 1 <= n PROVE k + 1 \in K
    <3>1. k + 1 \in 1..n /\ (k + 1) - 1 = k /\ k \in K
      BY <1>2, <2>1
    <3> QED
      BY <3>1
  <2> QED
    BY <2>1
<1>3. Nat \subseteq S
  <2> HIDE DEF S
  <2> QED
    BY <1>1, <1>2, NatSetInduction
<1> QED
  BY <1>3

\* What is computed step by step exists, whatever the step.
Steps(step, n, S) == \A i \in 1..n : \A s \in S : step[i][s] \in S

Computes(f, step, first, n, S) ==
  /\ f \in [0..n -> S] /\ f[0] = first
  /\ \A i \in 1..n : f[i] = step[i][f[i-1]]

LEMMA StepsExist ==
  ASSUME NEW n \in Nat, NEW S, NEW first \in S, NEW step, Steps(step, n, S)
  PROVE  \E f : Computes(f, step, first, n, S)
<1> DEFINE Good(f, k) == f[0] = first /\ \A i \in 1..k : f[i] = step[i][f[i-1]]
           K == {k \in 0..n : \E f \in [0..k -> S] : Good(f, k)}
<1>1. 0 \in K
  <2>1. [i \in 0..0 |-> first] \in [0..0 -> S] /\ Good([i \in 0..0 |-> first], 0)
    OBVIOUS
  <2>2. \E f \in [0..0 -> S] : Good(f, 0)
    BY <2>1
  <2> HIDE DEF Good
  <2> QED
    BY <2>2
<1>2. ASSUME NEW k \in 1..n, k - 1 \in K PROVE k \in K
  <2>1. PICK f \in [0..k-1 -> S] : Good(f, k - 1)
    BY <1>2
  <2> DEFINE s == step[k][f[k-1]]
             g == [i \in 0..k |-> IF i = k THEN s ELSE f[i]]
  <2>2. s \in S
    <3>1. f[k-1] \in S
      OBVIOUS
    <3> QED
      BY <3>1 DEF Steps
  <2>3. g \in [0..k -> S] /\ g[k] = s /\ \A i \in 0..k-1 : g[i] = f[i]
    <3> HIDE DEF s
    <3> QED
      BY <2>2
  <2>4. Good(g, k)
    <3>1. g[0] = first
      BY <2>1, <2>3
    <3>2. ASSUME NEW i \in 1..k PROVE g[i] = step[i][g[i-1]]
      <4>1. CASE i = k
        <5>1. k - 1 \in 0..k-1
          OBVIOUS
        <5>2. g[k-1] = f[k-1]
          BY <2>3, <5>1
        <5> QED
          BY <2>3, <4>1, <5>2
      <4>2. CASE i # k
        <5>1. i \in 0..k-1 /\ i - 1 \in 0..k-1 /\ i \in 1..k-1
          BY <4>2
        <5>2. g[i] = f[i] /\ g[i-1] = f[i-1]
          BY <2>3, <5>1
        <5> QED
          BY <2>1, <5>1, <5>2
      <4> QED
        BY <4>1, <4>2
    <3> HIDE DEF g
    <3> QED
      BY <3>1, <3>2
  <2> HIDE DEF g, Good
  <2> QED
    BY <2>3, <2>4
<1>3. n \in K
  <2> HIDE DEF K
  <2>1. n \in 0..n
    OBVIOUS
  <2> QED
    BY <1>1, <1>2, <2>1, CountUp
<1> QED
  BY <1>3 DEF Computes

\* Two sequences are equal when they are at every place.
LEMMA SeqsEqual ==
  ASSUME NEW S, NEW T, NEW s \in Seq(S), NEW t \in Seq(T), Len(s) = Len(t),
         \A i \in 1..Len(s) : s[i] = t[i]
  PROVE  s = t
<1>1. s = [i \in 1..Len(s) |-> s[i]] /\ t = [i \in 1..Len(t) |-> t[i]]
  OBVIOUS
<1> QED
  BY <1>1

-----------------------------------------------------------------------------
(* Lines.                                                                  *)

Words == Tokens \ {LineEnd}

\* At least one line, as strings.Split has it.
SomeLines == {lines \in Seq(Seq(Words)) : lines # <<>>}

LEMMA AddTokenIs ==
  ASSUME NEW lines \in SomeLines, NEW token \in Tokens
  PROVE  /\ AddToken(lines, token) \in SomeLines
         /\ token = LineEnd => AddToken(lines, token) = Append(lines, <<>>)
         /\ token # LineEnd =>
              AddToken(lines, token)
                = [lines EXCEPT ![Len(lines)] = Append(lines[Len(lines)], token)]
<1> DEFINE W == Seq(Words)
<1>1. lines \in Seq(W) /\ Len(lines) \in Nat \ {0} /\ Len(lines) \in DOMAIN lines
  BY DEF SomeLines
<1>2. <<>> \in W
  OBVIOUS
<1>3. lines[Len(lines)] \in W
  BY <1>1
<1>4. CASE token = LineEnd
  <2>1. AddToken(lines, token) = Append(lines, <<>>)
    BY <1>4 DEF AddToken
  <2>2. Append(lines, <<>>) \in Seq(W) /\ Append(lines, <<>>) # <<>>
    <3> HIDE DEF W
    <3> QED
      BY <1>1, <1>2
  <2> QED
    BY <1>4, <2>1, <2>2 DEF SomeLines
<1>5. CASE token # LineEnd
  <2>1. AddToken(lines, token)
          = [lines EXCEPT ![Len(lines)] = Append(lines[Len(lines)], token)]
    BY <1>5 DEF AddToken
  <2>2. Append(lines[Len(lines)], token) \in W
    BY <1>3, <1>5 DEF Words
  <2>3. [lines EXCEPT ![Len(lines)] = Append(lines[Len(lines)], token)] \in SomeLines
    <3> DEFINE w == Append(lines[Len(lines)], token)
               n == Len(lines)
    <3>1. w \in W
      BY <2>2
    <3> HIDE DEF w, W
    <3>2. [lines EXCEPT ![n] = w] \in Seq(W) /\ Len([lines EXCEPT ![n] = w]) = n
      BY <1>1, <3>1
    <3>3. [lines EXCEPT ![n] = w] # <<>>
      BY <1>1, <3>2
    <3> QED
      BY <3>2, <3>3 DEF SomeLines, W, w
  <2> QED
    BY <1>5, <2>1, <2>3
<1> QED
  BY <1>4, <1>5

\* f splits the text, token by token.
Splits(f, text) ==
  /\ f \in [0..Len(text) -> SomeLines] /\ f[0] = <<<<>>>>
  /\ \A i \in 1..Len(text) : f[i] = AddToken(f[i-1], text[i])

LEMMA SplitAtIs ==
  ASSUME NEW text \in Seq(Tokens)
  PROVE  \E f : Splits(f, text) /\ SplitAt(text) = f[Len(text)]
<1> DEFINE n == Len(text)
           G(f) == f = [i \in 0..n |-> IF i = 0 THEN <<<<>>>> ELSE AddToken(f[i-1], text[i])]
           step == [i \in 1..n |-> [lines \in SomeLines |-> AddToken(lines, text[i])]]
<1>1. n \in Nat /\ \A i \in 1..n : text[i] \in Tokens
  OBVIOUS
<1> HIDE DEF n
<1>2. <<<<>>>> \in SomeLines
  BY DEF SomeLines
<1>3. Steps(step, n, SomeLines)
  BY <1>1, AddTokenIs DEF Steps
<1>4. PICK f \in [0..n -> SomeLines] :
        f[0] = <<<<>>>> /\ \A i \in 1..n : f[i] = step[i][f[i-1]]
  <2> DEFINE base == <<<<>>>>
  <2> HIDE DEF step, G
  <2>1. base \in SomeLines
    BY <1>2
  <2> HIDE DEF base
  <2>2. \E f : Computes(f, step, base, n, SomeLines)
    <3>1. n \in Nat
      BY <1>1
    <3>2. Steps(step, n, SomeLines)
      BY <1>3
    <3> QED
      BY <3>1, <3>2, <2>1, StepsExist
  <2> QED
    BY <2>2 DEF base, Computes
<1>5. \A i \in 1..n : f[i] = AddToken(f[i-1], text[i])
  <2>1. \A i \in 1..n : i - 1 \in 0..n
    BY <1>1
  <2> QED
    BY <1>4, <2>1
<1>6. G(f)
  <2>1. ASSUME NEW i \in 0..n
        PROVE  f[i] = IF i = 0 THEN <<<<>>>> ELSE AddToken(f[i-1], text[i])
    <3>1. i # 0 => i \in 1..n
      BY <1>1
    <3> QED
      BY <1>4, <1>5, <3>1
  <2>2. f = [i \in 0..n |-> f[i]]
    BY <1>4
  <2> QED
    BY <2>1, <2>2
<1> DEFINE g == CHOOSE h : G(h)
<1>7. G(g)
  <2> HIDE DEF G
  <2> QED
    BY <1>6
<1>8. SplitAt(text) = g[n]
  BY DEF SplitAt, n
<1> HIDE DEF g
<1>9. /\ DOMAIN g = 0..n /\ g[0] = <<<<>>>>
      /\ \A i \in 1..n : g[i] = AddToken(g[i-1], text[i])
  <2>1. /\ DOMAIN g = 0..n
        /\ \A i \in 0..n : g[i] = IF i = 0 THEN <<<<>>>> ELSE AddToken(g[i-1], text[i])
    BY <1>7
  <2>2. 0 \in 0..n /\ \A i \in 1..n : i \in 0..n /\ i # 0
    BY <1>1
  <2> QED
    BY <2>1, <2>2
<1>10. \A i \in 0..n : g[i] \in SomeLines
  <2> DEFINE K == {i \in 0..n : g[i] \in SomeLines}
  <2>1. 0 \in K
    BY <1>1, <1>2, <1>9
  <2>2. ASSUME NEW i \in 1..n, i - 1 \in K PROVE i \in K
    <3>1. g[i-1] \in SomeLines /\ text[i] \in Tokens /\ i \in 0..n
      BY <1>1, <2>2
    <3>2. AddToken(g[i-1], text[i]) \in SomeLines
      BY <3>1, AddTokenIs
    <3> QED
      BY <1>9, <3>1, <3>2
  <2>3. \A i \in 0..n : i \in K
    <3> HIDE DEF K
    <3> QED
      BY <1>1, <2>1, <2>2, CountUp
  <2> QED
    BY <2>3
<1>11. g = [i \in 0..n |-> g[i]]
  BY <1>7, <1>9
<1>12. g \in [0..n -> SomeLines]
  BY <1>10, <1>11
<1> QED
  BY <1>8, <1>9, <1>12 DEF Splits, n

\* Induction over a sequence: what holds of the empty one and stays when an
\* element is appended.
LEMMA SeqGrows ==
  ASSUME NEW S, NEW s \in Seq(S), NEW K, <<>> \in K,
         \A v \in Seq(S), x \in S : v \in K => Append(v, x) \in K
  PROVE  s \in K
<1> DEFINE n == Len(s)
           First(j) == SubSeq(s, 1, j)
           J == {j \in 0..n : First(j) \in K}
<1>1. n \in Nat /\ \A i \in 1..n : s[i] \in S
  OBVIOUS
<1>2. First(0) = <<>> /\ First(n) = s
  BY SubSeqEmpty, SubSeqFull
<1>3. ASSUME NEW j \in 1..n
      PROVE  First(j - 1) \in Seq(S) /\ First(j) = Append(First(j - 1), s[j])
  <2>1. j \in 1..Len(s) /\ 1 \in 1..Len(s) /\ j - 1 \in Int /\ s[j] \in S
    BY <1>1
  <2>2. First(j - 1) \in Seq(S)
    <3>1. \A i \in 1..j-1 : s[i] \in S
      BY <1>1
    <3> QED
      BY <2>1, <3>1, SubSeqProperties
  <2>3. First(j) = First(j - 1) \o <<s[j]>>
    BY <2>1, SubSeqRecursiveSecond
  <2> QED
    BY <2>1, <2>2, <2>3, AppendIsConcat
<1> HIDE DEF First
<1>4. 0 \in J
  BY <1>1, <1>2
<1>5. ASSUME NEW j \in 1..n, j - 1 \in J PROVE j \in J
  <2>1. First(j - 1) \in K /\ s[j] \in S /\ j \in 0..n
    BY <1>1, <1>5
  <2>2. Append(First(j - 1), s[j]) \in K
    BY <1>3, <2>1
  <2> QED
    BY <1>3, <2>1, <2>2
<1>6. n \in J
  <2> HIDE DEF J
  <2>1. n \in 0..n
    BY <1>1
  <2> QED
    BY <1>1, <1>4, <1>5, <2>1, CountUp
<1> QED
  BY <1>2, <1>6

LEMMA SplitAppend ==
  ASSUME NEW a \in Seq(Tokens), NEW x \in Tokens
  PROVE  SplitAt(a) \in SomeLines /\ SplitAt(Append(a, x)) = AddToken(SplitAt(a), x)
<1> DEFINE b == Append(a, x)
           n == Len(a)
<1>1. b \in Seq(Tokens) /\ Len(b) = n + 1 /\ b[n+1] = x /\ \A i \in 1..n : b[i] = a[i]
  BY AppendProperties
<1>2. n \in Nat
  OBVIOUS
<1> HIDE DEF b
<1>3. PICK f : Splits(f, a) /\ SplitAt(a) = f[n]
  BY SplitAtIs
<1>4. PICK g : Splits(g, b) /\ SplitAt(b) = g[n+1]
  BY <1>1, SplitAtIs
<1> HIDE DEF n
<1>5. f \in [0..n -> SomeLines] /\ f[0] = <<<<>>>>
      /\ \A i \in 1..n : f[i] = AddToken(f[i-1], a[i])
  BY <1>3 DEF Splits, n
<1>6. g[0] = <<<<>>>> /\ \A i \in 1..n+1 : g[i] = AddToken(g[i-1], b[i])
  BY <1>1, <1>4 DEF Splits
<1> DEFINE K == {i \in 0..n : f[i] = g[i]}
<1>7. 0 \in K
  BY <1>2, <1>5, <1>6
<1>8. ASSUME NEW i \in 1..n, i - 1 \in K PROVE i \in K
  <2>1. f[i-1] = g[i-1] /\ i \in 1..n+1 /\ i \in 0..n
    BY <1>2, <1>8
  <2> QED
    BY <1>1, <1>5, <1>6, <2>1
<1>9. n \in K
  <2> HIDE DEF K
  <2>1. n \in 0..n
    BY <1>2
  <2> QED
    BY <1>2, <1>7, <1>8, <2>1, CountUp
<1>10. f[n] = g[n] /\ f[n] \in SomeLines
  BY <1>2, <1>5, <1>9
<1>11. g[n+1] = AddToken(g[n], x)
  <2>1. n + 1 \in 1..n+1 /\ (n + 1) - 1 = n
    BY <1>2
  <2> QED
    BY <1>1, <1>6, <2>1
<1> QED
  BY <1>3, <1>4, <1>10, <1>11 DEF b

LEMMA SplitNothing == SplitAt(<<>>) = <<<<>>>> /\ <<<<>>>> \in SomeLines
<1>1. <<>> \in Seq(Tokens) /\ Len(<<>>) = 0
  OBVIOUS
<1>2. PICK f : Splits(f, <<>>) /\ SplitAt(<<>>) = f[0]
  BY <1>1, SplitAtIs
<1> QED
  BY <1>1, <1>2 DEF Splits, SomeLines

LEMMA SplitTyped ==
  ASSUME NEW a \in Seq(Tokens)
  PROVE  SplitAt(a) \in SomeLines
<1>1. PICK f : Splits(f, a) /\ SplitAt(a) = f[Len(a)]
  BY SplitAtIs
<1>2. Len(a) \in 0..Len(a)
  OBVIOUS
<1> QED
  BY <1>1, <1>2 DEF Splits

\* The last of some lines with more to it.
Extended(lines, w) == [lines EXCEPT ![Len(lines)] = lines[Len(lines)] \o w]

LEMMA ExtendedIs ==
  ASSUME NEW lines \in SomeLines, NEW w \in Seq(Words)
  PROVE  /\ Extended(lines, w) \in SomeLines /\ Len(Extended(lines, w)) = Len(lines)
         /\ Len(lines) \in Nat \ {0} /\ lines[Len(lines)] \in Seq(Words)
         /\ Extended(lines, w)[Len(lines)] = lines[Len(lines)] \o w
         /\ \A i \in 1..Len(lines)-1 : Extended(lines, w)[i] = lines[i]
<1> DEFINE W == Seq(Words)
           n == Len(lines)
           e == lines[n] \o w
<1>1. lines \in Seq(W) /\ n \in Nat \ {0} /\ n \in 1..n
  BY DEF SomeLines
<1>2. lines[n] \in W
  BY <1>1
<1>3. e \in W
  BY <1>2, ConcatProperties
<1> HIDE DEF e, W
<1>4. /\ [lines EXCEPT ![n] = e] \in Seq(W) /\ Len([lines EXCEPT ![n] = e]) = n
      /\ \A j \in 1..n : [lines EXCEPT ![n] = e][j] = IF j = n THEN e ELSE lines[j]
  BY <1>1, <1>3, ExceptSeq
<1>5. Extended(lines, w) = [lines EXCEPT ![n] = e]
  BY DEF Extended, e
<1> HIDE DEF n
<1>6. /\ Extended(lines, w) \in Seq(W) /\ Len(Extended(lines, w)) = n
      /\ Extended(lines, w)[n] = e /\ \A j \in 1..n-1 : Extended(lines, w)[j] = lines[j]
  BY <1>1, <1>4, <1>5
<1>7. Extended(lines, w) # <<>>
  BY <1>1, <1>6
<1> QED
  BY <1>1, <1>2, <1>6, <1>7 DEF SomeLines, W, n, e

\* A text goes on without a line end: its last line does.
LEMMA SplitConcat ==
  ASSUME NEW a \in Seq(Tokens), NEW w \in Seq(Words)
  PROVE  SplitAt(a \o w) = Extended(SplitAt(a), w)
<1> DEFINE s == SplitAt(a)
           K == {v \in Seq(Words) : SplitAt(a \o v) = Extended(s, v)}
<1>1. s \in SomeLines
  BY SplitTyped
<1> HIDE DEF s
<1>2. \A v \in Seq(Words) : v \in Seq(Tokens)
  BY SeqMonotonic DEF Words
<1>3. <<>> \in K
  <2>1. <<>> \in Seq(Words) /\ a \o <<>> = a
    BY ConcatEmptySeq
  <2>2. Extended(s, <<>>) = s
    <3> DEFINE t == Extended(s, <<>>)
               l == s[Len(s)]
    <3>1. /\ t \in SomeLines /\ Len(t) = Len(s) /\ Len(s) \in Nat \ {0}
          /\ t[Len(s)] = l \o <<>> /\ l \in Seq(Words)
          /\ \A i \in 1..Len(s)-1 : t[i] = s[i]
      BY <1>1, <2>1, ExtendedIs
    <3>2. l \o <<>> = l
      BY <3>1, ConcatEmptySeq
    <3> HIDE DEF t
    <3>3. \A i \in 1..Len(s) : t[i] = s[i]
      BY <3>1, <3>2
    <3>4. s \in Seq(Seq(Words)) /\ t \in Seq(Seq(Words))
      BY <1>1, <3>1 DEF SomeLines
    <3> QED
      BY <3>1, <3>3, <3>4, SeqsEqual DEF t
  <2> QED
    BY <2>1, <2>2 DEF s
<1>4. ASSUME NEW v \in Seq(Words), NEW x \in Words, v \in K PROVE Append(v, x) \in K
  <2> DEFINE u == Append(v, x)
             e == Extended(s, v)
             d == Extended(s, u)
             n == Len(s)
  <2>1. u \in Seq(Words) /\ v \in Seq(Tokens) /\ x \in Tokens /\ x # LineEnd
    BY <1>2 DEF Words
  <2>2. a \o u = Append(a \o v, x) /\ a \o v \in Seq(Tokens)
    <3>1. a \o v \in Seq(Tokens) /\ <<x>> \in Seq(Tokens)
      BY <2>1, ConcatProperties
    <3>2. u = v \o <<x>> /\ Append(a \o v, x) = (a \o v) \o <<x>>
      BY <2>1, <3>1, AppendIsConcat
    <3>3. (a \o v) \o <<x>> = a \o (v \o <<x>>)
      BY <2>1, <3>1, ConcatAssociative
    <3> QED
      BY <3>1, <3>2, <3>3
  <2>3. SplitAt(a \o u) = AddToken(SplitAt(a \o v), x) /\ SplitAt(a \o v) \in SomeLines
    <3> HIDE DEF u
    <3> QED
      BY <2>1, <2>2, SplitAppend
  <2>4. SplitAt(a \o v) = e /\ e \in SomeLines
    BY <1>4, <2>3
  <2> HIDE DEF e, d, u
  <2>5. /\ e \in SomeLines /\ Len(e) = n /\ n \in Nat \ {0} /\ s[n] \in Seq(Words)
        /\ e[n] = s[n] \o v /\ \A i \in 1..n-1 : e[i] = s[i]
    BY <1>1, ExtendedIs DEF e
  <2>6. /\ d \in SomeLines /\ Len(d) = n
        /\ d[n] = s[n] \o u /\ \A i \in 1..n-1 : d[i] = s[i]
    BY <1>1, <2>1, ExtendedIs DEF d
  <2>7. s[n] \o u = Append(s[n] \o v, x)
    <3> DEFINE l == s[n]
    <3>1. l \in Seq(Words) /\ <<x>> \in Seq(Words)
      BY <2>5
    <3> HIDE DEF l
    <3>2. l \o v \in Seq(Words)
      BY <3>1, ConcatProperties
    <3>3. u = v \o <<x>> /\ Append(l \o v, x) = (l \o v) \o <<x>>
      BY <3>2, AppendIsConcat DEF u
    <3>4. (l \o v) \o <<x>> = l \o (v \o <<x>>)
      BY <3>1, ConcatAssociative
    <3> QED
      BY <3>3, <3>4 DEF l
  <2> HIDE DEF n
  <2>8. AddToken(e, x) = [e EXCEPT ![n] = Append(e[n], x)] /\ AddToken(e, x) \in SomeLines
    BY <2>1, <2>4, <2>5, AddTokenIs
  <2>9. /\ AddToken(e, x)[n] = d[n] /\ Len(AddToken(e, x)) = n
        /\ \A i \in 1..n-1 : AddToken(e, x)[i] = d[i]
    <3> DEFINE c == Append(e[n], x)
    <3>1. c = d[n]
      BY <2>5, <2>6, <2>7
    <3>2. e \in Seq(Seq(Words)) /\ d \in Seq(Seq(Words))
      BY <2>4, <2>6 DEF SomeLines
    <3>3. n \in 1..Len(e) /\ d[n] \in Seq(Words)
      <4>1. n \in 1..Len(e) /\ n \in 1..Len(d)
        BY <2>5, <2>6
      <4> QED
        BY <3>2, <4>1, ElementOfSeq
    <3> HIDE DEF c
    <3>4. /\ Len([e EXCEPT ![n] = c]) = Len(e)
          /\ \A j \in 1..Len(e) : [e EXCEPT ![n] = c][j] = IF j = n THEN c ELSE e[j]
      BY <3>1, <3>2, <3>3, ExceptSeq
    <3> QED
      BY <2>5, <2>6, <2>8, <3>1, <3>3, <3>4 DEF c
  <2>10. AddToken(e, x) = d
    <3> DEFINE t == AddToken(e, x)
    <3>1. t \in Seq(Seq(Words)) /\ d \in Seq(Seq(Words))
      BY <2>6, <2>8 DEF SomeLines
    <3> HIDE DEF t
    <3>2. \A i \in 1..n : t[i] = d[i]
      BY <2>5, <2>9 DEF t
    <3> QED
      BY <2>6, <2>9, <3>1, <3>2, SeqsEqual DEF t
  <2> QED
    BY <2>1, <2>3, <2>4, <2>10 DEF d, u
<1>5. w \in K
  <2> HIDE DEF K
  <2> QED
    BY <1>3, <1>4, SeqGrows
<1> QED
  BY <1>5 DEF s

\* f joins the lines, one by one.
Joins(f, lines) ==
  /\ f \in [0..Len(lines) -> Seq(Tokens)] /\ f[0] = <<>>
  /\ \A i \in 1..Len(lines) : f[i] = AddLine(f[i-1], i, lines[i])

LEMMA AddLineIs ==
  ASSUME NEW text \in Seq(Tokens), NEW i, NEW line \in Seq(Words)
  PROVE  AddLine(text, i, line) \in Seq(Tokens)
<1>1. line \in Seq(Tokens) /\ Append(text, LineEnd) \in Seq(Tokens)
  BY FileEditsAssumption, SeqMonotonic, AppendProperties DEF Words
<1>2. Append(text, LineEnd) \o line \in Seq(Tokens)
  BY <1>1, ConcatProperties
<1> QED
  BY <1>1, <1>2 DEF AddLine

LEMMA JoinIs ==
  ASSUME NEW lines \in Seq(Seq(Words))
  PROVE  \E f : Joins(f, lines) /\ Join(lines) = f[Len(lines)]
<1> DEFINE n == Len(lines)
           T == Seq(Tokens)
           G(f) == f = [i \in 0..n |-> IF i = 0 THEN <<>> ELSE AddLine(f[i-1], i, lines[i])]
           step == [i \in 1..n |-> [text \in T |-> AddLine(text, i, lines[i])]]
<1>1. n \in Nat /\ \A i \in 1..n : lines[i] \in Seq(Words)
  OBVIOUS
<1> HIDE DEF n
<1>2. <<>> \in T
  OBVIOUS
<1> HIDE DEF T
<1>3. Steps(step, n, T)
  BY <1>1, AddLineIs DEF Steps, T
<1>4. PICK f \in [0..n -> T] :
        f[0] = <<>> /\ \A i \in 1..n : f[i] = step[i][f[i-1]]
  <2> DEFINE base == <<>>
  <2> HIDE DEF step, G
  <2>1. base \in T
    BY <1>2
  <2> HIDE DEF base
  <2>2. \E f : Computes(f, step, base, n, T)
    <3>1. n \in Nat
      BY <1>1
    <3>2. Steps(step, n, T)
      BY <1>3
    <3> QED
      BY <3>1, <3>2, <2>1, StepsExist
  <2> QED
    BY <2>2 DEF base, Computes
<1>5. \A i \in 1..n : f[i] = AddLine(f[i-1], i, lines[i])
  <2>1. \A i \in 1..n : i - 1 \in 0..n
    BY <1>1
  <2> QED
    BY <1>4, <2>1
<1>6. G(f)
  <2>1. ASSUME NEW i \in 0..n
        PROVE  f[i] = IF i = 0 THEN <<>> ELSE AddLine(f[i-1], i, lines[i])
    <3>1. i # 0 => i \in 1..n
      BY <1>1
    <3> QED
      BY <1>4, <1>5, <3>1
  <2>2. f = [i \in 0..n |-> f[i]]
    BY <1>4
  <2> QED
    BY <2>1, <2>2
<1> DEFINE g == CHOOSE h : G(h)
<1>7. G(g)
  <2> HIDE DEF G
  <2> QED
    BY <1>6
<1>8. Join(lines) = g[n]
  BY DEF Join, n
<1> HIDE DEF g
<1>9. /\ DOMAIN g = 0..n /\ g[0] = <<>>
      /\ \A i \in 1..n : g[i] = AddLine(g[i-1], i, lines[i])
  <2>1. /\ DOMAIN g = 0..n
        /\ \A i \in 0..n : g[i] = IF i = 0 THEN <<>> ELSE AddLine(g[i-1], i, lines[i])
    BY <1>7
  <2>2. 0 \in 0..n /\ \A i \in 1..n : i \in 0..n /\ i # 0
    BY <1>1
  <2> QED
    BY <2>1, <2>2
<1>10. \A i \in 0..n : g[i] \in T
  <2> DEFINE K == {i \in 0..n : g[i] \in T}
  <2>1. 0 \in K
    BY <1>1, <1>2, <1>9
  <2>2. ASSUME NEW i \in 1..n, i - 1 \in K PROVE i \in K
    <3>1. g[i-1] \in T /\ lines[i] \in Seq(Words) /\ i \in 0..n
      BY <1>1, <2>2
    <3>2. AddLine(g[i-1], i, lines[i]) \in T
      BY <3>1, AddLineIs DEF T
    <3> QED
      BY <1>9, <3>1, <3>2
  <2>3. \A i \in 0..n : i \in K
    <3> HIDE DEF K
    <3> QED
      BY <1>1, <2>1, <2>2, CountUp
  <2> QED
    BY <2>3
<1>11. g = [i \in 0..n |-> g[i]]
  BY <1>7, <1>9
<1>12. g \in [0..n -> T]
  BY <1>10, <1>11
<1> QED
  BY <1>8, <1>9, <1>12 DEF Joins, n, T

LEMMA JoinNothing == Join(<<>>) = <<>>
<1>1. <<>> \in Seq(Seq(Words)) /\ Len(<<>>) = 0
  OBVIOUS
<1>2. PICK f : Joins(f, <<>>) /\ Join(<<>>) = f[0]
  BY <1>1, JoinIs
<1> QED
  BY <1>1, <1>2 DEF Joins

LEMMA JoinAppend ==
  ASSUME NEW a \in Seq(Seq(Words)), NEW x \in Seq(Words)
  PROVE  /\ Join(a) \in Seq(Tokens)
         /\ Join(Append(a, x)) = IF a = <<>> THEN x ELSE Append(Join(a), LineEnd) \o x
<1> DEFINE W == Seq(Words)
           b == Append(a, x)
           n == Len(a)
<1>1. b \in Seq(W) /\ Len(b) = n + 1 /\ b[n+1] = x /\ \A i \in 1..n : b[i] = a[i]
  BY AppendProperties
<1>2. n \in Nat /\ (n = 0 <=> a = <<>>)
  OBVIOUS
<1> HIDE DEF b, W
<1>3. PICK f : Joins(f, a) /\ Join(a) = f[n]
  BY JoinIs
<1>4. PICK g : Joins(g, b) /\ Join(b) = g[n+1]
  BY <1>1, JoinIs DEF W
<1> HIDE DEF n
<1>5. f \in [0..n -> Seq(Tokens)] /\ f[0] = <<>>
      /\ \A i \in 1..n : f[i] = AddLine(f[i-1], i, a[i])
  BY <1>3 DEF Joins, n
<1>6. g[0] = <<>> /\ \A i \in 1..n+1 : g[i] = AddLine(g[i-1], i, b[i])
  BY <1>1, <1>4 DEF Joins
<1> DEFINE K == {i \in 0..n : f[i] = g[i]}
<1>7. 0 \in K
  BY <1>2, <1>5, <1>6
<1>8. ASSUME NEW i \in 1..n, i - 1 \in K PROVE i \in K
  <2>1. f[i-1] = g[i-1] /\ i \in 1..n+1 /\ i \in 0..n
    BY <1>2, <1>8
  <2> QED
    BY <1>1, <1>5, <1>6, <2>1
<1>9. n \in K
  <2> HIDE DEF K
  <2>1. n \in 0..n
    BY <1>2
  <2> QED
    BY <1>2, <1>7, <1>8, <2>1, CountUp
<1>10. f[n] = g[n] /\ f[n] \in Seq(Tokens)
  BY <1>2, <1>5, <1>9
<1>11. g[n+1] = AddLine(g[n], n + 1, x)
  <2>1. n + 1 \in 1..n+1 /\ (n + 1) - 1 = n
    BY <1>2
  <2> QED
    BY <1>1, <1>6, <2>1
<1>12. n + 1 = 1 <=> a = <<>>
  BY <1>2
<1>13. Join(b) = IF n + 1 = 1 THEN x ELSE Append(Join(a), LineEnd) \o x
  BY <1>3, <1>4, <1>10, <1>11 DEF AddLine
<1> QED
  BY <1>3, <1>10, <1>12, <1>13 DEF b

\* A last line of nothing, and what is then written into it.
LEMMA ExtendedNew ==
  ASSUME NEW a \in Seq(Seq(Words)), NEW w \in Seq(Words)
  PROVE  Extended(Append(a, <<>>), w) = Append(a, w)
<1> DEFINE W == Seq(Words)
           none == <<>>
           b == Append(a, none)
           c == Append(a, w)
           n == Len(a)
<1>1. none \in W /\ none \o w = w /\ n \in Nat
  BY ConcatEmptySeq
<1> HIDE DEF none, W
<1>2. /\ b \in Seq(W) /\ b # <<>> /\ Len(b) = n + 1 /\ b[n+1] = none
      /\ \A i \in 1..n : b[i] = a[i]
  BY <1>1, AppendProperties DEF W
<1>3. c \in Seq(W) /\ Len(c) = n + 1 /\ c[n+1] = w /\ \A i \in 1..n : c[i] = a[i]
  BY AppendProperties DEF W
<1> HIDE DEF b, c, n
<1>4. b \in SomeLines
  BY <1>2 DEF SomeLines, W
<1> DEFINE d == Extended(b, w)
<1>5. /\ d \in SomeLines /\ Len(d) = n + 1 /\ d[n+1] = none \o w
      /\ \A i \in 1..n : d[i] = b[i]
  <2>1. /\ d \in SomeLines /\ Len(d) = Len(b)
        /\ d[Len(b)] = b[Len(b)] \o w /\ \A i \in 1..Len(b)-1 : d[i] = b[i]
    BY <1>4, ExtendedIs
  <2>2. Len(b) - 1 = n
    BY <1>1, <1>2
  <2> QED
    BY <1>2, <2>1, <2>2
<1> HIDE DEF d
<1>6. \A i \in 1..n+1 : d[i] = c[i]
  <2>1. \A i \in 1..n+1 : i = n + 1 \/ i \in 1..n
    BY <1>1
  <2>2. \A i \in 1..n : d[i] = c[i]
    BY <1>2, <1>3, <1>5
  <2>3. d[n+1] = c[n+1]
    BY <1>1, <1>3, <1>5
  <2> QED
    BY <2>1, <2>2, <2>3
<1>7. d \in Seq(W)
  BY <1>5 DEF SomeLines, W
<1>8. d = c
  BY <1>3, <1>5, <1>6, <1>7, SeqsEqual
<1> QED
  BY <1>8 DEF b, c, d, none

\* Lines that are joined are split into the same lines.
LEMMA SplitOfJoin ==
  ASSUME NEW lines \in SomeLines
  PROVE  SplitAt(Join(lines)) = lines
<1> DEFINE W == Seq(Words)
           K == {a \in Seq(W) : a # <<>> => SplitAt(Join(a)) = a}
<1>1. <<>> \in K
  OBVIOUS
<1>2. ASSUME NEW a \in Seq(W), NEW w \in W, a \in K
      PROVE  Append(a, w) \in K
  <2>0. Append(a, w) \in Seq(W)
    BY AppendProperties
  <2>1. CASE a = <<>>
    <3>1. w \in Seq(Tokens) /\ <<>> \in Seq(Tokens) /\ <<>> \o w = w
      BY SeqMonotonic, ConcatEmptySeq DEF Words
    <3>2. Join(Append(a, w)) = w
      BY <2>1, JoinAppend
    <3>3. SplitAt(<<>> \o w) = Extended(<<<<>>>>, w)
      BY <3>1, SplitConcat, SplitNothing
    <3>4. Append(a, <<>>) = <<<<>>>>
      BY <2>1
    <3>5. Extended(Append(a, <<>>), w) = Append(a, w)
      BY ExtendedNew
    <3> QED
      BY <2>0, <3>1, <3>2, <3>3, <3>4, <3>5
  <2>2. CASE a # <<>>
    <3> DEFINE j == Join(a)
               e == Append(j, LineEnd)
    <3>1. j \in Seq(Tokens) /\ Join(Append(a, w)) = e \o w
      BY <2>2, JoinAppend
    <3>2. SplitAt(j) = a /\ a \in SomeLines
      BY <1>2, <2>2 DEF SomeLines
    <3>3. LineEnd \in Tokens
      BY FileEditsAssumption
    <3> HIDE DEF j
    <3>4. e \in Seq(Tokens) /\ SplitAt(e) = AddToken(a, LineEnd)
      BY <3>1, <3>2, <3>3, AppendProperties, SplitAppend
    <3>5. AddToken(a, LineEnd) = Append(a, <<>>)
      BY <3>2, <3>3, AddTokenIs
    <3> HIDE DEF e
    <3>6. SplitAt(e \o w) = Extended(Append(a, <<>>), w)
      BY <3>4, <3>5, SplitConcat
    <3>7. SplitAt(Join(Append(a, w))) = Append(a, w)
      BY <3>1, <3>6, ExtendedNew
    <3> QED
      BY <2>0, <3>7
  <2> QED
    BY <2>1, <2>2
<1>3. lines \in Seq(W) /\ lines # <<>>
  BY DEF SomeLines
<1>4. lines \in K
  <2> HIDE DEF K
  <2> QED
    BY <1>1, <1>2, <1>3, SeqGrows
<1> QED
  BY <1>3, <1>4

\* Any sequence but the empty one is one with an element appended.
LEMMA LastApart ==
  ASSUME NEW S, NEW s \in Seq(S), s # <<>>
  PROVE  \E a \in Seq(S), x \in S :
           /\ s = Append(a, x) /\ Last(s) = x /\ s[Len(s)] = x /\ Front(s) = a
           /\ Len(s) = Len(a) + 1
<1> DEFINE n == Len(s)
           a == SubSeq(s, 1, n - 1)
<1>1. n \in Nat \ {0} /\ \A i \in 1..n : s[i] \in S
  OBVIOUS
<1>2. n - 1 \in Nat /\ n \in 1..n
  BY <1>1
<1>3. a \in Seq(S)
  <2>1. \A i \in 1..n-1 : s[i] \in S
    BY <1>1
  <2> QED
    BY <1>2, <2>1, SubSeqProperties
<1>4. SubSeq(s, 1, n) = a \o <<s[n]>>
  <2>1. 1 \in 1..Len(s) /\ n \in 1..Len(s)
    BY <1>2
  <2> QED
    BY <2>1, SubSeqRecursiveSecond
<1>5. s[n] \in S
  BY <1>1, <1>2
<1>6. s = Append(a, s[n])
  <2>1. SubSeq(s, 1, n) = s
    BY SubSeqFull
  <2> QED
    BY <1>3, <1>4, <1>5, <2>1, AppendIsConcat
<1>7. Last(s) = s[n] /\ Front(s) = a
  BY DEF Last, Front
<1> HIDE DEF a
<1>8. Len(Append(a, s[n])) = Len(a) + 1
  BY <1>3, <1>5, AppendProperties
<1> QED
  BY <1>3, <1>5, <1>6, <1>7, <1>8

LEMMA AppendedIs ==
  ASSUME NEW S, NEW a \in Seq(S), NEW x \in S
  PROVE  /\ Append(a, x) \in Seq(S) /\ Append(a, x) # <<>>
         /\ Last(Append(a, x)) = x /\ Front(Append(a, x)) = a
<1> DEFINE s == Append(a, x)
           n == Len(a)
<1>1. s \in Seq(S) /\ s # <<>> /\ Len(s) = n + 1 /\ s[n+1] = x /\ \A i \in 1..n : s[i] = a[i]
  BY AppendProperties
<1>2. n \in Nat
  OBVIOUS
<1> HIDE DEF s
<1>3. PICK b \in Seq(S) : Front(s) = b /\ Last(s) = s[Len(s)] /\ Len(s) = Len(b) + 1
                         /\ s = Append(b, Last(s)) /\ Last(s) \in S
  BY <1>1, LastApart
<1>4. Len(b) = n /\ Last(s) = x
  BY <1>1, <1>2, <1>3
<1>5. \A i \in 1..n : b[i] = a[i]
  <2>1. \A i \in 1..Len(b) : Append(b, Last(s))[i] = b[i]
    BY <1>3, AppendProperties
  <2> QED
    BY <1>1, <1>3, <1>4, <2>1
<1>6. b = a
  BY <1>4, <1>5, SeqEqual
<1> QED
  BY <1>1, <1>3, <1>4, <1>6 DEF s

\* A last line that is not empty ends the text.
LEMMA JoinEnds ==
  ASSUME NEW lines \in SomeLines
  PROVE  /\ Join(lines) \in Seq(Tokens)
         /\ Last(lines) # <<>> => Join(lines) # <<>> /\ Last(Join(lines)) # LineEnd
<1> DEFINE W == Seq(Words)
           t == Join(lines)
<1>1. lines \in Seq(W) /\ lines # <<>>
  BY DEF SomeLines
<1>2. PICK a \in Seq(W), w \in W : lines = Append(a, w) /\ Last(lines) = w
  <2> HIDE DEF W
  <2> QED
    BY <1>1, LastApart
<1>3. Join(a) \in Seq(Tokens) /\ t = IF a = <<>> THEN w ELSE Append(Join(a), LineEnd) \o w
  BY <1>2, JoinAppend
<1>4. w \in Seq(Tokens)
  BY SeqMonotonic DEF Words
<1> DEFINE p == IF a = <<>> THEN <<>> ELSE Append(Join(a), LineEnd)
<1>5. p \in Seq(Tokens)
  <2>1. LineEnd \in Tokens
    BY FileEditsAssumption
  <2>2. Append(Join(a), LineEnd) \in Seq(Tokens)
    BY <1>3, <2>1, AppendProperties
  <2> QED
    BY <2>2
<1>6. t = p \o w
  BY <1>3, <1>4, ConcatEmptySeq
<1> HIDE DEF p, t
<1>7. /\ t \in Seq(Tokens) /\ Len(t) = Len(p) + Len(w)
      /\ \A i \in 1..Len(p)+Len(w) : t[i] = IF i <= Len(p) THEN p[i] ELSE w[i - Len(p)]
  BY <1>4, <1>5, <1>6, ConcatProperties
<1>8. ASSUME w # <<>> PROVE t # <<>> /\ Last(t) # LineEnd
  <2>1. Len(w) \in Nat \ {0} /\ Len(p) \in Nat
    BY <1>5, <1>8
  <2>2. Len(p) + Len(w) \in 1..Len(p)+Len(w) /\ ~(Len(p) + Len(w) <= Len(p))
        /\ (Len(p) + Len(w)) - Len(p) = Len(w) /\ Len(w) \in 1..Len(w)
    BY <2>1
  <2>3. t[Len(t)] = w[Len(w)]
    BY <1>7, <2>2
  <2>4. w[Len(w)] \in Words
    BY <2>2, ElementOfSeq
  <2>5. Len(t) # 0
    BY <1>7, <2>1
  <2>6. t # <<>>
    BY <2>5
  <2> QED
    BY <2>3, <2>4, <2>6 DEF Last, Words
<1> QED
  BY <1>2, <1>7, <1>8 DEF t

\* What is read of a text that was joined of lines.
LEMMA ReadBack ==
  ASSUME NEW lines \in SomeLines, NEW trailing \in BOOLEAN, trailing \/ Last(lines) # <<>>
  PROVE  /\ SplitLines(JoinLines(lines, trailing)) = lines
         /\ trailing => EndsLine(JoinLines(lines, trailing))
<1> DEFINE t == Join(lines)
           u == Append(t, LineEnd)
<1>1. t \in Seq(Tokens) /\ SplitAt(t) = lines
  BY JoinEnds, SplitOfJoin
<1>2. CASE trailing
  <2>1. JoinLines(lines, trailing) = u
    BY <1>2 DEF JoinLines
  <2>2. LineEnd \in Tokens
    BY FileEditsAssumption
  <2> HIDE DEF t
  <2>3. u # <<>> /\ Last(u) = LineEnd /\ Front(u) = t
    BY <1>1, <2>2, AppendedIs
  <2> HIDE DEF u
  <2>4. EndsLine(u)
    BY <2>3 DEF EndsLine
  <2>5. SplitLines(u) = lines
    BY <1>1, <2>3, <2>4 DEF SplitLines
  <2> QED
    BY <2>1, <2>4, <2>5
<1>3. CASE ~trailing
  <2>1. JoinLines(lines, trailing) = t
    BY <1>3 DEF JoinLines
  <2>2. t # <<>> /\ Last(t) # LineEnd
    BY <1>3, JoinEnds
  <2> HIDE DEF t
  <2>3. SplitLines(t) = lines
    BY <1>1, <2>2 DEF SplitLines, EndsLine
  <2> QED
    BY <1>3, <2>1, <2>3
<1> QED
  BY <1>2, <1>3

\* The lines of any text, of which the last is empty only before a line end.
LEMMA SplitLinesIs ==
  ASSUME NEW text \in Seq(Tokens)
  PROVE  /\ SplitLines(text) \in Seq(Seq(Words))
         /\ text # <<>> /\ ~EndsLine(text) =>
              SplitLines(text) \in SomeLines /\ Last(SplitLines(text)) # <<>>
<1>1. CASE text = <<>>
  <2>1. SplitLines(text) = <<>>
    BY <1>1 DEF SplitLines
  <2>2. <<>> \in Seq(Seq(Words))
    BY EmptySeq
  <2> QED
    BY <1>1, <2>1, <2>2
<1>2. CASE text # <<>>
  <2>1. PICK a \in Seq(Tokens), x \in Tokens :
          text = Append(a, x) /\ Last(text) = x /\ Front(text) = a
    BY <1>2, LastApart
  <2>2. SplitAt(a) \in SomeLines /\ SplitAt(text) = AddToken(SplitAt(a), x)
    BY <2>1, SplitAppend
  <2>3. CASE x = LineEnd
    <3>1. SplitLines(text) = SplitAt(a) /\ EndsLine(text)
      BY <1>2, <2>1, <2>3 DEF SplitLines, EndsLine
    <3> QED
      BY <2>2, <3>1 DEF SomeLines
  <2>4. CASE x # LineEnd
    <3> DEFINE s == SplitAt(a)
               n == Len(s)
               w == Append(s[n], x)
               t == [s EXCEPT ![n] = w]
    <3>1. SplitLines(text) = SplitAt(text) /\ ~EndsLine(text)
      BY <1>2, <2>1, <2>4 DEF SplitLines, EndsLine
    <3>2. SplitAt(text) = t /\ SplitAt(text) \in SomeLines
      BY <2>2, <2>4, AddTokenIs
    <3>3. s \in Seq(Seq(Words)) /\ n \in 1..n /\ n \in Nat /\ s[n] \in Seq(Words)
      <4>1. s \in Seq(Seq(Words)) /\ s # <<>>
        BY <2>2 DEF SomeLines
      <4> HIDE DEF s
      <4>2. n \in Nat \ {0}
        BY <4>1
      <4>3. n \in 1..n
        BY <4>2
      <4> QED
        BY <4>1, <4>2, <4>3, ElementOfSeq
    <3>4. w \in Seq(Words) /\ w # <<>>
      <4>1. x \in Words
        BY <2>4 DEF Words
      <4> DEFINE l == s[n]
      <4>2. l \in Seq(Words)
        BY <3>3
      <4> HIDE DEF s, n, l
      <4>3. Append(l, x) \in Seq(Words) /\ Append(l, x) # <<>>
        BY <4>1, <4>2, AppendProperties
      <4> QED
        BY <4>3 DEF l
    <3> HIDE DEF s, w
    <3>5. t[n] = w /\ Len(t) = n
      BY <3>3, <3>4, ExceptSeq
    <3>6. Last(t) = w
      BY <3>5 DEF Last
    <3> HIDE DEF t
    <3> QED
      BY <3>1, <3>2, <3>4, <3>6 DEF SomeLines
  <2> QED
    BY <2>3, <2>4
<1> QED
  BY <1>1, <1>2

LEMMA JoinTyped ==
  ASSUME NEW lines \in Seq(Seq(Words))
  PROVE  /\ JoinLines(lines, TRUE) \in Seq(Tokens) /\ JoinLines(lines, FALSE) \in Seq(Tokens)
         /\ EndsLine(JoinLines(lines, TRUE))
<1> DEFINE t == Join(lines)
<1>1. t \in Seq(Tokens)
  <2>1. <<>> \in Seq(Words)
    BY EmptySeq
  <2> QED
    BY <2>1, JoinAppend
<1>2. LineEnd \in Tokens
  BY FileEditsAssumption
<1>3. JoinLines(lines, TRUE) = Append(t, LineEnd) /\ JoinLines(lines, FALSE) = t
  BY DEF JoinLines
<1> HIDE DEF t
<1>4. /\ Append(t, LineEnd) \in Seq(Tokens) /\ Append(t, LineEnd) # <<>>
      /\ Last(Append(t, LineEnd)) = LineEnd
  BY <1>1, <1>2, AppendedIs
<1> QED
  BY <1>1, <1>3, <1>4 DEF EndsLine

-----------------------------------------------------------------------------
(* Insert.                                                                 *)

\* The lines with one inserted.
InsertedIn(lines, at, new) ==
  SubSeq(lines, 1, at) \o <<new>> \o SubSeq(lines, at + 1, Len(lines))

IsInserted(out, lines, at, new, S) ==
  /\ out \in Seq(S) /\ Len(out) = Len(lines) + 1
  /\ \A i \in 1..at : out[i] = lines[i]
  /\ out[at+1] = new
  /\ \A i \in at+1..Len(lines) : out[i+1] = lines[i]

LEMMA InsertedIs ==
  ASSUME NEW S, NEW lines \in Seq(S), NEW at \in 0..Len(lines), NEW new \in S
  PROVE  IsInserted(InsertedIn(lines, at, new), lines, at, new, S)
<1> DEFINE n == Len(lines)
           b == SubSeq(lines, 1, at)
           c == SubSeq(lines, at + 1, n)
           l == <<new>>
           d == b \o l
           e == d \o c
<1>1. n \in Nat /\ at \in Nat /\ at <= n /\ \A i \in 1..n : lines[i] \in S
  OBVIOUS
<1>2. b \in Seq(S) /\ Len(b) = at /\ \A i \in 1..at : b[i] = lines[i]
  <2>1. \A i \in 1..at : lines[i] \in S
    BY <1>1
  <2>2. /\ SubSeq(lines, 1, at) \in Seq(S)
        /\ Len(SubSeq(lines, 1, at)) = IF 1 <= at THEN at - 1 + 1 ELSE 0
        /\ \A i \in 1..at-1+1 : SubSeq(lines, 1, at)[i] = lines[1+i-1]
    BY <1>1, <2>1, SubSeqProperties
  <2> QED
    BY <1>1, <2>2
<1>3. c \in Seq(S) /\ Len(c) = n - at /\ \A i \in 1..n-at : c[i] = lines[at+i]
  <2>1. \A i \in at+1..n : lines[i] \in S
    BY <1>1
  <2>2. at + 1 \in Int /\ n \in Int
    BY <1>1
  <2>3. /\ SubSeq(lines, at + 1, n) \in Seq(S)
        /\ Len(SubSeq(lines, at + 1, n)) = IF at + 1 <= n THEN n - (at + 1) + 1 ELSE 0
        /\ \A i \in 1..n-(at+1)+1 : SubSeq(lines, at + 1, n)[i] = lines[at+1+i-1]
    BY <2>1, <2>2, SubSeqProperties
  <2> QED
    BY <1>1, <2>3
<1>4. l \in Seq(S) /\ Len(l) = 1 /\ l[1] = new
  OBVIOUS
<1> HIDE DEF b, c, l
<1>5. /\ d \in Seq(S) /\ Len(d) = Len(b) + Len(l)
      /\ \A i \in 1..Len(b)+Len(l) : d[i] = IF i <= Len(b) THEN b[i] ELSE l[i - Len(b)]
  BY <1>2, <1>4, ConcatProperties
<1> HIDE DEF d
<1>6. /\ e \in Seq(S) /\ Len(e) = Len(d) + Len(c)
      /\ \A i \in 1..Len(d)+Len(c) : e[i] = IF i <= Len(d) THEN d[i] ELSE c[i - Len(d)]
  <2>1. c \in Seq(S) /\ d \in Seq(S)
    BY <1>3, <1>5
  <2> QED
    BY <2>1, ConcatProperties
<1> HIDE DEF e, n
<1>7. Len(d) = at + 1 /\ d[at+1] = new /\ \A i \in 1..at : d[i] = lines[i]
  BY <1>1, <1>2, <1>4, <1>5
<1>8. Len(e) = n + 1
  BY <1>1, <1>3, <1>6, <1>7
<1>9. \A i \in 1..at : e[i] = lines[i]
  BY <1>1, <1>3, <1>6, <1>7
<1>10. e[at+1] = new
  BY <1>1, <1>3, <1>6, <1>7
<1>11. ASSUME NEW i \in at+1..n PROVE e[i+1] = lines[i]
  <2>1. i + 1 \in 1..(at+1)+(n-at) /\ ~(i + 1 <= at + 1) /\ i - at \in 1..n-at
        /\ (i + 1) - (at + 1) = i - at /\ at + (i - at) = i
    BY <1>1
  <2>2. i + 1 \in 1..Len(d)+Len(c) /\ ~(i + 1 <= Len(d)) /\ (i + 1) - Len(d) = i - at
    BY <1>3, <1>7, <2>1
  <2>3. e[i+1] = c[i-at]
    BY <1>6, <2>2
  <2> QED
    BY <1>3, <2>1, <2>3
<1> QED
  BY <1>6, <1>8, <1>9, <1>10, <1>11 DEF IsInserted, InsertedIn, b, c, l, d, e, n

LEMMA PartIs ==
  ASSUME NEW S, NEW s \in Seq(S), NEW i \in Nat \ {0}, NEW k \in Nat, i + k - 1 <= Len(s)
  PROVE  /\ SubSeq(s, i, i + k - 1) \in Seq(S) /\ Len(SubSeq(s, i, i + k - 1)) = k
         /\ \A m \in 1..k : SubSeq(s, i, i + k - 1)[m] = s[i+m-1]
<1> DEFINE u == i + k - 1
           a == SubSeq(s, i, u)
<1>1. \A m \in i..u : s[m] \in S
  BY Len(s) \in Nat
<1>2. i \in Int /\ u \in Int
  OBVIOUS
<1>3. (IF i <= u THEN u - i + 1 ELSE 0) = k /\ u - i + 1 = k
  OBVIOUS
<1> HIDE DEF u
<1>4. /\ a \in Seq(S) /\ Len(a) = IF i <= u THEN u - i + 1 ELSE 0
      /\ \A m \in 1..u-i+1 : a[m] = s[i+m-1]
  BY <1>1, <1>2, SubSeqProperties
<1> HIDE DEF a
<1>5. Len(a) = k /\ \A m \in 1..k : a[m] = s[i+m-1]
  BY <1>3, <1>4
<1> QED
  BY <1>4, <1>5 DEF a, u

\* Parts of sequences, i..u of one and j..v of the other, that agree.
Agree(s, t, i, u, j, v) ==
  \E k \in Nat : /\ u = i + k - 1 /\ v = j + k - 1 /\ u <= Len(s) /\ v <= Len(t)
                 /\ i \in Nat \ {0} /\ j \in Nat \ {0}
                 /\ \A m \in 0..k-1 : s[i+m] = t[j+m]

SamePart(s, t, i, u, j, v) == SubSeq(s, i, u) = SubSeq(t, j, v)

LEMMA PartsEqual ==
  ASSUME NEW S, NEW s \in Seq(S), NEW t \in Seq(S), NEW i, NEW u, NEW j, NEW v,
         Agree(s, t, i, u, j, v)
  PROVE  SamePart(s, t, i, u, j, v)
<1> PICK k \in Nat : /\ u = i + k - 1 /\ v = j + k - 1 /\ u <= Len(s) /\ v <= Len(t)
                     /\ i \in Nat \ {0} /\ j \in Nat \ {0}
                     /\ \A m \in 0..k-1 : s[i+m] = t[j+m]
  BY DEF Agree
<1> DEFINE a == SubSeq(s, i, i + k - 1)
           b == SubSeq(t, j, j + k - 1)
<1>1. a \in Seq(S) /\ Len(a) = k /\ \A m \in 1..k : a[m] = s[i+m-1]
  BY PartIs
<1>2. b \in Seq(S) /\ Len(b) = k /\ \A m \in 1..k : b[m] = t[j+m-1]
  BY PartIs
<1> HIDE DEF a, b
<1>3. ASSUME NEW m \in 1..k PROVE a[m] = b[m]
  <2>1. m - 1 \in 0..k-1 /\ i + (m - 1) = i + m - 1 /\ j + (m - 1) = j + m - 1
    OBVIOUS
  <2>2. s[i+(m-1)] = t[j+(m-1)]
    BY <2>1
  <2> QED
    BY <1>1, <1>2, <2>1, <2>2
<1>4. a = b
  BY <1>1, <1>2, <1>3, SeqEqual
<1> QED
  BY <1>4 DEF a, b, SamePart

\* What the lines are with one inserted, and what is read of them.
ReadInserted(out, lines, at, new, S) ==
  /\ out \in Seq(S) /\ Len(out) = Len(lines) + 1
  /\ Last(out) = IF at = Len(lines) THEN new ELSE Last(lines)
  /\ SubSeq(out, at + 1, at + 1) = <<new>>
  /\ SubSeq(out, 1, at) = SubSeq(lines, 1, at)
  /\ SubSeq(out, at + 2, Len(lines) + 1) = SubSeq(lines, at + 1, Len(lines))

LEMMA InsertedReads ==
  ASSUME NEW S, NEW lines \in Seq(S), NEW at \in 0..Len(lines), NEW new \in S,
         NEW out, out = InsertedIn(lines, at, new)
  PROVE  ReadInserted(out, lines, at, new, S)
<1>1. /\ out \in Seq(S) /\ Len(out) = Len(lines) + 1
      /\ \A i \in 1..at : out[i] = lines[i]
      /\ out[at+1] = new
      /\ \A i \in at+1..Len(lines) : out[i+1] = lines[i]
  <2>1. IsInserted(out, lines, at, new, S)
    BY InsertedIs
  <2> QED
    BY <2>1 DEF IsInserted
<1>2. PICK n \in Nat : n = Len(lines)
  OBVIOUS
<1>3. at \in 0..n /\ at \in Nat /\ Len(out) = n + 1
  BY <1>1, <1>2
<1>4. Last(out) = IF at = n THEN new ELSE Last(lines)
  <2>1. Last(out) = out[n+1] /\ Last(lines) = lines[n]
    BY <1>2, <1>3 DEF Last
  <2>2. CASE at = n
    BY <1>1, <2>1, <2>2
  <2>3. CASE at # n
    <3>1. n \in at+1..Len(lines)
      BY <1>2, <1>3, <2>3
    <3> QED
      BY <1>1, <2>1, <2>3, <3>1
  <2> QED
    BY <2>2, <2>3
<1>5. SubSeq(out, at + 1, at + 1) = <<new>>
  <2>1. at + 1 \in 1..Len(out) /\ (at + 1) - 1 < at + 1 /\ (at + 1) - 1 \in Int
        /\ at + 1 \in Int
    BY <1>3
  <2>2. SubSeq(out, at + 1, at + 1) = SubSeq(out, at + 1, (at + 1) - 1) \o <<out[at+1]>>
    BY <1>1, <2>1, SubSeqRecursiveSecond
  <2>3. SubSeq(out, at + 1, (at + 1) - 1) = <<>>
    BY <2>1, SubSeqEmpty
  <2>4. <<out[at+1]>> = <<new>> /\ <<new>> \in Seq(S)
    BY <1>1
  <2> QED
    BY <2>2, <2>3, <2>4, ConcatEmptySeq
<1>6. SubSeq(out, 1, at) = SubSeq(lines, 1, at)
  <2>1. \A m \in 0..at-1 : out[1+m] = lines[1+m]
    <3>1. \A m \in 0..at-1 : 1 + m \in 1..at
      BY <1>3
    <3> QED
      BY <1>1, <3>1
  <2>2. /\ at \in Nat /\ at = 1 + at - 1 /\ at <= Len(out) /\ at <= Len(lines)
        /\ 1 \in Nat \ {0}
    BY <1>2, <1>3
  <2>3. Agree(out, lines, 1, at, 1, at)
    BY <2>1, <2>2 DEF Agree
  <2>4. SamePart(out, lines, 1, at, 1, at)
    BY <1>1, <2>3, PartsEqual
  <2> QED
    BY <2>4 DEF SamePart
<1>7. SubSeq(out, at + 2, n + 1) = SubSeq(lines, at + 1, n)
  <2>1. PICK k \in Nat : k = n - at
    BY <1>3
  <2>2. PICK i \in Nat \ {0} : i = at + 2
    BY <1>3
  <2>3. PICK j \in Nat \ {0} : j = at + 1
    BY <1>3
  <2>4. n + 1 = i + k - 1 /\ n = j + k - 1 /\ n + 1 <= Len(out) /\ n <= Len(lines)
    BY <1>2, <1>3, <2>1, <2>2, <2>3
  <2>5. \A m \in 0..k-1 : out[i+m] = lines[j+m]
    <3>1. \A m \in 0..k-1 : j + m \in at+1..Len(lines) /\ (j + m) + 1 = i + m
      BY <1>2, <1>3, <2>1, <2>2, <2>3
    <3> QED
      BY <1>1, <3>1
  <2>6. Agree(out, lines, i, n + 1, j, n)
    BY <2>4, <2>5 DEF Agree
  <2>7. SamePart(out, lines, i, n + 1, j, n)
    BY <1>1, <2>6, PartsEqual
  <2> QED
    BY <2>2, <2>3, <2>7 DEF SamePart
<1> QED
  BY <1>1, <1>2, <1>4, <1>5, <1>6, <1>7 DEF ReadInserted

\* What an edit makes of typed texts.
LEMMA InsertIsRight ==
  ASSUME NEW text \in Seq(Tokens), NEW line \in Int, NEW new \in Seq(Words)
  PROVE  /\ InsertReadsBack(text, line, new)
         /\ line >= 0 => InsertIn(text, line, new) \in Seq(Tokens)
<1> DEFINE lines == SplitLines(text)
           at == InsertPlace(lines, line)
           out == InsertedIn(lines, at, new)
           ends == EndsLine(text)
           result == InsertIn(text, line, new)
<1>0. SUFFICES ASSUME line >= 0
               PROVE  /\ InsertReadsBack(text, line, new)
                      /\ result \in Seq(Tokens)
  BY DEF InsertReadsBack
<1>1. PICK W : W = Seq(Words)
  OBVIOUS
<1>2. lines \in Seq(W) /\ new \in W
  BY <1>1, SplitLinesIs
<1>3. result = JoinLines(out, ends) /\ ends \in BOOLEAN
  BY <1>0 DEF InsertIn, InsertedIn, EndsLine
<1>4. PICK n \in Nat : n = Len(lines)
  BY <1>2
<1>5. PICK a \in Nat : a = at
  BY <1>0, <1>4 DEF InsertPlace
<1>6. a = (IF line > n THEN n ELSE line) /\ a \in 0..n /\ a \in 0..Len(lines)
  BY <1>0, <1>4, <1>5 DEF InsertPlace
<1>7. PICK o : o = out
  OBVIOUS
<1>8. o = InsertedIn(lines, a, new)
  BY <1>5, <1>7
<1>9. /\ o \in Seq(W) /\ Len(o) = n + 1
      /\ Last(o) = IF a = n THEN new ELSE Last(lines)
      /\ SubSeq(o, a + 1, a + 1) = <<new>>
      /\ SubSeq(o, 1, a) = SubSeq(lines, 1, a)
      /\ SubSeq(o, a + 2, n + 1) = SubSeq(lines, a + 1, n)
  <2> HIDE DEF lines, at, out, ends, result
  <2>1. lines \in Seq(W) /\ new \in W /\ a \in 0..Len(lines) /\ o = InsertedIn(lines, a, new)
    BY <1>2, <1>6, <1>8
  <2>2. ReadInserted(o, lines, a, new, W)
    BY <2>1, InsertedReads
  <2> QED
    BY <1>4, <2>2 DEF ReadInserted
<1>10. text = <<>> => n = 0
  BY <1>4 DEF SplitLines
<1>11. text # <<>> => ends \/ Last(lines) # <<>>
  BY SplitLinesIs
<1>12. result = JoinLines(o, ends)
  BY <1>3, <1>7
<1> HIDE DEF lines, at, out, ends, result
<1>13. o \in SomeLines
  <2>1. o # <<>>
    BY <1>9
  <2> QED
    BY <1>1, <1>9, <2>1 DEF SomeLines
<1>14. result \in Seq(Tokens)
  <2>1. JoinLines(o, TRUE) \in Seq(Tokens) /\ JoinLines(o, FALSE) \in Seq(Tokens)
    BY <1>1, <1>9, JoinTyped
  <2> QED
    BY <1>3, <1>12, <2>1
<1>15. SUFFICES ASSUME new # <<>> \/ ends \/ line < n
                PROVE  /\ ReadLines(result, a, 1) = <<new>>
                       /\ a = 0 \/ ReadLines(result, 0, a) = ReadLines(text, 0, a)
                       /\ ReadLines(result, a + 1, 0) = ReadLines(text, a, 0)
                       /\ ends => EndsLine(result)
  BY <1>4, <1>5, <1>14 DEF InsertReadsBack, lines, at, ends, result
<1>16. ends \/ Last(o) # <<>>
  <2> SUFFICES ASSUME ~ends PROVE Last(o) # <<>>
    OBVIOUS
  <2>1. CASE a = n
    BY <1>6, <1>9, <1>15, <2>1
  <2>2. CASE a # n
    <3>1. text # <<>>
      BY <1>6, <1>10, <2>2
    <3> QED
      BY <1>9, <1>11, <2>2, <3>1
  <2> QED
    BY <2>1, <2>2
<1>17. SplitLines(result) = o /\ (ends => EndsLine(result))
  BY <1>3, <1>12, <1>13, <1>16, ReadBack
<1>18. SplitLines(text) = lines
  BY DEF lines
<1>19. ReadLines(result, a, 1) = <<new>>
  <2>1. ReadLines(result, a, 1)
          = SubSeq(o, a + 1, IF 1 > 0 /\ a + 1 < n + 1 THEN a + 1 ELSE n + 1)
    BY <1>9, <1>17, ~(a < 0) DEF ReadLines
  <2>2. (IF 1 > 0 /\ a + 1 < n + 1 THEN a + 1 ELSE n + 1) = a + 1
    BY <1>6
  <2> QED
    BY <1>9, <2>1, <2>2
<1>20. ASSUME a # 0 PROVE ReadLines(result, 0, a) = ReadLines(text, 0, a)
  <2>1. ReadLines(result, 0, a)
          = SubSeq(o, 0 + 1, IF a > 0 /\ 0 + a < n + 1 THEN 0 + a ELSE n + 1)
    BY <1>9, <1>17 DEF ReadLines
  <2>2. ReadLines(text, 0, a)
          = SubSeq(lines, 0 + 1, IF a > 0 /\ 0 + a < n THEN 0 + a ELSE n)
    BY <1>4, <1>18 DEF ReadLines
  <2>3. /\ (IF a > 0 /\ 0 + a < n + 1 THEN 0 + a ELSE n + 1) = a
        /\ (IF a > 0 /\ 0 + a < n THEN 0 + a ELSE n) = a
        /\ 0 + 1 = 1
    BY <1>6, <1>20
  <2> QED
    BY <1>9, <2>1, <2>2, <2>3
<1>21. ReadLines(result, a + 1, 0) = ReadLines(text, a, 0)
  <2>1. ReadLines(result, a + 1, 0) = SubSeq(o, (a + 1) + 1, n + 1)
    BY <1>9, <1>17, ~(a + 1 < 0), ~(0 > 0) DEF ReadLines
  <2>2. ReadLines(text, a, 0) = SubSeq(lines, a + 1, n)
    BY <1>4, <1>18, ~(a < 0), ~(0 > 0) DEF ReadLines
  <2>3. (a + 1) + 1 = a + 2
    OBVIOUS
  <2> QED
    BY <1>9, <2>1, <2>2, <2>3
<1> QED
  BY <1>17, <1>19, <1>20, <1>21

-----------------------------------------------------------------------------
(* Replace.                                                                *)

LEMMA ReplaceTyped ==
  ASSUME NEW S, NEW text \in Seq(S), NEW new \in Seq(S), NEW i \in Nat \ {0}, NEW n \in Nat,
         i + n - 1 <= Len(text)
  PROVE  ReplaceToken(text, i, n, new) \in Seq(S)
<1> DEFINE a == SubSeq(text, 1, i - 1)
           b == SubSeq(text, i + n, Len(text))
<1>1. Len(text) \in Nat /\ \A j \in 1..Len(text) : text[j] \in S
  OBVIOUS
<1>2. a \in Seq(S)
  <2>1. \A j \in 1..i-1 : text[j] \in S
    BY <1>1
  <2>2. 1 \in Int /\ i - 1 \in Int
    OBVIOUS
  <2> QED
    BY <2>1, <2>2, SubSeqProperties
<1>3. b \in Seq(S)
  <2>1. \A j \in i+n..Len(text) : text[j] \in S
    BY <1>1
  <2>2. i + n \in Int /\ Len(text) \in Int
    BY <1>1
  <2> QED
    BY <2>1, <2>2, SubSeqProperties
<1>4. ReplaceToken(text, i, n, new) = (a \o new) \o b
  BY DEF ReplaceToken
<1> HIDE DEF a, b
<1>5. a \o new \in Seq(S)
  BY <1>2, ConcatProperties
<1>6. (a \o new) \o b \in Seq(S)
  BY <1>3, <1>5, ConcatProperties
<1> QED
  BY <1>4, <1>6

\* What findAllOffsets has found up to a place of the text: places that have
\* the old text, none if there is none, and when it is but one, no earlier one
\* and none that does not overlap it.
FoundUpTo(found, text, old, i) ==
  /\ found \in Seq(1..Len(text))
  /\ \A p \in 1..Len(found) : HasAt(text, old, found[p]) /\ found[p] <= i
  /\ \A j \in 1..i : HasAt(text, old, j) =>
       /\ found # <<>> /\ j < Last(found) + Len(old)
       /\ Len(found) = 1 => found[1] <= j

LEMMA FoundNothing ==
  ASSUME NEW text \in Seq(Tokens), NEW old \in Seq(Tokens)
  PROVE  FoundUpTo(<<>>, text, old, 0)
BY DEF FoundUpTo

LEMMA FoundNext ==
  ASSUME NEW text \in Seq(Tokens), NEW old \in Seq(Tokens), old # <<>>,
         NEW i \in 1..Len(text), NEW found, FoundUpTo(found, text, old, i - 1)
  PROVE  FoundUpTo(AddOffset(found, text, old, i), text, old, i)
<1> DEFINE m == Len(old)
           n == Len(text)
           k == Len(found)
           next == AddOffset(found, text, old, i)
<1>1. m \in Nat \ {0} /\ n \in Nat /\ i \in Nat /\ i \in 1..n /\ i - 1 < i
  OBVIOUS
<1>2. /\ found \in Seq(1..n) /\ k \in Nat
      /\ \A p \in 1..k : HasAt(text, old, found[p]) /\ found[p] <= i - 1
      /\ \A j \in 1..i-1 : HasAt(text, old, j) =>
           /\ found # <<>> /\ j < Last(found) + m
           /\ k = 1 => found[1] <= j
  BY DEF FoundUpTo
<1>3. found # <<>> => k # 0 /\ Last(found) = found[k] /\ found[k] \in 1..n
  BY <1>2 DEF Last
<1>4. \A p \in 1..k : found[p] \in Nat
  BY <1>1, <1>2
<1> HIDE DEF m, n, k
<1>5. CASE HasAt(text, old, i) /\ (found = <<>> \/ Last(found) + m <= i)
  <2>1. next = Append(found, i)
    BY <1>5 DEF AddOffset, m
  <2>2. /\ Append(found, i) \in Seq(1..n) /\ Append(found, i) # <<>>
        /\ Len(Append(found, i)) = k + 1 /\ Append(found, i)[k+1] = i
        /\ \A p \in 1..k : Append(found, i)[p] = found[p]
    <3>1. Append(found, i) \in Seq(1..n) /\ Append(found, i) # <<>>
      BY <1>1, <1>2, AppendedIs
    <3>2. /\ Len(Append(found, i)) = Len(found) + 1 /\ Append(found, i)[Len(found)+1] = i
          /\ \A p \in 1..Len(found) : Append(found, i)[p] = found[p]
      BY <1>1, <1>2, AppendProperties
    <3> QED
      BY <3>1, <3>2 DEF k
  <2>3. Last(Append(found, i)) = i
    BY <1>1, <1>2, AppendedIs
  <2> DEFINE s == Append(found, i)
  <2> HIDE DEF s
  <2>4. ASSUME NEW p \in 1..Len(s) PROVE HasAt(text, old, s[p]) /\ s[p] <= i
    <3>1. CASE p = k + 1
      BY <1>1, <1>5, <2>2, <3>1 DEF s
    <3>2. CASE p # k + 1
      <4>1. p \in 1..k /\ s[p] = found[p]
        BY <1>2, <2>2, <3>2 DEF s
      <4>2. found[p] <= i - 1 /\ HasAt(text, old, found[p]) /\ found[p] \in Nat
        BY <1>2, <1>4, <4>1
      <4> QED
        BY <1>1, <4>1, <4>2
    <3> QED
      BY <3>1, <3>2
  <2>5. ASSUME NEW j \in 1..i, HasAt(text, old, j)
        PROVE  s # <<>> /\ j < Last(s) + m /\ (Len(s) = 1 => s[1] <= j)
    <3>1. s # <<>> /\ Last(s) = i /\ j < i + m
      BY <1>1, <2>2, <2>3 DEF s
    <3>2. ASSUME Len(s) = 1 PROVE s[1] <= j
      <4>1. k = 0 /\ found = <<>>
        BY <1>2, <1>3, <2>2, <3>2 DEF s
      <4>2. s[1] = i
        BY <2>2, <4>1 DEF s
      <4>3. j \notin 1..i-1
        BY <1>2, <2>5, <4>1
      <4> QED
        BY <1>1, <4>2, <4>3
    <3> QED
      BY <3>1, <3>2
  <2> QED
    BY <2>1, <2>2, <2>4, <2>5 DEF FoundUpTo, s, m, n
<1>6. CASE ~(HasAt(text, old, i) /\ (found = <<>> \/ Last(found) + m <= i))
  <2>1. next = found
    BY <1>6 DEF AddOffset, m
  <2>2. ASSUME NEW p \in 1..k PROVE HasAt(text, old, found[p]) /\ found[p] <= i
    <3>1. found[p] <= i - 1 /\ HasAt(text, old, found[p]) /\ found[p] \in Nat
      BY <1>2, <1>4
    <3> QED
      BY <1>1, <3>1
  <2>3. ASSUME NEW j \in 1..i, HasAt(text, old, j)
        PROVE  found # <<>> /\ j < Last(found) + m /\ (k = 1 => found[1] <= j)
    <3>1. CASE j \in 1..i-1
      BY <1>2, <2>3, <3>1
    <3>2. CASE j \notin 1..i-1
      <4>1. j = i
        BY <1>1, <3>2
      <4>2. found # <<>> /\ ~(Last(found) + m <= i)
        BY <1>6, <2>3, <4>1
      <4>3. Last(found) \in Nat
        BY <1>1, <1>3, <4>2
      <4>4. k = 1 => 1 \in 1..k /\ found[1] <= i - 1 /\ found[1] \in Nat
        BY <1>2, <1>4
      <4> QED
        BY <1>1, <4>1, <4>2, <4>3, <4>4
    <3> QED
      BY <3>1, <3>2
  <2> QED
    BY <1>2, <2>1, <2>2, <2>3 DEF FoundUpTo, m, n, k
<1> QED
  BY <1>5, <1>6

LEMMA OffsetsAre ==
  ASSUME NEW text \in Seq(Tokens), NEW old \in Seq(Tokens), old # <<>>
  PROVE  FoundUpTo(FindAllOffsets(text, old), text, old, Len(text))
<1> DEFINE n == Len(text)
           G(f) == f = [i \in 0..n |->
                          IF i = 0 THEN <<>> ELSE AddOffset(f[i-1], text, old, i)]
           All == Seq(1..n)
           step == [i \in 1..n |-> [found \in All |-> AddOffset(found, text, old, i)]]
<1>1. n \in Nat
  OBVIOUS
<1>2. <<>> \in All
  OBVIOUS
<1>3. Steps(step, n, All)
  <2>1. ASSUME NEW i \in 1..n, NEW found \in All PROVE AddOffset(found, text, old, i) \in All
    <3>1. Append(found, i) \in All
      <4> HIDE DEF n
      <4> QED
        OBVIOUS
    <3> HIDE DEF All
    <3> QED
      BY <3>1 DEF AddOffset
  <2> HIDE DEF All, n
  <2> QED
    BY <2>1 DEF Steps
<1> HIDE DEF n
<1>4. PICK f \in [0..n -> All] :
        f[0] = <<>> /\ \A i \in 1..n : f[i] = step[i][f[i-1]]
  <2> DEFINE base == <<>>
  <2> HIDE DEF step, G, All
  <2>1. base \in All
    BY <1>2
  <2> HIDE DEF base
  <2>2. \E f : Computes(f, step, base, n, All)
    BY <1>1, <1>3, <2>1, StepsExist
  <2> QED
    BY <2>2 DEF base, Computes
<1> HIDE DEF All
<1>5. \A i \in 1..n : f[i] = AddOffset(f[i-1], text, old, i)
  <2>1. \A i \in 1..n : i - 1 \in 0..n
    BY <1>1
  <2> QED
    BY <1>4, <2>1
<1>6. G(f)
  <2>1. ASSUME NEW i \in 0..n
        PROVE  f[i] = IF i = 0 THEN <<>> ELSE AddOffset(f[i-1], text, old, i)
    <3>1. i # 0 => i \in 1..n
      BY <1>1
    <3> QED
      BY <1>4, <1>5, <3>1
  <2>2. f = [i \in 0..n |-> f[i]]
    BY <1>4
  <2> QED
    BY <2>1, <2>2
<1> DEFINE g == CHOOSE h : G(h)
<1>7. G(g)
  <2> HIDE DEF G
  <2> QED
    BY <1>6
<1>8. FindAllOffsets(text, old) = g[n]
  BY DEF FindAllOffsets, n
<1> HIDE DEF g
<1>9. g[0] = <<>> /\ \A i \in 1..n : g[i] = AddOffset(g[i-1], text, old, i)
  <2>1. \A i \in 0..n :
          g[i] = IF i = 0 THEN <<>> ELSE AddOffset(g[i-1], text, old, i)
    BY <1>7
  <2>2. 0 \in 0..n /\ \A i \in 1..n : i \in 0..n /\ i # 0
    BY <1>1
  <2> QED
    BY <2>1, <2>2
<1> DEFINE K == {i \in 0..n : FoundUpTo(g[i], text, old, i)}
<1>10. 0 \in K
  BY <1>1, <1>9, FoundNothing
<1>11. ASSUME NEW i \in 1..n, i - 1 \in K PROVE i \in K
  <2>1. FoundUpTo(g[i-1], text, old, i - 1) /\ i \in 1..Len(text) /\ i \in 0..n
    BY <1>1, <1>11 DEF n
  <2>2. FoundUpTo(AddOffset(g[i-1], text, old, i), text, old, i)
    BY <2>1, FoundNext
  <2> QED
    BY <1>9, <2>1, <2>2
<1>12. \A i \in 0..n : i \in K
  <2> HIDE DEF K
  <2> QED
    BY <1>1, <1>10, <1>11, CountUp
<1>13. n \in 0..n
  BY <1>1
<1> QED
  BY <1>8, <1>12, <1>13 DEF n

\* The lines that a drift match leaves, and the text of them.
LEMMA DriftIsRight ==
  ASSUME NEW text \in Seq(Tokens), NEW old \in Seq(Tokens), NEW new \in Seq(Tokens),
         NEW i \in DriftMatches(SplitLines(text), SplitLines(old)),
         NEW changed,
         changed = ReplaceToken(SplitLines(text), i, Len(SplitLines(old)), SplitLines(new)),
         NEW result, result = JoinLines(changed, EndsLine(text))
  PROVE  /\ result \in Seq(Tokens)
         /\ changed # <<>> /\ (EndsLine(text) \/ Last(changed) # <<>>)
              => SplitLines(result) = changed
         /\ EndsLine(text) => EndsLine(result)
<1>1. PICK W : W = Seq(Words)
  OBVIOUS
<1>2. PICK lines, olds, news : lines = SplitLines(text) /\ olds = SplitLines(old)
                               /\ news = SplitLines(new)
  OBVIOUS
<1>3. lines \in Seq(W) /\ olds \in Seq(W) /\ news \in Seq(W)
  BY <1>1, <1>2, SplitLinesIs
<1>4. PICK n \in Nat : n = Len(olds)
  BY <1>3
<1>5. i \in Nat \ {0} /\ i + n - 1 <= Len(lines)
  <2>1. i \in 1..Len(lines) - n + 1 /\ Len(lines) \in Nat
    BY <1>2, <1>3, <1>4 DEF DriftMatches
  <2> QED
    BY <2>1
<1>6. changed \in Seq(W)
  <2>1. changed = ReplaceToken(lines, i, n, news)
    BY <1>2, <1>4
  <2>2. ReplaceToken(lines, i, n, news) \in Seq(W)
    BY <1>3, <1>5, ReplaceTyped
  <2> QED
    BY <2>1, <2>2
<1>7. PICK ends \in BOOLEAN : ends = EndsLine(text)
  BY DEF EndsLine
<1>8. result = JoinLines(changed, ends)
  BY <1>7
<1>9. JoinLines(changed, TRUE) \in Seq(Tokens) /\ JoinLines(changed, FALSE) \in Seq(Tokens)
      /\ EndsLine(JoinLines(changed, TRUE))
  BY <1>1, <1>6, JoinTyped
<1>10. ASSUME changed # <<>>, ends \/ Last(changed) # <<>> PROVE SplitLines(result) = changed
  <2>1. changed \in SomeLines
    BY <1>1, <1>6, <1>10 DEF SomeLines
  <2> QED
    BY <1>8, <1>10, <2>1, ReadBack
<1> QED
  BY <1>7, <1>8, <1>9, <1>10

LEMMA ReplaceIsRight ==
  ASSUME NEW text \in Seq(Tokens), NEW old \in Seq(Tokens), NEW new \in Seq(Tokens)
  PROVE  /\ OnePlaceChanges(text, old, new)
         /\ ReplaceIn(text, old, new) = Error \/ ReplaceIn(text, old, new) \in Seq(Tokens)
<1>1. PICK result : result = ReplaceIn(text, old, new)
  OBVIOUS
<1>2. PICK places : places = {i \in 1..Len(text) : HasAt(text, old, i)}
  OBVIOUS
<1>3. PICK lines, olds, news : lines = SplitLines(text) /\ olds = SplitLines(old)
                               /\ news = SplitLines(new)
  OBVIOUS
<1>4. PICK matches : matches = DriftMatches(lines, olds)
  OBVIOUS
<1>5. PICK found : found = FindAllOffsets(text, old)
  OBVIOUS
<1>6. old # <<>> => /\ FoundUpTo(found, text, old, Len(text))
                     /\ found \in Seq(1..Len(text)) /\ Len(found) \in Nat
                     /\ (Len(found) = 0 => found = <<>>)
                     /\ (Len(found) = 1 => found[1] \in 1..Len(text))
  <2> SUFFICES ASSUME old # <<>>
               PROVE  /\ FoundUpTo(found, text, old, Len(text))
                      /\ found \in Seq(1..Len(text)) /\ Len(found) \in Nat
                      /\ (Len(found) = 0 => found = <<>>)
                      /\ (Len(found) = 1 => found[1] \in 1..Len(text))
    OBVIOUS
  <2>1. FoundUpTo(found, text, old, Len(text))
    BY <1>5, OffsetsAre
  <2>2. PICK S : S = 1..Len(text)
    OBVIOUS
  <2>3. found \in Seq(S)
    BY <2>1, <2>2 DEF FoundUpTo
  <2>4. Len(found) \in Nat /\ (Len(found) = 0 => found = <<>>) /\ (Len(found) = 1 => found[1] \in S)
    BY <2>3
  <2> QED
    BY <2>1, <2>2, <2>3, <2>4
<1>7. CASE old = <<>>
  <2>1. ReplaceIn(text, old, new) = Error
    BY <1>7 DEF ReplaceIn
  <2> QED
    BY <2>1 DEF OnePlaceChanges
<1>8. CASE old # <<>> /\ Len(found) = 1
  <2>1. result = ReplaceToken(text, found[1], Len(old), new)
    BY <1>1, <1>5, <1>8 DEF ReplaceIn
  <2>2. FoundUpTo(found, text, old, Len(text))
    BY <1>8, <1>6
  <2>3. /\ found \in Seq(1..Len(text)) /\ HasAt(text, old, found[1])
        /\ \A j \in 1..Len(text) : HasAt(text, old, j) =>
             j < Last(found) + Len(old) /\ found[1] <= j
    BY <1>8, <2>2 DEF FoundUpTo
  <2>4. found[1] \in 1..Len(text) /\ Last(found) = found[1]
    BY <1>8, <1>6 DEF Last
  <2>5. found[1] \in places /\ \A j \in places : found[1] <= j /\ j < found[1] + Len(old)
    BY <1>2, <2>3, <2>4
  <2>6. OnePlaceChanges(text, old, new)
    <3>1. \E i \in places : /\ result = ReplaceToken(text, i, Len(old), new)
                            /\ \A j \in places : i <= j /\ j < i + Len(old)
      BY <2>1, <2>5
    <3> QED
      BY <1>1, <1>2, <3>1 DEF OnePlaceChanges
  <2>7. result \in Seq(Tokens)
    <3>1. PICK i \in Nat \ {0} : i = found[1]
      BY <2>4
    <3>2. PICK n \in Nat : n = Len(old)
      OBVIOUS
    <3>3. i + n - 1 <= Len(text)
      BY <2>3, <3>1, <3>2 DEF HasAt
    <3>4. ReplaceToken(text, i, n, new) \in Seq(Tokens)
      BY <3>3, ReplaceTyped
    <3> QED
      BY <2>1, <3>1, <3>2, <3>4
  <2> QED
    BY <1>1, <2>6, <2>7
<1>9. CASE old # <<>> /\ Len(found) > 1
  <2>1. ReplaceIn(text, old, new) = Error
    <3>1. Len(found) # 1 /\ Len(found) > 1
      <4>1. ASSUME NEW k \in Nat, k > 1 PROVE k # 1
        BY <4>1
      <4> QED
        BY <1>6, <1>9, <4>1
    <3> QED
      BY <1>5, <1>9, <3>1 DEF ReplaceIn
  <2> QED
    BY <2>1 DEF OnePlaceChanges
<1>10. CASE old # <<>> /\ found = <<>>
  <2>1. places = {}
    <3>1. FoundUpTo(found, text, old, Len(text))
      BY <1>10, <1>6
    <3> QED
      BY <1>2, <1>10, <3>1 DEF FoundUpTo
  <2>2. result = IF \E i \in matches : matches = {i}
                 THEN JoinLines(ReplaceToken(lines, CHOOSE i \in matches : TRUE,
                                             Len(olds), news), EndsLine(text))
                 ELSE Error
    <3>1. Len(found) # 1 /\ ~(Len(found) > 1)
      BY <1>10
    <3> QED
      BY <1>1, <1>3, <1>4, <1>5, <1>10, <3>1 DEF ReplaceIn
  <2>3. CASE \E i \in matches : matches = {i}
    <3>1. PICK i \in matches : matches = {i}
      BY <2>3
    <3>2. (CHOOSE j \in matches : TRUE) = i
      BY <3>1
    <3>3. PICK changed : changed = ReplaceToken(lines, i, Len(olds), news)
      OBVIOUS
    <3>4. result = JoinLines(changed, EndsLine(text))
      BY <2>2, <3>1, <3>2, <3>3
    <3>5. /\ result \in Seq(Tokens)
          /\ changed # <<>> /\ (EndsLine(text) \/ Last(changed) # <<>>)
               => SplitLines(result) = changed
          /\ EndsLine(text) => EndsLine(result)
      <4>1. i \in DriftMatches(SplitLines(text), SplitLines(old))
        BY <1>3, <1>4
      <4>2. changed = ReplaceToken(SplitLines(text), i, Len(SplitLines(old)), SplitLines(new))
        BY <1>3, <3>3
      <4> QED
        BY <3>4, <4>1, <4>2, DriftIsRight
    <3>6. OnePlaceChanges(text, old, new)
      BY <1>1, <1>2, <1>3, <1>4, <2>1, <3>1, <3>3, <3>5 DEF OnePlaceChanges
    <3> QED
      BY <1>1, <3>5, <3>6
  <2>4. CASE ~ \E i \in matches : matches = {i}
    <3>1. ReplaceIn(text, old, new) = Error
      BY <1>1, <2>2, <2>4
    <3> QED
      BY <3>1 DEF OnePlaceChanges
  <2> QED
    BY <2>3, <2>4
<1>11. found = <<>> \/ Len(found) = 1 \/ Len(found) > 1 \/ old = <<>>
  <2>1. ASSUME NEW k \in Nat PROVE k = 0 \/ k = 1 \/ k > 1
    OBVIOUS
  <2> QED
    BY <1>6, <2>1
<1> QED
  BY <1>7, <1>8, <1>9, <1>10, <1>11

-----------------------------------------------------------------------------
EditsTypeOK == content \in Seq(Tokens) /\ edit \in Commands \cup {None}

LEMMA CommandIs ==
  ASSUME edit \in Commands \cup {None}
  PROVE  \/ edit = None /\ edit.command = "none"
         \/ edit.command = "write" /\ edit.new \in Seq(Tokens)
         \/ /\ edit.command = "str_replace"
            /\ edit.old \in Seq(Tokens) /\ edit.new \in Seq(Tokens)
         \/ edit.command = "insert" /\ edit.line \in Int /\ edit.new \in Seq(Words)
<1>1. CASE edit = None
  BY <1>1 DEF None
<1>2. CASE edit \in [command : {"write"}, new : News]
  BY <1>2, FileEditsAssumption
<1>3. CASE edit \in [command : {"str_replace"}, old : Olds, new : News]
  BY <1>3, FileEditsAssumption
<1>4. CASE edit \in [command : {"insert"}, line : Lines, new : NewLines]
  BY <1>4, FileEditsAssumption DEF Words
<1> QED
  BY <1>1, <1>2, <1>3, <1>4 DEF Commands

LEMMA EditsStayTyped == EditsSpec => []EditsTypeOK
<1>1. EditsInit => EditsTypeOK
  BY FileEditsAssumption DEF EditsInit, EditsTypeOK
<1>2. EditsTypeOK /\ [EditsNext]_editVars => EditsTypeOK'
  <2> SUFFICES ASSUME EditsTypeOK, [EditsNext]_editVars PROVE EditsTypeOK'
    OBVIOUS
  <2>1. CASE AskEdit
    BY <2>1 DEF AskEdit, EditsTypeOK
  <2>2. CASE Perform
    <3>1. Outcome = Error \/ Outcome \in Seq(Tokens)
      <4>1. CASE edit.command = "write"
        <5>1. Outcome = edit.new
          BY <4>1 DEF Outcome
        <5> QED
          BY <4>1, <5>1, CommandIs DEF EditsTypeOK, None
      <4>2. CASE edit.command = "str_replace"
        <5>1. Outcome = ReplaceIn(content, edit.old, edit.new)
          BY <4>2 DEF Outcome
        <5>2. edit.old \in Seq(Tokens) /\ edit.new \in Seq(Tokens) /\ content \in Seq(Tokens)
          BY <4>2, CommandIs DEF EditsTypeOK, None
        <5> QED
          BY <5>1, <5>2, ReplaceIsRight
      <4>3. CASE edit.command = "insert"
        <5>1. Outcome = InsertIn(content, edit.line, edit.new)
          BY <4>3 DEF Outcome
        <5>2. edit.line \in Int /\ edit.new \in Seq(Words) /\ content \in Seq(Tokens)
          BY <4>3, CommandIs DEF EditsTypeOK, None
        <5>3. CASE edit.line >= 0
          BY <5>1, <5>2, <5>3, InsertIsRight
        <5>4. CASE ~(edit.line >= 0)
          <6>1. edit.line < 0
            BY <5>2, <5>4
          <6> QED
            BY <5>1, <6>1 DEF InsertIn
        <5> QED
          BY <5>3, <5>4
      <4> QED
        BY <2>2, <4>1, <4>2, <4>3, CommandIs DEF EditsTypeOK, Perform
    <3> QED
      BY <2>2, <3>1 DEF Perform, EditsTypeOK
  <2>3. CASE UNCHANGED editVars
    BY <2>3 DEF editVars, EditsTypeOK
  <2> QED
    BY <2>1, <2>2, <2>3 DEF EditsNext
<1> QED
  BY <1>1, <1>2, PTL DEF EditsSpec

\* Whatever Rick has made of a file, his next edit is the one he asked for: a
\* str_replace changes the one place that has the old text, or the only run of
\* whole lines that has it but for blanks, and an inserted line is read back
\* where it was put, all else as it was (Replace and Insert of
\* internal/codeedit); for any tokens, texts and commands.
THEOREM EditsAreOnePlace == EditsSpec => []EditsAreRight
<1>1. EditsTypeOK => EditsAreRight
  <2> SUFFICES ASSUME EditsTypeOK PROVE EditsAreRight
    OBVIOUS
  <2>1. content \in Seq(Tokens)
    BY DEF EditsTypeOK
  <2>2. ASSUME edit.command = "str_replace"
        PROVE  OnePlaceChanges(content, edit.old, edit.new)
    <3>1. edit.old \in Seq(Tokens) /\ edit.new \in Seq(Tokens)
      BY <2>2, CommandIs DEF EditsTypeOK, None
    <3> QED
      BY <2>1, <3>1, ReplaceIsRight
  <2>3. ASSUME edit.command = "insert"
        PROVE  InsertReadsBack(content, edit.line, edit.new)
    <3>1. edit.line \in Int /\ edit.new \in Seq(Words)
      BY <2>3, CommandIs DEF EditsTypeOK, None
    <3> QED
      BY <2>1, <3>1, InsertIsRight
  <2> QED
    BY <2>2, <2>3 DEF EditsAreRight
<1> QED
  BY <1>1, EditsStayTyped, PTL

-----------------------------------------------------------------------------
(* Answers cut to a limit.                                                 *)

\* An order, as the set of the pairs it puts one before the other.
TotalOrder(R, S) ==
  \A x, y, z \in S : /\ <<x, x>> \notin R
                     /\ x # y => <<x, y>> \in R \/ <<y, x>> \in R
                     /\ <<x, y>> \in R /\ <<y, z>> \in R => <<x, z>> \in R

Preceding(R, S, x) == {y \in S : <<y, x>> \in R}
Top(R, S, k) == {x \in S : Cardinality(Preceding(R, S, x)) < k}
IsLast(R, S, m) == m \in S /\ \A p \in S : p = m \/ <<p, m>> \in R
Least(n, k) == IF n < k THEN n ELSE k

LEMMA LastExists ==
  ASSUME NEW R, NEW U, TotalOrder(R, U), NEW S \in SUBSET U, IsFiniteSet(S), S # {}
  PROVE  \E m : IsLast(R, S, m)
<1> DEFINE K == {n \in Nat : \A T \in SUBSET U :
                   IsFiniteSet(T) /\ Cardinality(T) = n /\ T # {} => \E m : IsLast(R, T, m)}
<1>1. 0 \in K
  BY FS_EmptySet
<1>2. ASSUME NEW n \in Nat, n \in K PROVE n + 1 \in K
  <2>1. ASSUME NEW T \in SUBSET U, IsFiniteSet(T), Cardinality(T) = n + 1, T # {}
        PROVE  \E m : IsLast(R, T, m)
    <3>1. PICK x \in T : TRUE
      BY <2>1
    <3>2. IsFiniteSet(T \ {x}) /\ Cardinality(T \ {x}) = n /\ T \ {x} \in SUBSET U
      <4>1. IsFiniteSet(T \ {x}) /\ Cardinality(T \ {x}) = Cardinality(T) - 1
        BY <2>1, FS_RemoveElement
      <4> QED
        BY <2>1, <4>1
    <3>3. CASE T \ {x} = {}
      <4>1. IsLast(R, T, x)
        BY <3>3 DEF IsLast
      <4> QED
        BY <4>1
    <3>4. CASE T \ {x} # {}
      <4>1. PICK m : IsLast(R, T \ {x}, m)
        BY <1>2, <3>2, <3>4
      <4>2. m \in T /\ m # x /\ \A p \in T : p = x \/ p = m \/ <<p, m>> \in R
        BY <4>1 DEF IsLast
      <4>3. CASE <<m, x>> \in R
        <5>1. ASSUME NEW p \in T PROVE p = x \/ <<p, x>> \in R
          BY <4>2, <4>3 DEF TotalOrder
        <5> QED
          BY <5>1 DEF IsLast
      <4>4. CASE <<m, x>> \notin R
        <5>1. <<x, m>> \in R
          BY <4>2, <4>4 DEF TotalOrder
        <5>2. IsLast(R, T, m)
          BY <4>2, <5>1 DEF IsLast
        <5> QED
          BY <5>2
      <4> QED
        BY <4>3, <4>4
    <3> QED
      BY <3>3, <3>4
  <2> QED
    BY <2>1
<1>3. Nat \subseteq K
  <2> HIDE DEF K
  <2> QED
    BY <1>1, <1>2, NatSetInduction
<1>4. Cardinality(S) \in K
  BY <1>3, FS_CardinalityType
<1> QED
  BY <1>4

\* The last of a set comes after all others, and is before none of them.
LEMMA LastIsAfterAll ==
  ASSUME NEW R, NEW S, TotalOrder(R, S), NEW m, IsLast(R, S, m)
  PROVE  Preceding(R, S, m) = S \ {m}
BY DEF Preceding, IsLast, TotalOrder

LEMMA LastIsBeforeNone ==
  ASSUME NEW R, NEW S, TotalOrder(R, S), NEW m, IsLast(R, S, m), NEW x \in S, x # m
  PROVE  Preceding(R, S, x) = Preceding(R, S \ {m}, x)
<1>1. <<x, m>> \in R /\ <<m, m>> \notin R /\ m \in S
  BY DEF IsLast, TotalOrder
<1>2. <<m, x>> \notin R
  BY <1>1 DEF TotalOrder
<1> QED
  BY <1>2 DEF Preceding

\* A limit of k leaves k of a set, or all of it.
LEMMA TopCount ==
  ASSUME NEW R, NEW U, TotalOrder(R, U), NEW S \in SUBSET U, IsFiniteSet(S), NEW k \in Nat
  PROVE  /\ Cardinality(Top(R, S, k)) = Least(Cardinality(S), k)
         /\ IsFiniteSet(Top(R, S, k))
<1> DEFINE Good(T, n) == Cardinality(Top(R, T, k)) = Least(n, k)
           K == {n \in Nat : \A T \in SUBSET U :
                   IsFiniteSet(T) /\ Cardinality(T) = n => Good(T, n)}
<1>1. 0 \in K
  <2>1. ASSUME NEW T \in SUBSET U, IsFiniteSet(T), Cardinality(T) = 0 PROVE Good(T, 0)
    <3>1. T = {}
      BY <2>1, FS_EmptySet
    <3>2. Top(R, T, k) = {}
      BY <3>1 DEF Top
    <3> QED
      BY <3>2, FS_EmptySet DEF Least
  <2> QED
    BY <2>1
<1>2. ASSUME NEW n \in Nat, n \in K PROVE n + 1 \in K
  <2>1. ASSUME NEW T \in SUBSET U, IsFiniteSet(T), Cardinality(T) = n + 1 PROVE Good(T, n + 1)
    <3>1. T # {} /\ TotalOrder(R, T)
      BY <2>1, FS_EmptySet DEF TotalOrder
    <3>2. PICK m : IsLast(R, T, m)
      BY <2>1, <3>1, LastExists
    <3>3. m \in T
      BY <3>2 DEF IsLast
    <3> DEFINE V == T \ {m}
    <3>4. IsFiniteSet(V) /\ Cardinality(V) = n /\ V \in SUBSET U
      <4>1. IsFiniteSet(T \ {m}) /\ Cardinality(T \ {m}) = Cardinality(T) - 1
        BY <2>1, <3>3, FS_RemoveElement
      <4>2. Cardinality(T) - 1 = n
        BY <2>1
      <4> QED
        BY <4>1, <4>2
    <3>5. /\ Preceding(R, T, m) = V
          /\ \A x \in V : Preceding(R, T, x) = Preceding(R, V, x)
      <4>1. Preceding(R, T, m) = T \ {m}
        BY <3>1, <3>2, LastIsAfterAll
      <4>2. ASSUME NEW x \in T, x # m PROVE Preceding(R, T, x) = Preceding(R, T \ {m}, x)
        BY <3>1, <3>2, <4>2, LastIsBeforeNone
      <4> QED
        BY <4>1, <4>2
    <3>6. Cardinality(Top(R, V, k)) = Least(n, k)
      <4> HIDE DEF V
      <4> QED
        BY <1>2, <3>4
    <3>7. T = V \cup {m} /\ m \notin V
      BY <3>3
    <3> HIDE DEF V
    <3>8. IsFiniteSet(Top(R, V, k)) /\ m \notin Top(R, V, k)
      <4>1. Top(R, V, k) \in SUBSET V
        BY DEF Top
      <4> QED
        BY <3>4, <3>7, <4>1, FS_Subset
    <3>9. CASE n < k
      <4>1. Top(R, T, k) = Top(R, V, k) \cup {m}
        BY <3>4, <3>5, <3>7, <3>9 DEF Top
      <4>2. Cardinality(Top(R, V, k) \cup {m}) = Cardinality(Top(R, V, k)) + 1
        BY <3>8, FS_AddElement
      <4> QED
        BY <3>6, <3>9, <4>1, <4>2 DEF Least
    <3>10. CASE ~(n < k)
      <4>1. Top(R, T, k) = Top(R, V, k)
        BY <3>4, <3>5, <3>7, <3>10 DEF Top
      <4> QED
        BY <3>6, <3>10, <4>1 DEF Least
    <3> QED
      BY <3>9, <3>10
  <2> HIDE DEF Good
  <2> QED
    BY <2>1
<1>3. Nat \subseteq K
  <2> HIDE DEF K
  <2> QED
    BY <1>1, <1>2, NatSetInduction
<1>4. Cardinality(S) \in K
  BY <1>3, FS_CardinalityType
<1>5. Top(R, S, k) \in SUBSET S
  BY DEF Top
<1> QED
  BY <1>4, <1>5, FS_Subset

\* What stays comes before what goes.
LEMMA TopFirst ==
  ASSUME NEW R, NEW S, TotalOrder(R, S), IsFiniteSet(S), NEW k \in Nat,
         NEW x \in Top(R, S, k), NEW y \in S, y \notin Top(R, S, k)
  PROVE  <<x, y>> \in R
<1> SUFFICES ASSUME <<x, y>> \notin R PROVE FALSE
  OBVIOUS
<1>1. x \in S /\ x # y /\ <<y, x>> \in R
  BY DEF Top, TotalOrder
<1>2. Preceding(R, S, y) \in SUBSET Preceding(R, S, x)
  BY <1>1 DEF Preceding, TotalOrder
<1>3. Preceding(R, S, x) \in SUBSET S
  BY DEF Preceding
<1>4. IsFiniteSet(Preceding(R, S, x)) /\ IsFiniteSet(Preceding(R, S, y))
  BY <1>2, <1>3, FS_Subset
<1>5. Cardinality(Preceding(R, S, y)) <= Cardinality(Preceding(R, S, x))
  BY <1>2, <1>4, FS_Subset
<1>6. Cardinality(Preceding(R, S, x)) < k /\ ~(Cardinality(Preceding(R, S, y)) < k)
  BY DEF Top
<1> QED
  BY <1>4, <1>5, <1>6, FS_CardinalityType

-----------------------------------------------------------------------------
(* What is recalled.                                                       *)

Answers == [id : ChunkIds, score : Int]
IdsOf(S) == {c.id : c \in S}
OnePerId(S) == \A c, d \in S : c.id = d.id => c = d
AnswersOK(S) == S \subseteq Answers /\ IsFiniteSet(S) /\ OnePerId(S)

IsQuery(q) ==
  /\ q.vec \in Seq(ChunkIds) /\ q.lex \in Seq(ChunkIds)
  /\ q.scores = <<>> \/ q.scores \in [ChunkIds -> Int]
  /\ IsFiniteSet(q.author) /\ {q.since, q.until} \subseteq Nat \cup {NoDate}

ByScore == {p \in Answers \X Answers : Better(p[1], p[2])}
ByRank(q) == {p \in Answers \X Answers : Ahead(q, p[1], p[2])}

\* As many answers are kept as may be, and none that is left out is better.
Cut(A, T) ==
  /\ T \subseteq A
  /\ Cardinality(T) = Least(Cardinality(A), TopK)
  /\ \A c \in T : \A d \in A : d \notin T => d.score <= c.score

LEMMA IdsCount ==
  ASSUME NEW S, AnswersOK(S)
  PROVE  IsFiniteSet(IdsOf(S)) /\ Cardinality(IdsOf(S)) = Cardinality(S)
<1> DEFINE f == [c \in S |-> c.id]
<1>1. f \in Surjection(S, IdsOf(S))
  BY DEF Surjection, IdsOf
<1>2. f \in Injection(S, IdsOf(S))
  BY DEF AnswersOK, OnePerId, Injection, IdsOf, IsInjective
<1> HIDE DEF f
<1> QED
  BY <1>1, <1>2, FS_Surjection DEF AnswersOK

LEMMA AnswersWithin ==
  ASSUME NEW S, AnswersOK(S), NEW T \in SUBSET S
  PROVE  AnswersOK(T)
<1>1. IsFiniteSet(T)
  BY FS_Subset DEF AnswersOK
<1> QED
  BY <1>1 DEF AnswersOK, OnePerId

\* An answer for each of finitely many chunks.
LEMMA AnswersOf ==
  ASSUME NEW S, S \subseteq ChunkIds, NEW f \in [S -> Answers], \A id \in S : f[id].id = id
  PROVE  /\ AnswersOK({f[id] : id \in S})
         /\ IdsOf({f[id] : id \in S}) = S
<1> DEFINE T == {f[id] : id \in S}
<1>1. f \in Surjection(S, T)
  BY DEF Surjection
<1>2. IsFiniteSet(S)
  BY RetrievalAssumption, FS_Subset
<1>3. IsFiniteSet(T)
  BY <1>1, <1>2, FS_Surjection
<1>4. OnePerId(T)
  BY DEF OnePerId
<1> QED
  BY <1>3, <1>4 DEF AnswersOK, IdsOf

\* The share of a ranking is a whole number.
LEMMA ShareTyped ==
  ASSUME NEW q, NEW ranking \in Seq(ChunkIds), NEW id
  PROVE  RRF(q, ranking, id) \in Int
<1> DEFINE ahead == {i \in DOMAIN ranking :
                       /\ InScope(q, ranking[i])
                       /\ \E j \in DOMAIN ranking : i <= j /\ ranking[j] = id}
<1>1. IsFiniteSet(DOMAIN ranking)
  <2>1. DOMAIN ranking = 1..Len(ranking) /\ Len(ranking) \in Nat
    OBVIOUS
  <2> QED
    BY <2>1, FS_Interval
<1>2. IsFiniteSet(ahead)
  BY <1>1, FS_Subset
<1> HIDE DEF ahead
<1>3. Cardinality(ahead) \in Nat
  BY <1>2, FS_CardinalityType
<1>4. Scale \in Nat /\ 60 + Cardinality(ahead) \in Nat \ {0}
  BY <1>3, RetrievalAssumption
<1>5. Scale \div (60 + Cardinality(ahead)) \in Int
  BY <1>4
<1> QED
  BY <1>5 DEF RRF, ahead

LEMMA FusedTyped ==
  ASSUME NEW q, IsQuery(q), NEW id
  PROVE  Fused(q, id) \in Int
<1>1. q.vec \in Seq(ChunkIds) /\ q.lex \in Seq(ChunkIds)
  BY DEF IsQuery
<1> QED
  BY <1>1, ShareTyped DEF Fused

LEMMA ByScoreOrders ==
  ASSUME NEW S, AnswersOK(S)
  PROVE  TotalOrder(ByScore, S)
<1>1. \A c \in S : c \in Answers /\ c.id \in Nat /\ c.score \in Int
  BY RetrievalAssumption DEF AnswersOK, Answers
<1>2. \A c, d \in S : <<c, d>> \in ByScore <=> Better(c, d)
  BY <1>1 DEF ByScore
<1>3. ASSUME NEW x \in S, NEW y \in S, NEW z \in S
      PROVE  /\ ~Better(x, x)
             /\ x # y => Better(x, y) \/ Better(y, x)
             /\ Better(x, y) /\ Better(y, z) => Better(x, z)
  <2>1. x # y => x.id # y.id
    BY DEF AnswersOK, OnePerId
  <2> QED
    BY <1>1, <2>1 DEF Better
<1> QED
  BY <1>2, <1>3 DEF TotalOrder

LEMMA ByRankOrders ==
  ASSUME NEW q, IsQuery(q), NEW S, AnswersOK(S)
  PROVE  TotalOrder(ByRank(q), S)
<1>1. \A c \in S : /\ c \in Answers /\ c.id \in Nat /\ c.score \in Int
                   /\ Fused(q, c.id) \in Int
  <2>1. \A c \in S : Fused(q, c.id) \in Int
    BY FusedTyped
  <2> QED
    BY <2>1, RetrievalAssumption DEF AnswersOK, Answers
<1>2. \A c, d \in S : <<c, d>> \in ByRank(q) <=> Ahead(q, c, d)
  BY <1>1 DEF ByRank
<1>3. ASSUME NEW x \in S, NEW y \in S, NEW z \in S
      PROVE  /\ ~Ahead(q, x, x)
             /\ x # y => Ahead(q, x, y) \/ Ahead(q, y, x)
             /\ Ahead(q, x, y) /\ Ahead(q, y, z) => Ahead(q, x, z)
  <2>1. x # y => x.id # y.id
    BY DEF AnswersOK, OnePerId
  <2> DEFINE fx == Fused(q, x.id)
             fy == Fused(q, y.id)
             fz == Fused(q, z.id)
  <2>2. fx \in Int /\ fy \in Int /\ fz \in Int
    BY <1>1
  <2>3. /\ Ahead(q, x, x) <=> (x.score > x.score \/ (x.score = x.score /\ (fx > fx \/ (fx = fx /\ x.id < x.id))))
        /\ Ahead(q, x, y) <=> (x.score > y.score \/ (x.score = y.score /\ (fx > fy \/ (fx = fy /\ x.id < y.id))))
        /\ Ahead(q, y, x) <=> (y.score > x.score \/ (y.score = x.score /\ (fy > fx \/ (fy = fx /\ y.id < x.id))))
        /\ Ahead(q, y, z) <=> (y.score > z.score \/ (y.score = z.score /\ (fy > fz \/ (fy = fz /\ y.id < z.id))))
        /\ Ahead(q, x, z) <=> (x.score > z.score \/ (x.score = z.score /\ (fx > fz \/ (fx = fz /\ x.id < z.id))))
    BY DEF Ahead
  <2> HIDE DEF fx, fy, fz
  <2> QED
    BY <1>1, <2>1, <2>2, <2>3
<1> QED
  BY <1>2, <1>3 DEF TotalOrder

LEMMA BestIs ==
  ASSUME NEW A, AnswersOK(A), NEW k \in Nat
  PROVE  /\ Best(k, A) = Top(ByScore, A, k)
         /\ AnswersOK(Best(k, A)) /\ Best(k, A) \subseteq A
         /\ Cardinality(Best(k, A)) = Least(Cardinality(A), k)
         /\ \A c \in Best(k, A) : \A d \in A : d \notin Best(k, A) => d.score <= c.score
<1>1. \A c \in A : {d \in A : Better(d, c)} = Preceding(ByScore, A, c)
  BY DEF Preceding, ByScore, AnswersOK
<1>2. Best(k, A) = Top(ByScore, A, k)
  BY <1>1 DEF Best, Top
<1>3. Best(k, A) \in SUBSET A
  BY DEF Best
<1>4. TotalOrder(ByScore, A)
  BY ByScoreOrders
<1>5. Cardinality(Best(k, A)) = Least(Cardinality(A), k)
  BY <1>2, <1>4, TopCount DEF AnswersOK
<1>6. ASSUME NEW c \in Best(k, A), NEW d \in A, d \notin Best(k, A)
      PROVE  d.score <= c.score
  <2>1. <<c, d>> \in ByScore
    BY <1>2, <1>3, <1>4, <1>6, TopFirst DEF AnswersOK
  <2>2. Better(c, d) /\ c \in Answers /\ d \in Answers
    BY <2>1 DEF ByScore
  <2> QED
    BY <2>2 DEF Better, Answers
<1> QED
  BY <1>2, <1>3, <1>5, <1>6, AnswersWithin

\* The chunks that a query searches, and what the search says of them.
Searched(q) == {c \in ToSet(q.vec) \cup ToSet(q.lex) : InScope(q, c)}
Findings(q) == {[id |-> id, score |-> Fused(q, id)] : id \in Searched(q)}

LEMMA FoundIs ==
  ASSUME NEW q, IsQuery(q)
  PROVE  /\ Searched(q) \subseteq ChunkIds
         /\ AnswersOK(Findings(q)) /\ IdsOf(Findings(q)) = Searched(q)
         /\ SearchChunks(q) = Best(Fetch, Findings(q))
<1> DEFINE f == [id \in Searched(q) |-> [id |-> id, score |-> Fused(q, id)]]
<1>1. Searched(q) \subseteq ChunkIds
  BY DEF IsQuery, Searched, ToSet
<1>2. f \in [Searched(q) -> Answers] /\ \A id \in Searched(q) : f[id].id = id
  BY <1>1, FusedTyped DEF Answers
<1>3. Findings(q) = {f[id] : id \in Searched(q)}
  BY DEF Findings
<1>4. SearchChunks(q) = Best(Fetch, Findings(q))
  BY DEF SearchChunks, Findings, Searched
<1> HIDE DEF f
<1>5. AnswersOK(Findings(q)) /\ IdsOf(Findings(q)) = Searched(q)
  BY <1>1, <1>2, <1>3, AnswersOf
<1> QED
  BY <1>1, <1>4, <1>5

LEMMA RankedIs ==
  ASSUME NEW q, IsQuery(q)
  PROVE  AnswersOK(Ranked(q)) /\ AnswersOK(SearchChunks(q))
<1>1. AnswersOK(SearchChunks(q))
  <2>1. Fetch \in Nat
    BY RetrievalAssumption
  <2> QED
    BY <2>1, FoundIs, BestIs
<1>2. CASE q.scores = <<>>
  BY <1>1, <1>2 DEF Ranked
<1>3. CASE q.scores # <<>>
  <2> DEFINE C == SearchChunks(q)
             f == [id \in IdsOf(C) |-> [id |-> id, score |-> q.scores[id]]]
  <2>1. IdsOf(C) \subseteq ChunkIds
    BY <1>1 DEF AnswersOK, IdsOf, Answers
  <2>2. f \in [IdsOf(C) -> Answers] /\ \A id \in IdsOf(C) : f[id].id = id
    BY <1>3, <2>1 DEF IsQuery, Answers
  <2>3. Rerank(q, C) = {f[id] : id \in IdsOf(C)}
    BY DEF Rerank, IdsOf
  <2>4. Ranked(q) \subseteq Rerank(q, C)
    BY <1>3 DEF Ranked
  <2> HIDE DEF f, C
  <2>5. AnswersOK(Rerank(q, C))
    BY <2>1, <2>2, <2>3, AnswersOf
  <2> QED
    BY <1>1, <2>4, <2>5, AnswersWithin
<1> QED
  BY <1>2, <1>3

\* The answers to one query are the best of its ranking.
LEMMA RetrieveIs ==
  ASSUME NEW q, IsQuery(q)
  PROVE  AnswersOK(Ranked(q)) /\ AnswersOK(Retrieve(q)) /\ Cut(Ranked(q), Retrieve(q))
<1> DEFINE A == Ranked(q)
<1>1. AnswersOK(A) /\ TopK \in Nat
  BY RankedIs, RetrievalAssumption
<1>2. Retrieve(q) = {c \in A : Cardinality({d \in A : Ahead(q, d, c)}) < TopK}
  BY DEF Retrieve
<1> HIDE DEF A
<1>3. \A c \in A : {d \in A : Ahead(q, d, c)} = Preceding(ByRank(q), A, c)
  BY <1>1 DEF Preceding, ByRank, AnswersOK
<1>4. Retrieve(q) = Top(ByRank(q), A, TopK) /\ Retrieve(q) \in SUBSET A
  BY <1>2, <1>3 DEF Top
<1>5. TotalOrder(ByRank(q), A)
  BY <1>1, ByRankOrders
<1>6. Cardinality(Retrieve(q)) = Least(Cardinality(A), TopK)
  BY <1>1, <1>4, <1>5, TopCount DEF AnswersOK
<1>7. ASSUME NEW c \in Retrieve(q), NEW d \in A, d \notin Retrieve(q)
      PROVE  d.score <= c.score
  <2>1. <<c, d>> \in ByRank(q)
    BY <1>1, <1>4, <1>5, <1>7, TopFirst DEF AnswersOK
  <2>2. Ahead(q, c, d) /\ c \in Answers /\ d \in Answers
    BY <2>1 DEF ByRank
  <2> QED
    BY <2>2 DEF Ahead, Answers
<1>8. AnswersOK(Retrieve(q))
  BY <1>1, <1>4, AnswersWithin
<1> QED
  BY <1>1, <1>4, <1>6, <1>7, <1>8 DEF A, Cut

-----------------------------------------------------------------------------
(* What several queries found.                                             *)

\* B has, of every chunk in U, the best answer.
Merged(B, U) ==
  /\ AnswersOK(B) /\ B \subseteq U /\ U \subseteq Answers
  /\ \A e \in U : \E m \in B : m.id = e.id /\ e.score <= m.score

LEMMA MergeBestIs ==
  ASSUME NEW U, NEW B, Merged(B, U), NEW T, AnswersOK(T)
  PROVE  Merged(MergeBest(B, T), U \cup T)
<1> DEFINE all == B \cup T
           M == MergeBest(B, T)
<1>1. all \subseteq Answers /\ IsFiniteSet(all)
  BY FS_Union DEF Merged, AnswersOK
<1>2. M = {c \in all : \A d \in all : d.id = c.id => d.score <= c.score}
  BY DEF MergeBest
<1>3. \A c \in all : c = [id |-> c.id, score |-> c.score] /\ c.score \in Int
  BY <1>1 DEF Answers
<1>4. M \in SUBSET all
  BY <1>2
<1>5. \A c, d \in M : c.id = d.id => c = d
  BY <1>2, <1>3
<1>6. IsFiniteSet(M)
  BY <1>1, <1>4, FS_Subset
<1>7. AnswersOK(M) /\ M \subseteq U \cup T /\ U \cup T \subseteq Answers
  BY <1>1, <1>4, <1>5, <1>6 DEF AnswersOK, OnePerId, Merged
<1>8. ASSUME NEW e \in all
      PROVE  \E m \in M : m.id = e.id /\ e.score <= m.score
  <2>1. \A c, d \in B : c.id = d.id => c = d
    BY DEF Merged, AnswersOK, OnePerId
  <2>2. \A c, d \in T : c.id = d.id => c = d
    BY DEF AnswersOK, OnePerId
  <2>3. CASE e \in M
    BY <1>3, <2>3
  <2>4. CASE e \notin M
    <3>1. PICK m \in all : m.id = e.id /\ ~(m.score <= e.score)
      BY <1>2, <2>4
    <3>2. e.score <= m.score /\ m # e
      BY <1>3, <3>1
    <3>3. \A d \in all : d.id = e.id => d = e \/ d = m
      BY <2>1, <2>2, <3>1, <3>2
    <3>4. m \in M
      BY <1>2, <1>3, <3>1, <3>2, <3>3
    <3> QED
      BY <3>1, <3>2, <3>4
  <2> QED
    BY <2>3, <2>4
<1> HIDE DEF M
<1>9. ASSUME NEW e \in U \cup T
      PROVE  \E m \in M : m.id = e.id /\ e.score <= m.score
  <2>1. CASE e \in T
    BY <1>8, <2>1
  <2>2. CASE e \in U
    <3>1. PICK b \in B : b.id = e.id /\ e.score <= b.score
      BY <2>2 DEF Merged
    <3>2. PICK m \in M : m.id = b.id /\ b.score <= m.score
      BY <1>8, <3>1
    <3>3. b.score \in Int /\ m.score \in Int
      BY <1>3, <1>4, <3>1, <3>2
    <3>4. e.score \in Int
      BY <2>2 DEF Merged, Answers
    <3> QED
      BY <3>1, <3>2, <3>3, <3>4
  <2> QED
    BY <2>1, <2>2
<1> QED
  BY <1>7, <1>9 DEF Merged, M

LEMMA MergeAllIs ==
  ASSUME NEW queries, Len(queries) \in Nat,
         \A i \in 1..Len(queries) : IsQuery(queries[i])
  PROVE  Merged(MergeAll(queries), UNION {Retrieve(queries[i]) : i \in 1..Len(queries)})
<1> DEFINE n == Len(queries)
           T == {B \in SUBSET Answers : AnswersOK(B)}
           U(k) == UNION {Retrieve(queries[i]) : i \in 1..k}
           G(f) == f = [i \in 0..n |-> IF i = 0 THEN {}
                                       ELSE MergeBest(f[i-1], Retrieve(queries[i]))]
           step == [i \in 1..n |-> [B \in T |-> MergeBest(B, Retrieve(queries[i]))]]
           base == {}
<1>1. n \in Nat /\ \A i \in 1..n : AnswersOK(Retrieve(queries[i]))
  BY RetrieveIs
<1> HIDE DEF n
<1>2. base \in T
  BY FS_EmptySet DEF AnswersOK, OnePerId
<1>3. ASSUME NEW B \in T, NEW C, AnswersOK(C) PROVE MergeBest(B, C) \in T
  <2>1. Merged(B, B)
    BY DEF Merged, AnswersOK, Answers
  <2>2. Merged(MergeBest(B, C), B \cup C)
    BY <1>3, <2>1, MergeBestIs
  <2> QED
    BY <2>2 DEF Merged, AnswersOK
<1> HIDE DEF T
<1>4. Steps(step, n, T)
  BY <1>1, <1>3 DEF Steps
<1>5. PICK f \in [0..n -> T] :
        f[0] = base /\ \A i \in 1..n : f[i] = step[i][f[i-1]]
  <2> HIDE DEF step, G, base
  <2>1. \E f : Computes(f, step, base, n, T)
    BY <1>1, <1>2, <1>4, StepsExist
  <2> QED
    BY <2>1 DEF Computes
<1>6. \A i \in 1..n : f[i] = MergeBest(f[i-1], Retrieve(queries[i]))
  <2>1. \A i \in 1..n : i - 1 \in 0..n
    BY <1>1
  <2> QED
    BY <1>5, <2>1
<1>7. G(f)
  <2>1. ASSUME NEW i \in 0..n
        PROVE  f[i] = IF i = 0 THEN {} ELSE MergeBest(f[i-1], Retrieve(queries[i]))
    <3>1. i # 0 => i \in 1..n
      BY <1>1
    <3> QED
      BY <1>5, <1>6, <3>1
  <2>2. f = [i \in 0..n |-> f[i]]
    BY <1>5
  <2> QED
    BY <2>1, <2>2
<1> DEFINE g == CHOOSE h : G(h)
<1>8. G(g)
  <2> HIDE DEF G
  <2> QED
    BY <1>7
<1>9. MergeAll(queries) = g[n]
  BY DEF MergeAll, n
<1> HIDE DEF g
<1>10. g[0] = {} /\ \A i \in 1..n : g[i] = MergeBest(g[i-1], Retrieve(queries[i]))
  <2>1. \A i \in 0..n : g[i] = IF i = 0 THEN {} ELSE MergeBest(g[i-1], Retrieve(queries[i]))
    BY <1>8
  <2>2. 0 \in 0..n /\ \A i \in 1..n : i \in 0..n /\ i # 0
    BY <1>1
  <2> QED
    BY <2>1, <2>2
<1>11. \A i \in 0..n : Merged(g[i], U(i))
  <2> DEFINE K == {i \in 0..n : Merged(g[i], U(i))}
  <2>1. 0 \in K
    <3>1. U(0) = {}
      OBVIOUS
    <3>2. Merged({}, {})
      BY FS_EmptySet DEF Merged, AnswersOK, OnePerId
    <3> HIDE DEF U
    <3>3. g[0] = {} /\ 0 \in 0..n
      BY <1>1, <1>10
    <3>4. Merged(g[0], U(0))
      BY <3>1, <3>2, <3>3
    <3> QED
      BY <3>3, <3>4
  <2>2. ASSUME NEW i \in 1..n, i - 1 \in K PROVE i \in K
    <3>1. U(i) = U(i-1) \cup Retrieve(queries[i])
      <4>1. 1..i = (1..i-1) \cup {i}
        BY <1>1
      <4> QED
        BY <4>1
    <3> HIDE DEF U
    <3>2. Merged(g[i-1], U(i-1)) /\ i \in 0..n
      BY <1>1, <2>2
    <3>3. Merged(MergeBest(g[i-1], Retrieve(queries[i])), U(i-1) \cup Retrieve(queries[i]))
      BY <1>1, <3>2, MergeBestIs
    <3> QED
      BY <1>10, <3>1, <3>2, <3>3
  <2>3. \A i \in 0..n : i \in K
    <3> HIDE DEF K
    <3> QED
      BY <1>1, <2>1, <2>2, CountUp
  <2> QED
    BY <2>3
<1>12. Merged(g[n], U(n))
  BY <1>1, <1>11
<1> QED
  BY <1>9, <1>12 DEF n

LEMMA RewriteIs ==
  ASSUME NEW S, NEW given \in Seq(S)
  PROVE  Rewrite(given) \in Seq(S)
<1> DEFINE n == Len(given)
           T == Seq(S)
           G(f) == f = [i \in 0..n |-> IF i = 0 THEN <<>> ELSE AddQuery(f[i-1], given[i])]
           step == [i \in 1..n |-> [s \in T |-> AddQuery(s, given[i])]]
           base == <<>>
<1>1. n \in Nat /\ \A i \in 1..n : given[i] \in S
  OBVIOUS
<1> HIDE DEF n
<1>2. base \in T
  OBVIOUS
<1>3. ASSUME NEW s \in T, NEW q \in S PROVE AddQuery(s, q) \in T
  <2>1. Append(s, q) \in T
    BY AppendProperties
  <2>2. AddQuery(s, q) = s \/ AddQuery(s, q) = Append(s, q)
    BY DEF AddQuery
  <2> QED
    BY <2>1, <2>2
<1> HIDE DEF T
<1>4. Steps(step, n, T)
  BY <1>1, <1>3 DEF Steps
<1>5. PICK f \in [0..n -> T] :
        f[0] = base /\ \A i \in 1..n : f[i] = step[i][f[i-1]]
  <2> HIDE DEF step, G, base
  <2>1. \E f : Computes(f, step, base, n, T)
    BY <1>1, <1>2, <1>4, StepsExist
  <2> QED
    BY <2>1 DEF Computes
<1>6. \A i \in 1..n : f[i] = AddQuery(f[i-1], given[i])
  <2>1. \A i \in 1..n : i - 1 \in 0..n
    BY <1>1
  <2> QED
    BY <1>5, <2>1
<1>7. G(f)
  <2>1. ASSUME NEW i \in 0..n
        PROVE  f[i] = IF i = 0 THEN <<>> ELSE AddQuery(f[i-1], given[i])
    <3>1. i # 0 => i \in 1..n
      BY <1>1
    <3> QED
      BY <1>5, <1>6, <3>1
  <2>2. f = [i \in 0..n |-> f[i]]
    BY <1>5
  <2> QED
    BY <2>1, <2>2
<1> DEFINE g == CHOOSE h : G(h)
<1>8. G(g)
  <2> HIDE DEF G
  <2> QED
    BY <1>7
<1>9. Rewrite(given) = g[n]
  BY DEF Rewrite, n
<1> HIDE DEF g
<1>10. g[0] = base /\ \A i \in 1..n : g[i] = AddQuery(g[i-1], given[i])
  <2>1. \A i \in 0..n : g[i] = IF i = 0 THEN <<>> ELSE AddQuery(g[i-1], given[i])
    BY <1>8
  <2>2. 0 \in 0..n /\ \A i \in 1..n : i \in 0..n /\ i # 0
    BY <1>1
  <2> QED
    BY <2>1, <2>2
<1>11. \A i \in 0..n : g[i] \in T
  <2> DEFINE K == {i \in 0..n : g[i] \in T}
  <2>1. 0 \in K
    BY <1>1, <1>2, <1>10
  <2>2. ASSUME NEW i \in 1..n, i - 1 \in K PROVE i \in K
    <3>1. g[i-1] \in T /\ given[i] \in S /\ i \in 0..n
      BY <1>1, <2>2
    <3> QED
      BY <1>3, <1>10, <3>1
  <2>3. \A i \in 0..n : i \in K
    <3> HIDE DEF K
    <3> QED
      BY <1>1, <2>1, <2>2, CountUp
  <2> QED
    BY <2>3
<1> QED
  BY <1>1, <1>9, <1>11 DEF T

-----------------------------------------------------------------------------
(* The best of what was found.                                             *)

\* Something is left out only where the limit is reached.
LEMMA CutIsFull ==
  ASSUME NEW A, AnswersOK(A), NEW T, Cut(A, T), NEW d \in A, d \notin T
  PROVE  Cardinality(T) = TopK
<1>1. T \in SUBSET A /\ IsFiniteSet(A) /\ T # A
  BY DEF Cut, AnswersOK
<1>2. Cardinality(T) # Cardinality(A)
  BY <1>1, FS_Subset
<1> QED
  BY <1>2 DEF Cut, Least

\* An answer that is cut before the queries are merged would not be kept after:
\* the TopK before it keep it out.
LEMMA CutIsNoBetter ==
  ASSUME NEW A, AnswersOK(A), NEW T, Cut(A, T), NEW M, AnswersOK(M),
         \A e \in T : \E m \in M : m.id = e.id /\ e.score <= m.score,
         NEW c \in Best(TopK, M), NEW d \in A, d \notin T
  PROVE  d.score <= c.score
<1> DEFINE H == {m \in M : Better(m, c)}
           f == [e \in T |-> CHOOSE m \in M : m.id = e.id /\ e.score <= m.score]
<1>1. c \in M /\ Cardinality(H) < TopK
  BY DEF Best
<1>2. /\ c.score \in Int /\ d.score \in Int
      /\ \A e \in T : e \in A /\ e.score \in Int /\ d.score <= e.score
      /\ \A m \in M : m.score \in Int
  BY <1>1 DEF Cut, AnswersOK, Answers
<1>3. \A e \in T : f[e] \in M /\ f[e].id = e.id /\ e.score <= f[e].score
  OBVIOUS
<1> SUFFICES ASSUME ~(d.score <= c.score) PROVE FALSE
  OBVIOUS
<1>4. \A e \in T : f[e] \in H
  BY <1>2, <1>3 DEF Better
<1>5. \A x, y \in T : f[x] = f[y] => x = y
  BY <1>2, <1>3 DEF AnswersOK, OnePerId
<1>6. f \in Injection(T, H)
  <2>1. f \in [T -> H]
    BY <1>4
  <2> HIDE DEF f, H
  <2> QED
    BY <1>5, <2>1 DEF Injection, IsInjective
<1>7. IsFiniteSet(H)
  BY FS_Subset DEF AnswersOK
<1> HIDE DEF f, H
<1>8. Cardinality(T) <= Cardinality(H) /\ Cardinality(H) \in Nat
  BY <1>6, <1>7, FS_Injection, FS_CardinalityType
<1>9. Cardinality(T) = TopK
  BY CutIsFull
<1> QED
  BY <1>1, <1>8, <1>9, RetrievalAssumption

\* What is asked of the answers to one query or to several.
IsBestOf(all, result) ==
  /\ Cardinality(IdsOf(result)) = Cardinality(result)
  /\ Cardinality(IdsOf(result)) = Least(Cardinality(IdsOf(all)), TopK)
  /\ \A c \in result :
       /\ c \in all
       /\ \A d \in all : d.id = c.id \/ d.id \notin IdsOf(result) => d.score <= c.score

LEMMA OneKeepsBest ==
  ASSUME NEW q, IsQuery(q)
  PROVE  KeepsBest(<<q>>, Retrieve(q))
<1> DEFINE A == Ranked(q)
           T == Retrieve(q)
<1>1. AnswersOK(A) /\ AnswersOK(T) /\ Cut(A, T)
  BY RetrieveIs
<1>2. UNION {Ranked(<<q>>[i]) : i \in DOMAIN <<q>>} = A
  <2>1. DOMAIN <<q>> = {1} /\ <<q>>[1] = q
    OBVIOUS
  <2> QED
    BY <2>1
<1> HIDE DEF A, T
<1>3. /\ Cardinality(IdsOf(T)) = Cardinality(T)
      /\ Cardinality(IdsOf(A)) = Cardinality(A)
  BY <1>1, IdsCount
<1>4. \A c \in A : c.score \in Int
  BY <1>1 DEF AnswersOK, Answers
<1>5. ASSUME NEW c \in T, NEW d \in A, d.id = c.id \/ d.id \notin IdsOf(T)
      PROVE  d.score <= c.score
  <2>1. c \in A
    BY <1>1 DEF Cut
  <2>2. CASE d.id = c.id
    <3>1. d = c
      BY <1>1, <2>1, <2>2 DEF AnswersOK, OnePerId
    <3> QED
      BY <1>4, <2>1, <3>1
  <2>3. CASE d.id \notin IdsOf(T)
    <3>1. d \notin T
      BY <2>3 DEF IdsOf
    <3> QED
      BY <1>1, <3>1 DEF Cut
  <2> QED
    BY <1>5, <2>2, <2>3
<1>6. IsBestOf(A, T)
  BY <1>1, <1>3, <1>5 DEF IsBestOf, Cut
<1> QED
  BY <1>2, <1>6 DEF KeepsBest, IsBestOf, IdsOf, Least, A, T

LEMMA AllKeepBest ==
  ASSUME NEW queries \in Seq(Queries)
  PROVE  KeepsBest(queries, Best(TopK, MergeAll(queries)))
<1> DEFINE n == Len(queries)
           all == UNION {Ranked(queries[i]) : i \in DOMAIN queries}
           U == UNION {Retrieve(queries[i]) : i \in 1..n}
           M == MergeAll(queries)
           result == Best(TopK, M)
<1>1. n \in Nat /\ DOMAIN queries = 1..n /\ \A i \in 1..n : IsQuery(queries[i])
  BY RecallsAssumption DEF IsQuery
<1>2. Merged(M, U)
  BY <1>1, MergeAllIs
<1>3. \A i \in 1..n : /\ AnswersOK(Ranked(queries[i])) /\ AnswersOK(Retrieve(queries[i]))
                      /\ Cut(Ranked(queries[i]), Retrieve(queries[i]))
  BY <1>1, RetrieveIs
<1>4. \A d \in all : \E i \in 1..n : d \in Ranked(queries[i])
  BY <1>1
<1>5. \A e \in U : \E i \in 1..n : e \in Retrieve(queries[i])
  OBVIOUS
<1>6. \A i \in 1..n : Retrieve(queries[i]) \subseteq U /\ Ranked(queries[i]) \subseteq all
  BY <1>1
<1> HIDE DEF n, all, U, M
<1>7. AnswersOK(M) /\ M \subseteq U /\ \A e \in U : \E m \in M : m.id = e.id /\ e.score <= m.score
  BY <1>2 DEF Merged
<1>8. /\ result = Top(ByScore, M, TopK)
      /\ AnswersOK(result) /\ result \subseteq M
      /\ Cardinality(result) = Least(Cardinality(M), TopK)
      /\ \A c \in result : \A d \in M : d \notin result => d.score <= c.score
  <2>1. TopK \in Nat
    BY RetrievalAssumption
  <2> QED
    BY <1>7, <2>1, BestIs
<1>9. U \subseteq all
  BY <1>3, <1>5, <1>6 DEF Cut
<1>10. all \subseteq Answers
  BY <1>3, <1>4 DEF AnswersOK
<1>11. ASSUME NEW c \in result, NEW i \in 1..n, NEW d \in Ranked(queries[i]),
              d \notin Retrieve(queries[i])
       PROVE  d.score <= c.score
  <2>1. \A e \in Retrieve(queries[i]) : \E m \in M : m.id = e.id /\ e.score <= m.score
    BY <1>6, <1>7
  <2> QED
    BY <1>3, <1>7, <1>11, <2>1, CutIsNoBetter
<1> HIDE DEF result
<1>12. ASSUME NEW c \in result, NEW d \in all, d.id = c.id \/ d.id \notin IdsOf(result)
       PROVE  d.score <= c.score
  <2>1. PICK i \in 1..n : d \in Ranked(queries[i])
    BY <1>4
  <2>2. CASE d \notin Retrieve(queries[i])
    BY <1>11, <2>1, <2>2
  <2>3. CASE d \in Retrieve(queries[i])
    <3>1. PICK m \in M : m.id = d.id /\ d.score <= m.score
      BY <1>6, <1>7, <2>3
    <3>2. c \in M /\ c.score \in Int /\ m.score \in Int /\ d.score \in Int
      BY <1>7, <1>8, <1>10 DEF AnswersOK, Answers
    <3>3. CASE d.id = c.id
      <4>1. m = c
        BY <1>7, <3>1, <3>2, <3>3 DEF AnswersOK, OnePerId
      <4> QED
        BY <3>1, <4>1
    <3>4. CASE d.id \notin IdsOf(result)
      <4>1. m \notin result
        BY <3>1, <3>4 DEF IdsOf
      <4>2. m.score <= c.score
        BY <1>8, <4>1
      <4> QED
        BY <3>1, <3>2, <4>2
    <3> QED
      BY <1>12, <3>3, <3>4
  <2> QED
    BY <2>2, <2>3
<1>13. IdsOf(M) \subseteq IdsOf(all)
  BY <1>7, <1>9 DEF IdsOf
<1>14. IsFiniteSet(IdsOf(all))
  <2>1. IdsOf(all) \in SUBSET ChunkIds
    BY <1>10 DEF IdsOf, Answers
  <2> QED
    BY <2>1, RetrievalAssumption, FS_Subset
<1>15. Cardinality(IdsOf(M)) = Cardinality(M) /\ Cardinality(M) \in Nat
  BY <1>7, IdsCount, FS_CardinalityType DEF AnswersOK
<1>16. Least(Cardinality(M), TopK) = Least(Cardinality(IdsOf(all)), TopK)
  <2>1. CASE \E i \in 1..n : \E d \in Ranked(queries[i]) : d \notin Retrieve(queries[i])
    <3>1. PICK i \in 1..n : \E d \in Ranked(queries[i]) : d \notin Retrieve(queries[i])
      BY <2>1
    <3> DEFINE T == Retrieve(queries[i])
    <3>2. Cardinality(T) = TopK
      BY <1>3, <3>1, CutIsFull
    <3>3. Cardinality(IdsOf(T)) = TopK
      BY <1>3, <3>2, IdsCount
    <3>4. IdsOf(T) \subseteq IdsOf(M)
      BY <1>6, <1>7 DEF IdsOf
    <3> HIDE DEF T
    <3>5. TopK <= Cardinality(IdsOf(M)) /\ Cardinality(IdsOf(M)) <= Cardinality(IdsOf(all))
      BY <1>13, <1>14, <3>3, <3>4, FS_Subset
    <3>6. Cardinality(IdsOf(all)) \in Nat /\ TopK \in Nat
      BY <1>14, FS_CardinalityType, RetrievalAssumption
    <3> QED
      BY <1>15, <3>5, <3>6 DEF Least
  <2>2. CASE \A i \in 1..n : \A d \in Ranked(queries[i]) : d \in Retrieve(queries[i])
    <3>1. all \subseteq U
      BY <1>4, <1>6, <2>2
    <3>2. IdsOf(all) \subseteq IdsOf(M)
      BY <1>7, <3>1 DEF IdsOf
    <3>3. IdsOf(all) = IdsOf(M)
      BY <1>13, <3>2
    <3> QED
      BY <1>15, <3>3
  <2> QED
    BY <2>1, <2>2
<1>17. Cardinality(IdsOf(result)) = Cardinality(result)
  BY <1>8, IdsCount
<1>18. IsBestOf(all, result)
  <2>1. result \subseteq all
    BY <1>7, <1>8, <1>9
  <2> QED
    BY <1>8, <1>12, <1>16, <1>17, <2>1 DEF IsBestOf
<1> QED
  BY <1>18 DEF KeepsBest, IsBestOf, IdsOf, Least, all, result, M

-----------------------------------------------------------------------------
(* The days of a query.                                                    *)

\* A time is of a day or later when it is no earlier than the day begins.
LEMMA DayBegins ==
  ASSUME NEW t \in Nat, NEW d \in Nat
  PROVE  /\ t \div TicksPerDay \in Int
         /\ d <= t \div TicksPerDay <=> d * TicksPerDay <= t
<1> DEFINE L == TicksPerDay
           x == t \div L
           r == t % L
<1>1. L \in Nat /\ L > 0
  BY RetrievalAssumption
<1>2. x \in Int /\ r \in 0..L-1 /\ t = L * x + r
  BY <1>1
<1> HIDE DEF L, x, r
<1>3. ASSUME d <= x PROVE d * L <= t
  <2>1. x - d \in Nat
    BY <1>2, <1>3
  <2>2. L * (x - d) >= 0 /\ L * (x - d) = L * x - d * L
    BY <1>1, <1>2, <2>1
  <2> QED
    BY <1>1, <1>2, <2>2
<1>4. ASSUME x < d PROVE t < d * L
  <2>1. d - x - 1 \in Nat
    BY <1>2, <1>4
  <2>2. L * (d - x - 1) >= 0 /\ L * (d - x - 1) = d * L - L * x - L
    BY <1>1, <1>2, <2>1
  <2> QED
    BY <1>1, <1>2, <2>2
<1>5. d * L \in Int
  BY <1>1
<1>6. d <= x <=> d * L <= t
  BY <1>2, <1>3, <1>4, <1>5
<1> QED
  BY <1>2, <1>6 DEF L, x

\* What a query asks for, as FindsItsDays says it.
OfItsDays(q, t) ==
  /\ q.since = NoDate \/ q.since <= t \div TicksPerDay
  /\ q.until = NoDate \/ t \div TicksPerDay <= q.until
AskedFor(q, id) ==
  /\ \A p \in q.author : q.author = {p} => p \in Archived[id].authors
  /\ \E t \in Archived[id].from..Archived[id].to : OfItsDays(q, t)
InOrderOfDays(q) == q.since = NoDate \/ q.until = NoDate \/ q.since <= q.until

LEMMA TimeOfItsDays ==
  ASSUME NEW q, IsQuery(q), NEW t \in Nat
  PROVE  OfItsDays(q, t) <=> /\ q.since = NoDate \/ t >= Since(q)
                             /\ q.until = NoDate \/ t < Until(q)
<1>1. q.since = NoDate \/ (q.since <= t \div TicksPerDay <=> t >= Since(q))
  <2> SUFFICES ASSUME q.since # NoDate PROVE q.since <= t \div TicksPerDay <=> t >= Since(q)
    OBVIOUS
  <2> DEFINE d == q.since
  <2>1. d \in Nat
    BY DEF IsQuery
  <2>2. d <= t \div TicksPerDay <=> d * TicksPerDay <= t
    BY <2>1, DayBegins
  <2>3. d * TicksPerDay \in Int
    BY <2>1, RetrievalAssumption
  <2> QED
    BY <2>2, <2>3 DEF Since
<1>2. q.until = NoDate \/ (t \div TicksPerDay <= q.until <=> t < Until(q))
  <2> SUFFICES ASSUME q.until # NoDate PROVE t \div TicksPerDay <= q.until <=> t < Until(q)
    OBVIOUS
  <2> DEFINE d == q.until + 1
             x == t \div TicksPerDay
             e == d * TicksPerDay
  <2>1. d \in Nat /\ q.until \in Nat
    BY DEF IsQuery
  <2>2. x \in Int /\ (d <= x <=> e <= t)
    BY <2>1, DayBegins
  <2>3. e \in Int
    BY <2>1, RetrievalAssumption
  <2>4. Until(q) = e
    BY DEF Until
  <2> HIDE DEF x, e
  <2>5. x <= q.until <=> t < e
    BY <2>1, <2>2, <2>3
  <2> QED
    BY <2>4, <2>5 DEF x
<1> QED
  BY <1>1, <1>2 DEF OfItsDays

LEMMA ScopeIsAsked ==
  ASSUME NEW q, IsQuery(q), InOrderOfDays(q), NEW id \in ChunkIds
  PROVE  InScope(q, id) <=> AskedFor(q, id)
<1> DEFINE a == Archived[id].from
           b == Archived[id].to
           L == TicksPerDay
<1>1. a \in Nat /\ b \in Nat /\ a <= b /\ L \in Nat /\ L > 0
  BY RetrievalAssumption
<1>2. ResolveAuthor(q.author) \subseteq Archived[id].authors
        <=> \A p \in q.author : q.author = {p} => p \in Archived[id].authors
  <2>1. Cardinality(q.author) = 1 <=> \E p : q.author = {p}
    BY FS_Singleton DEF IsQuery
  <2>2. CASE \E p : q.author = {p}
    BY <2>1, <2>2 DEF ResolveAuthor
  <2>3. CASE ~\E p : q.author = {p}
    BY <2>1, <2>3 DEF ResolveAuthor
  <2> QED
    BY <2>2, <2>3
<1>3. (\E t \in a..b : OfItsDays(q, t))
        <=> /\ q.since = NoDate \/ b >= Since(q)
            /\ q.until = NoDate \/ a < Until(q)
  <2>1. q.since # NoDate => q.since \in Nat /\ Since(q) \in Nat
    BY <1>1 DEF IsQuery, Since
  <2>2. q.until # NoDate => q.until \in Nat /\ Until(q) \in Nat
    BY <1>1 DEF IsQuery, Until
  <2>3. q.since # NoDate /\ q.until # NoDate => Since(q) < Until(q)
    <3> SUFFICES ASSUME q.since # NoDate, q.until # NoDate PROVE Since(q) < Until(q)
      OBVIOUS
    <3> DEFINE n == q.until - q.since
    <3>1. n \in Nat /\ q.until \in Nat /\ q.since \in Nat
      BY <2>1, <2>2 DEF InOrderOfDays
    <3>2. (q.until + 1) * L = q.since * L + n * L + L /\ n * L >= 0
      BY <1>1, <3>1
    <3> HIDE DEF n
    <3>3. q.since * L \in Int /\ n * L \in Int
      BY <1>1, <3>1
    <3> QED
      BY <1>1, <3>2, <3>3 DEF Since, Until
  <2>4. ASSUME NEW t \in a..b, OfItsDays(q, t)
        PROVE  /\ q.since = NoDate \/ b >= Since(q)
               /\ q.until = NoDate \/ a < Until(q)
    <3>1. t \in Nat /\ a <= t /\ t <= b
      BY <1>1
    <3>2. /\ q.since = NoDate \/ t >= Since(q)
          /\ q.until = NoDate \/ t < Until(q)
      BY <2>4, <3>1, TimeOfItsDays
    <3> QED
      BY <1>1, <2>1, <2>2, <3>1, <3>2
  <2>5. ASSUME q.since = NoDate \/ b >= Since(q), q.until = NoDate \/ a < Until(q)
        PROVE  \E t \in a..b : OfItsDays(q, t)
    <3> DEFINE t == IF q.since = NoDate \/ Since(q) <= a THEN a ELSE Since(q)
    <3>1. /\ t \in a..b /\ t \in Nat
          /\ q.since = NoDate \/ t >= Since(q)
          /\ q.until = NoDate \/ t < Until(q)
      BY <1>1, <2>1, <2>2, <2>3, <2>5
    <3> HIDE DEF t
    <3>2. OfItsDays(q, t)
      BY <3>1, TimeOfItsDays
    <3> QED
      BY <3>1, <3>2
  <2> QED
    BY <2>4, <2>5
<1> HIDE DEF a, b
<1> QED
  BY <1>2, <1>3 DEF InScope, AskedFor, a, b

LEMMA DaysAreFound ==
  ASSUME NEW q, IsQuery(q)
  PROVE  FindsItsDays(q)
<1> DEFINE sought == {id \in ToSet(q.vec) \cup ToSet(q.lex) : AskedFor(q, id)}
           F == Findings(q)
           B == Best(Fetch, F)
<1> SUFFICES ASSUME InOrderOfDays(q)
             PROVE  IdsOf(B) \subseteq sought /\ (Cardinality(sought) <= Fetch => IdsOf(B) = sought)
  <2>1. SearchChunks(q) = B
    BY FoundIs
  <2> HIDE DEF B
  <2> QED
    BY <2>1 DEF FindsItsDays, InOrderOfDays, IdsOf, AskedFor, OfItsDays
<1>1. ToSet(q.vec) \cup ToSet(q.lex) \subseteq ChunkIds
  BY DEF IsQuery, ToSet
<1>2. Searched(q) = sought
  BY <1>1, ScopeIsAsked DEF Searched
<1>3. AnswersOK(F) /\ IdsOf(F) = sought
  BY <1>2, FoundIs
<1>4. Cardinality(sought) = Cardinality(F) /\ Cardinality(F) \in Nat /\ Fetch \in Nat
  BY <1>3, IdsCount, FS_CardinalityType, RetrievalAssumption DEF AnswersOK
<1> HIDE DEF F, sought
<1>5. B \subseteq F /\ Cardinality(B) = Least(Cardinality(F), Fetch)
  BY <1>3, <1>4, BestIs
<1> HIDE DEF B
<1>6. IdsOf(B) \subseteq sought
  BY <1>3, <1>5 DEF IdsOf
<1>7. ASSUME Cardinality(sought) <= Fetch PROVE B = F
  <2>1. Cardinality(B) = Cardinality(F)
    BY <1>4, <1>5, <1>7 DEF Least
  <2>2. IsFiniteSet(F) /\ B \in SUBSET F
    BY <1>3, <1>5 DEF AnswersOK
  <2> QED
    BY <2>1, <2>2, FS_Subset
<1> QED
  BY <1>3, <1>6, <1>7

-----------------------------------------------------------------------------
(* A chunk among its neighbours.                                           *)

Smaller == {p \in Nat \X Nat : p[1] < p[2]}
Ascends(ids, s) ==
  s \in [1..Cardinality(ids) -> ids] /\ \A i, j \in DOMAIN s : i < j => s[i] < s[j]

LEMMA SmallerOrders ==
  ASSUME NEW S, S \subseteq Nat
  PROVE  TotalOrder(Smaller, S)
<1> SUFFICES ASSUME NEW x \in S, NEW y \in S, NEW z \in S
             PROVE  /\ <<x, x>> \notin Smaller
                    /\ x # y => <<x, y>> \in Smaller \/ <<y, x>> \in Smaller
                    /\ <<x, y>> \in Smaller /\ <<y, z>> \in Smaller => <<x, z>> \in Smaller
  BY DEF TotalOrder
<1>1. x \in Nat /\ y \in Nat /\ z \in Nat
  OBVIOUS
<1> QED
  BY <1>1 DEF Smaller

LEMMA AscendingExists ==
  ASSUME NEW S, S \subseteq Nat, IsFiniteSet(S)
  PROVE  \E s : Ascends(S, s)
<1> DEFINE K == {n \in Nat : \A T \in SUBSET Nat :
                   IsFiniteSet(T) /\ Cardinality(T) = n => \E s : Ascends(T, s)}
<1>1. 0 \in K
  <2>1. ASSUME NEW T \in SUBSET Nat, IsFiniteSet(T), Cardinality(T) = 0
        PROVE  Ascends(T, [i \in 1..0 |-> 0])
    <3>1. [i \in 1..0 |-> 0] \in [1..Cardinality(T) -> T]
      BY <2>1
    <3> QED
      BY <3>1 DEF Ascends
  <2> QED
    BY <2>1
<1>2. ASSUME NEW n \in Nat, n \in K PROVE n + 1 \in K
  <2>1. ASSUME NEW T \in SUBSET Nat, IsFiniteSet(T), Cardinality(T) = n + 1
        PROVE  \E s : Ascends(T, s)
    <3>1. T # {} /\ TotalOrder(Smaller, Nat)
      BY <2>1, FS_EmptySet, SmallerOrders
    <3>2. PICK m : IsLast(Smaller, T, m)
      BY <2>1, <3>1, LastExists
    <3>3. m \in T /\ \A p \in T : p = m \/ p < m
      BY <3>2 DEF IsLast, Smaller
    <3>4. IsFiniteSet(T \ {m}) /\ Cardinality(T \ {m}) = n /\ T \ {m} \in SUBSET Nat
      <4>1. IsFiniteSet(T \ {m}) /\ Cardinality(T \ {m}) = Cardinality(T) - 1
        BY <2>1, <3>3, FS_RemoveElement
      <4>2. Cardinality(T) - 1 = n
        BY <2>1
      <4> QED
        BY <4>1, <4>2
    <3>5. PICK s : Ascends(T \ {m}, s)
      BY <1>2, <3>4
    <3>6. s \in [1..n -> T \ {m}] /\ \A i, j \in 1..n : i < j => s[i] < s[j]
      BY <3>4, <3>5 DEF Ascends
    <3> DEFINE t == [k \in 1..n+1 |-> IF k = n + 1 THEN m ELSE s[k]]
    <3>7. t \in [1..n+1 -> T] /\ t[n+1] = m
      BY <3>3, <3>6
    <3>8. \A k \in 1..n : t[k] = s[k] /\ s[k] \in T \ {m}
      BY <3>6
    <3> HIDE DEF t
    <3>9. ASSUME NEW i \in 1..n+1, NEW j \in 1..n+1, i < j PROVE t[i] < t[j]
      <4>1. i \in 1..n
        BY <3>9
      <4>2. CASE j = n + 1
        BY <3>3, <3>7, <3>8, <4>1, <4>2
      <4>3. CASE j # n + 1
        <5>1. j \in 1..n
          BY <4>3
        <5> QED
          BY <3>6, <3>8, <3>9, <4>1, <5>1
      <4> QED
        BY <4>2, <4>3
    <3>10. Ascends(T, t)
      BY <2>1, <3>7, <3>9 DEF Ascends
    <3> QED
      BY <3>10
  <2> QED
    BY <2>1
<1>3. Nat \subseteq K
  <2> HIDE DEF K
  <2> QED
    BY <1>1, <1>2, NatSetInduction
<1>4. Cardinality(S) \in K
  BY <1>3, FS_CardinalityType
<1> QED
  BY <1>4

\* What is known of the chunks in their order.
InTheirOrder(ids, s) ==
  /\ Cardinality(ids) \in Nat /\ s \in Seq(ids) /\ Len(s) = Cardinality(ids)
  /\ \A i, j \in 1..Len(s) : i < j => s[i] < s[j]
  /\ \A x \in ids : \E i \in 1..Len(s) : s[i] = x

LEMMA AscendingIs ==
  ASSUME NEW S, S \subseteq Nat, IsFiniteSet(S)
  PROVE  InTheirOrder(S, Ascending(S))
<1> DEFINE s == Ascending(S)
           n == Cardinality(S)
<1>1. n \in Nat
  BY FS_CardinalityType
<1>2. Ascends(S, s)
  <2>1. PICK t : Ascends(S, t)
    BY AscendingExists
  <2>2. t \in [1..Cardinality(S) -> S]
    BY <2>1 DEF Ascends
  <2> QED
    BY <2>1, <2>2 DEF Ascending, Ascends
<1> HIDE DEF s
<1>3. s \in [1..n -> S] /\ \A i, j \in 1..n : i < j => s[i] < s[j]
  BY <1>2 DEF Ascends
<1>4. s \in Seq(S) /\ Len(s) = n
  <2> HIDE DEF n
  <2> QED
    BY <1>1, <1>3
<1>5. s \in Injection(1..n, S)
  <2>1. ASSUME NEW i \in 1..n, NEW j \in 1..n, s[i] = s[j] PROVE i = j
    <3>1. s[i] \in Nat /\ s[j] \in Nat
      BY <1>3
    <3>2. ~(i < j) /\ ~(j < i)
      BY <1>3, <2>1, <3>1
    <3> QED
      BY <1>1, <3>2
  <2> QED
    BY <1>3, <2>1 DEF Injection, IsInjective
<1>6. Cardinality(1..n) = n /\ IsFiniteSet(1..n)
  BY <1>1, FS_Interval
<1>7. s \in Surjection(1..n, S)
  BY <1>5, <1>6, FS_Injection
<1> QED
  BY <1>1, <1>3, <1>4, <1>7 DEF InTheirOrder, Surjection, s

Later(S, x) == {d \in S : x < d}
Earlier(S, x) == {d \in S : d < x}

\* So many are after the i-th, and so many before it.
LEMMA PlaceCounts ==
  ASSUME NEW S, S \subseteq Nat, IsFiniteSet(S), NEW s, InTheirOrder(S, s), NEW i \in 1..Len(s)
  PROVE  /\ Cardinality(Later(S, s[i])) = Len(s) - i
         /\ Cardinality(Earlier(S, s[i])) = i - 1
<1> DEFINE n == Len(s)
<1>1. n \in Nat /\ i \in Nat /\ \A j \in 1..n : s[j] \in S /\ s[j] \in Nat
  <2>1. s \in Seq(S)
    BY DEF InTheirOrder
  <2>2. n \in Nat /\ \A j \in 1..n : s[j] \in S
    BY <2>1
  <2>3. i \in Nat
    BY <2>2
  <2>4. \A j \in 1..n : s[j] \in Nat
    BY <2>2
  <2> QED
    BY <2>2, <2>3, <2>4
<1>2. \A j, k \in 1..n : (j < k <=> s[j] < s[k]) /\ (s[j] = s[k] => j = k)
  <2> SUFFICES ASSUME NEW j \in 1..n, NEW k \in 1..n
               PROVE  (j < k <=> s[j] < s[k]) /\ (s[j] = s[k] => j = k)
    OBVIOUS
  <2>1. \A a, b \in 1..Len(s) : a < b => s[a] < s[b]
    BY DEF InTheirOrder
  <2> QED
    BY <1>1, <2>1
<1>3. ASSUME NEW T, NEW u \in 1..n+1, NEW v \in 0..n,
             \A x : x \in T <=> \E j \in u..v : s[j] = x
      PROVE  IsFiniteSet(T) /\ Cardinality(T) = IF u > v THEN 0 ELSE v - u + 1
  <2> DEFINE f == [j \in u..v |-> s[j]]
  <2>1. f \in [u..v -> T] /\ f \in Surjection(u..v, T)
    BY <1>3 DEF Surjection
  <2>2. \A j, k \in u..v : f[j] = f[k] => j = k
    BY <1>1, <1>2, <1>3
  <2>3. f \in Injection(u..v, T)
    <3> HIDE DEF f
    <3> QED
      BY <2>1, <2>2 DEF Injection, IsInjective
  <2>4. IsFiniteSet(u..v) /\ Cardinality(u..v) = IF u > v THEN 0 ELSE v - u + 1
    BY <1>1, <1>3, FS_Interval
  <2> HIDE DEF f
  <2> QED
    BY <2>1, <2>3, <2>4, FS_Surjection
<1>4. \A x \in S : \E j \in 1..n : s[j] = x
  BY DEF InTheirOrder
<1>5. Cardinality(Later(S, s[i])) = n - i
  <2> DEFINE T == {d \in S : s[i] < d}
  <2>1. ASSUME NEW x PROVE x \in T <=> \E j \in i+1..n : s[j] = x
    <3>1. ASSUME x \in T PROVE \E j \in i+1..n : s[j] = x
      <4>1. PICK j \in 1..n : s[j] = x
        BY <1>4, <3>1
      <4>2. j \in i+1..n
        BY <1>1, <1>2, <3>1, <4>1
      <4> QED
        BY <4>1, <4>2
    <3>2. ASSUME NEW j \in i+1..n, s[j] = x PROVE x \in T
      <4>1. j \in 1..n /\ i < j
        BY <1>1
      <4> QED
        BY <1>1, <1>2, <3>2, <4>1
    <3> QED
      BY <3>1, <3>2
  <2> HIDE DEF T
  <2>2. i + 1 \in 1..n+1 /\ n \in 0..n
    BY <1>1
  <2>3. Cardinality(T) = IF i + 1 > n THEN 0 ELSE n - (i + 1) + 1
    BY <1>3, <2>1, <2>2
  <2> QED
    BY <1>1, <2>3 DEF T, Later
<1>6. Cardinality(Earlier(S, s[i])) = i - 1
  <2> DEFINE T == {d \in S : d < s[i]}
  <2>1. ASSUME NEW x PROVE x \in T <=> \E j \in 1..i-1 : s[j] = x
    <3>1. ASSUME x \in T PROVE \E j \in 1..i-1 : s[j] = x
      <4>1. PICK j \in 1..n : s[j] = x
        BY <1>4, <3>1
      <4>2. j \in 1..i-1
        BY <1>1, <1>2, <3>1, <4>1
      <4> QED
        BY <4>1, <4>2
    <3>2. ASSUME NEW j \in 1..i-1, s[j] = x PROVE x \in T
      <4>1. j \in 1..n /\ j < i
        BY <1>1
      <4> QED
        BY <1>1, <1>2, <3>2, <4>1
    <3> QED
      BY <3>1, <3>2
  <2> HIDE DEF T
  <2>2. 1 \in 1..n+1 /\ i - 1 \in 0..n
    BY <1>1
  <2>3. Cardinality(T) = IF 1 > i - 1 THEN 0 ELSE (i - 1) - 1 + 1
    BY <1>3, <2>1, <2>2
  <2> QED
    BY <1>1, <2>3 DEF T, Earlier
<1> QED
  BY <1>5, <1>6

\* The neighbours of a chunk: so many of those before it, the first skipped, and
\* so many of those after it.
Neighboured(N, b, skip, p, a, r) ==
  /\ N \in Seq(ChunkIds) /\ Len(N) = p + r
  /\ \A i \in 1..p : N[i] = b[skip+i]
  /\ \A i \in 1..r : N[p+i] = a[i]

LEMMA NeighboursAre ==
  ASSUME NEW b \in Seq(ChunkIds), NEW a \in Seq(ChunkIds),
         NEW skip \in 0..Len(b), NEW r \in 0..Len(a)
  PROVE  Neighboured(SubSeq(b, skip + 1, Len(b)) \o SubSeq(a, 1, r),
                     b, skip, Len(b) - skip, a, r)
<1> DEFINE p == Len(b) - skip
           c == SubSeq(b, skip + 1, Len(b))
           d == SubSeq(a, 1, r)
           N == c \o d
<1>1. c \in Seq(ChunkIds) /\ Len(c) = p /\ \A i \in 1..p : c[i] = b[skip+i]
  <2> DEFINE u == skip + 1
  <2>1. u \in Nat \ {0} /\ p \in Nat /\ u + p - 1 = Len(b) /\ u + p - 1 <= Len(b)
    OBVIOUS
  <2>2. \A i : i \in 1..p => skip + i = u + i - 1
    OBVIOUS
  <2> DEFINE e == SubSeq(b, u, u + p - 1)
  <2>3. e = c
    BY <2>1
  <2> HIDE DEF p
  <2>4. e \in Seq(ChunkIds) /\ Len(e) = p /\ \A i \in 1..p : e[i] = b[u+i-1]
    <3> HIDE DEF u
    <3> QED
      BY <2>1, PartIs
  <2> HIDE DEF c, e, u
  <2> QED
    BY <2>2, <2>3, <2>4
<1>2. d \in Seq(ChunkIds) /\ Len(d) = r /\ \A i \in 1..r : d[i] = a[i]
  <2> DEFINE u == 1
             e == SubSeq(a, u, u + r - 1)
  <2>1. u \in Nat \ {0} /\ r \in Nat /\ u + r - 1 = r /\ u + r - 1 <= Len(a)
    OBVIOUS
  <2>2. \A i : i \in 1..r => u + i - 1 = i
    OBVIOUS
  <2>3. e = d
    BY <2>1
  <2>4. e \in Seq(ChunkIds) /\ Len(e) = r /\ \A i \in 1..r : e[i] = a[u+i-1]
    <3> HIDE DEF u
    <3> QED
      BY <2>1, PartIs
  <2> HIDE DEF d, e, u
  <2> QED
    BY <2>2, <2>3, <2>4
<1>3. p \in Nat /\ r \in Nat
  OBVIOUS
<1> HIDE DEF c, d, p
<1>4. /\ N \in Seq(ChunkIds) /\ Len(N) = Len(c) + Len(d)
      /\ \A i \in 1..Len(c)+Len(d) : N[i] = IF i <= Len(c) THEN c[i] ELSE d[i - Len(c)]
  BY <1>1, <1>2, ConcatProperties
<1> HIDE DEF N
<1>5. \A i \in 1..p : N[i] = b[skip+i]
  BY <1>1, <1>2, <1>3, <1>4
<1>6. ASSUME NEW i \in 1..r PROVE N[p+i] = a[i]
  <2>1. p + i \in 1..p+r /\ ~(p + i <= p) /\ (p + i) - p = i
    BY <1>3
  <2>2. N[p+i] = d[(p+i)-p]
    BY <1>1, <1>2, <1>4, <2>1
  <2> QED
    BY <1>2, <2>1, <2>2
<1> QED
  BY <1>1, <1>2, <1>4, <1>5, <1>6 DEF Neighboured, N, c, d, p

\* The chunk comes after those before it.
Placed(s, id, b, skip, p, a, r) ==
  /\ s \in Seq(ChunkIds) /\ Len(s) = p + 1 + r
  /\ \A i \in 1..p : s[i] = b[skip+i]
  /\ s[p+1] = id
  /\ \A i \in 1..r : s[p+1+i] = a[i]

LEMMA ExpandIs ==
  ASSUME NEW id \in ChunkIds, NEW N, NEW b, NEW skip \in Nat, NEW p \in Nat, NEW a, NEW r \in Nat,
         Neighboured(N, b, skip, p, a, r),
         \A i \in 1..p : b[skip+i] < id, \A i \in 1..r : id < a[i]
  PROVE  Placed(Expand(N, id), id, b, skip, p, a, r)
<1> DEFINE later == {i \in DOMAIN N : N[i] > id}
           at == IF later = {} THEN Len(N)
                 ELSE (CHOOSE i \in later : \A j \in later : i <= j) - 1
           out == InsertedIn(N, at, id)
<1>1. /\ N \in Seq(ChunkIds) /\ Len(N) = p + r /\ DOMAIN N = 1..p+r
      /\ \A i \in 1..p : N[i] = b[skip+i]
      /\ \A i \in 1..r : N[p+i] = a[i]
  BY DEF Neighboured
<1>2. Expand(N, id) = out
  BY DEF Expand, InsertedIn
<1>3. later = p+1..p+r
  <2>1. \A i \in 1..p+r : N[i] \in Nat /\ id \in Nat
    <3>1. N \in Seq(ChunkIds) /\ DOMAIN N = 1..p+r /\ Len(N) = p + r
      BY <1>1
    <3>2. \A i \in 1..p+r : N[i] \in ChunkIds
      BY <3>1
    <3>3. \A c \in ChunkIds : c \in Nat
      BY RetrievalAssumption
    <3> QED
      BY <3>2, <3>3
  <2>2. ASSUME NEW i \in 1..p PROVE i \notin later
    <3>1. i \in 1..p+r /\ N[i] < id
      BY <1>1
    <3> QED
      BY <2>1, <3>1
  <2>3. ASSUME NEW i \in p+1..p+r PROVE i \in later
    <3>1. i - p \in 1..r /\ p + (i - p) = i /\ i \in 1..p+r
      OBVIOUS
    <3>2. N[i] = a[i-p] /\ id < a[i-p]
      BY <1>1, <3>1
    <3> QED
      BY <1>1, <2>1, <3>1, <3>2
  <2>4. \A i \in 1..p+r : i \in 1..p \/ i \in p+1..p+r
    OBVIOUS
  <2> QED
    BY <1>1, <2>2, <2>3, <2>4
<1>4. at = p
  <2> HIDE DEF later
  <2>1. CASE r = 0
    BY <1>1, <1>3, <2>1
  <2>2. CASE r # 0
    <3>1. p + 1 \in later /\ \A j \in later : p + 1 <= j
      BY <1>3, <2>2
    <3>2. \A i \in later : (\A j \in later : i <= j) => i = p + 1
      BY <1>3, <3>1
    <3>3. (CHOOSE i \in later : \A j \in later : i <= j) = p + 1
      BY <3>1, <3>2
    <3>4. later # {}
      BY <3>1
    <3> DEFINE least == CHOOSE i \in later : \A j \in later : i <= j
    <3>5. at = least - 1
      BY <3>4
    <3>6. least = p + 1
      BY <3>3
    <3> HIDE DEF least, at
    <3> QED
      BY <3>5, <3>6
  <2> QED
    BY <2>1, <2>2
<1> HIDE DEF at, later
<1>5. IsInserted(out, N, p, id, ChunkIds)
  <2>1. p \in 0..Len(N)
    BY <1>1
  <2> QED
    BY <1>1, <1>4, <2>1, InsertedIs
<1> HIDE DEF out
<1>6. /\ out \in Seq(ChunkIds) /\ Len(out) = p + r + 1
      /\ \A i \in 1..p : out[i] = N[i]
      /\ out[p+1] = id
      /\ \A i \in p+1..p+r : out[i+1] = N[i]
  BY <1>1, <1>5 DEF IsInserted
<1>7. ASSUME NEW i \in 1..r PROVE out[p+1+i] = a[i]
  <2>1. p + i \in p+1..p+r /\ (p + i) + 1 = p + 1 + i
    OBVIOUS
  <2>2. out[(p+i)+1] = N[p+i]
    BY <1>6, <2>1
  <2> QED
    BY <1>1, <2>1, <2>2
<1>8. Len(out) = p + 1 + r
  BY <1>6
<1> QED
  BY <1>1, <1>2, <1>6, <1>7, <1>8 DEF Placed

LEMMA ChunkIsPlaced ==
  ASSUME NEW id \in ChunkIds
  PROVE  ShownInPlace(id)
<1> DEFINE B == {c \in ChunkIds : c < id}
           A == {c \in ChunkIds : c > id}
           b == Ascending(B)
           a == Ascending(A)
           K == NeighborChunks
           n == Len(b)
           m == Len(a)
           skip == IF n > K THEN n - K ELSE 0
           p == n - skip
           r == IF m > K THEN K ELSE m
           s == Expand(GetNeighborChunks(id), id)
<1>1. /\ id \in Nat /\ K \in Nat /\ \A c \in ChunkIds : c \in Nat
      /\ B \subseteq Nat /\ A \subseteq Nat /\ B \subseteq ChunkIds /\ A \subseteq ChunkIds
  BY RetrievalAssumption
<1>2. IsFiniteSet(B) /\ IsFiniteSet(A)
  <2>1. B \in SUBSET ChunkIds /\ A \in SUBSET ChunkIds
    OBVIOUS
  <2> HIDE DEF A, B
  <2> QED
    BY <2>1, RetrievalAssumption, FS_Subset
<1>3. \A c \in B : c < id /\ c \in ChunkIds
  OBVIOUS
<1>4. \A c \in A : id < c /\ c \in ChunkIds
  BY <1>1
<1>5. \A c \in ChunkIds : c = id \/ c \in A \/ c \in B
  BY <1>1
<1>6. \A c \in B : {d \in ChunkIds : (c < d /\ d < id) \/ (id < d /\ d < c)} = Later(B, c)
  BY <1>1 DEF Later
<1>7. \A c \in A : {d \in ChunkIds : (c < d /\ d < id) \/ (id < d /\ d < c)} = Earlier(A, c)
  BY <1>1 DEF Earlier
<1>8. GetNeighborChunks(id) = SubSeq(b, skip + 1, n) \o SubSeq(a, 1, r)
  BY DEF GetNeighborChunks
<1> HIDE DEF A, B
<1>9. InTheirOrder(B, b) /\ InTheirOrder(A, a)
  BY <1>1, <1>2, AscendingIs
<1> HIDE DEF a, b
<1>10. b \in Seq(B) /\ a \in Seq(A)
  BY <1>9 DEF InTheirOrder
<1>11. /\ b \in Seq(ChunkIds) /\ a \in Seq(ChunkIds) /\ n \in Nat /\ m \in Nat
       /\ \A i \in 1..n : b[i] \in B
       /\ \A i \in 1..m : a[i] \in A
  <2>1. b \in Seq(ChunkIds) /\ a \in Seq(ChunkIds)
    BY <1>1, <1>10, SeqMonotonic
  <2>2. n \in Nat /\ \A i \in 1..n : b[i] \in B
    BY <1>10
  <2>3. m \in Nat /\ \A i \in 1..m : a[i] \in A
    BY <1>10
  <2> QED
    BY <2>1, <2>2, <2>3
<1> HIDE DEF n, m, K
<1>12. skip \in 0..n /\ skip \in Nat /\ p \in Nat /\ r \in 0..m /\ r \in Nat
  BY <1>1, <1>11
<1>13. Neighboured(GetNeighborChunks(id), b, skip, p, a, r)
  <2> HIDE DEF skip, r
  <2> QED
    BY <1>8, <1>11, <1>12, NeighboursAre DEF n, m
<1>14. \A k \in 1..n : n - k < K <=> k \in skip+1..n
  BY <1>1, <1>11
<1>15. \A k \in 1..m : k - 1 < K <=> k \in 1..r
  BY <1>1, <1>11
<1>16. n = skip + p
  BY <1>11, <1>12
<1> HIDE DEF skip, p, r
<1>17. \A i \in 1..p : b[skip+i] \in B /\ b[skip+i] < id
  <2>1. \A i \in 1..p : skip + i \in 1..n
    BY <1>12, <1>16
  <2> QED
    BY <1>3, <1>11, <2>1
<1>18. \A i \in 1..r : a[i] \in A /\ id < a[i]
  <2>1. \A i \in 1..r : i \in 1..m
    BY <1>11, <1>12
  <2> QED
    BY <1>4, <1>11, <2>1
<1>19. Placed(s, id, b, skip, p, a, r)
  BY <1>12, <1>13, <1>17, <1>18, ExpandIs
<1> HIDE DEF s
<1>20. /\ Len(s) = p + 1 + r /\ DOMAIN s = 1..p+1+r
       /\ \A i \in 1..p : s[i] = b[skip+i]
       /\ s[p+1] = id
       /\ \A i \in 1..r : s[p+1+i] = a[i]
  BY <1>19 DEF Placed
<1>21. \A i \in 1..p+1+r : \/ i \in 1..p /\ s[i] = b[skip+i]
                           \/ i = p + 1 /\ s[i] = id
                           \/ \E j \in 1..r : i = p + 1 + j /\ s[i] = a[j]
  <2> SUFFICES ASSUME NEW i \in 1..p+1+r, i \notin 1..p, i # p + 1
               PROVE  \E j \in 1..r : i = p + 1 + j /\ s[i] = a[j]
    BY <1>20
  <2>1. i - (p + 1) \in 1..r /\ i = p + 1 + (i - (p + 1))
    BY <1>12
  <2> QED
    BY <1>20, <2>1
<1>22. /\ \A i, j \in 1..n : i < j => b[i] < b[j]
       /\ \A i, j \in 1..m : i < j => a[i] < a[j]
  BY <1>9 DEF InTheirOrder, n, m
<1>23. ASSUME NEW i \in 1..p+1+r, NEW j \in 1..p+1+r, i < j
       PROVE  s[i] < s[j]
  <2>1. CASE i \in 1..p /\ j \in 1..p
    <3>1. skip + i \in 1..n /\ skip + j \in 1..n /\ skip + i < skip + j
      BY <1>12, <1>16, <1>23, <2>1
    <3> QED
      BY <1>20, <1>22, <2>1, <3>1
  <2>2. CASE i \in 1..p /\ j = p + 1
    BY <1>17, <1>20, <2>2
  <2>3. ASSUME i \in 1..p, NEW l \in 1..r, s[j] = a[l] PROVE s[i] < s[j]
    <3>1. s[i] \in Nat /\ s[j] \in Nat /\ s[i] < id /\ id < s[j]
      BY <1>1, <1>17, <1>18, <1>20, <2>3
    <3> QED
      BY <1>1, <3>1
  <2>4. ASSUME i = p + 1, NEW l \in 1..r, s[j] = a[l] PROVE s[i] < s[j]
    BY <1>18, <1>20, <2>4
  <2>5. ASSUME NEW k \in 1..r, i = p + 1 + k, s[i] = a[k],
               NEW l \in 1..r, j = p + 1 + l, s[j] = a[l]
        PROVE  s[i] < s[j]
    <3>1. k < l /\ k \in 1..m /\ l \in 1..m
      BY <1>11, <1>12, <1>23, <2>5
    <3> QED
      BY <1>22, <2>5, <3>1
  <2>6. /\ i = p + 1 => j \notin 1..p /\ j # p + 1
        /\ \A k \in 1..r : i = p + 1 + k => j \notin 1..p /\ j # p + 1
    BY <1>12, <1>23
  <2> QED
    BY <1>21, <2>1, <2>2, <2>3, <2>4, <2>5, <2>6
<1> DEFINE Near(c) == {d \in ChunkIds : (c < d /\ d < id) \/ (id < d /\ d < c)}
           shown == {c \in ChunkIds : c = id \/ Cardinality(Near(c)) < K}
<1>24. \A k \in 1..n : Cardinality(Near(b[k])) = n - k
  <2> SUFFICES ASSUME NEW k \in 1..n PROVE Cardinality(Near(b[k])) = n - k
    OBVIOUS
  <2>1. Near(b[k]) = Later(B, b[k])
    BY <1>6, <1>11
  <2>2. Cardinality(Later(B, b[k])) = n - k
    <3>1. B \subseteq Nat /\ IsFiniteSet(B) /\ InTheirOrder(B, b) /\ k \in 1..Len(b)
      BY <1>1, <1>2, <1>9 DEF n
    <3>2. Cardinality(Later(B, b[k])) = Len(b) - k
      BY <3>1, PlaceCounts
    <3> QED
      BY <3>2 DEF n
  <2> QED
    BY <2>1, <2>2
<1>25. \A k \in 1..m : Cardinality(Near(a[k])) = k - 1
  <2> SUFFICES ASSUME NEW k \in 1..m PROVE Cardinality(Near(a[k])) = k - 1
    OBVIOUS
  <2>1. Near(a[k]) = Earlier(A, a[k])
    BY <1>7, <1>11
  <2>2. Cardinality(Earlier(A, a[k])) = k - 1
    <3>1. A \subseteq Nat /\ IsFiniteSet(A) /\ InTheirOrder(A, a) /\ k \in 1..Len(a)
      BY <1>1, <1>2, <1>9 DEF m
    <3>2. Cardinality(Earlier(A, a[k])) = k - 1
      BY <3>1, PlaceCounts
    <3> QED
      BY <3>2 DEF m
  <2> QED
    BY <2>1, <2>2
<1> HIDE DEF Near
<1>26. \A c \in B : \E k \in 1..n : b[k] = c
  BY <1>9 DEF InTheirOrder, n
<1>27. \A c \in A : \E k \in 1..m : a[k] = c
  BY <1>9 DEF InTheirOrder, m
<1>28. ASSUME NEW c \in shown PROVE \E i \in 1..p+1+r : s[i] = c
  <2>1. CASE c = id
    <3>1. p + 1 \in 1..p+1+r
      BY <1>12
    <3> QED
      BY <1>20, <2>1, <3>1
  <2>2. CASE c \in B
    <3>1. PICK k \in 1..n : b[k] = c
      BY <1>26, <2>2
    <3>2. c # id
      BY <1>1, <1>3, <2>2
    <3>3. n - k < K
      BY <1>24, <1>28, <3>1, <3>2
    <3>4. k \in skip+1..n
      BY <1>14, <3>3
    <3>5. k - skip \in 1..p /\ k - skip \in 1..p+1+r /\ skip + (k - skip) = k
      BY <1>12, <1>16, <3>4
    <3>6. s[k-skip] = c
      BY <1>20, <3>1, <3>5
    <3> QED
      BY <3>5, <3>6
  <2>3. CASE c \in A
    <3>1. PICK k \in 1..m : a[k] = c
      BY <1>27, <2>3
    <3>2. c # id
      BY <1>1, <1>4, <2>3
    <3>3. k - 1 < K
      BY <1>25, <1>28, <3>1, <3>2
    <3>4. k \in 1..r
      BY <1>15, <3>3
    <3>5. p + 1 + k \in 1..p+1+r
      BY <1>12, <3>4
    <3> QED
      BY <1>20, <3>1, <3>4, <3>5
  <2> QED
    BY <1>5, <2>1, <2>2, <2>3
<1>29. ASSUME NEW i \in 1..p+1+r PROVE s[i] \in shown
  <2>1. CASE i \in 1..p /\ s[i] = b[skip+i]
    <3>1. skip + i \in 1..n /\ skip + i \in skip+1..n
      BY <1>12, <1>16, <2>1
    <3>2. n - (skip + i) < K
      BY <1>14, <3>1
    <3>3. Cardinality(Near(b[skip+i])) < K
      BY <1>24, <3>1, <3>2
    <3>4. b[skip+i] \in ChunkIds
      BY <1>3, <1>17, <2>1
    <3> QED
      BY <2>1, <3>3, <3>4
  <2>2. CASE i = p + 1 /\ s[i] = id
    BY <2>2
  <2>3. ASSUME NEW j \in 1..r, s[i] = a[j] PROVE s[i] \in shown
    <3>1. j \in 1..m
      BY <1>11, <1>12
    <3>2. j - 1 < K
      BY <1>15, <3>1
    <3>3. Cardinality(Near(a[j])) < K
      BY <1>25, <3>1, <3>2
    <3>4. a[j] \in ChunkIds
      BY <1>4, <1>18
    <3> QED
      BY <2>3, <3>3, <3>4
  <2> QED
    BY <1>21, <2>1, <2>2, <2>3
<1> HIDE DEF shown
<1>30. shown \subseteq ToSet(s) /\ ToSet(s) \subseteq shown
  BY <1>20, <1>28, <1>29 DEF ToSet
<1>31. ToSet(s) = shown /\ \A i, j \in DOMAIN s : i < j => s[i] < s[j]
  BY <1>20, <1>23, <1>30
<1> QED
  BY <1>31 DEF ShownInPlace, s, shown, Near, K

-----------------------------------------------------------------------------
(* The theorem.                                                            *)

RecallsTypeOK == message \in Requests /\ items \in Seq(Queries)

LEMMA RecallsStayTyped == RecallSpec => []RecallsTypeOK
<1>1. RecallInit => RecallsTypeOK
  <2>1. <<>> \in Seq(Queries)
    OBVIOUS
  <2> QED
    BY <2>1 DEF RecallInit, RecallsTypeOK
<1>2. RecallsTypeOK /\ [NextItem]_recallVars => RecallsTypeOK'
  <2> SUFFICES ASSUME RecallsTypeOK, [NextItem]_recallVars PROVE RecallsTypeOK'
    OBVIOUS
  <2>1. CASE UNCHANGED recallVars
    BY <2>1 DEF recallVars, RecallsTypeOK
  <2>2. CASE NextItem
    <3>1. PICK q \in Queries : items' = Append(items, q)
      BY <2>2 DEF NextItem
    <3>2. Append(items, q) \in Seq(Queries)
      BY AppendProperties DEF RecallsTypeOK
    <3> QED
      BY <2>2, <3>1, <3>2 DEF NextItem, RecallsTypeOK
  <2> QED
    BY <2>1, <2>2
<1> QED
  BY <1>1, <1>2, PTL DEF RecallSpec

\* Recall keeps the best of all queries, although each of them is cut before the
\* queries are merged; each query finds the days it asks for; and what is kept is
\* shown in its place (RetrieveRewritten, chunkFilterSQL, GetNeighborChunks,
\* expandWithNeighbors).
THEOREM BestIsRecalled == RecallSpec => []RecallIsRight
<1>1. RecallsTypeOK => RecallIsRight
  <2> SUFFICES ASSUME RecallsTypeOK PROVE RecallIsRight
    OBVIOUS
  <2> DEFINE queries == Rewrite(items)
             result == Best(TopK, MergeAll(queries))
  <2>1. IsQuery(message) /\ \A q \in Queries : IsQuery(q)
    BY RecallsAssumption DEF RecallsTypeOK, IsQuery
  <2>2. items \in Seq(Queries) /\ queries \in Seq(Queries)
    BY RewriteIs DEF RecallsTypeOK
  <2>3. /\ RetrieveRewritten(message, items, FALSE) = Retrieve(message)
        /\ RetrieveRewritten(message, items, TRUE) = result
    BY DEF RetrieveRewritten
  <2>4. KeepsBest(<<message>>, RetrieveRewritten(message, items, FALSE))
    BY <2>1, <2>3, OneKeepsBest
  <2> HIDE DEF queries
  <2>5. KeepsBest(queries, result)
    BY <2>2, AllKeepBest
  <2>6. \A i \in DOMAIN items : FindsItsDays(items[i])
    <3> SUFFICES ASSUME NEW i \in DOMAIN items PROVE FindsItsDays(items[i])
      OBVIOUS
    <3>1. items[i] \in Queries
      BY <2>2
    <3> QED
      BY <2>1, <3>1, DaysAreFound
  <2>7. \A c \in result : ShownInPlace(c.id)
    <3>1. \A i \in 1..Len(queries) : IsQuery(queries[i])
      BY <2>1, <2>2
    <3>2. Len(queries) \in Nat
      BY <2>2
    <3>3. AnswersOK(MergeAll(queries))
      BY <3>1, <3>2, MergeAllIs DEF Merged
    <3>4. \A c \in result : c.id \in ChunkIds
      BY <3>3 DEF Best, AnswersOK, Answers
    <3> QED
      BY <3>4, ChunkIsPlaced
  <2> HIDE DEF result
  <2> QED
    BY <2>3, <2>4, <2>5, <2>6, <2>7 DEF RecallIsRight, queries
<1> QED
  BY <1>1, RecallsStayTyped, PTL
=============================================================================
