----------------------------- MODULE CodeTools -----------------------------
(***************************************************************************)
(* code_read, code_edit and code_ship over the one source checkout.  Every *)
(* call tries the repository lock and gives up when it is taken; a ship    *)
(* holds it from its first check to its last record.  The shell tool works *)
(* in the same checkout, with git too, and takes no lock.                  *)
(*                                                                         *)
(* A tree is a set of edits, and a commit the sequence of the trees        *)
(* committed up to it, the first one first; so a branch that goes on from  *)
(* another has it as a prefix; two commits of the same trees are one.      *)
(* What is read, written or printed is left out, and nobody else pushes to *)
(* main.                                                                   *)
(***************************************************************************)
EXTENDS FiniteSets, SequencesExt

CONSTANTS
  Callers,      \* tool calls, one goroutine each
  Nobody,
  Edits,        \* the edits there are to make
  Migrations,   \* those of them below internal/store/migrations/
  Embedded,     \* the migrations compiled into the running process
  Checkouts,    \* what the shell may make of the checkout
  MaxCommits    \* bound: commits on a branch

ASSUME CodeToolsAssumption ==
  /\ Nobody \notin Callers
  /\ Migrations \subseteq Edits
  /\ Embedded \cap Edits = {}
  /\ Checkouts \subseteq [tree : SUBSET Edits, index : SUBSET Edits,
                          head : Seq(SUBSET Edits)]
  /\ MaxCommits \in Nat

VARIABLES
  tree,         \* the work tree
  index,        \* what git add has staged
  head,         \* HEAD of the checkout, a commit
  remote,       \* main on the remote, a commit
  writer,       \* holder of repoMu, or Nobody
  readers,      \* holders of its read lock
  job,          \* where each call is, or how it ended
  shipped,      \* the commits the deploy journal names, and how they came
  tested,       \* history: edits that were in the tree of a passed test
  shelled,      \* history: edits the shell wrote, staged or committed
  moved,        \* history: it has moved HEAD since the push that is recorded
  migrated      \* history: migrations run on a restored snapshot

codeVars == <<tree, index, head, remote, writer, readers, job, shipped,
              tested, shelled, moved, migrated>>

ShipSteps == {"test", "guard", "verify", "add", "commit", "push", "record"}
Busy      == ShipSteps \cup {"read", "edit"}
Ended     == {"ok", "error", "busy"}

\* The tree of a commit; before the first one it is empty.
Tip(commit) == IF commit = <<>> THEN {} ELSE Last(commit)

CodeTypeOK ==
  /\ {tree, index, tested, shelled} \subseteq SUBSET Edits
  /\ {head, remote} \subseteq Seq(SUBSET Edits)
  /\ writer \in Callers \cup {Nobody}
  /\ readers \subseteq Callers
  /\ job \in [Callers -> {"none"} \cup Busy \cup Ended]
  /\ shipped \subseteq [commit : Seq(SUBSET Edits), moved : BOOLEAN]
  /\ moved \in BOOLEAN
  /\ migrated \subseteq Migrations \cup Embedded

CodeInit ==
  /\ tree = {} /\ index = {} /\ head = <<>> /\ remote = <<>>
  /\ writer = Nobody /\ readers = {}
  /\ job = [c \in Callers |-> "none"]
  /\ shipped = {}
  /\ tested = {} /\ shelled = {} /\ moved = FALSE /\ migrated = {}

Free == writer = Nobody /\ readers = {}

\* What a call returns; a ship and an edit unlock as they return.
Return(c, result) ==
  /\ job' = [job EXCEPT ![c] = result]
  /\ writer' = IF writer = c THEN Nobody ELSE writer
  /\ readers' = readers \ {c}

Proceed(c, step) ==
  /\ job' = [job EXCEPT ![c] = step]
  /\ UNCHANGED <<writer, readers>>

\* A command of a ship fails, or is killed with the turn's context.
Fails(c) ==
  /\ Return(c, "error")
  /\ UNCHANGED <<tree, index, head, remote, shipped, tested, shelled, moved,
                 migrated>>

-----------------------------------------------------------------------------
(* code_read and code_edit.                                                *)

StartRead(c) ==
  /\ job[c] = "none"
  /\ \/ /\ writer = Nobody
        /\ job' = [job EXCEPT ![c] = "read"]
        /\ readers' = readers \cup {c}
     \/ /\ writer # Nobody
        /\ job' = [job EXCEPT ![c] = "busy"]
        /\ UNCHANGED readers
  /\ UNCHANGED <<tree, index, head, remote, writer, shipped, tested, shelled,
                 moved, migrated>>

Read(c) ==
  /\ job[c] = "read"
  /\ \E result \in {"ok", "error"} : Return(c, result)
  /\ UNCHANGED <<tree, index, head, remote, shipped, tested, shelled, moved,
                 migrated>>

\* The lock for an edit or a ship, which begins at step.
TryLock(c, step) ==
  /\ job[c] = "none"
  /\ \/ /\ Free
        /\ job' = [job EXCEPT ![c] = step]
        /\ writer' = c
     \/ /\ ~Free
        /\ job' = [job EXCEPT ![c] = "busy"]
        /\ UNCHANGED writer
  /\ UNCHANGED <<tree, index, head, remote, readers, shipped, tested, shelled,
                 moved, migrated>>

StartEdit(c) == TryLock(c, "edit")

\* Write, str_replace or insert: the file is written, or nothing happens.
Edit(c) ==
  /\ job[c] = "edit"
  /\ \/ /\ \E e \in Edits \ tree : tree' = tree \cup {e}
        /\ Return(c, "ok")
     \/ /\ Return(c, "error")
        /\ UNCHANGED tree
  /\ UNCHANGED <<index, head, remote, shipped, tested, shelled, moved,
                 migrated>>

-----------------------------------------------------------------------------
(* code_ship.                                                              *)

\* Mutant: a ship only looks whether the lock is free.
ShipUnlocked(c) ==
  /\ job[c] = "none"
  /\ job' = [job EXCEPT ![c] = IF Free THEN "test" ELSE "busy"]
  /\ UNCHANGED <<tree, index, head, remote, writer, readers, shipped, tested,
                 shelled, moved, migrated>>

StartShip(c) == TryLock(c, "test")

\* go build, go vet and go test on the tree as it is.
Test(c) ==
  /\ job[c] = "test"
  /\ \/ /\ tested' = tested \cup tree
        /\ Proceed(c, "guard")
        /\ UNCHANGED <<tree, index, head, remote, shipped, shelled, moved,
                       migrated>>
     \/ Fails(c)

\* What git status lists: what is not staged, and what is not committed.
Changed == SymDiff(tree, index) \cup SymDiff(index, Tip(head))

\* The system prompt is there, a snapshot is taken (and old ones pruned), and
\* git status names a migration or not.
Guard(c) ==
  /\ job[c] = "guard"
  /\ \/ /\ Proceed(c, IF Changed \cap Migrations = {} THEN "add" ELSE "verify")
        /\ UNCHANGED <<tree, index, head, remote, shipped, tested, shelled,
                       moved, migrated>>
     \/ Fails(c)

\* The snapshot is restored into a scratch database and store.RunMigrationsDSN
\* migrates it: with the files embedded in this process.
VerifyMigrations(c) ==
  /\ job[c] = "verify"
  /\ \/ /\ migrated' = migrated \cup Embedded
        /\ Proceed(c, "add")
        /\ UNCHANGED <<tree, index, head, remote, shipped, tested, shelled,
                       moved>>
     \/ Fails(c)

GitAdd(c) ==
  /\ job[c] = "add"
  /\ \/ /\ index' = tree
        /\ Proceed(c, "commit")
        /\ UNCHANGED <<tree, head, remote, shipped, tested, shelled, moved,
                       migrated>>
     \/ Fails(c)

\* A commit without a change is an error.
GitCommit(c) ==
  /\ job[c] = "commit"
  /\ \/ /\ index # Tip(head)
        /\ Len(head) < MaxCommits
        /\ head' = Append(head, index)
        /\ Proceed(c, "push")
        /\ UNCHANGED <<tree, index, remote, shipped, tested, shelled, moved,
                       migrated>>
     \/ Fails(c)

\* The remote refuses what does not go on from its main.
Arrives == IsPrefix(remote, head) /\ remote' = head

\* Mutant: a failed push is logged, and the ship goes on.
PushUnchecked(c) ==
  /\ job[c] = "push"
  /\ UNCHANGED remote \/ Arrives
  /\ Proceed(c, "record")
  /\ UNCHANGED <<tree, index, head, shipped, tested, shelled, moved, migrated>>

\* The push arrives, does not, or arrives and its answer is lost.
GitPush(c) ==
  /\ job[c] = "push"
  /\ \/ Arrives /\ Proceed(c, "record")
     \/ Arrives /\ Return(c, "error")
     \/ UNCHANGED remote /\ Return(c, "error")
  /\ UNCHANGED <<tree, index, head, shipped, tested, shelled, moved, migrated>>

\* The journal is told what HEAD is now.  A ship that cannot be noted in it has
\* succeeded all the same.
RecordHead(c) ==
  /\ job[c] = "record"
  /\ shipped' \in {shipped, shipped \cup {[commit |-> head, moved |-> moved]}}
  /\ moved' = FALSE
  /\ Return(c, "ok")
  /\ UNCHANGED <<tree, index, head, remote, tested, shelled, migrated>>

-----------------------------------------------------------------------------
\* What a command of sys_shell does to the checkout, which it may have cloned
\* there itself.  It takes no lock and may write, add, commit, reset and check
\* out as it likes; it has no token to push with.
Shell ==
  /\ \E left \in Checkouts :
       tree' = left.tree /\ index' = left.index /\ head' = left.head
  /\ shelled' = shelled \cup (tree' \ tree) \cup (index' \ index)
                         \cup (Tip(head') \ Tip(head))
  /\ moved' = (moved \/ (head' # head /\ \E c \in Callers : job[c] = "record"))
  /\ UNCHANGED <<remote, writer, readers, job, shipped, tested, migrated>>

\* The answer of a call is taken, and its goroutine may serve another call.
Take(c) ==
  /\ job[c] \in Ended
  /\ job' = [job EXCEPT ![c] = "none"]
  /\ UNCHANGED <<tree, index, head, remote, writer, readers, shipped, tested,
                 shelled, moved, migrated>>

\* The steps a call takes once it has begun.
CodeStep(c) ==
  \/ Read(c) \/ Edit(c)
  \/ Test(c) \/ Guard(c) \/ VerifyMigrations(c) \/ GitAdd(c) \/ GitCommit(c)
  \/ GitPush(c) \/ RecordHead(c)

CodeNext ==
  \/ \E c \in Callers :
       StartRead(c) \/ StartEdit(c) \/ StartShip(c) \/ CodeStep(c) \/ Take(c)
  \/ Shell

CodeSpec == CodeInit /\ [][CodeNext]_codeVars

-----------------------------------------------------------------------------
\* What main holds was in the tree of a test that passed, but for what the shell
\* put into the checkout meanwhile (code_ship, tools_code.go).
OnlyShellSlipsIn == Tip(remote) \subseteq tested \cup shelled

\* Every commit the deploy journal calls shipped is on main, unless the shell
\* moved HEAD between the push and the look at it (recordShip).
JournalTellsTruth ==
  \A ship \in shipped : ship.moved \/ IsPrefix(ship.commit, remote)

\* Claimed by code_ship, and false: a migration that reaches main was run on a
\* snapshot of the database before ("migration verification if needed"), also
\* when it is not the shell's.
PushedMigrationsWereRun ==
  Tip(remote) \cap Migrations \subseteq migrated \cup shelled
=============================================================================
