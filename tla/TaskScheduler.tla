--------------------------- MODULE TaskScheduler ---------------------------
(***************************************************************************)
(* The sys_task scheduler: rows in PostgreSQL (internal/store/tasks.go),   *)
(* the claiming loop and one goroutine per claimed task                    *)
(* (internal/agent/scheduler.go), the create and cancel commands           *)
(* (internal/agent/tools_task.go) and the report of tasks a previous       *)
(* process left running (internal/agent/tasks.go).                         *)
(*                                                                         *)
(* The process may be stopped or crash at any step and boots again on the  *)
(* same database.  A store call may fail, and may also commit and lose its *)
(* reply; MaxFaults bounds how often, MaxBoots the number of processes.    *)
(***************************************************************************)
EXTENDS Naturals, FiniteSets

CONSTANTS
  Tasks,        \* task ids
  MaxBoots,     \* processes started on this database
  MaxFaults     \* store calls that fail or lose their reply

ASSUME BoundsAssumption == MaxBoots \in Nat /\ MaxFaults \in Nat

VARIABLES
  (* the tasks table *)
  status,       \* Task.Status, "none" before the row exists
  startedAt,    \* tasks whose StartedAt column is set
  result,       \* Task.Result: "none", "text", "empty" or "error"
  (* the world *)
  due,          \* tasks whose fire_at has been reached
  proc,         \* the process: "down", "up", "stopping" (ctx cancelled)
  boots,        \* processes started so far
  faults,       \* store faults so far
  (* the loop *)
  loop,         \* Scheduler.loop: where its goroutine stands
  batch,        \* rows fireDue claimed and has not started a goroutine for yet
  wakeup,       \* the wakeups channel (capacity 1) holds a token
  timer,        \* the AfterFunc createTask arms for a task due within a minute
  (* the task goroutines *)
  run,          \* runTask: where the task's goroutine stands
  ctx,          \* ctx.Err() of that goroutine: "live", "cancelled", "deadline"
  registered,   \* taskCancels.byID
  reply,        \* what the turn (and the post) came to
  (* the cancel command *)
  cancelOp,     \* "committed" between CancelTask and cancels.cancel
  cancelledFrom,\* the status cancelTask found, which it names in its answer
  (* the report of interrupted tasks *)
  mail,         \* the interrupted channel (capacity 1)
  reporter,     \* ReportInterruptedTasks: where its goroutine stands
  todo,         \* tasks it still has to announce
  (* what was observable, kept for the properties *)
  turns,        \* persona turns started for a task
  posts,        \* answers delivered to the channel
  notes         \* "got cut off" notes delivered

rowVars    == <<status, startedAt, result>>
procVars   == <<proc, boots>>
loopVars   == <<loop, batch, wakeup, timer>>
runVars    == <<run, ctx, registered, reply>>
cancelVars == <<cancelOp, cancelledFrom>>
reportVars == <<mail, reporter, todo>>
seenVars   == <<turns, posts, notes>>
vars == <<rowVars, due, procVars, faults, loopVars, runVars, cancelVars,
          reportVars, seenVars>>

Final    == {"done", "failed", "cancelled", "interrupted"}
Active   == {"pending", "running"}
Statuses == {"none"} \cup Active \cup Final

\* context.WithTimeout: a context whose Err is set keeps it.
Cancel(c) == IF c = "live" THEN "cancelled" ELSE c

Pending == {t \in Tasks : status[t] = "pending"}
Running == {t \in Tasks : status[t] = "running"}

\* UPDATE tasks SET status = s for the rows in S.
Mark(S, s) == [t \in Tasks |-> IF t \in S THEN s ELSE status[t]]

NoMail == [full |-> FALSE, tasks |-> {}]

\* A store call on the loop's context: it fails once shutdown cancelled that
\* context, and otherwise as often as MaxFaults lets it.
StoreFault ==
  \/ proc = "stopping" /\ UNCHANGED faults
  \/ proc = "up" /\ faults < MaxFaults /\ faults' = faults + 1

Init ==
  /\ status = [t \in Tasks |-> "none"]
  /\ startedAt = {}
  /\ result = [t \in Tasks |-> "none"]
  /\ due = {}
  /\ proc = "down" /\ boots = 0 /\ faults = 0
  /\ loop = "off" /\ batch = {} /\ wakeup = FALSE
  /\ timer = [t \in Tasks |-> "none"]
  /\ run = [t \in Tasks |-> "idle"]
  /\ ctx = [t \in Tasks |-> "live"]
  /\ registered = {}
  /\ reply = [t \in Tasks |-> "none"]
  /\ cancelOp = [t \in Tasks |-> "none"]
  /\ cancelledFrom = [t \in Tasks |-> "none"]
  /\ mail = NoMail /\ reporter = "off" /\ todo = {}
  /\ turns = [t \in Tasks |-> 0]
  /\ posts = [t \in Tasks |-> 0]
  /\ notes = [t \in Tasks |-> 0]

(***************************************************************************)
(* The process                                                             *)
(***************************************************************************)

Boot ==
  /\ proc = "down" /\ boots < MaxBoots
  /\ proc' = "up" /\ boots' = boots + 1
  /\ UNCHANGED <<rowVars, due, faults, loopVars, runVars, cancelVars,
                 reportVars, seenVars>>

\* SIGTERM, or a component failed: run() cancels the root context, and with it
\* the context of every task goroutine.
Shutdown ==
  /\ proc = "up"
  /\ proc' = "stopping"
  /\ ctx' = [t \in Tasks |-> IF run[t] \in {"idle", "spawned"}
                              THEN ctx[t] ELSE Cancel(ctx[t])]
  /\ UNCHANGED <<rowVars, due, boots, faults, loopVars, run, registered, reply,
                 cancelVars, reportVars, seenVars>>

\* The process ends: waitAll returned, the 8 seconds are over, or it crashed.
\* Goroutines, timers and channels are gone, the rows stay.
Exit ==
  /\ proc # "down"
  /\ proc' = "down"
  /\ loop' = "off" /\ batch' = {} /\ wakeup' = FALSE
  /\ timer' = [t \in Tasks |-> "none"]
  /\ run' = [t \in Tasks |-> "idle"]
  /\ ctx' = [t \in Tasks |-> "live"]
  /\ registered' = {}
  /\ reply' = [t \in Tasks |-> "none"]
  /\ cancelOp' = [t \in Tasks |-> "none"]
  /\ mail' = NoMail /\ reporter' = "off" /\ todo' = {}
  /\ UNCHANGED <<rowVars, due, boots, faults, cancelledFrom, seenVars>>

(***************************************************************************)
(* sys_task create                                                         *)
(***************************************************************************)

\* fire_at now (armed, due), within a minute (armed, not yet due), or later
\* (no timer, the ticker finds it).  A turn of a task, a blank prompt or a bad
\* fire_at is refused before anything is stored.
CreateTask(t) ==
  /\ proc = "up" /\ status[t] = "none"
  /\ status' = [status EXCEPT ![t] = "pending"]
  /\ \/ due' = due \cup {t} /\ timer' = [timer EXCEPT ![t] = "armed"]
     \/ due' = due /\ timer' = [timer EXCEPT ![t] = "armed"]
     \/ due' = due /\ timer' = timer
  /\ UNCHANGED <<startedAt, result, procVars, faults, loop, batch, wakeup, runVars,
                 cancelVars, reportVars, seenVars>>

\* The insert committed but its reply was lost: no timer is armed.
CreateTaskLost(t) ==
  /\ proc # "down" /\ status[t] = "none"
  /\ StoreFault
  /\ status' = [status EXCEPT ![t] = "pending"]
  /\ due' \in {due, due \cup {t}}
  /\ UNCHANGED <<startedAt, result, procVars, loopVars, runVars, cancelVars,
                 reportVars, seenVars>>

FireAtReached(t) ==
  /\ status[t] = "pending" /\ t \notin due
  /\ due' = due \cup {t}
  /\ UNCHANGED <<rowVars, procVars, faults, loopVars, runVars, cancelVars,
                 reportVars, seenVars>>

\* Mutant: wakeups is unbuffered, so only a loop already waiting gets the send.
TimerFiresUnbuffered(t) ==
  /\ timer[t] = "armed" /\ t \in due
  /\ timer' = [timer EXCEPT ![t] = "fired"]
  /\ wakeup' = (wakeup \/ loop = "wait")
  /\ UNCHANGED <<rowVars, due, procVars, faults, loop, batch, runVars, cancelVars,
                 reportVars, seenVars>>

\* wake: a send that finds the channel full is dropped.
TimerFires(t) ==
  /\ timer[t] = "armed" /\ t \in due
  /\ timer' = [timer EXCEPT ![t] = "fired"]
  /\ wakeup' = TRUE
  /\ UNCHANGED <<rowVars, due, procVars, faults, loop, batch, runVars, cancelVars,
                 reportVars, seenVars>>

(***************************************************************************)
(* sys_task cancel: CancelTask commits, then cancels.cancel looks the      *)
(* goroutine's cancel function up.                                         *)
(***************************************************************************)

CommitCancel(t) ==
  /\ status[t] \in Active
  /\ status' = [status EXCEPT ![t] = "cancelled"]
  /\ cancelledFrom' = [cancelledFrom EXCEPT ![t] = status[t]]
  /\ UNCHANGED <<startedAt, result>>

CancelTask(t) ==
  /\ proc = "up"
  /\ CommitCancel(t)
  /\ cancelOp' = [cancelOp EXCEPT ![t] = "committed"]
  /\ UNCHANGED <<due, procVars, faults, loopVars, runVars, reportVars, seenVars>>

\* The commit went through, its reply did not: cancelTask returns the error.
CancelTaskLost(t) ==
  /\ proc # "down"
  /\ CommitCancel(t)
  /\ StoreFault
  /\ UNCHANGED <<due, procVars, loopVars, runVars, cancelOp, reportVars, seenVars>>

\* cancels.cancel(id): LoadAndDelete, then the CancelFunc if there was one.
CancelRunning(t) ==
  /\ cancelOp[t] = "committed"
  /\ cancelOp' = [cancelOp EXCEPT ![t] = "returned"]
  /\ ctx' = [ctx EXCEPT ![t] = IF t \in registered THEN Cancel(@) ELSE @]
  /\ registered' = registered \ {t}
  /\ UNCHANGED <<rowVars, due, procVars, faults, loopVars, run, reply,
                 cancelledFrom, reportVars, seenVars>>

(***************************************************************************)
(* Scheduler.loop                                                          *)
(***************************************************************************)

\* Tasks.Run, once OpenGateway has returned; handlers are served before that.
StartLoop ==
  /\ proc = "up" /\ loop = "off"
  /\ loop' = "interrupt"
  /\ UNCHANGED <<rowVars, due, procVars, faults, batch, wakeup, timer, runVars,
                 cancelVars, reportVars, seenVars>>

\* InterruptRunningTasks and the send of its result.
Interrupt ==
  /\ loop = "interrupt" /\ proc = "up"
  /\ status' = Mark(Running, "interrupted")
  /\ mail' = [full |-> TRUE, tasks |-> Running]
  /\ loop' = "claim"
  /\ UNCHANGED <<startedAt, result, due, procVars, faults, batch, wakeup, timer,
                 runVars, cancelVars, reporter, todo, seenVars>>

\* Its error is logged and an empty list sent, whether or not it committed.
InterruptFails ==
  /\ loop = "interrupt" /\ StoreFault
  /\ status' \in {status, Mark(Running, "interrupted")}
  /\ mail' = [full |-> TRUE, tasks |-> {}]
  /\ loop' = "claim"
  /\ UNCHANGED <<startedAt, result, due, procVars, batch, wakeup, timer, runVars,
                 cancelVars, reporter, todo, seenVars>>

\* Mutants: the claim's WHERE clause without the status, and with started_at
\* in its place.
DueRowsAnyActive == (Pending \cup Running) \cap due
DueRowsUnstarted == {t \in due : t \notin startedAt}

\* The rows ClaimDueTasks moves to running.
DueRows == Pending \cap due

\* fireDue: the claim ...
Claim ==
  /\ loop = "claim" /\ proc = "up"
  /\ status' = Mark(DueRows, "running")
  /\ startedAt' = startedAt \cup DueRows
  /\ batch' = DueRows
  /\ loop' = "spawn"
  /\ UNCHANGED <<result, due, procVars, faults, wakeup, timer, runVars,
                 cancelVars, reportVars, seenVars>>

\* ... or its error, after which no goroutine is started, though rows may have
\* been claimed all the same ...
ClaimFails ==
  /\ loop = "claim" /\ StoreFault
  /\ \E S \in {{}, DueRows} : /\ status' = Mark(S, "running")
                              /\ startedAt' = startedAt \cup S
  /\ loop' = "spawn"
  /\ UNCHANGED <<result, due, procVars, batch, wakeup, timer, runVars,
                 cancelVars, reportVars, seenVars>>

\* ... and one goroutine per claimed row, after which the loop selects.
Spawn ==
  /\ loop = "spawn"
  /\ run' = [t \in Tasks |-> IF t \in batch THEN "spawned" ELSE run[t]]
  /\ batch' = {}
  /\ loop' = "wait"
  /\ UNCHANGED <<rowVars, due, procVars, faults, wakeup, timer, ctx, registered,
                 reply, cancelVars, reportVars, seenVars>>

\* Mutants: no ticker, only wakeups; and leftovers interrupted on every round.
TickNever == loop = "wait" /\ FALSE /\ UNCHANGED vars
TickInterrupts ==
  /\ loop = "wait"
  /\ loop' = "interrupt"
  /\ UNCHANGED <<rowVars, due, procVars, faults, batch, wakeup, timer, runVars,
                 cancelVars, reportVars, seenVars>>

Tick ==
  /\ loop = "wait"
  /\ loop' = "claim"
  /\ UNCHANGED <<rowVars, due, procVars, faults, batch, wakeup, timer, runVars,
                 cancelVars, reportVars, seenVars>>

Wake ==
  /\ loop = "wait" /\ wakeup
  /\ loop' = "claim" /\ wakeup' = FALSE
  /\ UNCHANGED <<rowVars, due, procVars, faults, batch, timer, runVars, cancelVars,
                 reportVars, seenVars>>

LoopEnds ==
  /\ loop = "wait" /\ proc = "stopping"
  /\ loop' = "done"
  /\ UNCHANGED <<rowVars, due, procVars, faults, batch, wakeup, timer, runVars,
                 cancelVars, reportVars, seenVars>>

(***************************************************************************)
(* Scheduler.runTask                                                       *)
(***************************************************************************)

\* The goroutine gets to run: its context derives from the root context, its
\* cancel function is registered and the turn is called.
BeginTurn(t) ==
  /\ run[t] = "spawned"
  /\ run' = [run EXCEPT ![t] = "turn"]
  /\ ctx' = [ctx EXCEPT ![t] = IF proc = "stopping" THEN "cancelled" ELSE "live"]
  /\ registered' = registered \cup {t}
  /\ turns' = [turns EXCEPT ![t] = @ + 1]
  /\ UNCHANGED <<rowVars, due, procVars, faults, loopVars, reply, cancelVars,
                 reportVars, posts, notes>>

\* turnTimeout passes.
Deadline(t) ==
  /\ run[t] \in {"turn", "post"} /\ ctx[t] = "live"
  /\ ctx' = [ctx EXCEPT ![t] = "deadline"]
  /\ UNCHANGED <<rowVars, due, procVars, faults, loopVars, run, registered,
                 reply, cancelVars, reportVars, seenVars>>

\* The deferred cancels.forget; the goroutine's context and reply go with it.
Leave(t) ==
  /\ run' = [run EXCEPT ![t] = "idle"]
  /\ ctx' = [ctx EXCEPT ![t] = "live"]
  /\ reply' = [reply EXCEPT ![t] = "none"]
  /\ registered' = registered \ {t}

\* Mutant: ctx.Err() # nil in place of errors.Is(ctx.Err(), context.Canceled).
AbandonTurnOnAnyErr(t) ==
  /\ run[t] = "turn" /\ ctx[t] # "live"
  /\ Leave(t)
  /\ UNCHANGED <<rowVars, due, procVars, faults, loopVars, cancelVars,
                 reportVars, seenVars>>

\* abandonedByCancelOrShutdown: nothing is posted and nothing recorded.
AbandonTurn(t) ==
  /\ run[t] = "turn" /\ ctx[t] = "cancelled"
  /\ Leave(t)
  /\ UNCHANGED <<rowVars, due, procVars, faults, loopVars, cancelVars,
                 reportVars, seenVars>>

\* The turn comes back with a text to post, declined or without text, or failed.
EndTurn(t) ==
  /\ run[t] = "turn" /\ ctx[t] # "cancelled"
  /\ \E r \in {"text", "empty", "error"} :
       /\ reply' = [reply EXCEPT ![t] = r]
       /\ run' = [run EXCEPT ![t] = IF r = "text" THEN "post" ELSE "finish"]
  /\ UNCHANGED <<rowVars, due, procVars, faults, loopVars, ctx, registered,
                 cancelVars, reportVars, seenVars>>

PostAnswer(t) ==
  /\ run[t] = "post" /\ ctx[t] = "live"
  /\ posts' = [posts EXCEPT ![t] = @ + 1]
  /\ run' = [run EXCEPT ![t] = "finish"]
  /\ UNCHANGED <<rowVars, due, procVars, faults, loopVars, ctx, registered,
                 reply, cancelVars, reportVars, turns, notes>>

\* Mutant: the post's error is not assigned to err.
PostFailsUnnoticed(t) ==
  /\ run[t] = "post"
  /\ posts' \in {posts, [posts EXCEPT ![t] = @ + 1]}
  /\ run' = [run EXCEPT ![t] = "finish"]
  /\ UNCHANGED <<rowVars, due, procVars, faults, loopVars, ctx, registered,
                 reply, cancelVars, reportVars, turns, notes>>

\* CreateMessage returns an error: Discord refused it, or the context ended
\* before or after the message got through.
PostFails(t) ==
  /\ run[t] = "post"
  /\ posts' \in {posts, [posts EXCEPT ![t] = @ + 1]}
  /\ reply' = [reply EXCEPT ![t] = "error"]
  /\ run' = [run EXCEPT ![t] = "finish"]
  /\ UNCHANGED <<rowVars, due, procVars, faults, loopVars, ctx, registered,
                 cancelVars, reportVars, turns, notes>>

\* Mutant: FinishTask without "AND status = running".
FinishTaskUnguarded(t) ==
  /\ run[t] = "finish"
  /\ status' = [status EXCEPT
                   ![t] = IF reply[t] = "error" THEN "failed" ELSE "done"]
  /\ result' = [result EXCEPT ![t] = reply[t]]
  /\ Leave(t)
  /\ UNCHANGED <<startedAt, due, procVars, faults, loopVars, cancelVars,
                 reportVars, seenVars>>

\* FinishTask only touches running rows, on a context shutdown cannot cancel.
FinishTask(t) ==
  /\ run[t] = "finish"
  /\ IF status[t] = "running"
       THEN /\ status' = [status EXCEPT
                            ![t] = IF reply[t] = "error" THEN "failed" ELSE "done"]
            /\ result' = [result EXCEPT ![t] = reply[t]]
       ELSE UNCHANGED <<status, result>>
  /\ Leave(t)
  /\ UNCHANGED <<startedAt, due, procVars, faults, loopVars, cancelVars,
                 reportVars, seenVars>>

\* Its error is logged: the row stays as it is.
FinishTaskFails(t) ==
  /\ run[t] = "finish"
  /\ faults < MaxFaults /\ faults' = faults + 1
  /\ Leave(t)
  /\ UNCHANGED <<rowVars, due, procVars, loopVars, cancelVars, reportVars,
                 seenVars>>

(***************************************************************************)
(* ReportInterruptedTasks, started once per process on GuildReady          *)
(***************************************************************************)

StartReporter ==
  /\ proc = "up" /\ reporter = "off"
  /\ reporter' = "waiting"
  /\ UNCHANGED <<rowVars, due, procVars, faults, loopVars, runVars, cancelVars,
                 mail, todo, seenVars>>

ReceiveInterrupted ==
  /\ reporter = "waiting" /\ mail.full
  /\ reporter' = "noting" /\ todo' = mail.tasks /\ mail' = NoMail
  /\ UNCHANGED <<rowVars, due, procVars, faults, loopVars, runVars, cancelVars,
                 seenVars>>

\* Its two minutes are over, or the process stops.
ReporterGivesUp ==
  /\ reporter = "waiting"
  /\ reporter' = "done"
  /\ UNCHANGED <<rowVars, due, procVars, faults, loopVars, runVars, cancelVars,
                 mail, todo, seenVars>>

\* One note per task; the persona may decline it, the turn or the send may fail.
NoteInterrupted(t) ==
  /\ reporter = "noting" /\ t \in todo
  /\ todo' = todo \ {t}
  /\ notes' \in {notes, [notes EXCEPT ![t] = @ + 1]}
  /\ UNCHANGED <<rowVars, due, procVars, faults, loopVars, runVars, cancelVars,
                 mail, reporter, turns, posts>>

ReporterEnds ==
  /\ reporter = "noting" /\ todo = {}
  /\ reporter' = "done"
  /\ UNCHANGED <<rowVars, due, procVars, faults, loopVars, runVars, cancelVars,
                 mail, todo, seenVars>>

(***************************************************************************)
(* The specification                                                       *)
(***************************************************************************)

Process == Boot \/ Shutdown \/ Exit

Command(t) ==
  \/ CreateTask(t) \/ CreateTaskLost(t)
  \/ CancelTask(t) \/ CancelTaskLost(t) \/ CancelRunning(t)

Clock(t) == FireAtReached(t) \/ TimerFires(t) \/ Deadline(t)

Loop ==
  \/ StartLoop \/ Interrupt \/ InterruptFails
  \/ Claim \/ ClaimFails \/ Spawn \/ Tick \/ Wake \/ LoopEnds

RunTask(t) ==
  \/ BeginTurn(t) \/ AbandonTurn(t) \/ EndTurn(t)
  \/ PostAnswer(t) \/ PostFails(t) \/ FinishTask(t) \/ FinishTaskFails(t)

Report ==
  \/ StartReporter \/ ReceiveInterrupted \/ ReporterGivesUp \/ ReporterEnds
  \/ \E t \in Tasks : NoteInterrupted(t)

Next ==
  \/ Process \/ Loop \/ Report
  \/ \E t \in Tasks : Command(t) \/ Clock(t) \/ RunTask(t)

Spec == Init /\ [][Next]_vars

\* The Go runtime runs every ready goroutine, the ticker and the timers fire,
\* and a turn ends because callModel bounds its iterations and its context.
\* Nothing makes a user call a tool, the process stop or a call fail.
Fairness ==
  /\ WF_vars(StartLoop)
  /\ WF_vars(Interrupt \/ InterruptFails)
  /\ WF_vars(Claim \/ ClaimFails)
  /\ WF_vars(Spawn)
  /\ WF_vars(Tick)
  /\ WF_vars(Wake)
  /\ \A t \in Tasks : /\ WF_vars(TimerFires(t))
                      /\ WF_vars(RunTask(t))
                      /\ WF_vars(CancelRunning(t))

FairSpec == Spec /\ Fairness
(***************************************************************************)
(* Properties                                                              *)
(***************************************************************************)

TypeOK ==
  /\ status \in [Tasks -> Statuses]
  /\ startedAt \in SUBSET Tasks
  /\ result \in [Tasks -> {"none", "text", "empty", "error"}]
  /\ due \in SUBSET Tasks
  /\ proc \in {"down", "up", "stopping"}
  /\ boots \in 0..MaxBoots
  /\ faults \in 0..MaxFaults
  /\ loop \in {"off", "interrupt", "claim", "spawn", "wait", "done"}
  /\ batch \in SUBSET Tasks
  /\ wakeup \in BOOLEAN
  /\ timer \in [Tasks -> {"none", "armed", "fired"}]
  /\ run \in [Tasks -> {"idle", "spawned", "turn", "post", "finish"}]
  /\ ctx \in [Tasks -> {"live", "cancelled", "deadline"}]
  /\ registered \in SUBSET Tasks
  /\ reply \in [Tasks -> {"none", "text", "empty", "error"}]
  /\ cancelOp \in [Tasks -> {"none", "committed", "returned"}]
  /\ cancelledFrom \in [Tasks -> {"none"} \cup Active]
  /\ mail \in [full : BOOLEAN, tasks : SUBSET Tasks]
  /\ reporter \in {"off", "waiting", "noting", "done"}
  /\ todo \in SUBSET Tasks
  /\ turns \in [Tasks -> Nat]
  /\ posts \in [Tasks -> Nat]
  /\ notes \in [Tasks -> Nat]

\* "Each task runs exactly once" (tools_task.go): over every crash, restart,
\* lost reply and cancel, no second turn is started and no second answer is
\* delivered for the same task.
RunsAtMostOnce == \A t \in Tasks : turns[t] <= 1 /\ posts[t] <= 1

\* cancelTask told the user the task "was pending": then it had not been
\* claimed, and neither a goroutine nor an answer of it ever exists.
PendingCancelIsFinal ==
  \A t \in Tasks : cancelledFrom[t] = "pending" =>
    /\ status[t] = "cancelled"
    /\ turns[t] = 0 /\ posts[t] = 0 /\ run[t] = "idle"

\* A row recorded done with a text stands for a message that is in the channel:
\* a failed or lost post never leaves "done" behind.
DoneMeansDelivered ==
  \A t \in Tasks : status[t] = "done" /\ result[t] = "text" => posts[t] = 1

\* The note says the task got cut off and will not run again: it is sent once,
\* and no goroutine of any process is still at work on that task.
NotedTaskIsOver ==
  \A t \in Tasks : notes[t] > 0 =>
    notes[t] = 1 /\ status[t] = "interrupted" /\ run[t] = "idle"

\* After boot every running row has its goroutine: no path through runTask
\* (abandoned, timed out, declined, failed) leaves a row running for good.
RunningRowHasRunner ==
  \A t \in Tasks :
    (/\ faults = 0 /\ proc = "up" /\ loop \notin {"off", "interrupt"}
     /\ status[t] = "running") => t \in batch \/ run[t] # "idle"

\* A dropped send on the wakeups channel loses nothing: as long as a task whose
\* timer fired is unclaimed, the loop has a token or is about to claim.
WakeupNotLost ==
  \A t \in Tasks :
    (/\ faults = 0 /\ proc = "up"
     /\ timer[t] = "fired" /\ status[t] = "pending")
    => wakeup \/ loop \in {"off", "interrupt", "claim"}

\* The rows, turns and answers behave as TaskLifecycle promises.
Lifecycle == INSTANCE TaskLifecycle WITH
  claimed  <- startedAt,
  executed <- {t \in Tasks : turns[t] > 0},
  answered <- {t \in Tasks : posts[t] > 0}

LifecycleSpec == Lifecycle!Spec

\* A due task leaves pending as long as the process stays up, whether or not
\* its timer survived.
DueTaskIsClaimed ==
  \A t \in Tasks : (proc = "up" /\ t \in due /\ status[t] = "pending")
                     ~> (status[t] # "pending" \/ proc # "up")

\* A running task reaches a final status as long as the process stays up and
\* the store answers.
RunningTaskSettles ==
  \A t \in Tasks : (proc = "up" /\ status[t] = "running")
                     ~> (status[t] \in Final \/ proc # "up" \/ faults > 0)

\* "cancel stops anyone's task by id" (tools_task.go): once the command has
\* answered, the task's turn is not started any more.
CancelStopsTask ==
  [][\A t \in Tasks : cancelOp[t] = "returned" => turns'[t] = turns[t]]_vars

=============================================================================
