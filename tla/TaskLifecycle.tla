--------------------------- MODULE TaskLifecycle ---------------------------
(***************************************************************************)
(* What sys_task promises of one scheduled task, whatever happens to the   *)
(* process that serves it: "Each task runs exactly once" (and so at most   *)
(* once, across crashes and lost replies), it answers at most once and     *)
(* only because it ran, a task nobody claimed never runs, and a row that   *)
(* reached a final status keeps it.  TaskScheduler implements this module. *)
(***************************************************************************)
EXTENDS Naturals

CONSTANT Tasks      \* task ids

VARIABLES
  status,           \* the row's status, "none" before CreateTask
  claimed,          \* tasks that left pending for running
  executed,         \* tasks whose persona turn was started
  answered          \* tasks whose answer was delivered to the channel

vars == <<status, claimed, executed, answered>>

Final    == {"done", "failed", "cancelled", "interrupted"}
Active   == {"pending", "running"}
Statuses == {"none"} \cup Active \cup Final

Init ==
  /\ status = [t \in Tasks |-> "none"]
  /\ claimed = {}
  /\ executed = {}
  /\ answered = {}

Create(t) ==
  /\ status[t] = "none"
  /\ status' = [status EXCEPT ![t] = "pending"]
  /\ UNCHANGED <<claimed, executed, answered>>

\* A claim moves any number of pending tasks at once.
Claim ==
  \E S \in SUBSET Tasks :
    /\ \A t \in S : status[t] = "pending"
    /\ status' = [t \in Tasks |-> IF t \in S THEN "running" ELSE status[t]]
    /\ claimed' = claimed \cup S
    /\ UNCHANGED <<executed, answered>>

Execute(t) ==
  /\ t \in claimed \ executed
  /\ executed' = executed \cup {t}
  /\ UNCHANGED <<status, claimed, answered>>

Answer(t) ==
  /\ t \in executed \ answered
  /\ answered' = answered \cup {t}
  /\ UNCHANGED <<status, claimed, executed>>

Cancel(t) ==
  /\ status[t] \in Active
  /\ status' = [status EXCEPT ![t] = "cancelled"]
  /\ UNCHANGED <<claimed, executed, answered>>

\* Only a task whose turn was started can be recorded done or failed.
Finish(t) ==
  /\ status[t] = "running"
  /\ t \in executed
  /\ \E s \in {"done", "failed"} : status' = [status EXCEPT ![t] = s]
  /\ UNCHANGED <<claimed, executed, answered>>

\* The next boot writes off every task that was still running.
Interrupt ==
  /\ status' = [t \in Tasks |->
                  IF status[t] = "running" THEN "interrupted" ELSE status[t]]
  /\ UNCHANGED <<claimed, executed, answered>>

Next ==
  \/ Claim
  \/ Interrupt
  \/ \E t \in Tasks :
       Create(t) \/ Execute(t) \/ Answer(t) \/ Cancel(t) \/ Finish(t)

Spec == Init /\ [][Next]_vars
=============================================================================
