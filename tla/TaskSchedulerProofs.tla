------------------------ MODULE TaskSchedulerProofs ------------------------
(***************************************************************************)
(* TaskScheduler for any set of tasks, number of restarts and of store     *)
(* faults: its invariants are inductive together with the parts below, and *)
(* it implements TaskLifecycle.  One lemma per part shows that every       *)
(* action preserves it, assuming only the parts it leans on.               *)
(***************************************************************************)
EXTENDS TaskScheduler, TLAPS

\* A row has started exactly if it left pending for running.
RowInv ==
  \A t \in Tasks :
    /\ status[t] \in {"none", "pending"} => t \notin startedAt
    /\ status[t] \in {"running", "done", "failed", "interrupted"} => t \in startedAt
    /\ t \notin startedAt => turns[t] = 0 /\ run[t] = "idle" /\ t \notin batch
    /\ status[t] = "none" => timer[t] = "none"
    /\ timer[t] = "fired" => t \in due
    /\ cancelOp[t] # "none" => status[t] = "cancelled"
    /\ cancelledFrom[t] = "pending" => status[t] = "cancelled" /\ t \notin startedAt

\* Where a goroutine stands says how many turns and answers its task has had.
RunInv ==
  \A t \in Tasks :
    /\ turns[t] <= 1 /\ posts[t] <= turns[t]
    /\ run[t] = "spawned" => turns[t] = 0
    /\ t \in batch => run[t] = "idle" /\ turns[t] = 0
    /\ run[t] \in {"turn", "post", "finish"} => turns[t] = 1
    /\ run[t] \in {"spawned", "turn", "post"} => posts[t] = 0
    /\ run[t] = "finish" /\ reply[t] = "text" => posts[t] = 1
    /\ status[t] = "done" /\ result[t] = "text" => posts[t] = 1

\* No goroutine exists before the loop has interrupted the leftovers, and what
\* waits to be announced was interrupted, has no goroutine and no note yet.
NoteInv ==
  /\ proc = "down" => loop = "off"
  /\ loop \in {"off", "interrupt"} => mail = NoMail /\ todo = {}
  /\ loop # "spawn" => batch = {}
  /\ mail.full => todo = {}
  /\ ~mail.full => mail.tasks = {}
  /\ \A t \in Tasks :
       /\ loop \in {"off", "interrupt"} => run[t] = "idle"
       /\ status[t] = "interrupted" => run[t] = "idle" /\ t \notin batch
       /\ t \in mail.tasks \cup todo => status[t] = "interrupted" /\ notes[t] = 0
       /\ notes[t] > 0 => status[t] = "interrupted"
       /\ notes[t] <= 1

\* A turn whose context was cancelled by a command and not by shutdown belongs
\* to a row that is already cancelled, so abandoning it strands nothing.
OwnerInv ==
  /\ RunningRowHasRunner
  /\ \A t \in Tasks : (proc = "up" /\ run[t] = "turn" /\ ctx[t] = "cancelled")
                        => status[t] = "cancelled"

\* Every step keeps the variables in their types.
LEMMA TypeStep ==
  TypeOK /\ [Next]_vars => TypeOK'
<1> SUFFICES ASSUME TypeOK, [Next]_vars PROVE TypeOK'
  OBVIOUS
<1> USE DEF TypeOK, Final, Active, Statuses, vars, rowVars, procVars,
   loopVars, runVars, cancelVars, reportVars, seenVars
<1>1. CASE Boot
  BY <1>1, BoundsAssumption DEF Boot
<1>2. CASE Shutdown
  BY <1>2 DEF Shutdown, Cancel
<1>3. CASE Exit
  BY <1>3 DEF Exit, NoMail
<1>4. CASE StartLoop
  BY <1>4 DEF StartLoop
<1>5. CASE Interrupt
  BY <1>5 DEF Interrupt, Mark, Running
<1>6. CASE InterruptFails
  BY <1>6, BoundsAssumption DEF InterruptFails, Mark, Running, StoreFault
<1>7. CASE Claim
  BY <1>7 DEF Claim, Mark, DueRows, Pending
<1>8. CASE ClaimFails
  BY <1>8, BoundsAssumption DEF ClaimFails, Mark, DueRows, Pending, StoreFault
<1>9. CASE Tick
  BY <1>9 DEF Tick
<1>10. CASE Wake
  BY <1>10 DEF Wake
<1>11. CASE LoopEnds
  BY <1>11 DEF LoopEnds
<1>12. CASE StartReporter
  BY <1>12 DEF StartReporter
<1>13. CASE ReceiveInterrupted
  BY <1>13 DEF ReceiveInterrupted, NoMail
<1>14. CASE ReporterGivesUp
  BY <1>14 DEF ReporterGivesUp
<1>15. CASE ReporterEnds
  BY <1>15 DEF ReporterEnds
<1>16. ASSUME NEW t \in Tasks, NoteInterrupted(t) PROVE TypeOK'
  BY <1>16 DEF NoteInterrupted
<1>17. ASSUME NEW t \in Tasks, CreateTask(t) PROVE TypeOK'
  BY <1>17 DEF CreateTask
<1>18. ASSUME NEW t \in Tasks, CancelTask(t) PROVE TypeOK'
  BY <1>18 DEF CancelTask, CommitCancel
<1>19. ASSUME NEW t \in Tasks, CancelTaskLost(t) PROVE TypeOK'
  BY <1>19, BoundsAssumption DEF CancelTaskLost, CommitCancel, StoreFault
<1>20. ASSUME NEW t \in Tasks, CancelRunning(t) PROVE TypeOK'
  BY <1>20 DEF CancelRunning, Cancel
<1>21. ASSUME NEW t \in Tasks, FireAtReached(t) PROVE TypeOK'
  BY <1>21 DEF FireAtReached
<1>22. ASSUME NEW t \in Tasks, TimerFires(t) PROVE TypeOK'
  BY <1>22 DEF TimerFires
<1>23. ASSUME NEW t \in Tasks, Deadline(t) PROVE TypeOK'
  BY <1>23 DEF Deadline
<1>24. ASSUME NEW t \in Tasks, BeginTurn(t) PROVE TypeOK'
  BY <1>24 DEF BeginTurn
<1>25. ASSUME NEW t \in Tasks, AbandonTurn(t) PROVE TypeOK'
  BY <1>25 DEF AbandonTurn, Leave
<1>26. ASSUME NEW t \in Tasks, EndTurn(t) PROVE TypeOK'
  BY <1>26 DEF EndTurn
<1>27. ASSUME NEW t \in Tasks, PostAnswer(t) PROVE TypeOK'
  BY <1>27 DEF PostAnswer
<1>28. ASSUME NEW t \in Tasks, PostFails(t) PROVE TypeOK'
  BY <1>28 DEF PostFails
<1>29. ASSUME NEW t \in Tasks, FinishTask(t) PROVE TypeOK'
  BY <1>29 DEF FinishTask, Leave
<1>30. ASSUME NEW t \in Tasks, FinishTaskFails(t) PROVE TypeOK'
  BY <1>30, BoundsAssumption DEF FinishTaskFails, Leave
<1>31. ASSUME NEW t \in Tasks, CreateTaskLost(t) PROVE TypeOK'
  BY <1>31, BoundsAssumption DEF CreateTaskLost, StoreFault
<1>32. CASE Spawn
  BY <1>32 DEF Spawn
<1>33. CASE UNCHANGED vars
  BY <1>33
<1>34. QED
  BY <1>1, <1>2, <1>3, <1>4, <1>5, <1>6, <1>7, <1>8, <1>9, <1>10, <1>11,
     <1>12, <1>13, <1>14, <1>15, <1>16, <1>17, <1>18, <1>19, <1>20, <1>21,
     <1>22, <1>23, <1>24, <1>25, <1>26, <1>27, <1>28, <1>29, <1>30, <1>31, <1>32, <1>33
  DEF Next, Process, Loop, Report, Command, Clock, RunTask
\* The row, its goroutine and the cancel command stay consistent.
LEMMA RowStep ==
  TypeOK /\ RowInv /\ [Next]_vars => RowInv'
<1> SUFFICES ASSUME TypeOK, RowInv, [Next]_vars PROVE RowInv'
  OBVIOUS
<1> USE DEF TypeOK, RowInv, Final, Active, Statuses, vars, rowVars, procVars,
   loopVars, runVars, cancelVars, reportVars, seenVars
<1>1. CASE Boot
  BY <1>1 DEF Boot
<1>2. CASE Shutdown
  BY <1>2 DEF Shutdown, Cancel
<1>3. CASE Exit
  BY <1>3 DEF Exit, NoMail
<1>4. CASE StartLoop
  BY <1>4 DEF StartLoop
<1>5. CASE Interrupt
  BY <1>5 DEF Interrupt, Mark, Running
<1>6. CASE InterruptFails
  BY <1>6 DEF InterruptFails, Mark, Running, StoreFault
<1>7. CASE Claim
  BY <1>7 DEF Claim, Mark, DueRows, Pending
<1>8. CASE ClaimFails
  BY <1>8 DEF ClaimFails, Mark, DueRows, Pending, StoreFault
<1>9. CASE Tick
  BY <1>9 DEF Tick
<1>10. CASE Wake
  BY <1>10 DEF Wake
<1>11. CASE LoopEnds
  BY <1>11 DEF LoopEnds
<1>12. CASE StartReporter
  BY <1>12 DEF StartReporter
<1>13. CASE ReceiveInterrupted
  BY <1>13 DEF ReceiveInterrupted, NoMail
<1>14. CASE ReporterGivesUp
  BY <1>14 DEF ReporterGivesUp
<1>15. CASE ReporterEnds
  BY <1>15 DEF ReporterEnds
<1>16. ASSUME NEW t \in Tasks, NoteInterrupted(t) PROVE RowInv'
  BY <1>16 DEF NoteInterrupted
<1>17. ASSUME NEW t \in Tasks, CreateTask(t) PROVE RowInv'
  BY <1>17 DEF CreateTask
<1>18. ASSUME NEW t \in Tasks, CancelTask(t) PROVE RowInv'
  BY <1>18 DEF CancelTask, CommitCancel
<1>19. ASSUME NEW t \in Tasks, CancelTaskLost(t) PROVE RowInv'
  BY <1>19 DEF CancelTaskLost, CommitCancel, StoreFault
<1>20. ASSUME NEW t \in Tasks, CancelRunning(t) PROVE RowInv'
  BY <1>20 DEF CancelRunning, Cancel
<1>21. ASSUME NEW t \in Tasks, FireAtReached(t) PROVE RowInv'
  BY <1>21 DEF FireAtReached
<1>22. ASSUME NEW t \in Tasks, TimerFires(t) PROVE RowInv'
  BY <1>22 DEF TimerFires
<1>23. ASSUME NEW t \in Tasks, Deadline(t) PROVE RowInv'
  BY <1>23 DEF Deadline
<1>24. ASSUME NEW t \in Tasks, BeginTurn(t) PROVE RowInv'
  BY <1>24 DEF BeginTurn
<1>25. ASSUME NEW t \in Tasks, AbandonTurn(t) PROVE RowInv'
  BY <1>25 DEF AbandonTurn, Leave
<1>26. ASSUME NEW t \in Tasks, EndTurn(t) PROVE RowInv'
  BY <1>26 DEF EndTurn
<1>27. ASSUME NEW t \in Tasks, PostAnswer(t) PROVE RowInv'
  BY <1>27 DEF PostAnswer
<1>28. ASSUME NEW t \in Tasks, PostFails(t) PROVE RowInv'
  BY <1>28 DEF PostFails
<1>29. ASSUME NEW t \in Tasks, FinishTask(t) PROVE RowInv'
  BY <1>29 DEF FinishTask, Leave
<1>30. ASSUME NEW t \in Tasks, FinishTaskFails(t) PROVE RowInv'
  BY <1>30 DEF FinishTaskFails, Leave
<1>31. ASSUME NEW t \in Tasks, CreateTaskLost(t) PROVE RowInv'
  BY <1>31 DEF CreateTaskLost, StoreFault
<1>32. CASE Spawn
  BY <1>32 DEF Spawn
<1>33. CASE UNCHANGED vars
  BY <1>33
<1>34. QED
  BY <1>1, <1>2, <1>3, <1>4, <1>5, <1>6, <1>7, <1>8, <1>9, <1>10, <1>11,
     <1>12, <1>13, <1>14, <1>15, <1>16, <1>17, <1>18, <1>19, <1>20, <1>21,
     <1>22, <1>23, <1>24, <1>25, <1>26, <1>27, <1>28, <1>29, <1>30, <1>31, <1>32, <1>33
  DEF Next, Process, Loop, Report, Command, Clock, RunTask
\* The position of the goroutine determines turns and answers.
LEMMA RunStep ==
  TypeOK /\ RowInv /\ RunInv /\ [Next]_vars => RunInv'
<1> SUFFICES ASSUME TypeOK, RowInv, RunInv, [Next]_vars PROVE RunInv'
  OBVIOUS
<1> USE DEF TypeOK, RowInv, RunInv, Final, Active, Statuses, vars, rowVars,
   procVars, loopVars, runVars, cancelVars, reportVars, seenVars
<1>1. CASE Boot
  BY <1>1 DEF Boot
<1>2. CASE Shutdown
  BY <1>2 DEF Shutdown, Cancel
<1>3. CASE Exit
  BY <1>3 DEF Exit, NoMail
<1>4. CASE StartLoop
  BY <1>4 DEF StartLoop
<1>5. CASE Interrupt
  BY <1>5 DEF Interrupt, Mark, Running
<1>6. CASE InterruptFails
  BY <1>6 DEF InterruptFails, Mark, Running, StoreFault
<1>7. CASE Claim
  BY <1>7 DEF Claim, Mark, DueRows, Pending
<1>8. CASE ClaimFails
  BY <1>8 DEF ClaimFails, Mark, DueRows, Pending, StoreFault
<1>9. CASE Tick
  BY <1>9 DEF Tick
<1>10. CASE Wake
  BY <1>10 DEF Wake
<1>11. CASE LoopEnds
  BY <1>11 DEF LoopEnds
<1>12. CASE StartReporter
  BY <1>12 DEF StartReporter
<1>13. CASE ReceiveInterrupted
  BY <1>13 DEF ReceiveInterrupted, NoMail
<1>14. CASE ReporterGivesUp
  BY <1>14 DEF ReporterGivesUp
<1>15. CASE ReporterEnds
  BY <1>15 DEF ReporterEnds
<1>16. ASSUME NEW t \in Tasks, NoteInterrupted(t) PROVE RunInv'
  BY <1>16 DEF NoteInterrupted
<1>17. ASSUME NEW t \in Tasks, CreateTask(t) PROVE RunInv'
  BY <1>17 DEF CreateTask
<1>18. ASSUME NEW t \in Tasks, CancelTask(t) PROVE RunInv'
  BY <1>18 DEF CancelTask, CommitCancel
<1>19. ASSUME NEW t \in Tasks, CancelTaskLost(t) PROVE RunInv'
  BY <1>19 DEF CancelTaskLost, CommitCancel, StoreFault
<1>20. ASSUME NEW t \in Tasks, CancelRunning(t) PROVE RunInv'
  BY <1>20 DEF CancelRunning, Cancel
<1>21. ASSUME NEW t \in Tasks, FireAtReached(t) PROVE RunInv'
  BY <1>21 DEF FireAtReached
<1>22. ASSUME NEW t \in Tasks, TimerFires(t) PROVE RunInv'
  BY <1>22 DEF TimerFires
<1>23. ASSUME NEW t \in Tasks, Deadline(t) PROVE RunInv'
  BY <1>23 DEF Deadline
<1>24. ASSUME NEW t \in Tasks, BeginTurn(t) PROVE RunInv'
  BY <1>24 DEF BeginTurn
<1>25. ASSUME NEW t \in Tasks, AbandonTurn(t) PROVE RunInv'
  BY <1>25 DEF AbandonTurn, Leave
<1>26. ASSUME NEW t \in Tasks, EndTurn(t) PROVE RunInv'
  BY <1>26 DEF EndTurn
<1>27. ASSUME NEW t \in Tasks, PostAnswer(t) PROVE RunInv'
  BY <1>27 DEF PostAnswer
<1>28. ASSUME NEW t \in Tasks, PostFails(t) PROVE RunInv'
  BY <1>28 DEF PostFails
<1>29. ASSUME NEW t \in Tasks, FinishTask(t) PROVE RunInv'
  BY <1>29 DEF FinishTask, Leave
<1>30. ASSUME NEW t \in Tasks, FinishTaskFails(t) PROVE RunInv'
  BY <1>30 DEF FinishTaskFails, Leave
<1>31. ASSUME NEW t \in Tasks, CreateTaskLost(t) PROVE RunInv'
  BY <1>31 DEF CreateTaskLost, StoreFault
<1>32. CASE Spawn
  BY <1>32 DEF Spawn
<1>33. CASE UNCHANGED vars
  BY <1>33
<1>34. QED
  BY <1>1, <1>2, <1>3, <1>4, <1>5, <1>6, <1>7, <1>8, <1>9, <1>10, <1>11,
     <1>12, <1>13, <1>14, <1>15, <1>16, <1>17, <1>18, <1>19, <1>20, <1>21,
     <1>22, <1>23, <1>24, <1>25, <1>26, <1>27, <1>28, <1>29, <1>30, <1>31, <1>32, <1>33
  DEF Next, Process, Loop, Report, Command, Clock, RunTask
\* Interrupted rows are idle and announced at most once.
LEMMA NoteStep ==
  TypeOK /\ RowInv /\ NoteInv /\ [Next]_vars => NoteInv'
<1> SUFFICES ASSUME TypeOK, RowInv, NoteInv, [Next]_vars PROVE NoteInv'
  OBVIOUS
<1> USE DEF TypeOK, RowInv, NoteInv, NoMail, Final, Active, Statuses, vars,
   rowVars, procVars, loopVars, runVars, cancelVars, reportVars, seenVars
<1>1. CASE Boot
  BY <1>1 DEF Boot
<1>2. CASE Shutdown
  BY <1>2 DEF Shutdown, Cancel
<1>3. CASE Exit
  BY <1>3 DEF Exit, NoMail
<1>4. CASE StartLoop
  BY <1>4 DEF StartLoop
<1>5. CASE Interrupt
  BY <1>5 DEF Interrupt, Mark, Running
<1>6. CASE InterruptFails
  BY <1>6 DEF InterruptFails, Mark, Running, StoreFault
<1>7. CASE Claim
  BY <1>7 DEF Claim, Mark, DueRows, Pending
<1>8. CASE ClaimFails
  BY <1>8 DEF ClaimFails, Mark, DueRows, Pending, StoreFault
<1>9. CASE Tick
  BY <1>9 DEF Tick
<1>10. CASE Wake
  BY <1>10 DEF Wake
<1>11. CASE LoopEnds
  BY <1>11 DEF LoopEnds
<1>12. CASE StartReporter
  BY <1>12 DEF StartReporter
<1>13. CASE ReceiveInterrupted
  BY <1>13 DEF ReceiveInterrupted, NoMail
<1>14. CASE ReporterGivesUp
  BY <1>14 DEF ReporterGivesUp
<1>15. CASE ReporterEnds
  BY <1>15 DEF ReporterEnds
<1>16. ASSUME NEW t \in Tasks, NoteInterrupted(t) PROVE NoteInv'
  BY <1>16 DEF NoteInterrupted
<1>17. ASSUME NEW t \in Tasks, CreateTask(t) PROVE NoteInv'
  BY <1>17 DEF CreateTask
<1>18. ASSUME NEW t \in Tasks, CancelTask(t) PROVE NoteInv'
  BY <1>18 DEF CancelTask, CommitCancel
<1>19. ASSUME NEW t \in Tasks, CancelTaskLost(t) PROVE NoteInv'
  BY <1>19 DEF CancelTaskLost, CommitCancel, StoreFault
<1>20. ASSUME NEW t \in Tasks, CancelRunning(t) PROVE NoteInv'
  BY <1>20 DEF CancelRunning, Cancel
<1>21. ASSUME NEW t \in Tasks, FireAtReached(t) PROVE NoteInv'
  BY <1>21 DEF FireAtReached
<1>22. ASSUME NEW t \in Tasks, TimerFires(t) PROVE NoteInv'
  BY <1>22 DEF TimerFires
<1>23. ASSUME NEW t \in Tasks, Deadline(t) PROVE NoteInv'
  BY <1>23 DEF Deadline
<1>24. ASSUME NEW t \in Tasks, BeginTurn(t) PROVE NoteInv'
  BY <1>24 DEF BeginTurn
<1>25. ASSUME NEW t \in Tasks, AbandonTurn(t) PROVE NoteInv'
  BY <1>25 DEF AbandonTurn, Leave
<1>26. ASSUME NEW t \in Tasks, EndTurn(t) PROVE NoteInv'
  BY <1>26 DEF EndTurn
<1>27. ASSUME NEW t \in Tasks, PostAnswer(t) PROVE NoteInv'
  BY <1>27 DEF PostAnswer
<1>28. ASSUME NEW t \in Tasks, PostFails(t) PROVE NoteInv'
  BY <1>28 DEF PostFails
<1>29. ASSUME NEW t \in Tasks, FinishTask(t) PROVE NoteInv'
  BY <1>29 DEF FinishTask, Leave
<1>30. ASSUME NEW t \in Tasks, FinishTaskFails(t) PROVE NoteInv'
  BY <1>30 DEF FinishTaskFails, Leave
<1>31. ASSUME NEW t \in Tasks, CreateTaskLost(t) PROVE NoteInv'
  BY <1>31 DEF CreateTaskLost, StoreFault
<1>32. CASE Spawn
  BY <1>32 DEF Spawn
<1>33. CASE UNCHANGED vars
  BY <1>33
<1>34. QED
  BY <1>1, <1>2, <1>3, <1>4, <1>5, <1>6, <1>7, <1>8, <1>9, <1>10, <1>11,
     <1>12, <1>13, <1>14, <1>15, <1>16, <1>17, <1>18, <1>19, <1>20, <1>21,
     <1>22, <1>23, <1>24, <1>25, <1>26, <1>27, <1>28, <1>29, <1>30, <1>31, <1>32, <1>33
  DEF Next, Process, Loop, Report, Command, Clock, RunTask
\* No step strands a running row while the process is up.
LEMMA OwnerStep ==
  TypeOK /\ RowInv /\ NoteInv /\ OwnerInv /\ [Next]_vars => OwnerInv'
<1> SUFFICES ASSUME TypeOK, RowInv, NoteInv, OwnerInv, [Next]_vars
      PROVE OwnerInv'
  OBVIOUS
<1> USE DEF TypeOK, RowInv, NoteInv, RunningRowHasRunner, OwnerInv, Final,
   Active, Statuses, vars, rowVars, procVars, loopVars, runVars, cancelVars,
   reportVars, seenVars
<1>1. CASE Boot
  BY <1>1 DEF Boot
<1>2. CASE Shutdown
  BY <1>2 DEF Shutdown, Cancel
<1>3. CASE Exit
  BY <1>3 DEF Exit, NoMail
<1>4. CASE StartLoop
  BY <1>4 DEF StartLoop
<1>5. CASE Interrupt
  BY <1>5 DEF Interrupt, Mark, Running
<1>6. CASE InterruptFails
  BY <1>6 DEF InterruptFails, Mark, Running, StoreFault
<1>7. CASE Claim
  BY <1>7 DEF Claim, Mark, DueRows, Pending
<1>8. CASE ClaimFails
  BY <1>8 DEF ClaimFails, Mark, DueRows, Pending, StoreFault
<1>9. CASE Tick
  BY <1>9 DEF Tick
<1>10. CASE Wake
  BY <1>10 DEF Wake
<1>11. CASE LoopEnds
  BY <1>11 DEF LoopEnds
<1>12. CASE StartReporter
  BY <1>12 DEF StartReporter
<1>13. CASE ReceiveInterrupted
  BY <1>13 DEF ReceiveInterrupted, NoMail
<1>14. CASE ReporterGivesUp
  BY <1>14 DEF ReporterGivesUp
<1>15. CASE ReporterEnds
  BY <1>15 DEF ReporterEnds
<1>16. ASSUME NEW t \in Tasks, NoteInterrupted(t) PROVE OwnerInv'
  BY <1>16 DEF NoteInterrupted
<1>17. ASSUME NEW t \in Tasks, CreateTask(t) PROVE OwnerInv'
  BY <1>17 DEF CreateTask
<1>18. ASSUME NEW t \in Tasks, CancelTask(t) PROVE OwnerInv'
  BY <1>18 DEF CancelTask, CommitCancel
<1>19. ASSUME NEW t \in Tasks, CancelTaskLost(t) PROVE OwnerInv'
  BY <1>19 DEF CancelTaskLost, CommitCancel, StoreFault
<1>20. ASSUME NEW t \in Tasks, CancelRunning(t) PROVE OwnerInv'
  BY <1>20 DEF CancelRunning, Cancel
<1>21. ASSUME NEW t \in Tasks, FireAtReached(t) PROVE OwnerInv'
  BY <1>21 DEF FireAtReached
<1>22. ASSUME NEW t \in Tasks, TimerFires(t) PROVE OwnerInv'
  BY <1>22 DEF TimerFires
<1>23. ASSUME NEW t \in Tasks, Deadline(t) PROVE OwnerInv'
  BY <1>23 DEF Deadline
<1>24. ASSUME NEW t \in Tasks, BeginTurn(t) PROVE OwnerInv'
  BY <1>24 DEF BeginTurn
<1>25. ASSUME NEW t \in Tasks, AbandonTurn(t) PROVE OwnerInv'
  BY <1>25 DEF AbandonTurn, Leave
<1>26. ASSUME NEW t \in Tasks, EndTurn(t) PROVE OwnerInv'
  BY <1>26 DEF EndTurn
<1>27. ASSUME NEW t \in Tasks, PostAnswer(t) PROVE OwnerInv'
  BY <1>27 DEF PostAnswer
<1>28. ASSUME NEW t \in Tasks, PostFails(t) PROVE OwnerInv'
  BY <1>28 DEF PostFails
<1>29. ASSUME NEW t \in Tasks, FinishTask(t) PROVE OwnerInv'
  BY <1>29 DEF FinishTask, Leave
<1>30. ASSUME NEW t \in Tasks, FinishTaskFails(t) PROVE OwnerInv'
  BY <1>30 DEF FinishTaskFails, Leave
<1>31. ASSUME NEW t \in Tasks, CreateTaskLost(t) PROVE OwnerInv'
  BY <1>31 DEF CreateTaskLost, StoreFault
<1>32. CASE Spawn
  BY <1>32 DEF Spawn
<1>33. CASE UNCHANGED vars
  BY <1>33
<1>34. QED
  BY <1>1, <1>2, <1>3, <1>4, <1>5, <1>6, <1>7, <1>8, <1>9, <1>10, <1>11,
     <1>12, <1>13, <1>14, <1>15, <1>16, <1>17, <1>18, <1>19, <1>20, <1>21,
     <1>22, <1>23, <1>24, <1>25, <1>26, <1>27, <1>28, <1>29, <1>30, <1>31, <1>32, <1>33
  DEF Next, Process, Loop, Report, Command, Clock, RunTask
\* No step drops the last trace of a wakeup.
LEMMA WakeStep ==
  TypeOK /\ RowInv /\ NoteInv /\ WakeupNotLost /\ [Next]_vars => WakeupNotLost'
<1> SUFFICES ASSUME TypeOK, RowInv, NoteInv, WakeupNotLost, [Next]_vars
      PROVE WakeupNotLost'
  OBVIOUS
<1> USE DEF TypeOK, RowInv, NoteInv, WakeupNotLost, Final, Active, Statuses,
   vars, rowVars, procVars, loopVars, runVars, cancelVars, reportVars,
   seenVars
<1>1. CASE Boot
  BY <1>1 DEF Boot
<1>2. CASE Shutdown
  BY <1>2 DEF Shutdown, Cancel
<1>3. CASE Exit
  BY <1>3 DEF Exit, NoMail
<1>4. CASE StartLoop
  BY <1>4 DEF StartLoop
<1>5. CASE Interrupt
  BY <1>5 DEF Interrupt, Mark, Running
<1>6. CASE InterruptFails
  BY <1>6 DEF InterruptFails, Mark, Running, StoreFault
<1>7. CASE Claim
  BY <1>7 DEF Claim, Mark, DueRows, Pending
<1>8. CASE ClaimFails
  BY <1>8 DEF ClaimFails, Mark, DueRows, Pending, StoreFault
<1>9. CASE Tick
  BY <1>9 DEF Tick
<1>10. CASE Wake
  BY <1>10 DEF Wake
<1>11. CASE LoopEnds
  BY <1>11 DEF LoopEnds
<1>12. CASE StartReporter
  BY <1>12 DEF StartReporter
<1>13. CASE ReceiveInterrupted
  BY <1>13 DEF ReceiveInterrupted, NoMail
<1>14. CASE ReporterGivesUp
  BY <1>14 DEF ReporterGivesUp
<1>15. CASE ReporterEnds
  BY <1>15 DEF ReporterEnds
<1>16. ASSUME NEW t \in Tasks, NoteInterrupted(t) PROVE WakeupNotLost'
  BY <1>16 DEF NoteInterrupted
<1>17. ASSUME NEW t \in Tasks, CreateTask(t) PROVE WakeupNotLost'
  BY <1>17 DEF CreateTask
<1>18. ASSUME NEW t \in Tasks, CancelTask(t) PROVE WakeupNotLost'
  BY <1>18 DEF CancelTask, CommitCancel
<1>19. ASSUME NEW t \in Tasks, CancelTaskLost(t) PROVE WakeupNotLost'
  BY <1>19 DEF CancelTaskLost, CommitCancel, StoreFault
<1>20. ASSUME NEW t \in Tasks, CancelRunning(t) PROVE WakeupNotLost'
  BY <1>20 DEF CancelRunning, Cancel
<1>21. ASSUME NEW t \in Tasks, FireAtReached(t) PROVE WakeupNotLost'
  BY <1>21 DEF FireAtReached
<1>22. ASSUME NEW t \in Tasks, TimerFires(t) PROVE WakeupNotLost'
  BY <1>22 DEF TimerFires
<1>23. ASSUME NEW t \in Tasks, Deadline(t) PROVE WakeupNotLost'
  BY <1>23 DEF Deadline
<1>24. ASSUME NEW t \in Tasks, BeginTurn(t) PROVE WakeupNotLost'
  BY <1>24 DEF BeginTurn
<1>25. ASSUME NEW t \in Tasks, AbandonTurn(t) PROVE WakeupNotLost'
  BY <1>25 DEF AbandonTurn, Leave
<1>26. ASSUME NEW t \in Tasks, EndTurn(t) PROVE WakeupNotLost'
  BY <1>26 DEF EndTurn
<1>27. ASSUME NEW t \in Tasks, PostAnswer(t) PROVE WakeupNotLost'
  BY <1>27 DEF PostAnswer
<1>28. ASSUME NEW t \in Tasks, PostFails(t) PROVE WakeupNotLost'
  BY <1>28 DEF PostFails
<1>29. ASSUME NEW t \in Tasks, FinishTask(t) PROVE WakeupNotLost'
  BY <1>29 DEF FinishTask, Leave
<1>30. ASSUME NEW t \in Tasks, FinishTaskFails(t) PROVE WakeupNotLost'
  BY <1>30 DEF FinishTaskFails, Leave
<1>31. ASSUME NEW t \in Tasks, CreateTaskLost(t) PROVE WakeupNotLost'
  BY <1>31 DEF CreateTaskLost, StoreFault
<1>32. CASE Spawn
  BY <1>32 DEF Spawn
<1>33. CASE UNCHANGED vars
  BY <1>33
<1>34. QED
  BY <1>1, <1>2, <1>3, <1>4, <1>5, <1>6, <1>7, <1>8, <1>9, <1>10, <1>11,
     <1>12, <1>13, <1>14, <1>15, <1>16, <1>17, <1>18, <1>19, <1>20, <1>21,
     <1>22, <1>23, <1>24, <1>25, <1>26, <1>27, <1>28, <1>29, <1>30, <1>31, <1>32, <1>33
  DEF Next, Process, Loop, Report, Command, Clock, RunTask

\* The inductive invariant.
IInv == TypeOK /\ RowInv /\ RunInv /\ NoteInv /\ OwnerInv /\ WakeupNotLost

\* The first boot starts inside the invariant.
LEMMA InitIInv == Init => IInv
<1> SUFFICES ASSUME Init PROVE IInv
  OBVIOUS
<1> USE DEF Init
<1>1. TypeOK
  <2>1. mail \in [full : BOOLEAN, tasks : SUBSET Tasks]
    BY DEF NoMail
  <2>2. boots \in 0..MaxBoots /\ faults \in 0..MaxFaults
    BY BoundsAssumption
  <2>3. QED
    BY <2>1, <2>2 DEF TypeOK, Statuses, Active, Final
<1>2. RowInv
  BY DEF RowInv
<1>3. RunInv
  BY DEF RunInv
<1>4. NoteInv
  BY DEF NoteInv, NoMail
<1>5. OwnerInv /\ WakeupNotLost
  BY DEF OwnerInv, RunningRowHasRunner, WakeupNotLost
<1>6. QED
  BY <1>1, <1>2, <1>3, <1>4, <1>5 DEF IInv

\* Every reachable state satisfies the inductive invariant.
THEOREM Invariance == Spec => []IInv
<1>1. IInv /\ [Next]_vars => IInv'
  BY TypeStep, RowStep, RunStep, NoteStep, OwnerStep, WakeStep DEF IInv
<1>2. QED
  BY InitIInv, <1>1, PTL DEF Spec

\* The variables keep their types.
THEOREM TypeCorrect == Spec => []TypeOK
<1>1. IInv => TypeOK
  BY DEF IInv
<1>2. QED
  BY Invariance, <1>1, PTL

\* At most one turn is started and one answer delivered per task, for any
\* number of crashes and lost store replies.
THEOREM TurnsAtMostOnce == Spec => []RunsAtMostOnce
<1>1. IInv => RunsAtMostOnce
  BY DEF IInv, TypeOK, RunInv, RunsAtMostOnce
<1>2. QED
  BY Invariance, <1>1, PTL

\* A task cancelled while pending never gets a goroutine or an answer.
THEOREM PendingCancelHolds == Spec => []PendingCancelIsFinal
<1>1. IInv => PendingCancelIsFinal
  BY DEF IInv, TypeOK, RowInv, RunInv, PendingCancelIsFinal
<1>2. QED
  BY Invariance, <1>1, PTL

\* A row done with a text has its message in the channel.
THEOREM DoneIsDelivered == Spec => []DoneMeansDelivered
<1>1. IInv => DoneMeansDelivered
  BY DEF IInv, RunInv, DoneMeansDelivered
<1>2. QED
  BY Invariance, <1>1, PTL

\* A task that was announced as cut off is over and announced once.
THEOREM NotesAreFinal == Spec => []NotedTaskIsOver
<1>1. IInv => NotedTaskIsOver
  BY DEF IInv, TypeOK, NoteInv, NotedTaskIsOver
<1>2. QED
  BY Invariance, <1>1, PTL

\* Without store faults a running row always has its goroutine.
THEOREM RunningRowsAreOwned == Spec => []RunningRowHasRunner
<1>1. IInv => RunningRowHasRunner
  BY DEF IInv, OwnerInv
<1>2. QED
  BY Invariance, <1>1, PTL

\* Without store faults the coalescing wakeups channel loses no wakeup.
THEOREM WakeupsAreNotLost == Spec => []WakeupNotLost
<1>1. IInv => WakeupNotLost
  BY DEF IInv
<1>2. QED
  BY Invariance, <1>1, PTL

\* Every step of the scheduler is a step of TaskLifecycle or leaves its
\* variables alone.
LEMMA RefinesStep ==
  IInv /\ [Next]_vars => [Lifecycle!Next]_(Lifecycle!vars)
<1> SUFFICES ASSUME IInv, [Next]_vars
             PROVE  [Lifecycle!Next]_(Lifecycle!vars)
  OBVIOUS
<1> USE DEF IInv, TypeOK, Lifecycle!vars, Lifecycle!Next, rowVars, procVars,
        loopVars, runVars, cancelVars, reportVars, seenVars
<1>1. CASE Boot
  BY <1>1 DEF Boot
<1>2. CASE Shutdown
  BY <1>2 DEF Shutdown
<1>3. CASE Exit
  BY <1>3 DEF Exit
<1>4. CASE StartLoop
  BY <1>4 DEF StartLoop
<1>5. CASE Interrupt
  BY <1>5 DEF Interrupt, Lifecycle!Interrupt, Mark, Running
<1>6. CASE InterruptFails
  BY <1>6 DEF InterruptFails, Lifecycle!Interrupt, Mark, Running
<1>7. CASE Claim
  <2>1. \A t \in DueRows : t \in Tasks /\ status[t] = "pending"
    BY DEF DueRows, Pending
  <2>2. Lifecycle!Claim
    BY <1>7, <2>1 DEF Claim, Mark, Lifecycle!Claim
  <2>3. QED
    BY <2>2
<1>8. CASE ClaimFails
  <2>1. PICK S \in {{}, DueRows} :
          status' = Mark(S, "running") /\ startedAt' = startedAt \cup S
    BY <1>8 DEF ClaimFails
  <2>2. \A t \in S : t \in Tasks /\ status[t] = "pending"
    BY <2>1 DEF DueRows, Pending
  <2>3. Lifecycle!Claim
    BY <1>8, <2>1, <2>2 DEF ClaimFails, Mark, Lifecycle!Claim
  <2>4. QED
    BY <2>3
<1>9. CASE Tick
  BY <1>9 DEF Tick
<1>10. CASE Wake
  BY <1>10 DEF Wake
<1>11. CASE LoopEnds
  BY <1>11 DEF LoopEnds
<1>12. CASE StartReporter
  BY <1>12 DEF StartReporter
<1>13. CASE ReceiveInterrupted
  BY <1>13 DEF ReceiveInterrupted
<1>14. CASE ReporterGivesUp
  BY <1>14 DEF ReporterGivesUp
<1>15. CASE ReporterEnds
  BY <1>15 DEF ReporterEnds
<1>16. ASSUME NEW t \in Tasks, NoteInterrupted(t) PROVE UNCHANGED Lifecycle!vars
  BY <1>16 DEF NoteInterrupted
<1>17. ASSUME NEW t \in Tasks, CreateTask(t) PROVE Lifecycle!Create(t)
  BY <1>17 DEF CreateTask, Lifecycle!Create
<1>18. ASSUME NEW t \in Tasks, CancelTask(t) PROVE Lifecycle!Cancel(t)
  BY <1>18 DEF CancelTask, CommitCancel, Lifecycle!Cancel, Lifecycle!Active, Active
<1>19. ASSUME NEW t \in Tasks, CancelTaskLost(t) PROVE Lifecycle!Cancel(t)
  BY <1>19 DEF CancelTaskLost, CommitCancel, Lifecycle!Cancel,
               Lifecycle!Active, Active
<1>20. ASSUME NEW t \in Tasks, CancelRunning(t) PROVE UNCHANGED Lifecycle!vars
  BY <1>20 DEF CancelRunning
<1>21. ASSUME NEW t \in Tasks, FireAtReached(t) PROVE UNCHANGED Lifecycle!vars
  BY <1>21 DEF FireAtReached
<1>22. ASSUME NEW t \in Tasks, TimerFires(t) PROVE UNCHANGED Lifecycle!vars
  BY <1>22 DEF TimerFires
<1>23. ASSUME NEW t \in Tasks, Deadline(t) PROVE UNCHANGED Lifecycle!vars
  BY <1>23 DEF Deadline
<1>24. ASSUME NEW t \in Tasks, BeginTurn(t) PROVE Lifecycle!Execute(t)
  BY <1>24 DEF BeginTurn, Lifecycle!Execute, RowInv, RunInv
<1>25. ASSUME NEW t \in Tasks, AbandonTurn(t) PROVE UNCHANGED Lifecycle!vars
  BY <1>25 DEF AbandonTurn, Leave
<1>26. ASSUME NEW t \in Tasks, EndTurn(t) PROVE UNCHANGED Lifecycle!vars
  BY <1>26 DEF EndTurn
<1>27. ASSUME NEW t \in Tasks, PostAnswer(t) PROVE Lifecycle!Answer(t)
  BY <1>27 DEF PostAnswer, Lifecycle!Answer, RunInv
<1>28. ASSUME NEW t \in Tasks, PostFails(t)
      PROVE Lifecycle!Answer(t) \/ UNCHANGED Lifecycle!vars
  BY <1>28 DEF PostFails, Lifecycle!Answer, RunInv
<1>29. ASSUME NEW t \in Tasks, FinishTask(t)
      PROVE Lifecycle!Finish(t) \/ UNCHANGED Lifecycle!vars
  BY <1>29 DEF FinishTask, Leave, Lifecycle!Finish, RunInv
<1>30. ASSUME NEW t \in Tasks, FinishTaskFails(t) PROVE UNCHANGED Lifecycle!vars
  BY <1>30 DEF FinishTaskFails, Leave
<1>31. ASSUME NEW t \in Tasks, CreateTaskLost(t) PROVE Lifecycle!Create(t)
  BY <1>31 DEF CreateTaskLost, Lifecycle!Create
<1>32. CASE Spawn
  BY <1>32 DEF Spawn
<1>33. CASE UNCHANGED vars
  BY <1>33 DEF vars
<1>34. QED
  BY <1>1, <1>2, <1>3, <1>4, <1>5, <1>6, <1>7, <1>8, <1>9, <1>10, <1>11,
     <1>12, <1>13, <1>14, <1>15, <1>16, <1>17, <1>18, <1>19, <1>20, <1>21,
     <1>22, <1>23, <1>24, <1>25, <1>26, <1>27, <1>28, <1>29, <1>30, <1>31, <1>32, <1>33
  DEF Next, Process, Loop, Report, Command, Clock, RunTask

\* The scheduler implements TaskLifecycle.
THEOREM ImplementsLifecycle == Spec => LifecycleSpec
<1>1. Init => Lifecycle!Init
  BY DEF Init, Lifecycle!Init
<1>2. QED
  BY <1>1, RefinesStep, Invariance, PTL DEF Spec, LifecycleSpec, Lifecycle!Spec
=============================================================================
