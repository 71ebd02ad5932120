------------------------------ MODULE Shutdown ------------------------------
(***************************************************************************)
(* run in cmd/doofus-rick: serving until a signal or an error of a server, *)
(* then closing the gateway and waiting for one group of goroutines after  *)
(* the other, for shutdownTimeout at most.  A goroutine may start others,  *)
(* in its own group or in a group that is waited for later: every turn     *)
(* leaves one in the agent's group that saves what the turn has used.      *)
(***************************************************************************)
EXTENDS Naturals, Sequences

CONSTANT MaxGoroutines  \* of one group at a time

ASSUME ShutdownAssumption == MaxGoroutines \in Nat \ {0}

Groups == {"bot", "ingest", "watcher", "scheduler", "agent", "profiler"}

\* Mutant: the agent is waited for before those that still take turns.
AgentEarly == <<"agent", "bot", "ingest", "watcher", "scheduler", "profiler">>

Waits == <<"bot", "ingest", "watcher", "scheduler", "agent", "profiler">>

\* Where the goroutines of a group start others.
Starts ==
  [bot |-> {"agent"}, ingest |-> {"ingest"}, watcher |-> {"agent"},
   scheduler |-> {"scheduler", "agent"}, agent |-> {"agent"}, profiler |-> {}]

VARIABLES
  stage,        \* run: "serving", "cancelled", "waiting", "complete",
                \* "abandoned"
  opener,       \* the goroutine of rick.Open: "opening", "connected",
                \* "archiving", "opened", "failed"
  gateway,      \* events come in
  handling,     \* an event a listener has not finished with, or "none"
  goroutines,   \* how many of each group there are
  waited,       \* how many waits have returned
  overlapped    \* history: Open or a listener was at work when the waits began

shutdownVars == <<stage, opener, gateway, handling, goroutines, waited,
                  overlapped>>

Running(g) == goroutines[g] > 0

ShutdownInit ==
  /\ stage = "serving" /\ opener = "opening" /\ gateway = FALSE
  /\ handling = "none"
  /\ \E n \in {0, 1} :
       goroutines = [g \in Groups |-> IF g = "profiler" THEN n ELSE 0]
  /\ waited = 0 /\ overlapped = FALSE

Alive == stage \notin {"complete", "abandoned"}

Go(g) ==
  /\ goroutines[g] < MaxGoroutines
  /\ goroutines' = [goroutines EXCEPT ![g] = @ + 1]

-----------------------------------------------------------------------------
(* The gateway.                                                            *)

\* OpenGateway, with a context that may be done.
Connect ==
  /\ Alive /\ opener = "opening"
  /\ \/ opener' = "connected" /\ gateway' = (stage # "waiting")
     \/ opener' = "failed" /\ UNCHANGED gateway
  /\ UNCHANGED <<stage, handling, goroutines, waited, overlapped>>

RunArchive ==
  /\ Alive /\ opener = "connected"
  /\ opener' = "archiving" /\ Go("ingest")
  /\ UNCHANGED <<stage, gateway, handling, waited, overlapped>>

RunTasks ==
  /\ Alive /\ opener = "archiving"
  /\ opener' = "opened" /\ Go("scheduler")
  /\ UNCHANGED <<stage, gateway, handling, waited, overlapped>>

\* A mention, a message, the first GuildReady.
Receive ==
  /\ gateway /\ handling = "none"
  /\ handling' \in {"mention", "message", "ready"}
  /\ UNCHANGED <<stage, opener, gateway, goroutines, waited, overlapped>>

\* A message is archived, and then looked at by the watcher.
Handle ==
  /\ Alive
  /\ \/ handling = "mention" /\ Go("agent") /\ handling' = "none"
     \/ handling = "ready" /\ Go("bot") /\ handling' = "none"
     \/ handling = "message" /\ Go("ingest") /\ handling' = "archived"
     \/ handling = "archived" /\ Go("watcher") /\ handling' = "none"
     \/ handling # "none" /\ handling' = "none" /\ UNCHANGED goroutines
  /\ UNCHANGED <<stage, opener, gateway, waited, overlapped>>

-----------------------------------------------------------------------------
(* The goroutines.                                                         *)

StartAnother(g) ==
  /\ Alive /\ Running(g)
  /\ \E h \in Starts[g] : Go(h)
  /\ UNCHANGED <<stage, opener, gateway, handling, waited, overlapped>>

Finish(g) ==
  /\ Alive /\ Running(g)
  /\ goroutines' = [goroutines EXCEPT ![g] = @ - 1]
  /\ UNCHANGED <<stage, opener, gateway, handling, waited, overlapped>>

-----------------------------------------------------------------------------
(* run.                                                                    *)

\* A signal, or an error of the web server or of Open.
Cancel ==
  /\ stage = "serving"
  /\ stage' = "cancelled"
  /\ UNCHANGED <<opener, gateway, handling, goroutines, waited, overlapped>>

\* The servers are shut down and the gateway is closed.
CloseGateway ==
  /\ stage = "cancelled"
  /\ stage' = "waiting" /\ gateway' = FALSE
  /\ overlapped' = (handling # "none" \/ opener \notin {"opened", "failed"})
  /\ UNCHANGED <<opener, handling, goroutines, waited>>

WaitReturns ==
  /\ stage = "waiting" /\ waited < Len(Waits)
  /\ ~Running(Waits[waited + 1])
  /\ waited' = waited + 1
  /\ UNCHANGED <<stage, opener, gateway, handling, goroutines, overlapped>>

\* waitAll: every wait has returned, or the time is up.
Exit ==
  /\ stage = "waiting"
  /\ stage' = IF waited = Len(Waits) THEN "complete" ELSE "abandoned"
  /\ UNCHANGED <<opener, gateway, handling, goroutines, waited, overlapped>>

ShutdownNext ==
  \/ Connect \/ RunArchive \/ RunTasks \/ Receive \/ Handle
  \/ \E g \in Groups : StartAnother(g) \/ Finish(g)
  \/ Cancel \/ CloseGateway \/ WaitReturns \/ Exit

ShutdownSpec == ShutdownInit /\ [][ShutdownNext]_shutdownVars

-----------------------------------------------------------------------------
\* "shutdown complete" (run, main.go) is true: no goroutine is cut off, though
\* those of one group start others in another while the waits go on.  Only a
\* start that Open or a listener has not come back from may bring one more.
CompleteMeansIdle ==
  stage = "complete" /\ ~overlapped => \A g \in Groups : ~Running(g)
=============================================================================
