------------------------------- MODULE Turns -------------------------------
(***************************************************************************)
(* Turns of the persona: a mention is gathered, the model is asked, the    *)
(* tools it calls run side by side, their results go back to it, and what  *)
(* it says in the end is posted.  The code tools of one batch run one      *)
(* after the other in a lane of their own; those of two turns meet at the  *)
(* repository lock of CodeTools.                                           *)
(***************************************************************************)
EXTENDS CodeTools

CONSTANTS
  Turn,             \* turns
  Batches,          \* the batches of tool calls a model may ask for
  MaxToolIter,      \* RICK_MAX_TOOL_ITER
  CodeMaxToolIter   \* CODE_MAX_TOOL_ITER

Code   == {"code_read", "code_edit", "code_ship"}
Plain  == {"lookup", "sys_shell"}      \* the model works on with the result
Ending == {"post"}                     \* EndTurn: posted, nothing more to say
Answer == {"decline"}                  \* Reply: the tool is the answer
Tools  == Code \cup Plain \cup Ending \cup Answer

ASSUME TurnsAssumption ==
  /\ Batches \subseteq Seq(Tools \cup {"unknown"}) \ {<<>>}
  /\ \A t \in Turn, b \in Batches : {t} \X (1..Len(b)) \subseteq Callers
  /\ MaxToolIter \in Nat \ {0} /\ CodeMaxToolIter \in Nat \ {0}

VARIABLES
  pc,           \* where a turn is; "idle" before and after it
  live,         \* its context is not done
  asked,        \* completions asked for
  limit,        \* maxIter
  calls,        \* the batch being run
  outcome       \* outcome of each of its calls, "none" while it runs

turnVars == <<pc, live, asked, limit, calls, outcome>>
vars == <<codeVars, turnVars>>

TypeOK ==
  /\ CodeTypeOK
  /\ pc \in [Turn -> {"idle", "gather", "ask", "tools", "deliver"}]
  /\ live \in [Turn -> BOOLEAN]
  /\ asked \in [Turn -> 0..(MaxToolIter + CodeMaxToolIter)]
  /\ limit \in [Turn -> {MaxToolIter, CodeMaxToolIter}]
  /\ \A t \in Turn :
       /\ calls[t] \in Batches \cup {<<>>}
       /\ outcome[t] \in [DOMAIN calls[t] -> {"none", "ok", "error"}]

Init ==
  /\ CodeInit
  /\ pc = [t \in Turn |-> "idle"]
  /\ live = [t \in Turn |-> TRUE]
  /\ asked = [t \in Turn |-> 0]
  /\ limit = [t \in Turn |-> MaxToolIter]
  /\ calls = [t \in Turn |-> <<>>]
  /\ outcome = [t \in Turn |-> <<>>]

Goto(t, where) == pc' = [pc EXCEPT ![t] = where]

-----------------------------------------------------------------------------
(* handleMention.                                                          *)

\* HandleMention: somebody other than a bot mentions Rick.
Mention(t) ==
  /\ pc[t] = "idle"
  /\ Goto(t, "gather")
  /\ UNCHANGED <<codeVars, live, asked, limit, calls, outcome>>

\* The turn is over, and its variables with it.
EndTurn(t) ==
  /\ Goto(t, "idle")
  /\ live' = [live EXCEPT ![t] = TRUE]
  /\ asked' = [asked EXCEPT ![t] = 0]
  /\ limit' = [limit EXCEPT ![t] = MaxToolIter]
  /\ calls' = [calls EXCEPT ![t] = <<>>]
  /\ outcome' = [outcome EXCEPT ![t] = <<>>]

\* The system prompt and the channel's history are needed; everything else is
\* left out of the prompt when it cannot be had.
Gather(t) ==
  /\ pc[t] = "gather"
  /\ \/ /\ live[t]
        /\ Goto(t, "ask")
        /\ UNCHANGED <<live, asked, limit, calls, outcome>>
     \/ EndTurn(t)
  /\ UNCHANGED codeVars

\* After the typing theatre the answer is posted, or there is none to post.
Deliver(t) ==
  /\ pc[t] = "deliver"
  /\ EndTurn(t)
  /\ UNCHANGED codeVars

\* The turn's time is up, or the process is told to stop.
ContextEnds(t) ==
  /\ pc[t] # "idle" /\ live[t]
  /\ live' = [live EXCEPT ![t] = FALSE]
  /\ UNCHANGED <<codeVars, pc, asked, limit, calls, outcome>>

-----------------------------------------------------------------------------
(* callModel.                                                              *)

HasCode(batch) == \E i \in DOMAIN batch : batch[i] \in Code

\* Mutant: every batch with a code call adds to the limit of the loop.
EscalateAdds(t, batch) ==
  limit' = [limit EXCEPT ![t] =
              IF HasCode(batch) THEN @ + CodeMaxToolIter ELSE @]

\* escalateForCode: the first code call gives the loop its longer limit.
Escalate(t, batch) ==
  limit' = [limit EXCEPT ![t] =
              IF HasCode(batch) THEN CodeMaxToolIter ELSE @]

\* Mutant: the loop counts only up to its first limit.
AskUncounted(t) ==
  asked' = [asked EXCEPT ![t] = IF @ < MaxToolIter THEN @ + 1 ELSE @]

Ask(t) == asked' = [asked EXCEPT ![t] = @ + 1]

\* A completion fails and the turn with it, says something and is the answer,
\* or calls tools.
Complete(t) ==
  /\ pc[t] = "ask" /\ asked[t] < limit[t]
  /\ \/ EndTurn(t)
     \/ /\ live[t]
        /\ Ask(t)
        /\ Goto(t, "deliver")
        /\ UNCHANGED <<live, limit, calls, outcome>>
     \/ /\ live[t]
        /\ Ask(t)
        /\ \E batch \in Batches :
             /\ calls' = [calls EXCEPT ![t] = batch]
             /\ outcome' = [outcome EXCEPT ![t] =
                  [i \in DOMAIN batch |->
                     IF batch[i] = "unknown" THEN "error" ELSE "none"]]
             /\ Escalate(t, batch)
        /\ Goto(t, "tools")
        /\ UNCHANGED live
  /\ UNCHANGED codeVars

\* The loop has run to its limit, which escalation may have moved below the
\* number of completions already asked for.
LimitReached(t) ==
  /\ pc[t] = "ask" /\ asked[t] >= limit[t]
  /\ Goto(t, "deliver")
  /\ UNCHANGED <<codeVars, live, asked, limit, calls, outcome>>

-----------------------------------------------------------------------------
(* runToolCalls.                                                           *)

Running(t, i) ==
  pc[t] = "tools" /\ i \in DOMAIN calls[t] /\ outcome[t][i] = "none"

SetOutcome(t, i, result) ==
  outcome' = [outcome EXCEPT ![t][i] = result]

\* A tool outside the lane; a panic is an error like any other.
RunTool(t, i) ==
  /\ Running(t, i) /\ calls[t][i] \notin Code \cup {"sys_shell"}
  /\ SetOutcome(t, i, "error") \/ SetOutcome(t, i, "ok")
  /\ UNCHANGED <<codeVars, pc, live, asked, limit, calls>>

\* The shell reports a failing command in its output, never as an error.
RunShell(t, i) ==
  /\ Running(t, i) /\ calls[t][i] = "sys_shell"
  /\ SetOutcome(t, i, "ok")
  /\ UNCHANGED <<codeVars, pc, live, asked, limit, calls>>

\* Its commands work in the checkout while the call runs, and after it when they
\* were put into the background.
ShellWorks == Shell /\ UNCHANGED turnVars

\* Mutant: the code calls of a batch run side by side like all others.
NoLane(t, i) == job[<<t, i>>] = "none"

\* The lane has come to call i.
LaneAt(t, i) ==
  /\ job[<<t, i>>] = "none"
  /\ \A j \in 1..i-1 : calls[t][j] \in Code => outcome[t][j] # "none"

StartCode(t, i) ==
  /\ Running(t, i)
  /\ LaneAt(t, i)
  /\ \/ calls[t][i] = "code_read" /\ StartRead(<<t, i>>)
     \/ calls[t][i] = "code_edit" /\ StartEdit(<<t, i>>)
     \/ calls[t][i] = "code_ship" /\ StartShip(<<t, i>>)
  /\ UNCHANGED turnVars

\* The commands of a ship fail once the turn's context is done; a push may
\* have arrived.  Files are read and written without a context.
RunCode(t, i) ==
  /\ Running(t, i) /\ job[<<t, i>>] \in Busy
  /\ CodeStep(<<t, i>>)
  /\ \/ live[t]
     \/ job[<<t, i>>] \in {"read", "edit"}
     \/ job'[<<t, i>>] = "error"
     \/ job[<<t, i>>] = "record" /\ shipped' = shipped
  /\ UNCHANGED turnVars

FinishCode(t, i) ==
  /\ Running(t, i) /\ job[<<t, i>>] \in Ended
  /\ Take(<<t, i>>)
  /\ SetOutcome(t, i, IF job[<<t, i>>] = "ok" THEN "ok" ELSE "error")
  /\ UNCHANGED <<pc, live, asked, limit, calls>>

-----------------------------------------------------------------------------
(* collectToolResults.                                                     *)

\* Every call is over.  A successful answer ends the turn with it, a successful
\* post ends it in silence, and anything else goes back to the model.
Collect(t) ==
  /\ pc[t] = "tools"
  /\ \A i \in DOMAIN calls[t] : outcome[t][i] # "none"
  /\ Goto(t, IF \E i \in DOMAIN calls[t] :
                  calls[t][i] \in Answer \cup Ending /\ outcome[t][i] = "ok"
             THEN "deliver" ELSE "ask")
  /\ calls' = [calls EXCEPT ![t] = <<>>]
  /\ outcome' = [outcome EXCEPT ![t] = <<>>]
  /\ UNCHANGED <<codeVars, live, asked, limit>>

-----------------------------------------------------------------------------
ToolStep(t, i) ==
  \/ RunTool(t, i) \/ RunShell(t, i)
  \/ StartCode(t, i) \/ RunCode(t, i) \/ FinishCode(t, i)

TurnStep(t) ==
  \/ Gather(t) \/ Complete(t) \/ LimitReached(t)
  \/ Collect(t) \/ Deliver(t)
  \/ \E i \in DOMAIN calls[t] : ToolStep(t, i)

Next ==
  \/ \E t \in Turn : Mention(t) \/ ContextEnds(t) \/ TurnStep(t)
  \/ ShellWorks

Spec == Init /\ [][Next]_vars

\* Goroutines run; completions, tools and requests end, at the latest with the
\* turn's context.
FairSpec == Spec /\ \A t \in Turn : WF_vars(TurnStep(t))

-----------------------------------------------------------------------------
\* A code call is told that the repository is busy only while a call of
\* another turn is at work there, never because of its own batch (the lane of
\* runToolCalls; the answer code_read, code_edit and code_ship give).
BusyOnlyByOthers ==
  [][\A t \in Turn : \A i \in DOMAIN calls[t] :
       job[<<t, i>>] = "none" /\ job'[<<t, i>>] = "busy" =>
         \E c \in {writer} \cup readers : c # Nobody /\ c[1] # t]_vars

\* However often it escalates, a turn asks the model no more often than the
\* larger of its two limits allows (callModel, escalateForCode).
CompletionsBounded ==
  \A t \in Turn : asked[t] <= MaxToolIter \/ asked[t] <= CodeMaxToolIter

\* Every mention is dealt with in the end: no batch, lane or lock keeps a turn
\* for ever (handleMention, runToolCalls).
TurnEnds == \A t \in Turn : []<>(pc[t] = "idle")
=============================================================================
