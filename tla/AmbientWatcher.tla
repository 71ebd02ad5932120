--------------------------- MODULE AmbientWatcher ---------------------------
(***************************************************************************)
(* Unprompted interjections in one channel: every live message starts a    *)
(* goroutine (internal/ambient/watcher.go) that loads the recent messages, *)
(* asks the gate (gate.go), marks the evaluation, has the burst classified *)
(* and, if there is a hook, lets the persona speak and records the fire.   *)
(* The goroutines of a channel read, change and save whole copies of the   *)
(* same row of ambient_state; goroutines of the archive store messages.    *)
(*                                                                         *)
(* LastUnpromptedID and LastUnpromptedIgnored are left out: nothing ever   *)
(* sets the latter.                                                        *)
(*                                                                         *)
(* Time is a number of 30-second units.  At most MaxFaults calls of the    *)
(* store fail or processes die; a check also ends when its 30 seconds are  *)
(* over.                                                                   *)
(***************************************************************************)
EXTENDS Integers, FiniteSets, Sequences

CONSTANTS
  Humans,        \* authors other than the bot
  Rick,          \* the bot itself
  Window, MinMsgs, MinAuthors, Cooldown, DailyCap, EvalDebounce,
                 \* GateConfig, the durations in units
  CheckTimeout,  \* the 30 seconds of Watcher.Check
  Day,           \* units in a day
  MaxTime, MaxMsgs, MaxFaults

ASSUME GateAssumption ==
  /\ Rick \notin Humans
  /\ {Window, MinMsgs, MinAuthors, Cooldown, DailyCap, EvalDebounce,
      CheckTimeout, MaxTime, MaxMsgs, MaxFaults} \subseteq Nat
  /\ Day \in Nat \ {0}

VARIABLES
  now,
  msgs,          \* messages in order of arrival: author, at
  row,           \* AmbientState: LastEval, LastFire, FiresToday
  check,         \* the goroutine of message i: pc, GateResult.Passed, its
                 \* view of the burst and the copy of the row it will save
  faults,
  calls,         \* classifier calls: by, at
  sends,         \* interjections delivered: by, at
  counted,       \* checks whose fire was counted in fires_today
  raced,         \* two checks passed the gate before either marked it
  slipped        \* a mark or a fire was overwritten or never written

vars == <<now, msgs, row, check, faults, calls, sends, counted,
          raced, slipped>>

Never == -1
Empty == [eval |-> Never, fire |-> Never, fires |-> 0]
Checks == 1..(2 * MaxMsgs)

InFlight == {i \in Checks : check[i].pc \notin {"none", "done"}}
Idle == [pc |-> "none", burst |-> FALSE, passed |-> FALSE, copy |-> Empty]
Over == [Idle EXCEPT !.pc = "done"]

\* now.Sub(t) < d, for a time that may not be set.
Within(t, d) == t # Never /\ now - t < d

Init ==
  /\ now = 0
  /\ msgs = <<>>
  /\ row = Empty
  /\ check = [i \in Checks |-> Idle]
  /\ faults = 0
  /\ calls = {} /\ sends = {} /\ counted = {}
  /\ raced = FALSE /\ slipped = FALSE

(***************************************************************************)
(* The channel and the clock                                               *)
(***************************************************************************)

\* RecordLive starts the insert of every message; a message of someone else
\* than Rick also starts a check.  (MaxMsgs does not count interjections.)
Arrive(a) ==
  /\ Len(msgs) - Cardinality(sends) < MaxMsgs
  /\ msgs' = Append(msgs, [author |-> a, at |-> now])
  /\ check' = IF a = Rick THEN check
                          ELSE [check EXCEPT ![Len(msgs) + 1].pc = "load"]
  /\ UNCHANGED <<now, row, faults, calls, sends, counted, raced, slipped>>

Expired(i) == now - msgs[i].at >= CheckTimeout

\* A check does not outlive its context.
Tick ==
  /\ now < MaxTime
  /\ \A i \in InFlight : ~Expired(i)
  /\ now' = now + 1
  /\ UNCHANGED <<msgs, row, check, faults, calls, sends, counted,
                 raced, slipped>>

(***************************************************************************)
(* Watcher.check                                                           *)
(***************************************************************************)

At(i, pc) == check[i].pc = pc

\* GetRecentMessagesSince, and what CheckGate makes of the messages.  The
\* insert of a message runs beside the checks and may also fail: any of the
\* recent messages may be missing.
LoadWindow(i) ==
  /\ At(i, "load")
  /\ \E recent \in SUBSET {j \in 1..Len(msgs) : msgs[j].at > now - Window} :
       LET authors == {msgs[j].author : j \in recent}
       IN  check' = [check EXCEPT ![i].pc = "gate",
                       ![i].burst = /\ Cardinality(recent) >= MinMsgs
                                    /\ Rick \notin authors
                                    /\ Cardinality(authors) >= MinAuthors]
  /\ UNCHANGED <<now, msgs, row, faults, calls, sends, counted, raced, slipped>>

\* Mutant: the cooldown is not looked at.
GateWithoutCooldown ==
  /\ row.fires < DailyCap
  /\ ~Within(row.eval, EvalDebounce)

\* Mutant: the debounce is not looked at.
GateWithoutDebounce ==
  /\ ~Within(row.fire, Cooldown)
  /\ row.fires < DailyCap

\* What CheckGate asks of the row.
GateOpen ==
  /\ ~Within(row.fire, Cooldown)
  /\ row.fires < DailyCap
  /\ ~Within(row.eval, EvalDebounce)

Unmarked == {j \in Checks : check[j].passed /\ check[j].pc \in {"touch", "touchSave"}}

CheckGate(i) ==
  /\ At(i, "gate")
  /\ LET pass == check[i].burst /\ GateOpen
     IN  /\ check' = [check EXCEPT ![i] = [Idle EXCEPT !.pc = "touch", !.passed = pass]]
         /\ raced' = (raced \/ (pass /\ Unmarked # {}))
  /\ UNCHANGED <<now, msgs, row, faults, calls, sends, counted, slipped>>

\* EvalTouch reads the row and stamps its copy ...
TouchRead(i) ==
  /\ At(i, "touch")
  /\ check' = [check EXCEPT ![i].pc = "touchSave",
                            ![i].copy = [row EXCEPT !.eval = now]]
  /\ UNCHANGED <<now, msgs, row, faults, calls, sends, counted, raced,
                 slipped>>

AfterTouch(i) == IF check[i].passed
                   THEN [Idle EXCEPT !.pc = "classify", !.passed = TRUE] ELSE Over

\* Save writes every column.
Save(i) ==
  /\ row' = check[i].copy
  /\ slipped' = (slipped \/ row'.eval < row.eval \/ row'.fire < row.fire
                         \/ row'.fires < row.fires)

\* ... and then saves all of it.
TouchSave(i) ==
  /\ At(i, "touchSave")
  /\ Save(i)
  /\ check' = [check EXCEPT ![i] = AfterTouch(i)]
  /\ UNCHANGED <<now, msgs, faults, calls, sends, counted, raced>>

Classify(i) ==
  /\ At(i, "classify")
  /\ \/ check' = [check EXCEPT ![i].pc = "respond"]  \* a hook with a high score
     \/ check' = [check EXCEPT ![i] = Over]     \* none, or an error
  /\ calls' = calls \cup {[by |-> i, at |-> now]}
  /\ UNCHANGED <<now, msgs, row, faults, sends, counted, raced, slipped>>

\* The persona's message arrives in the channel like any other.
Speak(i) ==
  /\ sends' = sends \cup {[by |-> i, at |-> now]}
  /\ msgs' = Append(msgs, [author |-> Rick, at |-> now])

\* HandleAmbient sent a message or had nothing to say, which is no error ...
Respond(i) ==
  /\ At(i, "respond")
  /\ Speak(i) \/ UNCHANGED <<sends, msgs>>
  /\ check' = [check EXCEPT ![i].pc = "log"]
  /\ UNCHANGED <<now, row, faults, calls, counted, raced, slipped>>

\* ... or returned an error, before or after a message was out.
RespondFails(i) ==
  /\ At(i, "respond")
  /\ \/ Speak(i) /\ slipped' = TRUE
     \/ UNCHANGED <<sends, msgs, slipped>>
  /\ check' = [check EXCEPT ![i] = Over]
  /\ UNCHANGED <<now, row, faults, calls, counted, raced>>

\* Mutant: logging the fire takes the counter up as well.
UpdateReadCounts(i) ==
  /\ At(i, "log")
  /\ row' = [row EXCEPT !.fires = @ + 1]
  /\ check' = [check EXCEPT ![i].pc = "updateSave",
                            ![i].copy = [row' EXCEPT !.eval = now, !.fire = now]]
  /\ UNCHANGED <<now, msgs, faults, calls, sends, counted, raced, slipped>>

\* LogFire writes the row of ambient_log or not (nothing reads that table),
\* and UpdateState reads the row of the channel.
UpdateRead(i) ==
  /\ At(i, "log")
  /\ check' = [check EXCEPT ![i].pc = "updateSave",
                            ![i].copy = [row EXCEPT !.eval = now, !.fire = now]]
  /\ UNCHANGED <<now, msgs, row, faults, calls, sends, counted, raced,
                 slipped>>

UpdateSave(i) ==
  /\ At(i, "updateSave")
  /\ Save(i)
  /\ check' = [check EXCEPT ![i].pc = "count", ![i].copy = Empty]
  /\ UNCHANGED <<now, msgs, faults, calls, sends, counted, raced>>

\* IncrementAmbientFiresToday: nothing ever takes the counter down again.
CountFire(i) ==
  /\ At(i, "count")
  /\ row' = [row EXCEPT !.fires = @ + 1]
  /\ counted' = counted \cup {[by |-> i, at |-> now]}
  /\ check' = [check EXCEPT ![i] = Over]
  /\ UNCHANGED <<now, msgs, faults, calls, sends, raced, slipped>>

\* The interjection is out and its record is not complete.
Recording(i) == check[i].pc \in {"log", "updateSave", "count"}

\* A store call fails: no window or no record ends the check, a gate that
\* cannot read the row rejects, a failed touch is passed over.
StoreFails(i) ==
  /\ faults < MaxFaults /\ faults' = faults + 1
  /\ \/ /\ check[i].pc \in {"load", "log", "updateSave", "count"}
        /\ check' = [check EXCEPT ![i] = Over]
     \/ /\ At(i, "gate")
        /\ check' = [check EXCEPT ![i].pc = "touch"]
     \/ /\ check[i].pc \in {"touch", "touchSave"}
        /\ check' = [check EXCEPT ![i] = AfterTouch(i)]
  /\ slipped' = (slipped \/ Recording(i) \/ check[i].passed)
  /\ UNCHANGED <<now, msgs, row, calls, sends, counted, raced>>

\* The 30 seconds are over: every further call fails and the check ends.
Timeout(i) ==
  /\ i \in InFlight /\ Expired(i)
  /\ check' = [check EXCEPT ![i] = Over]
  /\ slipped' = (slipped \/ Recording(i))
  /\ UNCHANGED <<now, msgs, row, faults, calls, sends, counted, raced>>

\* The process dies with its goroutines; the next one reads the same row.
Crash ==
  /\ InFlight # {}
  /\ faults < MaxFaults /\ faults' = faults + 1
  /\ check' = [i \in Checks |-> IF i \in InFlight
                                  THEN Over ELSE check[i]]
  /\ slipped' = (slipped \/ \E i \in Checks : Recording(i))
  /\ UNCHANGED <<now, msgs, row, calls, sends, counted, raced>>

Check(i) ==
  \/ LoadWindow(i) \/ CheckGate(i) \/ TouchRead(i) \/ TouchSave(i)
  \/ Classify(i) \/ Respond(i) \/ RespondFails(i)
  \/ UpdateRead(i) \/ UpdateSave(i) \/ CountFire(i)
  \/ StoreFails(i) \/ Timeout(i)

Next ==
  \/ Tick \/ Crash
  \/ \E a \in Humans \cup {Rick} : Arrive(a)
  \/ \E i \in Checks : Check(i)

Spec == Init /\ [][Next]_vars

(***************************************************************************)
(* Properties                                                              *)
(***************************************************************************)

Times  == 0..MaxTime
States == [eval : Times \cup {Never}, fire : Times \cup {Never}, fires : Nat]
Events == [by : Checks, at : Times]
Steps  == {"none", "load", "gate", "touch", "touchSave", "classify", "respond",
           "log", "updateSave", "count", "done"}

\* The variables keep their types.
TypeOK ==
  /\ now \in Times
  /\ msgs \in Seq([author : Humans \cup {Rick}, at : Times])
  /\ row \in States
  /\ check \in [Checks -> [pc : Steps, burst : BOOLEAN, passed : BOOLEAN,
                           copy : States]]
  /\ faults \in 0..MaxFaults
  /\ calls \in SUBSET Events /\ sends \in SUBSET Events
  /\ counted \in SUBSET Events
  /\ raced \in BOOLEAN /\ slipped \in BOOLEAN

Apart(E, d) == \A e, f \in E : e.by # f.by => \/ e.at - f.at >= d
                                              \/ f.at - e.at >= d

\* The gate's row is read, changed and saved without a lock, and written only
\* after the classifier and the persona have answered.  Two things alone let
\* two interjections come within a cooldown, or more than the cap of them:
\* two checks that both passed before either marked the evaluation, and a mark
\* or a fire that was overwritten or not written.  (EvalDebounce exceeds
\* CheckTimeout: a check that passed is over before the debounce is.)
CooldownHolds ==
  ~raced /\ ~slipped => Cardinality(sends) <= DailyCap /\ Apart(sends, Cooldown)

\* With the same exceptions two classifier calls are a debounce less one
\* timeout apart, the time a check may take from its mark to its call.
DebounceHolds ==
  ~raced /\ ~slipped => Apart(calls, EvalDebounce - CheckTimeout)

\* fires_today never exceeds the number of counted fires: stale saves of
\* overlapping checks lose fires, and never bring a fire back.
FiresNeverOverstated == row.fires <= Cardinality(counted)

\* "daily cap reached" (gate.go): fires_today counts fires of today.
FiresTodayAreToday ==
  row.fires <= Cardinality({c \in counted : c.at \div Day = now \div Day})
=============================================================================
