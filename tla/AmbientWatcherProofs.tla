------------------------ MODULE AmbientWatcherProofs ------------------------
(***************************************************************************)
(* The gate of the ambient watcher, for any number of messages, authors    *)
(* and checks, any window, cap and cooldown, and any number of failures:   *)
(* the counter of fires never exceeds the fires counted, and but for the   *)
(* two named exceptions interjections keep the cap and the cooldown and    *)
(* classifier calls the debounce.                                          *)
(***************************************************************************)
EXTENDS AmbientWatcher, FiniteSetTheorems, SequenceTheorems, TLAPS

-----------------------------------------------------------------------------
(* Types                                                                   *)

\* The parts of GateAssumption, one by one.
LEMMA Constants ==
  /\ Rick \notin Humans
  /\ Window \in Nat /\ MinMsgs \in Nat /\ MinAuthors \in Nat /\ Cooldown \in Nat
  /\ DailyCap \in Nat /\ EvalDebounce \in Nat /\ CheckTimeout \in Nat
  /\ MaxTime \in Nat /\ MaxMsgs \in Nat /\ MaxFaults \in Nat
BY GateAssumption

CheckType == [pc : Steps, burst : BOOLEAN, passed : BOOLEAN, copy : States]

\* A fresh check and a finished one are checks, and the empty row is a row.
LEMMA IdleType == Idle \in CheckType /\ Over \in CheckType /\ Empty \in States
BY Constants DEF Idle, Over, Empty, CheckType, States, Steps, Times, Never

LEMMA InitType == Init => TypeOK
<1> SUFFICES ASSUME Init PROVE TypeOK
  OBVIOUS
<1>1. check \in [Checks -> CheckType] /\ row \in States
  BY IdleType DEF Init
<1>2. now \in Times /\ faults \in 0..MaxFaults
  BY Constants DEF Init, Times
<1>3. msgs \in Seq([author : Humans \cup {Rick}, at : Times])
  BY DEF Init
<1>4. /\ calls \in SUBSET Events /\ sends \in SUBSET Events /\ counted \in SUBSET Events
      /\ raced \in BOOLEAN /\ slipped \in BOOLEAN
  BY DEF Init
<1> QED
  BY <1>1, <1>2, <1>3, <1>4 DEF TypeOK, CheckType

\* Every step of every goroutine keeps the types.
LEMMA StepType == ASSUME TypeOK, [Next]_vars PROVE TypeOK'
<1> USE Constants, IdleType DEF TypeOK
<1>1. CASE Tick
  BY <1>1 DEF Tick, Times
<1>2. CASE Crash
  BY <1>2 DEF Crash, CheckType
<1>3. ASSUME NEW a \in Humans \cup {Rick}, Arrive(a) PROVE TypeOK'
  <2>1. msgs' \in Seq([author : Humans \cup {Rick}, at : Times])
    BY <1>3 DEF Arrive
  <2>2. check' \in [Checks -> CheckType]
    BY <1>3 DEF Arrive, CheckType, Steps
  <2> QED
    BY <1>3, <2>1, <2>2 DEF Arrive, CheckType
<1>4. ASSUME NEW i \in Checks, LoadWindow(i) PROVE TypeOK'
  <2>1. PICK burst \in BOOLEAN :
          check' = [check EXCEPT ![i].pc = "gate", ![i].burst = burst]
    BY <1>4 DEF LoadWindow
  <2>2. check' \in [Checks -> CheckType]
    BY <2>1 DEF CheckType, Steps
  <2> QED
    BY <1>4, <2>2 DEF LoadWindow, CheckType
<1>5. ASSUME NEW i \in Checks, CheckGate(i) PROVE TypeOK'
  <2>1. PICK pass \in BOOLEAN :
          check' = [check EXCEPT ![i] = [Idle EXCEPT !.pc = "touch", !.passed = pass]]
    BY <1>5 DEF CheckGate
  <2>2. check' \in [Checks -> CheckType]
    BY <2>1 DEF CheckType, Steps, Idle
  <2>3. raced' \in BOOLEAN
    BY <1>5 DEF CheckGate
  <2> QED
    BY <1>5, <2>2, <2>3 DEF CheckGate, CheckType
<1>6. ASSUME NEW i \in Checks, TouchRead(i) PROVE TypeOK'
  <2>1. [row EXCEPT !.eval = now] \in States
    BY DEF States
  <2>2. check' \in [Checks -> CheckType]
    BY <1>6, <2>1 DEF TouchRead, CheckType, Steps
  <2> QED
    BY <1>6, <2>2 DEF TouchRead, CheckType
<1>7. ASSUME NEW i \in Checks, TouchSave(i) PROVE TypeOK'
  <2>1. check' \in [Checks -> CheckType]
    BY <1>7 DEF TouchSave, AfterTouch, CheckType, Steps, Idle
  <2>2. row' \in States /\ slipped' \in BOOLEAN
    BY <1>7 DEF TouchSave, Save, CheckType
  <2> QED
    BY <1>7, <2>1, <2>2 DEF TouchSave, CheckType
<1>8. ASSUME NEW i \in Checks, Classify(i) PROVE TypeOK'
  <2>1. CASE check' = [check EXCEPT ![i].pc = "respond"]
    BY <1>8, <2>1 DEF Classify, CheckType, Steps, Events
  <2>2. CASE check' = [check EXCEPT ![i] = Over]
    BY <1>8, <2>2 DEF Classify, CheckType, Events
  <2> QED
    BY <1>8, <2>1, <2>2 DEF Classify
<1>9. ASSUME NEW i \in Checks, Respond(i) \/ RespondFails(i) PROVE TypeOK'
  <2>1. check' \in [Checks -> CheckType]
    <3>1. CASE Respond(i)
      BY <3>1 DEF Respond, CheckType, Steps
    <3>2. CASE RespondFails(i)
      BY <3>2 DEF RespondFails, CheckType
    <3> QED
      BY <1>9, <3>1, <3>2
  <2>2. /\ msgs' \in Seq([author : Humans \cup {Rick}, at : Times])
        /\ sends' \in SUBSET Events
    <3>1. CASE Speak(i)
      <4>1. [author |-> Rick, at |-> now] \in [author : Humans \cup {Rick}, at : Times]
        OBVIOUS
      <4>2. [by |-> i, at |-> now] \in Events
        BY DEF Events
      <4> QED
        BY <3>1, <4>1, <4>2 DEF Speak
    <3>2. CASE UNCHANGED <<sends, msgs>>
      BY <3>2
    <3> QED
      BY <1>9, <3>1, <3>2 DEF Respond, RespondFails
  <2>3. slipped' \in BOOLEAN
    BY <1>9 DEF Respond, RespondFails
  <2> QED
    BY <1>9, <2>1, <2>2, <2>3 DEF Respond, RespondFails, CheckType
<1>10. ASSUME NEW i \in Checks, UpdateRead(i) PROVE TypeOK'
  <2>1. [row EXCEPT !.eval = now, !.fire = now] \in States
    BY DEF States
  <2>2. check' \in [Checks -> CheckType]
    BY <1>10, <2>1 DEF UpdateRead, CheckType, Steps
  <2> QED
    BY <1>10, <2>2 DEF UpdateRead, CheckType
<1>11. ASSUME NEW i \in Checks, UpdateSave(i) PROVE TypeOK'
  <2>1. check' \in [Checks -> CheckType]
    BY <1>11 DEF UpdateSave, CheckType, Steps
  <2>2. row' \in States /\ slipped' \in BOOLEAN
    BY <1>11 DEF UpdateSave, Save, CheckType
  <2> QED
    BY <1>11, <2>1, <2>2 DEF UpdateSave, CheckType
<1>12. ASSUME NEW i \in Checks, CountFire(i) PROVE TypeOK'
  <2>1. [row EXCEPT !.fires = @ + 1] \in States
    <3>1. row.fires + 1 \in Nat
      BY DEF States
    <3> QED
      BY <3>1 DEF States
  <2>2. counted' \in SUBSET Events
    BY <1>12 DEF CountFire, Events
  <2> QED
    BY <1>12, <2>1, <2>2 DEF CountFire, CheckType
<1>13. ASSUME NEW i \in Checks, StoreFails(i) \/ Timeout(i) PROVE TypeOK'
  <2>1. PICK c \in CheckType : check' = [check EXCEPT ![i] = c]
    <3>1. [check[i] EXCEPT !.pc = "touch"] \in CheckType
      BY DEF CheckType, Steps
    <3>2. AfterTouch(i) \in CheckType
      BY DEF AfterTouch, CheckType, Steps, Idle
    <3> QED
      BY <1>13, <3>1, <3>2 DEF StoreFails, Timeout
  <2>2. check' \in [Checks -> CheckType]
    BY <2>1 DEF CheckType
  <2>3. faults' \in 0..MaxFaults
    BY <1>13 DEF StoreFails, Timeout
  <2>4. slipped' \in BOOLEAN
    BY <1>13 DEF StoreFails, Timeout
  <2> QED
    BY <1>13, <2>2, <2>3, <2>4 DEF StoreFails, Timeout, CheckType
<1>14. CASE UNCHANGED vars
  BY <1>14 DEF vars
<1> QED
  BY <1>1, <1>2, <1>3, <1>4, <1>5, <1>6, <1>7, <1>8, <1>9, <1>10, <1>11, <1>12,
     <1>13, <1>14 DEF Next, Check

\* Type correctness.
THEOREM TypeCorrect == Spec => []TypeOK
<1>1. TypeOK /\ [Next]_vars => TypeOK'
  BY StepType
<1> QED
  BY InitType, <1>1, PTL DEF Spec

-----------------------------------------------------------------------------
(* What a step does to its own check: where it was, where it is, whether   *)
(* it passed the gate, and its copy of the row.                            *)

From(i, pc) == check[i].pc = pc
To(i, pc) == check'[i].pc = pc
SamePassed(i) == check'[i].passed = check[i].passed

LEMMA LoadEffect ==
  ASSUME TypeOK, NEW i \in Checks, LoadWindow(i)
  PROVE  From(i, "load") /\ To(i, "gate") /\ SamePassed(i) /\ check'[i].copy = check[i].copy
<1>1. PICK burst : check' = [check EXCEPT ![i].pc = "gate", ![i].burst = burst]
  BY DEF LoadWindow
<1> QED
  BY <1>1 DEF LoadWindow, At, TypeOK, From, To, SamePassed

\* A check passes only through an open gate, and that two are unmarked is noted.
LEMMA GateEffect ==
  ASSUME TypeOK, NEW i \in Checks, CheckGate(i)
  PROVE  /\ From(i, "gate") /\ To(i, "touch") /\ check'[i].copy = Empty
         /\ check'[i].passed => GateOpen /\ (Unmarked = {} \/ raced')
         /\ raced => raced'
<1>1. PICK pass : /\ check' = [check EXCEPT ![i] = [Idle EXCEPT !.pc = "touch", !.passed = pass]]
                  /\ pass = (check[i].burst /\ GateOpen)
                  /\ raced' = (raced \/ (pass /\ Unmarked # {}))
  BY DEF CheckGate
<1> QED
  BY <1>1 DEF CheckGate, At, TypeOK, From, To, Idle

LEMMA TouchReadEffect ==
  ASSUME TypeOK, NEW i \in Checks, TouchRead(i)
  PROVE  /\ From(i, "touch") /\ To(i, "touchSave") /\ SamePassed(i)
         /\ check'[i].copy = [row EXCEPT !.eval = now]
BY DEF TouchRead, At, TypeOK, From, To, SamePassed

LEMMA TouchSaveEffect ==
  ASSUME TypeOK, NEW i \in Checks, TouchSave(i)
  PROVE  /\ From(i, "touchSave") /\ check'[i].copy = Empty /\ SamePassed(i)
         /\ To(i, IF check[i].passed THEN "classify" ELSE "done")
BY DEF TouchSave, AfterTouch, At, TypeOK, From, To, SamePassed, Idle, Over

LEMMA ClassifyEffect ==
  ASSUME TypeOK, NEW i \in Checks, Classify(i)
  PROVE  /\ From(i, "classify")
         /\ \/ To(i, "respond") /\ SamePassed(i) /\ check'[i].copy = check[i].copy
            \/ check'[i] = Over
<1>1. CASE check' = [check EXCEPT ![i].pc = "respond"]
  BY <1>1 DEF Classify, At, TypeOK, From, To, SamePassed
<1>2. CASE check' = [check EXCEPT ![i] = Over]
  BY <1>2 DEF Classify, At, TypeOK, From
<1> QED
  BY <1>1, <1>2 DEF Classify

LEMMA RespondEffect ==
  ASSUME TypeOK, NEW i \in Checks, Respond(i)
  PROVE  From(i, "respond") /\ To(i, "log") /\ SamePassed(i) /\ check'[i].copy = check[i].copy
BY DEF Respond, At, TypeOK, From, To, SamePassed

LEMMA RespondFailsEffect ==
  ASSUME TypeOK, NEW i \in Checks, RespondFails(i)
  PROVE  From(i, "respond") /\ check'[i] = Over
BY DEF RespondFails, At, TypeOK, From

LEMMA UpdateReadEffect ==
  ASSUME TypeOK, NEW i \in Checks, UpdateRead(i)
  PROVE  /\ From(i, "log") /\ To(i, "updateSave") /\ SamePassed(i)
         /\ check'[i].copy = [row EXCEPT !.eval = now, !.fire = now]
BY DEF UpdateRead, At, TypeOK, From, To, SamePassed

LEMMA UpdateSaveEffect ==
  ASSUME TypeOK, NEW i \in Checks, UpdateSave(i)
  PROVE  From(i, "updateSave") /\ To(i, "count") /\ SamePassed(i) /\ check'[i].copy = Empty
BY DEF UpdateSave, At, TypeOK, From, To, SamePassed

LEMMA CountEffect ==
  ASSUME TypeOK, NEW i \in Checks, CountFire(i)
  PROVE  From(i, "count") /\ check'[i] = Over
BY DEF CountFire, At, TypeOK, From

\* A failing call and the end of the context leave the copy or drop it.
LEMMA FailEffect ==
  ASSUME TypeOK, NEW i \in Checks, StoreFails(i) \/ Timeout(i)
  PROVE  /\ ~From(i, "none") /\ ~From(i, "done")
         /\ \/ check'[i] = Over
            \/ From(i, "gate") /\ To(i, "touch") /\ SamePassed(i)
               /\ check'[i].copy = check[i].copy
            \/ /\ From(i, "touch") \/ From(i, "touchSave")
               /\ To(i, "classify") /\ check[i].passed /\ SamePassed(i)
               /\ check'[i].copy = Empty /\ slipped'
         /\ check[i].pc \in {"log", "updateSave", "count"} => slipped'
         /\ slipped => slipped'
<1>1. CASE Timeout(i)
  BY <1>1 DEF Timeout, InFlight, From, Recording, TypeOK
<1>2. CASE StoreFails(i)
  <2>1. CASE /\ check[i].pc \in {"load", "log", "updateSave", "count"}
             /\ check' = [check EXCEPT ![i] = Over]
    BY <1>2, <2>1 DEF StoreFails, From, Recording, TypeOK
  <2>2. CASE At(i, "gate") /\ check' = [check EXCEPT ![i].pc = "touch"]
    BY <1>2, <2>2 DEF StoreFails, At, From, To, SamePassed, Recording, TypeOK
  <2>3. CASE /\ check[i].pc \in {"touch", "touchSave"}
             /\ check' = [check EXCEPT ![i] = AfterTouch(i)]
    BY <1>2, <2>3 DEF StoreFails, AfterTouch, Idle, From, To, SamePassed, Recording, TypeOK
  <2> QED
    BY <1>2, <2>1, <2>2, <2>3 DEF StoreFails
<1> QED
  BY <1>1, <1>2

\* No other check is touched, and time stands still.
LEMMA OthersStay ==
  ASSUME TypeOK, NEW i \in Checks, Check(i)
  PROVE  /\ \A j \in Checks \ {i} : check'[j] = check[j]
         /\ now' = now
         /\ ~From(i, "none") /\ ~From(i, "done")
         /\ UNCHANGED <<msgs, sends>> \/ Speak(i)
<1>1. \A j \in Checks \ {i} : check'[j] = check[j]
  BY DEF Check, TypeOK, LoadWindow, CheckGate, TouchRead, TouchSave, Classify, Respond,
     RespondFails, UpdateRead, UpdateSave, CountFire, StoreFails, Timeout
<1>2. now' = now
  BY DEF Check, LoadWindow, CheckGate, TouchRead, TouchSave, Classify, Respond,
     RespondFails, UpdateRead, UpdateSave, CountFire, StoreFails, Timeout
<1>3. ~From(i, "none") /\ ~From(i, "done")
  BY LoadEffect, GateEffect, TouchReadEffect, TouchSaveEffect, ClassifyEffect, RespondEffect,
     RespondFailsEffect, UpdateReadEffect, UpdateSaveEffect, CountEffect, FailEffect
     DEF Check, From
<1>4. UNCHANGED <<msgs, sends>> \/ Speak(i)
  BY DEF Check, LoadWindow, CheckGate, TouchRead, TouchSave, Classify, Respond,
     RespondFails, UpdateRead, UpdateSave, CountFire, StoreFails, Timeout
<1> QED
  BY <1>1, <1>2, <1>3, <1>4

-----------------------------------------------------------------------------
(* Where a check is                                                        *)

\* A check that passed the gate and is not over; one that has left its mark.
Passing == {"touch", "touchSave", "classify", "respond", "log", "updateSave",
            "count"}
Marked  == {"classify", "respond", "log", "updateSave", "count"}

\* Messages that have not arrived have no check, only checks that passed the
\* gate go beyond the mark, and none outlives its context.
CheckInv ==
  /\ \A i \in Checks : i > Len(msgs) => check[i] = Idle
  /\ \A i \in Checks : check[i].passed => check[i].pc \in Passing
  /\ \A i \in Checks : check[i].pc \in Marked => check[i].passed
  /\ \A i \in 1..Len(msgs) : msgs[i].at <= now
  /\ \A i \in InFlight : now <= msgs[i].at + CheckTimeout
  /\ \A s \in sends : s.at <= now

\* A check that is under way belongs to a message that has arrived.
LEMMA InFlightArrived ==
  ASSUME TypeOK, CheckInv, NEW i \in Checks, check[i].pc # "none"
  PROVE  i \in 1..Len(msgs) /\ msgs[i].at \in Times /\ msgs[i].at <= now
<1>1. i <= Len(msgs)
  BY DEF CheckInv, TypeOK, Idle, Checks
<1>2. i \in 1..Len(msgs)
  BY <1>1 DEF TypeOK, Checks
<1>3. msgs[i] \in [author : Humans \cup {Rick}, at : Times]
  BY <1>2, ElementOfSeq DEF TypeOK
<1> QED
  BY <1>2, <1>3 DEF CheckInv

LEMMA InitCheck == Init => CheckInv
BY DEF Init, CheckInv, Idle, InFlight, Passing, Marked

LEMMA StepCheck == ASSUME TypeOK, CheckInv, [Next]_vars PROVE CheckInv'
<1> USE Constants DEF TypeOK, Times
<1>0. TypeOK'
  BY StepType
<1>1. CASE Tick
  <2>1. \A i \in InFlight : i \in 1..Len(msgs) /\ msgs[i].at \in Nat
    BY InFlightArrived DEF InFlight
  <2>2. \A i \in InFlight : now + 1 <= msgs[i].at + CheckTimeout
    BY <1>1, <2>1 DEF Tick, Expired
  <2>3. ASSUME NEW i \in 1..Len(msgs) PROVE msgs[i].at <= now + 1
    <3>1. msgs[i] \in [author : Humans \cup {Rick}, at : Times]
      BY ElementOfSeq
    <3> QED
      BY <3>1 DEF CheckInv
  <2>4. \A s \in sends : s.at \in Nat
    BY DEF Events
  <2> QED
    BY <1>1, <2>2, <2>3, <2>4 DEF Tick, CheckInv, InFlight, Events
<1>2. CASE Crash
  <2>1. /\ \A i \in Checks : check'[i] = IF i \in InFlight THEN Over ELSE check[i]
        /\ UNCHANGED <<now, msgs, sends>>
    BY <1>2 DEF Crash
  <2>2. InFlight' = {}
    BY <2>1 DEF InFlight, Over, Idle
  <2>3. \A i \in Checks : i > Len(msgs) => check'[i] = Idle
    <3>1. \A i \in Checks : check[i] = Idle => i \notin InFlight
      BY DEF InFlight, Idle
    <3> QED
      BY <2>1, <3>1 DEF CheckInv
  <2>4. \A i \in Checks : /\ check'[i].passed => check'[i].pc \in Passing
                          /\ check'[i].pc \in Marked => check'[i].passed
    BY <2>1 DEF CheckInv, Over, Idle, Marked
  <2> QED
    BY <2>1, <2>2, <2>3, <2>4 DEF CheckInv
<1>3. ASSUME NEW a \in Humans \cup {Rick}, Arrive(a) PROVE CheckInv'
  <2>1. /\ Len(msgs') = Len(msgs) + 1
        /\ \A i \in 1..Len(msgs) : msgs'[i] = msgs[i]
        /\ msgs'[Len(msgs) + 1].at = now
    BY <1>3 DEF Arrive
  <2>2. ASSUME NEW i \in Checks
        PROVE  \/ check'[i] = check[i]
               \/ i = Len(msgs) + 1 /\ check'[i] = [Idle EXCEPT !.pc = "load"]
    <3>1. i = Len(msgs) + 1 => check[i] = Idle
      BY DEF CheckInv
    <3> QED
      BY <1>3, <3>1 DEF Arrive
  <2>3. UNCHANGED <<now, sends>>
    BY <1>3 DEF Arrive
  <2>4. ASSUME NEW i \in Checks, i > Len(msgs') PROVE check'[i] = Idle
    <3>1. i > Len(msgs) /\ i # Len(msgs) + 1
      BY <2>1, <2>4 DEF Checks
    <3> QED
      BY <2>2, <3>1 DEF CheckInv
  <2>5. \A i \in Checks : /\ check'[i].passed => check'[i].pc \in Passing
                          /\ check'[i].pc \in Marked => check'[i].passed
    <3>1. [Idle EXCEPT !.pc = "load"].pc = "load" /\ ~[Idle EXCEPT !.pc = "load"].passed
      BY DEF Idle
    <3> QED
      BY <2>2, <3>1 DEF CheckInv, Marked
  <2>6. \A i \in 1..Len(msgs') : msgs'[i].at <= now
    BY <2>1 DEF CheckInv
  <2>7. ASSUME NEW i \in InFlight' PROVE now <= msgs'[i].at + CheckTimeout
    <3>1. CASE i = Len(msgs) + 1
      BY <2>1, <3>1
    <3>2. CASE i # Len(msgs) + 1
      <4>1. i \in InFlight
        BY <2>2, <3>2 DEF InFlight
      <4>2. i \in 1..Len(msgs)
        BY <4>1, InFlightArrived DEF InFlight
      <4> QED
        BY <2>1, <4>1, <4>2 DEF CheckInv
    <3> QED
      BY <3>1, <3>2
  <2> QED
    BY <2>3, <2>4, <2>5, <2>6, <2>7 DEF CheckInv
<1>4. ASSUME NEW i \in Checks, Check(i) PROVE CheckInv'
  <2>1. /\ check[i].pc \notin {"none", "done"}
        /\ \A j \in Checks \ {i} : check'[j] = check[j]
        /\ now' = now
    BY <1>4, OthersStay DEF From
  <2>2. i \in 1..Len(msgs)
    BY <2>1, InFlightArrived
  <2>3. /\ check'[i].passed => check'[i].pc \in Passing
        /\ check'[i].pc \in Marked => check'[i].passed
    <3>1. \/ check'[i] = Over
          \/ To(i, "gate") /\ From(i, "load") /\ SamePassed(i)
          \/ To(i, "touch") \/ To(i, "touchSave")
          \/ To(i, "classify") /\ check'[i].passed
          \/ To(i, "done") /\ ~check[i].passed /\ SamePassed(i)
          \/ /\ From(i, "classify") \/ From(i, "respond") \/ From(i, "log") \/ From(i, "updateSave")
             /\ check'[i].pc \in Marked /\ SamePassed(i)
          \/ To(i, "classify") /\ SamePassed(i) /\ check[i].passed
      BY <1>4, LoadEffect, GateEffect, TouchReadEffect, TouchSaveEffect, ClassifyEffect,
         RespondEffect, RespondFailsEffect, UpdateReadEffect, UpdateSaveEffect, CountEffect,
         FailEffect DEF Check, From, To, SamePassed, Marked
    <3> QED
      BY <3>1 DEF CheckInv, Passing, Marked, From, To, SamePassed, Over, Idle
  <2>4. UNCHANGED <<msgs, sends>> \/ Speak(i)
    BY <1>4, OthersStay
  <2>5. /\ Len(msgs') >= Len(msgs) /\ Len(msgs') \in Nat
        /\ \A j \in 1..Len(msgs) : msgs'[j] = msgs[j]
        /\ \A j \in 1..Len(msgs') : msgs'[j].at <= now
        /\ \A s \in sends' : s.at <= now
    <3>1. CASE UNCHANGED <<msgs, sends>>
      BY <3>1 DEF CheckInv
    <3>2. CASE Speak(i)
      BY <3>2 DEF CheckInv, Speak, Events
    <3> QED
      BY <2>4, <3>1, <3>2
  <2>6. \A j \in InFlight' : j \in InFlight /\ j \in 1..Len(msgs)
    BY <2>1, <2>2, InFlightArrived DEF InFlight
  <2>7. ASSUME NEW j \in Checks, j > Len(msgs') PROVE check'[j] = Idle
    <3>1. j > Len(msgs) /\ j # i
      BY <2>2, <2>5, <2>7 DEF Checks
    <3> QED
      BY <2>1, <3>1 DEF CheckInv
  <2> QED
    BY <2>1, <2>3, <2>5, <2>6, <2>7 DEF CheckInv
<1>5. CASE UNCHANGED vars
  BY <1>5 DEF vars, CheckInv, InFlight
<1> QED
  BY <1>1, <1>2, <1>3, <1>4, <1>5 DEF Next

\* What the arrival of a message does to the checks.
LEMMA ArriveEffect ==
  ASSUME TypeOK, CheckInv, NEW a \in Humans \cup {Rick}, Arrive(a)
  PROVE  /\ \A i \in Checks :
              \/ check'[i] = check[i]
              \/ /\ i = Len(msgs) + 1 /\ check[i] = Idle
                 /\ check'[i] = [Idle EXCEPT !.pc = "load"]
         /\ \A i \in 1..Len(msgs) : msgs'[i] = msgs[i]
         /\ UNCHANGED <<now, row, calls, sends, counted, raced, slipped>>
<1>1. ASSUME NEW i \in Checks
      PROVE  \/ check'[i] = check[i]
             \/ /\ i = Len(msgs) + 1 /\ check[i] = Idle
                /\ check'[i] = [Idle EXCEPT !.pc = "load"]
  <2>1. i = Len(msgs) + 1 => check[i] = Idle
    BY DEF CheckInv, TypeOK
  <2> QED
    BY <2>1 DEF Arrive, TypeOK
<1>2. \A i \in 1..Len(msgs) : msgs'[i] = msgs[i]
  BY DEF Arrive, TypeOK
<1> QED
  BY <1>1, <1>2 DEF Arrive

\* What a crash does to the checks, and what it notes.
LEMMA CrashEffect ==
  ASSUME TypeOK, Crash
  PROVE  /\ \A i \in Checks : check'[i] = check[i] \/ check'[i] = Over
         /\ \A i \in Checks : Recording(i) => slipped'
         /\ slipped => slipped'
         /\ UNCHANGED <<now, msgs, row, calls, sends, counted, raced>>
<1>1. \A i \in Checks : Recording(i) => slipped'
  BY DEF Crash
<1> QED
  BY <1>1 DEF Crash, TypeOK

\* Who writes the row: a save its copy, a count one more fire.
LEMMA RowEffect ==
  ASSUME TypeOK, NEW i \in Checks, Check(i)
  PROVE  \/ row' = row /\ counted' = counted /\ (slipped => slipped')
         \/ /\ TouchSave(i) \/ UpdateSave(i)
            /\ row' = check[i].copy /\ counted' = counted
            /\ slipped' = (slipped \/ row'.eval < row.eval \/ row'.fire < row.fire
                                   \/ row'.fires < row.fires)
         \/ /\ CountFire(i)
            /\ row'.eval = row.eval /\ row'.fire = row.fire /\ row'.fires = row.fires + 1
            /\ counted' = counted \cup {[by |-> i, at |-> now]}
            /\ slipped' = slipped
<1>1. CASE CountFire(i)
  BY <1>1 DEF CountFire, TypeOK, States
<1>2. CASE TouchSave(i) \/ UpdateSave(i)
  BY <1>2 DEF TouchSave, UpdateSave, Save
<1>3. CASE /\ ~CountFire(i) /\ ~TouchSave(i) /\ ~UpdateSave(i)
  <2>1. row' = row /\ counted' = counted
    BY <1>3 DEF Check, LoadWindow, CheckGate, TouchRead, Classify, Respond,
       RespondFails, UpdateRead, StoreFails, Timeout
  <2>2. slipped => slipped'
    BY <1>3 DEF Check, LoadWindow, CheckGate, TouchRead, Classify, Respond,
       RespondFails, UpdateRead, StoreFails, Timeout
  <2> QED
    BY <2>1, <2>2
<1> QED
  BY <1>1, <1>2, <1>3

-----------------------------------------------------------------------------
(* The counter                                                             *)

\* Neither the row nor a copy of it claims more fires than were counted, and
\* a check counts its fire as the last thing it does.
CountInv ==
  /\ IsFiniteSet(counted)
  /\ row.fires <= Cardinality(counted)
  /\ \A i \in Checks : check[i].copy.fires <= Cardinality(counted)
  /\ \A c \in counted : check[c.by].pc = "done"

LEMMA InitCount == Init => CountInv
<1> SUFFICES ASSUME Init PROVE CountInv
  OBVIOUS
<1>1. IsFiniteSet(counted) /\ Cardinality(counted) = 0
  BY FS_EmptySet DEF Init
<1> QED
  BY <1>1 DEF Init, CountInv, Idle, Empty

LEMMA StepCount == ASSUME TypeOK, CheckInv, CountInv, [Next]_vars PROVE CountInv'
<1>0. /\ Cardinality(counted) \in Nat /\ row.fires \in Nat
      /\ \A i \in Checks : check[i].copy.fires \in Nat
      /\ \A c \in counted : c.by \in Checks
  BY FS_CardinalityType DEF CountInv, TypeOK, States, Events
<1>01. /\ row.fires <= Cardinality(counted)
       /\ \A i \in Checks : check[i].copy.fires <= Cardinality(counted)
  BY DEF CountInv
<1>1. CASE Tick
  BY <1>1 DEF Tick, CountInv
<1>2. CASE Crash
  <2>1. \A c \in counted : check'[c.by].pc = "done"
    BY <1>0, <1>2, CrashEffect DEF CountInv, Over, Idle
  <2>2. \A i \in Checks : check'[i].copy.fires <= Cardinality(counted)
    BY <1>0, <1>2, CrashEffect DEF CountInv, Over, Idle, Empty
  <2> QED
    BY <1>2, <2>1, <2>2, CrashEffect DEF CountInv
<1>3. ASSUME NEW a \in Humans \cup {Rick}, Arrive(a) PROVE CountInv'
  <2>1. \A c \in counted : check'[c.by].pc = "done"
    BY <1>0, <1>3, ArriveEffect DEF CountInv, Idle
  <2>2. ASSUME NEW i \in Checks PROVE check'[i].copy.fires <= Cardinality(counted)
    <3>1. [Idle EXCEPT !.pc = "load"].copy = Empty /\ Empty.fires = 0
      BY DEF Idle, Empty
    <3>2. check'[i].copy = check[i].copy \/ check'[i].copy = Empty
      BY <1>3, <3>1, ArriveEffect
    <3> QED
      BY <1>0, <1>01, <3>1, <3>2
  <2> QED
    BY <1>3, <2>1, <2>2, ArriveEffect DEF CountInv
<1>4. ASSUME NEW i \in Checks, Check(i) PROVE CountInv'
  <2> DEFINE n == Cardinality(counted)
  <2>1. check'[i].copy.fires <= n
    <3>1. \/ check'[i].copy = check[i].copy \/ check'[i].copy = Empty
          \/ check'[i].copy = [row EXCEPT !.eval = now]
          \/ check'[i].copy = [row EXCEPT !.eval = now, !.fire = now]
      BY <1>4, LoadEffect, GateEffect, TouchReadEffect, TouchSaveEffect, ClassifyEffect,
         RespondEffect, RespondFailsEffect, UpdateReadEffect, UpdateSaveEffect, CountEffect,
         FailEffect DEF Check, Over, Idle
    <3>2. /\ [row EXCEPT !.eval = now].fires = row.fires
          /\ [row EXCEPT !.eval = now, !.fire = now].fires = row.fires
          /\ Empty.fires = 0
      BY DEF TypeOK, States, Empty
    <3>3. check'[i].copy.fires \in {check[i].copy.fires, 0, row.fires}
      BY <3>1, <3>2
    <3> QED
      BY <1>0, <1>01, <3>3
  <2>2. \A j \in Checks : check'[j].copy.fires <= n
    BY <1>4, <2>1, OthersStay DEF CountInv
  <2>3. \A c \in counted : c.by # i /\ check'[c.by].pc = "done"
    BY <1>0, <1>4, OthersStay DEF CountInv, From
  <2>4. CASE counted' = counted /\ (row' = row \/ row' = check[i].copy)
    BY <2>2, <2>3, <2>4 DEF CountInv
  <2>5. CASE /\ CountFire(i) /\ row'.fires = row.fires + 1
             /\ counted' = counted \cup {[by |-> i, at |-> now]}
    <3>1. [by |-> i, at |-> now] \notin counted
      BY <2>3
    <3>2. IsFiniteSet(counted') /\ Cardinality(counted') = n + 1
      BY <2>5, <3>1, FS_AddElement DEF CountInv
    <3>3. check'[i].pc = "done"
      BY <2>5, CountEffect DEF Over, Idle
    <3>4. \A c \in counted' : check'[c.by].pc = "done"
      BY <2>3, <2>5, <3>3
    <3>5. \A j \in Checks : check'[j].copy.fires <= n + 1
      <4>1. TypeOK'
        BY StepType, <1>4 DEF Next
      <4>2. \A j \in Checks : check'[j].copy.fires \in Nat
        BY <4>1 DEF TypeOK, States
      <4> QED
        BY <1>0, <2>2, <4>2
    <3>6. row'.fires <= n + 1
      BY <1>0, <1>01, <2>5
    <3> QED
      BY <3>2, <3>4, <3>5, <3>6 DEF CountInv
  <2> QED
    BY <1>4, <2>4, <2>5, RowEffect
<1>5. CASE UNCHANGED vars
  BY <1>5 DEF vars, CountInv
<1> QED
  BY <1>1, <1>2, <1>3, <1>4, <1>5 DEF Next

\* The counter of fires never exceeds the number of fires that were counted.
THEOREM FiresAreReal == Spec => []FiresNeverOverstated
<1>1. Init => CheckInv /\ CountInv
  BY InitCheck, InitCount
<1>2. TypeOK /\ CheckInv /\ CountInv /\ [Next]_vars => CheckInv' /\ CountInv'
  BY StepCheck, StepCount
<1>3. CountInv => FiresNeverOverstated
  BY DEF CountInv, FiresNeverOverstated
<1> QED
  BY <1>1, <1>2, <1>3, TypeCorrect, PTL DEF Spec

-----------------------------------------------------------------------------
(* The gate                                                                *)

\* While nothing is overwritten the row only grows, and neither exception is
\* ever taken back.
LEMMA RowGrows ==
  ASSUME TypeOK, CheckInv, [Next]_vars, ~raced', ~slipped'
  PROVE  /\ ~raced /\ ~slipped
         /\ row'.eval >= row.eval /\ row'.fire >= row.fire /\ row'.fires >= row.fires
<1>0. row.eval \in Int /\ row.fire \in Int /\ row.fires \in Int
  BY Constants DEF TypeOK, States, Times, Never
<1>1. CASE UNCHANGED <<row, raced, slipped>>
  BY <1>0, <1>1
<1>2. CASE Crash
  BY <1>0, <1>2, CrashEffect
<1>3. ASSUME NEW i \in Checks, Check(i)
      PROVE  /\ ~raced /\ ~slipped
             /\ row'.eval >= row.eval /\ row'.fire >= row.fire /\ row'.fires >= row.fires
  <2>1. ~raced
    BY <1>3, GateEffect DEF Check, LoadWindow, TouchRead, TouchSave, Classify, Respond,
       RespondFails, UpdateRead, UpdateSave, CountFire, StoreFails, Timeout
  <2>2. ~slipped
    BY <1>3, RowEffect
  <2>3. TypeOK'
    BY <1>3, StepType DEF Next
  <2>4. row'.eval \in Int /\ row'.fire \in Int /\ row'.fires \in Int
    BY <2>3, Constants DEF TypeOK, States, Times, Never
  <2>5. row'.eval >= row.eval /\ row'.fire >= row.fire /\ row'.fires >= row.fires
    <3>1. CASE row' = row
      BY <1>0, <3>1
    <3>2. CASE slipped' = (slipped \/ row'.eval < row.eval \/ row'.fire < row.fire
                                   \/ row'.fires < row.fires)
      <4>1. ~(row'.eval < row.eval) /\ ~(row'.fire < row.fire) /\ ~(row'.fires < row.fires)
        BY <3>2, Zenon
      <4> QED
        BY <1>0, <2>4, <4>1
    <3>3. CASE /\ row'.eval = row.eval /\ row'.fire = row.fire
               /\ row'.fires = row.fires + 1
      BY <1>0, <3>3
    <3> QED
      BY <1>3, <3>1, <3>2, <3>3, RowEffect
  <2> QED
    BY <2>1, <2>2, <2>5
<1> QED
  BY <1>1, <1>2, <1>3 DEF Next, Tick, Arrive, vars

\* The debounce is longer than a check may take: 60 and 30 seconds, unless
\* AMBIENT_EVAL_DEBOUNCE is set.
DebounceOutlastsCheck == EvalDebounce > CheckTimeout

\* But for the two exceptions one check at most is between the gate and its
\* end, and the row bears the mark of the one that has left it.
MarkInv ==
  ~raced /\ ~slipped =>
    /\ \A i, j \in Checks : check[i].passed /\ check[j].passed => i = j
    /\ \A i \in Checks : check[i].pc \in Marked => row.eval >= msgs[i].at
    /\ \A i \in Checks : check[i].pc = "touchSave" => check[i].copy.eval >= msgs[i].at

LEMMA InitMark == Init => MarkInv
BY DEF Init, MarkInv, Idle, Marked

\* The gate is shut as long as a check that has passed it may still be at work.
LEMMA GateIsShut ==
  ASSUME TypeOK, CheckInv, MarkInv, ~raced, ~slipped, DebounceOutlastsCheck,
         NEW i \in Checks, CheckGate(i), check'[i].passed, ~raced',
         NEW j \in Checks
  PROVE  ~check[j].passed
<1> SUFFICES ASSUME check[j].passed PROVE FALSE
  OBVIOUS
<1>1. check[j].pc \in Passing
  BY DEF CheckInv
<1>2. check[j].pc \notin {"touch", "touchSave"}
  BY GateEffect DEF Unmarked
<1>3. check[j].pc \in Marked /\ check[j].pc \notin {"none", "done"}
  BY <1>1, <1>2 DEF Passing, Marked
<1>4. msgs[j].at \in Nat /\ now <= msgs[j].at + CheckTimeout
  BY <1>3, InFlightArrived, Constants DEF CheckInv, InFlight, Times
<1>5. row.eval >= msgs[j].at /\ row.eval \in Int /\ now \in Nat
  BY <1>3, Constants DEF MarkInv, TypeOK, States, Times, Never
<1>6. ~Within(row.eval, EvalDebounce)
  BY GateEffect DEF GateOpen
<1> QED
  BY <1>4, <1>5, <1>6, Constants DEF Within, Never, DebounceOutlastsCheck

LEMMA StepMark ==
  ASSUME TypeOK, CheckInv, MarkInv, DebounceOutlastsCheck, [Next]_vars
  PROVE  MarkInv'
<1> SUFFICES ASSUME ~raced', ~slipped' PROVE MarkInv'
  BY DEF MarkInv
<1>0. /\ ~raced /\ ~slipped
      /\ row'.eval >= row.eval /\ row.eval \in Int /\ row'.eval \in Int
  <2>1. row \in States /\ row' \in States
    BY StepType DEF TypeOK
  <2> QED
    BY <2>1, RowGrows, Constants DEF States, Times, Never
<1>00. /\ \A i, j \in Checks : check[i].passed /\ check[j].passed => i = j
       /\ \A i \in Checks : check[i].pc \in Marked => row.eval >= msgs[i].at
       /\ \A i \in Checks : check[i].pc = "touchSave" => check[i].copy.eval >= msgs[i].at
  BY <1>0 DEF MarkInv
<1>1. CASE UNCHANGED <<check, msgs, row>>
  BY <1>00, <1>1 DEF MarkInv
<1>2. CASE Crash
  <2>1. Over.pc = "done" /\ ~Over.passed /\ "done" \notin Marked
    BY DEF Over, Idle, Marked
  <2>2. \A i, j \in Checks : check'[i].passed /\ check'[j].passed => i = j
    BY <1>00, <1>2, <2>1, CrashEffect
  <2>3. \A i \in Checks : check'[i].pc \in Marked => row'.eval >= msgs'[i].at
    BY <1>00, <1>2, <2>1, CrashEffect
  <2>4. \A i \in Checks : check'[i].pc = "touchSave" => check'[i].copy.eval >= msgs'[i].at
    BY <1>00, <1>2, <2>1, CrashEffect
  <2> QED
    BY <2>2, <2>3, <2>4 DEF MarkInv
<1>3. ASSUME NEW a \in Humans \cup {Rick}, Arrive(a) PROVE MarkInv'
  <2> DEFINE New == [Idle EXCEPT !.pc = "load"]
  <2>1. New.pc = "load" /\ ~New.passed /\ "load" \notin Marked
    BY DEF Idle, Marked
  <2>2. \A i \in Checks : check'[i] = check[i] \/ check'[i] = New
    BY <1>3, ArriveEffect
  <2> HIDE DEF New
  <2>3. \A i \in Checks : check'[i].pc \in Marked \/ check'[i].pc = "touchSave" =>
                            check'[i] = check[i] /\ msgs'[i] = msgs[i]
    BY <1>3, <2>1, <2>2, InFlightArrived, ArriveEffect DEF Marked
  <2>4. \A i, j \in Checks : check'[i].passed /\ check'[j].passed => i = j
    BY <1>00, <2>1, <2>2
  <2>5. \A i \in Checks : check'[i].pc \in Marked => row'.eval >= msgs'[i].at
    BY <1>00, <1>3, <2>3, ArriveEffect
  <2>6. \A i \in Checks : check'[i].pc = "touchSave" => check'[i].copy.eval >= msgs'[i].at
    BY <1>00, <2>3
  <2> QED
    BY <2>4, <2>5, <2>6 DEF MarkInv
<1>4. ASSUME NEW i \in Checks, Check(i) PROVE MarkInv'
  <2>1. i \in 1..Len(msgs) /\ msgs[i].at \in Nat /\ msgs[i].at <= now /\ now \in Nat
    BY <1>4, OthersStay, InFlightArrived, Constants DEF From, Times, TypeOK
  <2>2. \A j \in Checks : check[j].pc \notin {"none", "done"} => msgs'[j] = msgs[j]
    <3>1. \A j \in 1..Len(msgs) : msgs'[j] = msgs[j]
      <4>1. CASE UNCHANGED msgs
        BY <4>1
      <4>2. CASE Speak(i)
        BY <4>2 DEF Speak, TypeOK
      <4> QED
        BY <1>4, <4>1, <4>2, OthersStay
    <3> QED
      BY <3>1, InFlightArrived
  <2>3. /\ check'[i].passed => check[i].passed \/ CheckGate(i)
        /\ check'[i].pc \in Marked => check[i].pc \in Marked \/ TouchSave(i)
        /\ check'[i].pc = "touchSave" => TouchRead(i)
    BY <1>4, LoadEffect, GateEffect, TouchReadEffect, TouchSaveEffect, ClassifyEffect,
       RespondEffect, RespondFailsEffect, UpdateReadEffect, UpdateSaveEffect, CountEffect,
       FailEffect DEF Check, From, To, SamePassed, Marked, Over, Idle
  <2>4. ASSUME NEW j \in Checks, NEW k \in Checks, check'[j].passed, check'[k].passed
        PROVE  j = k
    <3>1. CASE CheckGate(i) /\ check'[i].passed
      BY <1>0, <1>4, <2>4, <3>1, GateIsShut, OthersStay
    <3>2. CASE ~(CheckGate(i) /\ check'[i].passed)
      BY <1>00, <1>4, <2>3, <2>4, <3>2, OthersStay
    <3> QED
      BY <3>1, <3>2
  <2>5. ASSUME NEW j \in Checks, check'[j].pc \in Marked PROVE row'.eval >= msgs'[j].at
    <3>1. CASE check[j].pc \in Marked
      <4>1. msgs'[j] = msgs[j] /\ msgs[j].at \in Nat
        BY <2>2, <3>1, InFlightArrived, Constants DEF Marked, Times
      <4> QED
        BY <1>0, <1>00, <3>1, <4>1
    <3>2. CASE j = i /\ TouchSave(i)
      <4>1. row' = check[i].copy /\ check[i].pc = "touchSave" /\ msgs' = msgs
        BY <3>2 DEF TouchSave, Save, At
      <4> QED
        BY <1>00, <3>2, <4>1
    <3> QED
      BY <1>4, <2>3, <2>5, <3>1, <3>2, OthersStay
  <2>6. ASSUME NEW j \in Checks, check'[j].pc = "touchSave"
        PROVE  check'[j].copy.eval >= msgs'[j].at
    <3>1. CASE j # i
      BY <1>00, <1>4, <2>2, <2>6, <3>1, OthersStay
    <3>2. CASE j = i
      <4>1. check'[i].copy = [row EXCEPT !.eval = now] /\ msgs' = msgs
        BY <2>3, <2>6, <3>2, TouchReadEffect DEF TouchRead
      <4>2. check'[i].copy.eval = now
        BY <4>1 DEF TypeOK, States
      <4> QED
        BY <2>1, <3>2, <4>1, <4>2
    <3> QED
      BY <3>1, <3>2
  <2> QED
    BY <2>4, <2>5, <2>6 DEF MarkInv
<1> QED
  BY <1>1, <1>2, <1>3, <1>4 DEF Next, Tick, vars

-----------------------------------------------------------------------------
(* Cap and cooldown                                                        *)

\* An interjection is in the row, or the check that sent it is about to write it.
Recorded(s) ==
  \/ row.fire >= s.at
  \/ check[s.by].pc = "log"
  \/ check[s.by].pc = "updateSave" /\ check[s.by].copy.fire >= s.at

Bound == IF \E i \in Checks : Recording(i) THEN row.fires + 1 ELSE row.fires

\* The row knows every interjection but that of a check that is recording, and
\* a check on its way to speak still finds cap and cooldown free.
FireInv ==
  /\ IsFiniteSet(sends)
  /\ ~raced /\ ~slipped =>
       /\ \A s \in sends : Recorded(s)
       /\ Cardinality(sends) <= Bound
       /\ \A i \in Checks : check[i].passed /\ ~Recording(i) =>
            /\ Cardinality(sends) < DailyCap
            /\ \A s \in sends : now - s.at >= Cooldown
       /\ Cardinality(sends) <= DailyCap
       /\ Apart(sends, Cooldown)

LEMMA InitFire == Init => FireInv
<1> SUFFICES ASSUME Init PROVE FireInv
  OBVIOUS
<1>1. IsFiniteSet(sends) /\ Cardinality(sends) = 0 /\ sends = {}
  BY FS_EmptySet DEF Init
<1>2. \A i \in Checks : ~Recording(i) /\ ~check[i].passed
  BY DEF Init, Idle, Recording
<1>3. Bound = 0
  BY <1>2 DEF Bound, Init, Empty
<1> QED
  BY <1>1, <1>2, <1>3, Constants DEF FireInv, Apart

\* A check that opens the gate finds it open for one more interjection.
LEMMA GateLetsOneSpeak ==
  ASSUME TypeOK, CheckInv, MarkInv, FireInv, ~raced, ~slipped, DebounceOutlastsCheck,
         NEW i \in Checks, CheckGate(i), check'[i].passed, ~raced'
  PROVE  Cardinality(sends) < DailyCap /\ \A s \in sends : now - s.at >= Cooldown
<1>1. \A j \in Checks : ~check[j].passed
  BY GateIsShut
<1>2. \A j \in Checks : check[j].pc \notin Marked
  BY <1>1 DEF CheckInv
<1>3. Cardinality(sends) <= row.fires
  BY <1>2 DEF FireInv, Bound, Recording, Marked
<1>4. row.fires < DailyCap /\ ~Within(row.fire, Cooldown)
  BY GateEffect DEF GateOpen
<1>5. Cardinality(sends) \in Nat /\ row.fires \in Nat
  BY FS_CardinalityType DEF FireInv, TypeOK, States
<1>6. ASSUME NEW s \in sends PROVE now - s.at >= Cooldown
  <2>1. s.by \in Checks /\ s.at \in Nat
    BY Constants DEF TypeOK, Events, Times
  <2>2. row.fire >= s.at
    BY <1>2, <2>1 DEF FireInv, Recorded, Marked
  <2>3. row.fire \in Int /\ now \in Nat
    BY Constants DEF TypeOK, States, Times, Never
  <2> QED
    BY <1>4, <2>1, <2>2, <2>3, Constants DEF Within, Never
<1> QED
  BY <1>3, <1>4, <1>5, <1>6, Constants

LEMMA StepFire ==
  ASSUME TypeOK, CheckInv, MarkInv, FireInv, DebounceOutlastsCheck, [Next]_vars
  PROVE  FireInv'
<1> DEFINE n == Cardinality(sends)
<1>0. /\ TypeOK' /\ CheckInv' /\ MarkInv'
      /\ IsFiniteSet(sends) /\ n \in Nat
  BY StepType, StepCheck, StepMark, FS_CardinalityType DEF FireInv
<1>1. IsFiniteSet(sends')
  <2>1. UNCHANGED sends \/ \E i \in Checks : Speak(i)
    BY CrashEffect, ArriveEffect, OthersStay DEF Next, vars, Tick
  <2> QED
    <3>1. ASSUME NEW e PROVE IsFiniteSet(sends \cup {e})
      BY <1>0, FS_AddElement
    <3> QED
      BY <1>0, <2>1, <3>1 DEF Speak
<1> SUFFICES ASSUME ~raced', ~slipped' PROVE FireInv'
  BY <1>1 DEF FireInv
<1>2. /\ ~raced /\ ~slipped
      /\ row'.eval >= row.eval /\ row'.fire >= row.fire /\ row'.fires >= row.fires
  BY RowGrows
<1>3. /\ \A s \in sends : Recorded(s)
      /\ n <= Bound
      /\ \A i \in Checks : check[i].passed /\ ~Recording(i) =>
           n < DailyCap /\ \A s \in sends : now - s.at >= Cooldown
      /\ n <= DailyCap
      /\ Apart(sends, Cooldown)
  BY <1>2 DEF FireInv
<1>4. /\ \A s \in sends : s.by \in Checks /\ s.at \in Nat
      /\ row.fire \in Int /\ row'.fire \in Int /\ row.fires \in Nat /\ row'.fires \in Nat
      /\ now \in Nat
  <2>1. row \in States /\ row' \in States
    BY <1>0 DEF TypeOK
  <2> QED
    BY <2>1, Constants DEF TypeOK, Events, States, Times, Never
\* What is left to show when nobody speaks.
<1>5. ASSUME UNCHANGED sends,
             \A s \in sends : Recorded(s)',
             n <= Bound',
             \A i \in Checks : (check[i].passed /\ ~Recording(i))' =>
               n < DailyCap /\ \A s \in sends : now' - s.at >= Cooldown
      PROVE  FireInv'
  BY <1>0, <1>1, <1>3, <1>5 DEF FireInv, Apart
<1>6. CASE UNCHANGED <<now, row, check, sends>>
  BY <1>3, <1>5, <1>6 DEF Recorded, Bound, Recording
<1>7. CASE Tick
  <2>1. UNCHANGED <<row, check, sends>> /\ now' = now + 1
    BY <1>7 DEF Tick
  <2>2. (\A s \in sends : Recorded(s)') /\ Bound' = Bound
    BY <1>3, <2>1 DEF Recorded, Bound, Recording
  <2>3. \A s \in sends : now - s.at >= Cooldown => now' - s.at >= Cooldown
    BY <1>4, <2>1, Constants
  <2>4. \A i \in Checks : Recording(i)' <=> Recording(i)
    BY <2>1 DEF Recording
  <2> QED
    BY <1>3, <1>5, <2>1, <2>2, <2>3, <2>4
<1>8. CASE Crash
  <2>1. \A i \in Checks : ~Recording(i)
    BY <1>8, CrashEffect
  <2>2. \A i \in Checks : check'[i] = check[i] \/ check'[i] = Over
    BY <1>8, CrashEffect
  <2>3. Over.pc = "done" /\ ~Over.passed
    BY DEF Over, Idle
  <2>4. \A i \in Checks : check'[i].pc \notin {"log", "updateSave", "count"}
    BY <2>1, <2>2, <2>3 DEF Recording
  <2>5. Bound' = Bound
    BY <1>8, <2>1, <2>4, CrashEffect DEF Bound, Recording
  <2>6. \A s \in sends : Recorded(s)'
    BY <1>3, <1>4, <1>8, <2>1, CrashEffect DEF Recorded, Recording
  <2> QED
    BY <1>3, <1>5, <1>8, <2>1, <2>2, <2>3, <2>5, <2>6, CrashEffect
<1>9. ASSUME NEW a \in Humans \cup {Rick}, Arrive(a) PROVE FireInv'
  <2> DEFINE New == [Idle EXCEPT !.pc = "load"]
  <2>1. New.pc = "load" /\ ~New.passed /\ Idle.pc = "none"
    BY DEF Idle
  <2>2. \A i \in Checks : check'[i] = check[i] \/ (check'[i] = New /\ check[i] = Idle)
    BY <1>9, ArriveEffect
  <2> HIDE DEF New
  <2>3. \A i \in Checks : Recording(i)' <=> Recording(i)
    BY <2>1, <2>2 DEF Recording
  <2>4. Bound' = Bound
    BY <1>9, <2>3, ArriveEffect DEF Bound
  <2>5. \A s \in sends : Recorded(s)'
    BY <1>3, <1>4, <1>9, <2>1, <2>2, ArriveEffect DEF Recorded
  <2>6. \A i \in Checks : check'[i].passed => check[i].passed
    BY <2>1, <2>2
  <2> QED
    BY <1>3, <1>5, <1>9, <2>3, <2>4, <2>5, <2>6, ArriveEffect
<1>10. ASSUME NEW i \in Checks, Check(i) PROVE FireInv'
  <2>1. /\ \A j \in Checks \ {i} : check'[j] = check[j]
        /\ now' = now
    BY <1>10, OthersStay
  <2>2. \A j \in Checks \ {i} : Recording(j)' <=> Recording(j)
    BY <2>1 DEF Recording
  <2>3. \A s \in sends : s.by # i => Recorded(s)'
    BY <1>2, <1>3, <1>4, <2>1 DEF Recorded
  \* Steps after which the row holds at least as much, and i may go on as before.
  <2>4. ASSUME UNCHANGED sends,
               \A s \in sends : s.by = i => Recorded(s)',
               Recording(i) => Recording(i)' \/ row'.fires = row.fires + 1,
               (check[i].passed /\ ~Recording(i))' => check[i].passed /\ ~Recording(i)
        PROVE  FireInv'
    <3>1. n <= Bound'
      <4>1. CASE Recording(i)
        <5>1. CASE Recording(i)'
          <6>1. n <= row.fires + 1 /\ Bound' = row'.fires + 1
            BY <1>3, <4>1, <5>1 DEF Bound
          <6> QED
            BY <1>0, <1>2, <1>4, <6>1
        <5>2. CASE row'.fires = row.fires + 1
          <6>1. n <= row.fires + 1 /\ row'.fires <= Bound'
            BY <1>3, <1>4, <4>1 DEF Bound
          <6>2. Bound' \in Nat
            BY <1>4 DEF Bound
          <6> QED
            BY <1>0, <1>4, <5>2, <6>1, <6>2
        <5> QED
          BY <2>4, <4>1, <5>1, <5>2
      <4>2. CASE ~Recording(i)
        <5>1. (\E j \in Checks : Recording(j)) => \E j \in Checks : Recording(j)'
          BY <2>2, <4>2
        <5> QED
          BY <1>0, <1>2, <1>3, <1>4, <5>1 DEF Bound
      <4> QED
        BY <4>1, <4>2
    <3>2. \A s \in sends : Recorded(s)'
      BY <2>3, <2>4
    <3>3. \A j \in Checks : (check[j].passed /\ ~Recording(j))' =>
                               check[j].passed /\ ~Recording(j)
      BY <2>1, <2>2, <2>4
    <3> QED
      BY <1>3, <1>5, <2>1, <2>4, <3>1, <3>2, <3>3
  <2>5. CASE LoadWindow(i) \/ TouchRead(i) \/ TouchSave(i)
    <3>1. /\ UNCHANGED sends
          /\ check[i].pc \in {"load", "touch", "touchSave"}
          /\ check'[i].pc \in {"gate", "touchSave", "classify", "done"}
          /\ check'[i].passed = check[i].passed
      BY <2>5, LoadEffect, TouchReadEffect, TouchSaveEffect DEF LoadWindow, TouchRead, TouchSave,
         From, To, SamePassed
    <3>2. ~Recording(i) /\ ~Recording(i)'
      BY <3>1 DEF Recording
    <3>3. \A s \in sends : s.by = i => row.fire >= s.at
      BY <1>3, <3>1 DEF Recorded
    <3> QED
      BY <1>2, <1>4, <2>4, <3>1, <3>2, <3>3 DEF Recorded
  <2>6. CASE CheckGate(i)
    <3>1. /\ UNCHANGED <<sends, row>>
          /\ check[i].pc = "gate" /\ check'[i].pc = "touch"
      BY <2>6, GateEffect DEF CheckGate, From, To
    <3>2. ~Recording(i) /\ ~Recording(i)'
      BY <3>1 DEF Recording
    <3>3. \A s \in sends : s.by = i => Recorded(s)'
      BY <1>3, <3>1 DEF Recorded
    <3>4. CASE ~check'[i].passed
      BY <2>4, <3>1, <3>2, <3>3, <3>4
    <3>5. CASE check'[i].passed
      <4>1. n < DailyCap /\ \A s \in sends : now - s.at >= Cooldown
        BY <1>2, <2>6, <3>5, GateLetsOneSpeak
      <4>2. \A j \in Checks : Recording(j)' <=> Recording(j)
        BY <2>2, <3>2
      <4>3. Bound' = Bound
        BY <3>1, <4>2 DEF Bound
      <4> QED
        BY <1>3, <1>5, <2>1, <2>3, <3>1, <3>3, <4>1, <4>3
    <3> QED
      BY <3>4, <3>5
  <2>7. CASE Classify(i)
    <3>1. /\ UNCHANGED <<sends, row>> /\ check[i].pc = "classify"
          /\ \/ check'[i].pc = "respond" /\ check'[i].passed = check[i].passed
             \/ check'[i].pc = "done" /\ ~check'[i].passed
      BY <2>7, ClassifyEffect DEF Classify, From, To, SamePassed, Over, Idle
    <3>2. ~Recording(i) /\ ~Recording(i)'
      BY <3>1 DEF Recording
    <3>3. \A s \in sends : s.by = i => Recorded(s)'
      BY <1>3, <3>1 DEF Recorded
    <3> QED
      BY <2>4, <3>1, <3>2, <3>3
  <2>8. CASE Respond(i)
    <3>1. /\ check[i].pc = "respond" /\ check'[i].pc = "log" /\ row' = row
      BY <2>8, RespondEffect DEF Respond, From, To
    <3>2. check[i].passed /\ ~Recording(i) /\ Recording(i)'
      BY <3>1 DEF CheckInv, Marked, Recording
    <3>3. \A j \in Checks : check[j].passed => j = i
      BY <1>2, <3>2 DEF MarkInv
    <3>4. \A j \in Checks : ~Recording(j)
      BY <3>2, <3>3 DEF CheckInv, Recording, Marked
    <3>5. /\ n <= row.fires /\ Bound' = row.fires + 1
          /\ n < DailyCap /\ \A s \in sends : now - s.at >= Cooldown
      BY <1>3, <3>1, <3>2, <3>4 DEF Bound
    <3>6. CASE UNCHANGED sends
      <4>1. \A s \in sends : s.by = i => Recorded(s)'
        BY <3>1 DEF Recorded
      <4> QED
        BY <2>4, <3>2, <3>6, <4>1
    <3>7. CASE Speak(i)
      <4> DEFINE new == [by |-> i, at |-> now]
      <4>1. sends' = sends \cup {new} /\ new.by = i /\ new.at = now
        BY <3>7 DEF Speak
      <4> HIDE DEF new
      <4>2. Cardinality(sends') <= n + 1 /\ Cardinality(sends') \in Nat
        BY <1>0, <4>1, FS_AddElement
      <4>3. \A s \in sends' : Recorded(s)'
        BY <2>3, <3>1, <4>1 DEF Recorded
      <4>4. Cardinality(sends') <= Bound' /\ Cardinality(sends') <= DailyCap
        BY <1>0, <1>4, <3>5, <4>2, Constants
      <4>5. Apart(sends', Cooldown)
        BY <1>3, <3>5, <4>1 DEF Apart
      <4>6. \A j \in Checks : (check[j].passed /\ ~Recording(j))' => FALSE
        BY <1>0, <3>2, <3>3, <2>1
      <4> QED
        BY <1>1, <4>3, <4>4, <4>5, <4>6 DEF FireInv, Apart
    <3> QED
      BY <2>8, <3>6, <3>7 DEF Respond
  <2>9. CASE RespondFails(i)
    <3>1. /\ check[i].pc = "respond" /\ check'[i].pc = "done" /\ ~check'[i].passed
          /\ UNCHANGED <<row, sends>>
      <4>1. UNCHANGED sends
        BY <2>9 DEF RespondFails
      <4>2. Over.pc = "done" /\ ~Over.passed
        BY DEF Over, Idle
      <4> QED
        BY <2>9, <4>1, <4>2, RespondFailsEffect DEF RespondFails, From
    <3>2. ~Recording(i) /\ ~Recording(i)'
      BY <3>1 DEF Recording
    <3>3. \A s \in sends : s.by = i => Recorded(s)'
      BY <1>3, <3>1 DEF Recorded
    <3> QED
      BY <2>4, <3>1, <3>2, <3>3
  <2>10. CASE UpdateRead(i)
    <3>1. /\ check[i].pc = "log" /\ check'[i].pc = "updateSave" /\ UNCHANGED <<row, sends>>
          /\ check'[i].copy.fire = now
      <4>1. [row EXCEPT !.eval = now, !.fire = now].fire = now
        BY DEF TypeOK, States
      <4> QED
        BY <2>10, <4>1, UpdateReadEffect DEF UpdateRead, From, To
    <3>2. Recording(i) /\ Recording(i)'
      BY <3>1 DEF Recording
    <3>3. \A s \in sends : s.by = i => Recorded(s)'
      BY <3>1 DEF Recorded, CheckInv
    <3> QED
      BY <2>4, <3>1, <3>2, <3>3
  <2>11. CASE UpdateSave(i)
    <3>1. /\ check[i].pc = "updateSave" /\ check'[i].pc = "count"
          /\ row' = check[i].copy /\ UNCHANGED sends
      BY <2>11, UpdateSaveEffect DEF UpdateSave, Save, From, To
    <3>2. Recording(i) /\ Recording(i)'
      BY <3>1 DEF Recording
    <3>3. \A s \in sends : s.by = i => Recorded(s)'
      BY <1>2, <1>3, <1>4, <3>1 DEF Recorded
    <3> QED
      BY <2>4, <3>1, <3>2, <3>3
  <2>12. CASE CountFire(i)
    <3>1. /\ check[i].pc = "count" /\ check'[i].pc = "done" /\ ~check'[i].passed
          /\ UNCHANGED sends /\ row'.fires = row.fires + 1 /\ row'.fire = row.fire
      BY <2>12, CountEffect DEF CountFire, From, Over, Idle, TypeOK, States
    <3>2. \A s \in sends : s.by = i => Recorded(s)'
      BY <1>3, <3>1 DEF Recorded
    <3> QED
      BY <2>4, <3>1, <3>2
  <2>13. CASE StoreFails(i) \/ Timeout(i)
    <3>1. UNCHANGED <<sends, row>>
      BY <2>13 DEF StoreFails, Timeout
    <3>2. ~Recording(i)
      BY <2>13, FailEffect DEF Recording
    <3>3. \/ check'[i].pc = "done" /\ ~check'[i].passed
          \/ check'[i].pc = "touch" /\ check'[i].passed = check[i].passed
      BY <2>13, FailEffect DEF To, SamePassed, Over, Idle
    <3>4. ~Recording(i)'
      BY <3>3 DEF Recording
    <3>5. \A s \in sends : s.by = i => Recorded(s)'
      BY <1>3, <3>1, <3>2 DEF Recorded, Recording
    <3> QED
      BY <2>4, <3>1, <3>2, <3>3, <3>4, <3>5
  <2> QED
    BY <1>10, <2>5, <2>6, <2>7, <2>8, <2>9, <2>10, <2>11, <2>12, <2>13 DEF Check
<1> QED
  BY <1>6, <1>7, <1>8, <1>9, <1>10 DEF Next, vars

\* But for the two exceptions no two interjections of a channel come within a
\* cooldown, and no more than the cap: for any settings whose debounce is longer
\* than a check.
THEOREM CooldownKept == ASSUME DebounceOutlastsCheck PROVE Spec => []CooldownHolds
<1> DEFINE Inv == CheckInv /\ MarkInv /\ FireInv
<1>1. Init => Inv
  BY InitCheck, InitMark, InitFire
<1>2. TypeOK /\ Inv /\ [Next]_vars => Inv'
  BY StepCheck, StepMark, StepFire
<1>3. Inv => CooldownHolds
  BY DEF FireInv, CooldownHolds
<1> QED
  BY <1>1, <1>2, <1>3, TypeCorrect, PTL DEF Spec

-----------------------------------------------------------------------------
(* Debounce                                                                *)

\* How far apart the classifier's calls are kept.
Slack == EvalDebounce - CheckTimeout

\* The row bears the mark of every call, and a check on its way to the
\* classifier has left all calls behind it.
CallInv ==
  ~raced /\ ~slipped =>
    /\ \A c \in calls : row.eval >= 0 /\ row.eval + CheckTimeout >= c.at
    /\ \A i \in Checks : check[i].passed /\ check[i].pc \in {"touch", "touchSave", "classify"} =>
         \A c \in calls : now - c.at >= Slack
    /\ Apart(calls, Slack)

LEMMA InitCall == Init => CallInv
BY DEF Init, CallInv, Apart

LEMMA StepCall ==
  ASSUME TypeOK, CheckInv, MarkInv, CallInv, DebounceOutlastsCheck, [Next]_vars
  PROVE  CallInv'
<1> SUFFICES ASSUME ~raced', ~slipped' PROVE CallInv'
  BY DEF CallInv
<1>1. ~raced /\ ~slipped /\ row'.eval >= row.eval
  BY RowGrows
<1>2. /\ \A c \in calls : row.eval >= 0 /\ row.eval + CheckTimeout >= c.at
      /\ \A i \in Checks : check[i].passed /\ check[i].pc \in {"touch", "touchSave", "classify"} =>
           \A c \in calls : now - c.at >= Slack
      /\ Apart(calls, Slack)
  BY <1>1 DEF CallInv
<1>3. /\ row.eval \in Int /\ row'.eval \in Int
      /\ \A c \in calls : c.at \in Nat
      /\ now \in Nat /\ CheckTimeout \in Nat /\ EvalDebounce \in Nat /\ Slack \in Int
  <2>1. row \in States /\ row' \in States
    BY StepType DEF TypeOK
  <2> QED
    BY <2>1, Constants DEF TypeOK, Events, States, Times, Never, Slack
\* What is left to show when the classifier is not called.
<1>4. ASSUME UNCHANGED calls, now' \in Nat, now' >= now,
             \A i \in Checks :
               check'[i].passed /\ check'[i].pc \in {"touch", "touchSave", "classify"} =>
                 \/ check[i].passed /\ check[i].pc \in {"touch", "touchSave", "classify"}
                 \/ \A c \in calls : now - c.at >= Slack
      PROVE  CallInv'
  <2>1. \A c \in calls : row'.eval >= 0 /\ row'.eval + CheckTimeout >= c.at
    BY <1>1, <1>2, <1>3
  <2>2. \A c \in calls : now - c.at >= Slack => now' - c.at >= Slack
    BY <1>3, <1>4
  <2> QED
    BY <1>2, <1>4, <2>1, <2>2 DEF CallInv, Apart
<1>5. CASE UNCHANGED <<now, check, calls>>
  BY <1>3, <1>4, <1>5
<1>6. CASE Tick
  BY <1>3, <1>4, <1>6 DEF Tick
<1>7. CASE Crash
  <2>1. ~Over.passed
    BY DEF Over, Idle
  <2> QED
    BY <1>3, <1>4, <1>7, <2>1, CrashEffect
<1>8. ASSUME NEW a \in Humans \cup {Rick}, Arrive(a) PROVE CallInv'
  <2>1. ~[Idle EXCEPT !.pc = "load"].passed
    BY DEF Idle
  <2>2. \A i \in Checks : check'[i].passed => check'[i] = check[i]
    BY <1>8, <2>1, ArriveEffect
  <2>3. UNCHANGED <<now, calls>>
    BY <1>8, ArriveEffect
  <2> QED
    BY <1>3, <1>4, <2>2, <2>3
<1>9. ASSUME NEW i \in Checks, Check(i) PROVE CallInv'
  <2>1. (\A j \in Checks \ {i} : check'[j] = check[j]) /\ now' = now
    BY <1>9, OthersStay
  <2>2. CASE ~Classify(i) /\ ~(CheckGate(i) /\ check'[i].passed)
    <3>1. UNCHANGED calls
      BY <1>9, <2>2 DEF Check, LoadWindow, CheckGate, TouchRead, TouchSave, Respond,
         RespondFails, UpdateRead, UpdateSave, CountFire, StoreFails, Timeout
    <3>2. check'[i].passed /\ check'[i].pc \in {"touch", "touchSave", "classify"} =>
            check[i].passed /\ check[i].pc \in {"gate", "touch", "touchSave", "classify"}
      BY <1>9, <2>2, LoadEffect, TouchReadEffect, TouchSaveEffect, RespondEffect,
         RespondFailsEffect, UpdateReadEffect, UpdateSaveEffect, CountEffect, FailEffect
         DEF Check, From, To, SamePassed, Over, Idle
    <3>3. check[i].passed => check[i].pc # "gate"
      BY DEF CheckInv, Passing
    <3> QED
      BY <1>3, <1>4, <2>1, <3>1, <3>2, <3>3
  <2>3. CASE CheckGate(i) /\ check'[i].passed
    <3>1. ~Within(row.eval, EvalDebounce) /\ UNCHANGED calls
      BY <2>3, GateEffect DEF GateOpen, CheckGate
    <3>2. \A c \in calls : now - c.at >= Slack
      BY <1>2, <1>3, <3>1 DEF Within, Never, Slack
    <3> QED
      BY <1>3, <1>4, <2>1, <3>1, <3>2
  <2>4. CASE Classify(i)
    <3> DEFINE new == [by |-> i, at |-> now]
    <3>1. /\ calls' = calls \cup {new} /\ new.at = now
          /\ check[i].pc = "classify" /\ row' = row
      BY <2>4, ClassifyEffect DEF Classify, From
    <3> HIDE DEF new
    <3>2. check[i].passed /\ row.eval >= msgs[i].at
      BY <1>1, <3>1 DEF CheckInv, MarkInv, Marked
    <3>3. msgs[i].at \in Nat /\ now <= msgs[i].at + CheckTimeout
      BY <3>1, InFlightArrived, Constants DEF CheckInv, InFlight, Times
    <3>4. \A c \in calls' : row'.eval >= 0 /\ row'.eval + CheckTimeout >= c.at
      BY <1>2, <1>3, <3>1, <3>2, <3>3
    <3>5. Apart(calls', Slack)
      <4>1. \A c \in calls : now - c.at >= Slack
        BY <1>2, <3>1, <3>2
      <4> QED
        BY <1>2, <3>1, <4>1 DEF Apart
    <3>6. ASSUME NEW j \in Checks
          PROVE  ~(check'[j].passed /\ check'[j].pc \in {"touch", "touchSave", "classify"})
      <4>1. CASE j = i
        BY <2>4, <4>1, ClassifyEffect DEF To, Over, Idle
      <4>2. CASE j # i
        BY <1>1, <2>1, <3>2, <4>2 DEF MarkInv
      <4> QED
        BY <4>1, <4>2
    <3> QED
      BY <3>4, <3>5, <3>6 DEF CallInv, Apart
  <2> QED
    BY <2>2, <2>3, <2>4
<1> QED
  BY <1>5, <1>6, <1>7, <1>8, <1>9 DEF Next, vars

\* But for the two exceptions two classifier calls are a debounce less one
\* timeout apart, whatever the settings.
THEOREM DebounceKept == Spec => []DebounceHolds
<1>1. CASE DebounceOutlastsCheck
  <2> DEFINE Inv == CheckInv /\ MarkInv /\ CallInv
  <2>1. Init => Inv
    BY InitCheck, InitMark, InitCall
  <2>2. TypeOK /\ Inv /\ [Next]_vars => Inv'
    BY <1>1, StepCheck, StepMark, StepCall
  <2>3. Inv => DebounceHolds
    BY DEF CallInv, DebounceHolds, Slack
  <2> QED
    BY <2>1, <2>2, <2>3, TypeCorrect, PTL DEF Spec
<1>2. CASE ~DebounceOutlastsCheck
  <2>1. TypeOK => DebounceHolds
    BY <1>2, Constants DEF TypeOK, DebounceOutlastsCheck, DebounceHolds, Apart, Events, Times
  <2> QED
    BY <2>1, TypeCorrect, PTL
<1> QED
  BY <1>1, <1>2
=============================================================================
