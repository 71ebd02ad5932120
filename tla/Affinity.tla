------------------------------ MODULE Affinity ------------------------------
(***************************************************************************)
(* What Rick thinks of people (internal/affinity).  Every chunk that is    *)
(* saved has a goroutine of its own that lets a model judge it and applies *)
(* the deltas one after the other; each reads the row of the person and    *)
(* saves the whole of it, and two chunks' goroutines may run at once.      *)
(***************************************************************************)
EXTENDS Integers, Sequences

CONSTANTS
  Scorers,      \* chunks being scored
  Persons, Outsider,  \* participants, and somebody the model made up
  Judged,       \* the deltas a model may answer with
  MaxDelta, MaxScore, Baseline

ASSUME AffinityAssumption ==
  /\ Outsider \notin Persons
  /\ Judged \subseteq Int /\ {MaxDelta, MaxScore} \subseteq Nat /\ Baseline \in Int

VARIABLES
  ledger,       \* user_affinities: person -> score
  scorer,       \* each goroutine: the deltas it has still to apply, and the
                \* row it has read, if it has
  applied,      \* history: every person's deltas as they were saved
  clashed       \* history: people two scorers were updating at once

affinityVars == <<ledger, scorer, applied, clashed>>

NoRow == MaxScore + 1

AffinityInit ==
  /\ ledger = [p \in {} |-> 0]
  /\ scorer = [s \in Scorers |-> [todo |-> <<>>, row |-> NoRow, begun |-> FALSE]]
  /\ applied = [p \in Persons |-> <<>>]
  /\ clashed = {}

Clamp(n, lo, hi) == IF n < lo THEN lo ELSE IF n > hi THEN hi ELSE n

\* ScoreChunk: the model answers, or the goroutine ends with an error.
Judge(s) ==
  /\ ~scorer[s].begun
  /\ \E n \in 0..2 : \E answer \in
         [1..n -> [person : Persons \cup {Outsider}, delta : Judged]] :
       scorer' = [scorer EXCEPT ![s] =
         [todo |-> answer, row |-> NoRow, begun |-> TRUE]]
  /\ UNCHANGED <<ledger, applied, clashed>>

\* A delta as far as it may go; none, and one of an outsider, is passed over.
PersonOf(s) == Head(scorer[s].todo).person
DeltaOf(s) == Clamp(Head(scorer[s].todo).delta, -MaxDelta, MaxDelta)

Skip(s) ==
  /\ scorer[s].todo # <<>> /\ scorer[s].row = NoRow
  /\ PersonOf(s) \notin Persons \/ DeltaOf(s) = 0
  /\ scorer' = [scorer EXCEPT ![s].todo = Tail(@)]
  /\ UNCHANGED <<ledger, applied, clashed>>

\* Mutant: people nobody has judged yet start at nought.
ReadFromNought(s) ==
  IF PersonOf(s) \in DOMAIN ledger THEN ledger[PersonOf(s)] ELSE 0

\* The row of a person, the baseline for a new one.
RowOf(s) ==
  IF PersonOf(s) \in DOMAIN ledger THEN ledger[PersonOf(s)] ELSE Baseline

Updating(p) == {s \in Scorers : scorer[s].row # NoRow /\ PersonOf(s) = p}

\* Update reads the row ...
ReadRow(s) ==
  /\ scorer[s].todo # <<>> /\ scorer[s].row = NoRow
  /\ PersonOf(s) \in Persons /\ DeltaOf(s) # 0
  /\ scorer' = [scorer EXCEPT ![s].row = RowOf(s)]
  /\ clashed' = IF Updating(PersonOf(s)) # {} THEN clashed \cup {PersonOf(s)} ELSE clashed
  /\ UNCHANGED <<ledger, applied>>

\* ... and saves it with the delta added.
SaveRow(s) ==
  /\ scorer[s].row # NoRow
  /\ LET p == PersonOf(s)
         score == Clamp(scorer[s].row + DeltaOf(s), -MaxScore, MaxScore)
     IN  /\ ledger' = [q \in DOMAIN ledger \cup {p} |->
                         IF q = p THEN score ELSE ledger[q]]
         /\ applied' = [applied EXCEPT ![p] = Append(@, DeltaOf(s))]
  /\ scorer' = [scorer EXCEPT ![s].todo = Tail(@), ![s].row = NoRow]
  /\ UNCHANGED clashed

\* A failing read or save gives up the rest of the answer.
ScoringFails(s) ==
  /\ scorer[s].todo # <<>>
  /\ scorer' = [scorer EXCEPT ![s].todo = <<>>, ![s].row = NoRow]
  /\ UNCHANGED <<ledger, applied, clashed>>

AffinityNext ==
  \E s \in Scorers :
    Judge(s) \/ Skip(s) \/ ReadRow(s) \/ SaveRow(s) \/ ScoringFails(s)

AffinitySpec == AffinityInit /\ [][AffinityNext]_affinityVars

-----------------------------------------------------------------------------
\* The baseline and all deltas, one after the other and never beyond the limits.
SumOf(deltas) ==
  LET sum[n \in 0..Len(deltas)] ==
        IF n = 0 THEN Baseline
        ELSE Clamp(sum[n-1] + deltas[n], -MaxScore, MaxScore)
  IN  sum[Len(deltas)]

\* A score is the baseline and every delta that was saved, one after the other
\* and never beyond the limits, unless two scorers updated the person at once:
\* then one of them may be lost (Ledger.Update).
ScoreAddsUp ==
  \A p \in DOMAIN ledger \ clashed : ledger[p] = SumOf(applied[p])
=============================================================================
