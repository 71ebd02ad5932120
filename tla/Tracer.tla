------------------------------- MODULE Tracer -------------------------------
(***************************************************************************)
(* Traces of turns (internal/tracer): a ring of the last successes in      *)
(* memory, failures in the database, cancelled turns nowhere.  Turns start *)
(* in one order and finish in another; what each has used is saved then.   *)
(***************************************************************************)
EXTENDS Integers, Sequences

CONSTANTS Traces, MaxEntries

ASSUME TracerAssumption == MaxEntries \in Nat \ {0}

VARIABLES
  recording,    \* turns under way
  entries, pos, count,
  persisted,    \* failure_traces
  used,         \* token_usage
  finished,     \* history: turns that have been
  successes     \* history: successful turns in the order they finished

tracerVars == <<recording, entries, pos, count, persisted, used, finished,
                successes>>

TracerInit ==
  /\ recording = {}
  /\ entries = [i \in 0..MaxEntries-1 |-> 0] /\ pos = 0 /\ count = 0
  /\ persisted = {} /\ used = {} /\ finished = {} /\ successes = <<>>

StartTrace(t) ==
  /\ t \notin recording \cup finished
  /\ recording' = recording \cup {t}
  /\ UNCHANGED <<entries, pos, count, persisted, used, finished, successes>>

\* Mutant: the counter runs on when the ring is full.
AddUncapped(t) ==
  /\ entries' = [entries EXCEPT ![pos % MaxEntries] = t]
  /\ pos' = pos + 1
  /\ count' = IF count <= MaxEntries THEN count + 1 ELSE count

AddSuccess(t) ==
  /\ entries' = [entries EXCEPT ![pos % MaxEntries] = t]
  /\ pos' = pos + 1
  /\ count' = IF count < MaxEntries THEN count + 1 ELSE count

\* finishTrace and Recording.Finish: an error that is not a cancellation, or a
\* declined answer, is a failure.
FinishTrace(t, outcome) ==
  /\ t \in recording
  /\ recording' = recording \ {t}
  /\ \/ /\ outcome = "success"
        /\ AddSuccess(t)
        /\ successes' = Append(successes, t)
        /\ UNCHANGED persisted
     \/ /\ outcome \in {"error", "declined"}
        /\ persisted' \in {persisted, persisted \cup {t}}
        /\ UNCHANGED <<entries, pos, count, successes>>
     \/ /\ outcome = "cancelled"
        /\ UNCHANGED <<entries, pos, count, persisted, successes>>
  /\ finished' = finished \cup {t}
  /\ used' \in {used, used \cup {t}}

TracerNext ==
  \E t \in Traces :
    \/ StartTrace(t)
    \/ \E outcome \in {"success", "error", "declined", "cancelled"} :
         FinishTrace(t, outcome)

TracerSpec == TracerInit /\ [][TracerNext]_tracerVars

RecentSuccesses ==
  [i \in 1..count |-> entries[(pos - count + i - 1) % MaxEntries]]

FindByID(t) == \E i \in 1..count : RecentSuccesses[i] = t

-----------------------------------------------------------------------------
\* The ring holds the last successes in the order they finished, finds each of
\* them and none that has fallen out (RecentSuccesses, FindByID).
RingIsRecent ==
  LET n == Len(successes)
      k == IF n < MaxEntries THEN n ELSE MaxEntries
      recent == SubSeq(successes, n - k + 1, n)
  IN  /\ RecentSuccesses = recent
      /\ \A t \in Traces : FindByID(t) <=> \E i \in 1..k : recent[i] = t
=============================================================================
