------------------------------ MODULE Recalls ------------------------------
(***************************************************************************)
(* What Rick recalls for a message, and for the queries that the rewriter  *)
(* (internal/archive/rewriter.go) makes of it, one after the other.        *)
(***************************************************************************)
EXTENDS Retrieval

CONSTANTS
  Requests, Queries,  \* what a message may be as a query; what it is rewritten into
  MaxItems            \* bound

ASSUME RecallsAssumption ==
  \A q \in Requests \cup Queries :
    /\ q.vec \in Seq(ChunkIds) /\ q.lex \in Seq(ChunkIds)
    /\ q.scores = <<>> \/ q.scores \in [ChunkIds -> Int]
    /\ IsFiniteSet(q.author) /\ {q.since, q.until} \subseteq Nat \cup {NoDate}

VARIABLES
  message,            \* as a query of its own
  items               \* the queries the model answers with

recallVars == <<message, items>>

RecallInit == message \in Requests /\ items = <<>>

NextItem ==
  /\ Len(items) < MaxItems
  /\ \E q \in Queries : items' = Append(items, q)
  /\ UNCHANGED message

RecallSpec == RecallInit /\ [][NextItem]_recallVars

-----------------------------------------------------------------------------
\* Recall keeps the best of all queries, with and without a rewriter
\* (RetrieveRewritten), each of which has looked where it should
\* (chunkFilterSQL; "latest date inclusive"), and shows every chunk that is kept
\* in its place.
RecallIsRight ==
  /\ KeepsBest(<<message>>, RetrieveRewritten(message, items, FALSE))
  /\ KeepsBest(Rewrite(items), RetrieveRewritten(message, items, TRUE))
  /\ \A i \in DOMAIN items : FindsItsDays(items[i])
  /\ \A c \in RetrieveRewritten(message, items, TRUE) : ShownInPlace(c.id)
=============================================================================
