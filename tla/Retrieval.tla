----------------------------- MODULE Retrieval -----------------------------
(***************************************************************************)
(* Recall (internal/archive/retriever.go): a message is rewritten into up  *)
(* to three queries; each is searched by vector and by words, the two      *)
(* rankings are fused and perhaps reranked, and what all queries found is  *)
(* merged.  A chunk is its id.  A query is a record of the two rankings    *)
(* "vec" and "lex" of all chunks, of "scores", what the reranker says of   *)
(* each chunk, or <<>> when it fails, and of its filters: "author", the    *)
(* persons with the name it gives, and the days "since" and "until"; one   *)
(* whose text is "blank" is none.  A query whose embedding or search fails *)
(* takes the whole recall with it: the turn goes on without.               *)
(*                                                                         *)
(* An answer is the set of its scored chunks: a limit keeps those that     *)
(* fewer than so many others come before.                                  *)
(***************************************************************************)
EXTENDS Integers, Sequences, FiniteSets, SequencesExt

CONSTANTS
  TopK, RerankMinScore, Fetch, MaxQueries, NeighborChunks,
  Scale,        \* the score 1.0 of an answer, as a whole number
  Archived,     \* the chunks of a channel: who writes in it, from when, to when
  TicksPerDay

ChunkIds == DOMAIN Archived

ASSUME RetrievalAssumption ==
  /\ {TopK, RerankMinScore, Fetch, MaxQueries, NeighborChunks, Scale, TicksPerDay}
       \subseteq Nat
  /\ TopK > 0 /\ Fetch >= TopK /\ TicksPerDay > 0
  /\ IsFiniteSet(ChunkIds) /\ ChunkIds \subseteq Nat
  /\ \A id \in ChunkIds :
       /\ Archived[id].from \in Nat /\ Archived[id].to \in Nat
       /\ Archived[id].from <= Archived[id].to

NoDate == -1  \* a date that is empty, or cannot be read

-----------------------------------------------------------------------------
AddQuery(queries, q) ==
  IF q.blank \/ Len(queries) = MaxQueries THEN queries ELSE Append(queries, q)

\* parseRewrittenQueries.
Rewrite(items) ==
  LET queries[i \in 0..Len(items)] ==
        IF i = 0 THEN <<>> ELSE AddQuery(queries[i-1], items[i])
  IN  queries[Len(items)]

\* Only a name that one person has ever written under is a filter.
ResolveAuthor(matches) == IF Cardinality(matches) = 1 THEN matches ELSE {}

\* dateRange: until is a day, and the range ends with it.
Since(q) == q.since * TicksPerDay
Until(q) == (q.until + 1) * TicksPerDay

\* chunkFilterSQL.
InScope(q, id) ==
  /\ ResolveAuthor(q.author) \subseteq Archived[id].authors
  /\ q.since = NoDate \/ Archived[id].to >= Since(q)
  /\ q.until = NoDate \/ Archived[id].from < Until(q)

\* The share in the fused score of one ranking, of what the filter leaves.
RRF(q, ranking, id) ==
  LET ahead == {i \in DOMAIN ranking :
                  /\ InScope(q, ranking[i])
                  /\ \E j \in DOMAIN ranking : i <= j /\ ranking[j] = id}
  IN  IF ahead = {} THEN 0 ELSE Scale \div (60 + Cardinality(ahead))

Fused(q, id) == RRF(q, q.vec, id) + RRF(q, q.lex, id)

Better(a, b) ==
  \/ a.score > b.score
  \/ a.score = b.score /\ a.id < b.id

Best(k, answers) == {c \in answers : Cardinality({d \in answers : Better(d, c)}) < k}

\* hybridSearchSQL: chunks of either ranking by their fused score; what the
\* database does with equal scores is left to their ids.
SearchChunks(q) ==
  Best(Fetch, {[id |-> id, score |-> Fused(q, id)] :
                 id \in {c \in ToSet(q.vec) \cup ToSet(q.lex) : InScope(q, c)}})

\* The reranker's scores in the place of the fused ones.
Rerank(q, candidates) == {[id |-> c.id, score |-> q.scores[c.id]] : c \in candidates}

\* The ranking of one query; only a reranked one is held to the least score.
Ranked(q) ==
  IF q.scores = <<>> THEN SearchChunks(q)
  ELSE {c \in Rerank(q, SearchChunks(q)) : RerankMinScore > 0 => c.score >= RerankMinScore}

\* The sort by the reranker's scores is stable; of chunks with the same score the
\* reranker is taken to name first the one it was given first.
Ahead(q, a, b) ==
  \/ a.score > b.score
  \/ /\ a.score = b.score
     /\ \/ Fused(q, a.id) > Fused(q, b.id)
        \/ Fused(q, a.id) = Fused(q, b.id) /\ a.id < b.id

Retrieve(q) ==
  LET ranked == Ranked(q)
  IN  {c \in ranked : Cardinality({d \in ranked : Ahead(q, d, c)}) < TopK}

\* Mutant: the last query that found a chunk says what it is worth.
MergeLast(best, found) ==
  {c \in best : \A d \in found : d.id # c.id} \cup found

\* The better score of a chunk that several queries found.
MergeBest(best, found) ==
  LET all == best \cup found
  IN  {c \in all : \A d \in all : d.id = c.id => d.score <= c.score}

MergeAll(queries) ==
  LET best[i \in 0..Len(queries)] ==
        IF i = 0 THEN {} ELSE MergeBest(best[i-1], Retrieve(queries[i]))
  IN  best[Len(queries)]

\* Without a rewriter, or when it fails, the message itself is the query.
RetrieveRewritten(message, items, rewritten) ==
  IF rewritten THEN Best(TopK, MergeAll(Rewrite(items))) ELSE Retrieve(message)

-----------------------------------------------------------------------------
Ascending(ids) ==
  CHOOSE s \in [1..Cardinality(ids) -> ids] : \A i, j \in DOMAIN s : i < j => s[i] < s[j]

\* GetNeighborChunks: as many chunks of the channel on either side.
GetNeighborChunks(id) ==
  LET before  == Ascending({c \in ChunkIds : c < id})
      after   == Ascending({c \in ChunkIds : c > id})
      skipped == IF Len(before) > NeighborChunks THEN Len(before) - NeighborChunks ELSE 0
      shown   == IF Len(after) > NeighborChunks THEN NeighborChunks ELSE Len(after)
  IN  SubSeq(before, skipped + 1, Len(before)) \o SubSeq(after, 1, shown)

\* expandWithNeighbors: the chunk goes before the first neighbour after it.
Expand(neighbours, id) ==
  LET later == {i \in DOMAIN neighbours : neighbours[i] > id}
      at    == IF later = {} THEN Len(neighbours)
               ELSE (CHOOSE i \in later : \A j \in later : i <= j) - 1
  IN  SubSeq(neighbours, 1, at) \o <<id>> \o SubSeq(neighbours, at + 1, Len(neighbours))

-----------------------------------------------------------------------------
\* What a message is answered with is the best there is, although every query
\* is cut to TopK before the queries are merged: as many chunks as there are or
\* may be, each once and with its best score, and none that is left out has a
\* better one in the whole ranking of any query (Retrieve, RetrieveRewritten).
KeepsBest(queries, result) ==
  LET all   == UNION {Ranked(queries[i]) : i \in DOMAIN queries}
      found == {c.id : c \in all}
      kept  == {c.id : c \in result}
  IN  /\ Cardinality(kept) = Cardinality(result)
      /\ Cardinality(kept) = IF Cardinality(found) < TopK THEN Cardinality(found) ELSE TopK
      /\ \A c \in result :
           /\ c \in all
           /\ \A d \in all : d.id = c.id \/ d.id \notin kept => d.score <= c.score

\* A query finds, of the chunks ranked, those that reach into one of its days,
\* the last included, and in which the person it names writes.
FindsItsDays(q) ==
  LET Asked(id) ==
        /\ \A p \in q.author : q.author = {p} => p \in Archived[id].authors
        /\ \E t \in Archived[id].from..Archived[id].to :
             /\ q.since = NoDate \/ q.since <= t \div TicksPerDay
             /\ q.until = NoDate \/ t \div TicksPerDay <= q.until
      found == {c.id : c \in SearchChunks(q)}
      asked == {id \in ToSet(q.vec) \cup ToSet(q.lex) : Asked(id)}
  IN  q.since = NoDate \/ q.until = NoDate \/ q.since <= q.until =>
        found \subseteq asked /\ (Cardinality(asked) <= Fetch => found = asked)

\* A chunk is shown among its neighbours, those that fewer than so many others
\* separate from it, all in their order ("GetNeighborChunks returns chunks in
\* chronological order").
ShownInPlace(id) ==
  LET shown   == Expand(GetNeighborChunks(id), id)
      Between(c) == {d \in ChunkIds : (c < d /\ d < id) \/ (id < d /\ d < c)}
  IN  /\ \A i, j \in DOMAIN shown : i < j => shown[i] < shown[j]
      /\ ToSet(shown)
           = {c \in ChunkIds : c = id \/ Cardinality(Between(c)) < NeighborChunks}
=============================================================================
