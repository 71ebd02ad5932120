---------------------------- MODULE ArchiveProofs ----------------------------
(***************************************************************************)
(* The live archive and the backfill worker over one messages table: what  *)
(* each part promises alone holds when they run together, and a forgotten  *)
(* author stays out of both.                                               *)
(*                                                                         *)
(* LiveP and PastP are the parts again, with what is proved of them; the   *)
(* channel of ChannelCuts, which that module also has, plays no part here. *)
(***************************************************************************)
EXTENDS Archive, FiniteSetTheorems, TLAPS

LiveP == INSTANCE ArchiveIngestProofs
         WITH Pauses <- {}, Lengths <- {}, MaxLen <- 0, posted <- <<>>
PastP == INSTANCE BackfillProofs WITH Channels <- Live!Channels, Histories <- {<<>>}

-----------------------------------------------------------------------------
(* Both instances of a part say the same.                                  *)

LEMMA LiveAgrees ==
  /\ Live!Init <=> LiveP!Init
  /\ Live!TypeOK <=> LiveP!TypeOK
  /\ Live!ChunksInOrder <=> LiveP!ChunksInOrder
  /\ Live!ScoredOnce <=> LiveP!ScoredOnce
  BY DEF
    Live!Init, LiveP!Init, Live!TypeOK, LiveP!TypeOK, Live!ChunksInOrder,
    LiveP!ChunksInOrder, Live!ScoredOnce, LiveP!ScoredOnce, Live!Channels, LiveP!Channels,
    Live!Authors, LiveP!Authors, Live!Ids, LiveP!Ids, Live!Rows, LiveP!Rows, Live!Last,
    LiveP!Last, Live!Range, LiveP!Range

LEMMA LiveSteps ==
  /\ Live!Run <=> LiveP!Run
  /\ \A a : Live!ForgetAuthor(a) <=> LiveP!ForgetAuthor(a)
  /\ Live!Shutdown <=> LiveP!Shutdown
  /\ Live!Exit <=> LiveP!Exit
  /\ Live!Crash <=> LiveP!Crash
  /\ Live!Boot <=> LiveP!Boot
  /\ Live!Authors = LiveP!Authors
<1>1. Live!Run <=> LiveP!Run
  BY DEF
    Live!Run, LiveP!Run, Live!Post, LiveP!Post, Live!Tick, LiveP!Tick, Live!RecordLive,
    LiveP!RecordLive, Live!Ids, LiveP!Ids, Live!InsertMessage, LiveP!InsertMessage,
    Live!InsertFails, LiveP!InsertFails, Live!Channels, LiveP!Channels, Live!ReadChannel,
    LiveP!ReadChannel, Live!SaveChunk, LiveP!SaveChunk, Live!SaveChunkFails,
    LiveP!SaveChunkFails, Live!ReadBacklog, LiveP!ReadBacklog, Live!SaveEmbedding,
    LiveP!SaveEmbedding, Live!EmbeddingFails, LiveP!EmbeddingFails, Live!tables,
    LiveP!tables, Live!loops, LiveP!loops, Live!KeepLive, LiveP!KeepLive, Live!Message,
    LiveP!Message, Live!ComesLate, LiveP!ComesLate, Live!Continues,
    LiveP!Continues, Live!WithIds, LiveP!WithIds,
    Live!GetUnchunkedMessages, LiveP!GetUnchunkedMessages, Live!CompleteChunks,
    LiveP!CompleteChunks, Live!ChunkMessages, LiveP!ChunkMessages, Live!ToIds, LiveP!ToIds,
    Live!First, LiveP!First, Live!Ascending, LiveP!Ascending, Live!KeepContent,
    LiveP!KeepContent, Live!Max, LiveP!Max, Live!Last, LiveP!Last, Live!StartsNew,
    LiveP!StartsNew, Live!LastChunkedId, LiveP!LastChunkedId, Live!Front, LiveP!Front,
    Live!Add, LiveP!Add, Live!Min, LiveP!Min, Live!Cardinality, LiveP!Cardinality,
    Live!Chars, LiveP!Chars, Live!Range, LiveP!Range, Live!FoldLeft, LiveP!FoldLeft,
    Live!MapThenFoldSet, LiveP!MapThenFoldSet
<1>2. /\ \A a : Live!ForgetAuthor(a) <=> LiveP!ForgetAuthor(a)
      /\ Live!Shutdown <=> LiveP!Shutdown
      /\ Live!Exit <=> LiveP!Exit
      /\ Live!Crash <=> LiveP!Crash
      /\ Live!Boot <=> LiveP!Boot
      /\ Live!Authors = LiveP!Authors
  BY DEF
    Live!ForgetAuthor, LiveP!ForgetAuthor, Live!Shutdown, LiveP!Shutdown, Live!Exit,
    LiveP!Exit, Live!Crash, LiveP!Crash, Live!Boot, LiveP!Boot, Live!Authors,
    LiveP!Authors, Live!loops, LiveP!loops, Live!tables, LiveP!tables
<1> QED
  BY <1>1, <1>2

LEMMA PastAgrees ==
  /\ Past!Init <=> PastP!Init
  /\ Past!TypeOK <=> PastP!TypeOK
  /\ Past!NothingSkipped <=> PastP!NothingSkipped
  BY DEF
    Past!Init, PastP!Init, Past!TypeOK, PastP!TypeOK, Past!NothingSkipped,
    PastP!NothingSkipped, Past!NoRow, PastP!NoRow, Past!NoState, PastP!NoState, Past!Off,
    PastP!Off, Past!RowType, PastP!RowType, Past!StateType, PastP!StateType, Past!Ids,
    PastP!Ids, Past!KeepBackfill, PastP!KeepBackfill, Past!Cardinality, PastP!Cardinality

LEMMA PastSteps ==
  /\ Past!Work <=> PastP!Work
  /\ Past!Shutdown <=> PastP!Shutdown
  /\ Past!Exit <=> PastP!Exit
  /\ Past!Crash <=> PastP!Crash
  /\ Past!Boot <=> PastP!Boot
<1>1. Past!Work <=> PastP!Work
  BY DEF
    Past!Work, PastP!Work, Past!Start, PastP!Start, Past!Seed, PastP!Seed,
    Past!ListChannels, PastP!ListChannels, Past!SaveTotal, PastP!SaveTotal,
    Past!NextChannel, PastP!NextChannel, Past!OpenChannel, PastP!OpenChannel, Past!Fetch,
    PastP!Fetch, Past!Check, PastP!Check, Past!Insert, PastP!Insert, Past!SaveCursor,
    PastP!SaveCursor, Past!ChannelFailed, PastP!ChannelFailed, Past!SaveDone,
    PastP!SaveDone, Past!CountChannel, PastP!CountChannel, Past!Interrupted,
    PastP!Interrupted, Past!Finish, PastP!Finish, Past!At, PastP!At, Past!Answers,
    PastP!Answers, Past!Errs, PastP!Errs, Past!GoOn, PastP!GoOn, Past!ghosts, PastP!ghosts,
    Past!NewRow, PastP!NewRow, Past!OpenRows, PastP!OpenRows, Past!tables, PastP!tables,
    Past!Cancelled, PastP!Cancelled, Past!Current, PastP!Current, Past!Pages, PastP!Pages,
    Past!KeepBackfill, PastP!KeepBackfill, Past!Msg, PastP!Msg, Past!Passed, PastP!Passed,
    Past!Listed, PastP!Listed, Past!DetachedErrs, PastP!DetachedErrs, Past!SetToSeqs,
    PastP!SetToSeqs, Past!Before, PastP!Before, Past!IsPage, PastP!IsPage,
    Past!Cardinality, PastP!Cardinality, Past!Ids, PastP!Ids
<1>2. /\ Past!Shutdown <=> PastP!Shutdown
      /\ Past!Exit <=> PastP!Exit
      /\ Past!Crash <=> PastP!Crash
      /\ Past!Boot <=> PastP!Boot
  BY DEF
    Past!Shutdown, PastP!Shutdown, Past!Exit, PastP!Exit, Past!Crash, PastP!Crash,
    Past!Boot, PastP!Boot, Past!tables, PastP!tables, Past!ghosts, PastP!ghosts, Past!Off,
    PastP!Off, Past!NoState, PastP!NoState, Past!NoRow, PastP!NoRow
<1> QED
  BY <1>1, <1>2

\* What each part assumes.
LEMMA PartsAssumptions ==
  LiveP!ChunkAssumption /\ LiveP!IngestAssumption /\ PastP!BackfillAssumption
<1>1. Len(<<>>) = 0 /\ DOMAIN <<>> = 1..0 /\ 0 \in Nat
  OBVIOUS
<1>2. PastP!IsFiniteSet(Live!Channels)
  BY ArchiveAssumption DEF IsFiniteSet, PastP!IsFiniteSet
<1> QED
  BY <1>1, <1>2, ArchiveAssumption DEF LiveP!ChunkAssumption, LiveP!IngestAssumption,
    PastP!BackfillAssumption

-----------------------------------------------------------------------------
(* The invariant.                                                          *)

PartsInv ==
  /\ LiveP!TypeOK /\ LiveP!OrderInv
  /\ PastP!BackfillInv /\ PastP!MarkInv /\ PastP!CountInv

\* What is on its way into the table is of nobody who is forgotten, or had passed
\* its check by then.
OutInv ==
  /\ \A i \in inserting : history[i].by \in forgotten => i \in excused
  /\ worker.pc = "insert" /\ history[PastP!Msg].by \in forgotten => PastP!Msg \in excused

ArchiveInv == PartsInv /\ OutInv

-----------------------------------------------------------------------------
(* What the live path does to what both parts share.                       *)

\* The live path stores, and the guild grows; nothing else of the worker's changes.
LEMMA RunGrows ==
  ASSUME LiveP!TypeOK, LiveP!Run
  PROVE  /\ UNCHANGED <<proc, forgotten>>
         /\ DOMAIN history \subseteq DOMAIN history' /\ DOMAIN history' \subseteq Nat \ {0}
         /\ \A i \in DOMAIN history : history'[i] = history[i]
         /\ \A i \in DOMAIN history' \ DOMAIN history : \A j \in DOMAIN history : j < i
         /\ messages \subseteq messages' /\ messages' \ messages \subseteq inserting
         /\ inserting \subseteq DOMAIN history
         /\ \A i \in inserting' \ inserting : history'[i].by \notin forgotten
<1> DEFINE n == Len(history)
<1>1. n \in Nat /\ DOMAIN history = 1..n
  BY PartsAssumptions, LiveP!TypeParts
<1>2. inserting \subseteq DOMAIN history
  BY <1>1 DEF LiveP!TypeOK, LiveP!Ids
<1>3. UNCHANGED <<proc, forgotten>>
  BY DEF LiveP!Run, LiveP!Post, LiveP!Tick, LiveP!RecordLive, LiveP!InsertMessage,
    LiveP!InsertFails, LiveP!ReadChannel, LiveP!SaveChunk, LiveP!SaveChunkFails,
    LiveP!ReadBacklog, LiveP!SaveEmbedding, LiveP!EmbeddingFails, LiveP!tables
<1>4. \/ history' = history
      \/ /\ UNCHANGED <<messages, inserting>>
         /\ \E m : history' = Append(history, m)
  BY DEF LiveP!Run, LiveP!Post, LiveP!Tick, LiveP!RecordLive, LiveP!InsertMessage,
    LiveP!InsertFails, LiveP!ReadChannel, LiveP!SaveChunk, LiveP!SaveChunkFails,
    LiveP!ReadBacklog, LiveP!SaveEmbedding, LiveP!EmbeddingFails, LiveP!tables, LiveP!loops
<1>5. /\ messages \subseteq messages' /\ messages' \ messages \subseteq inserting
      /\ \A i \in inserting' \ inserting : history'[i].by \notin forgotten
  BY DEF LiveP!Run, LiveP!Post, LiveP!Tick, LiveP!RecordLive, LiveP!InsertMessage,
    LiveP!InsertFails, LiveP!ReadChannel, LiveP!SaveChunk, LiveP!SaveChunkFails,
    LiveP!ReadBacklog, LiveP!SaveEmbedding, LiveP!EmbeddingFails, LiveP!tables, LiveP!loops,
    LiveP!Message
<1>6. CASE history' = history
  BY <1>1, <1>2, <1>3, <1>5, <1>6
<1>7. ASSUME NEW m, history' = Append(history, m)
      PROVE  /\ DOMAIN history' = 1..n+1
             /\ \A i \in DOMAIN history : history'[i] = history[i]
  <2>1. \E S : history \in Seq(S)
    BY DEF LiveP!TypeOK
  <2> QED
    BY <1>1, <1>7, <2>1
<1>8. CASE \E m : history' = Append(history, m)
  <2>1. DOMAIN history' = 1..n+1 /\ \A i \in DOMAIN history : history'[i] = history[i]
    BY <1>7, <1>8
  <2> HIDE DEF n
  <2>2. /\ DOMAIN history \subseteq DOMAIN history' /\ DOMAIN history' \subseteq Nat \ {0}
        /\ \A i \in DOMAIN history' \ DOMAIN history : \A j \in DOMAIN history : j < i
    BY <1>1, <2>1
  <2> QED
    BY <1>2, <1>3, <1>5, <2>1, <2>2
<1> QED
  BY <1>4, <1>6, <1>8

-----------------------------------------------------------------------------
(* Each step of one part is one of its own, and no harm to the other.      *)

LEMMA InitHolds == Init => ArchiveInv
<1> SUFFICES ASSUME Init PROVE ArchiveInv
  OBVIOUS
<1>1. LiveP!Init /\ PastP!Init
  BY LiveAgrees, PastAgrees DEF Init
<1>2. LiveP!TypeOK /\ LiveP!OrderInv
  BY <1>1, PartsAssumptions, LiveP!InitTyped, LiveP!InitOrdered
<1>3. PastP!BackfillInv /\ PastP!MarkInv /\ PastP!CountInv
  BY <1>1, PartsAssumptions, PastP!InitKeepsInv, PastP!InitTyped
<1>4. OutInv
  BY <1>1 DEF LiveP!Init, PastP!Init, PastP!Off, OutInv
<1> QED
  BY <1>2, <1>3, <1>4 DEF ArchiveInv, PartsInv

\* The live part's steps, for the live part.
LEMMA LiveKeepsLive ==
  ASSUME PartsInv, [LiveP!Next]_(LiveP!vars)
  PROVE  LiveP!TypeOK' /\ LiveP!OrderInv'
<1>1. LiveP!TypeOK /\ LiveP!OrderInv /\ LiveP!RowsInv
  BY DEF PartsInv, LiveP!OrderInv
<1> QED
  BY <1>1, PartsAssumptions, LiveP!StepTyped, LiveP!StepOrdered

\* The worker's steps, for the worker.
LEMMA PastKeepsPast ==
  ASSUME PartsInv, [PastP!Next]_(PastP!vars)
  PROVE  PastP!BackfillInv' /\ PastP!MarkInv' /\ PastP!CountInv'
<1>1. PastP!BackfillInv'
  BY PartsAssumptions, PastP!StepKeepsInv DEF PartsInv
<1>2. PastP!MarkInv'
  BY PartsAssumptions, PastP!MarkStep DEF PartsInv
<1>3. PastP!CountInv'
  BY PartsAssumptions, PastP!CountStep DEF PartsInv
<1> QED
  BY <1>1, <1>2, <1>3

\* The worker lives with what the live path stores and the guild sends.
LEMMA GuildKeepsPast ==
  ASSUME PartsInv, PastP!GuildGoesOn, LiveP!TypeOK'
  PROVE  PastP!BackfillInv' /\ PastP!MarkInv' /\ PastP!CountInv'
<1>1. PastP!BackfillInv'
  BY PartsAssumptions, PastP!GuildGoesOnKeepsInv DEF PartsInv
<1>2. messages' \subseteq DOMAIN history' /\ DOMAIN history \subseteq DOMAIN history'
  <2>1. (Len(history) \in Nat /\ DOMAIN history = 1..Len(history))'
    BY DEF LiveP!TypeOK
  <2> QED
    BY <2>1 DEF LiveP!TypeOK, LiveP!Ids, PastP!GuildGoesOn
<1>3. PastP!MarkInv'
  BY <1>2 DEF PartsInv, PastP!MarkInv, PastP!Marks, PastP!GuildGoesOn, PastP!ghosts
<1>4. PastP!CountInv'
  BY DEF PartsInv, PastP!CountInv, PastP!InList, PastP!InChannel, PastP!Paging,
    PastP!GuildGoesOn, LiveP!TypeOK
<1> QED
  BY <1>1, <1>3, <1>4

\* A message in the worker's hands is one of the guild's.
LEMMA MsgIsSent ==
  ASSUME PastP!BackfillInv, worker.pc = "insert"
  PROVE  PastP!Msg \in DOMAIN history
<1>1. worker.page \in Seq(Nat) /\ worker.page # <<>>
  BY DEF PastP!BackfillInv, PastP!TypeInv, PastP!PageInv
<1>2. 1 \in DOMAIN worker.page /\ Head(worker.page) = worker.page[1]
  BY <1>1
<1> QED
  BY <1>2 DEF PastP!BackfillInv, PastP!PageInv, PastP!Msg, PastP!Ids

LEMMA LiveStepKeeps ==
  ASSUME ArchiveInv, LiveStep
  PROVE  /\ ArchiveInv'
         /\ \A i \in messages' \ messages : history[i].by \in forgotten => i \in excused
<1>1. LiveP!Run /\ UNCHANGED <<rows, state, worker, reach, lost, aborted, excused>>
  BY LiveSteps DEF LiveStep, pastVars
<1>2. LiveP!TypeOK' /\ LiveP!OrderInv'
  BY <1>1, LiveKeepsLive DEF ArchiveInv, LiveP!Next
<1>3. /\ UNCHANGED <<proc, forgotten>>
      /\ DOMAIN history \subseteq DOMAIN history' /\ DOMAIN history' \subseteq Nat \ {0}
      /\ \A i \in DOMAIN history : history'[i] = history[i]
      /\ \A i \in DOMAIN history' \ DOMAIN history : \A j \in DOMAIN history : j < i
      /\ messages \subseteq messages' /\ messages' \ messages \subseteq inserting
      /\ inserting \subseteq DOMAIN history
      /\ \A i \in inserting' \ inserting : history'[i].by \notin forgotten
  BY <1>1, RunGrows DEF ArchiveInv, PartsInv
<1>4. PastP!GuildGoesOn
  BY <1>1, <1>3 DEF PastP!GuildGoesOn, PastP!ghosts
<1>5. PastP!BackfillInv' /\ PastP!MarkInv' /\ PastP!CountInv'
  BY <1>2, <1>4, GuildKeepsPast DEF ArchiveInv
<1>6. \A i \in inserting' : history'[i].by \in forgotten' => i \in excused'
  BY <1>1, <1>3 DEF ArchiveInv, OutInv
<1>7. worker'.pc = "insert" /\ history'[PastP!Msg'].by \in forgotten' => PastP!Msg' \in excused'
  <2>1. PastP!Msg' = PastP!Msg
    BY <1>1 DEF PastP!Msg
  <2>2. worker.pc = "insert" => PastP!Msg \in DOMAIN history
    BY MsgIsSent DEF ArchiveInv, PartsInv
  <2> QED
    BY <1>1, <1>3, <2>1, <2>2 DEF ArchiveInv, OutInv
<1>8. \A i \in messages' \ messages : history[i].by \in forgotten => i \in excused
  BY <1>3 DEF ArchiveInv, OutInv
<1> QED
  BY <1>2, <1>5, <1>6, <1>7, <1>8 DEF ArchiveInv, PartsInv, OutInv

LEMMA ForgetKeeps ==
  ASSUME ArchiveInv, NEW a \in Live!Authors, ForgetAuthor(a)
  PROVE  ArchiveInv' /\ messages' = messages
<1>1. /\ LiveP!ForgetAuthor(a) /\ a \in LiveP!Authors
      /\ UNCHANGED <<rows, state, worker, reach, lost, aborted>>
      /\ inserting \cup excused \subseteq excused'
      /\ worker.pc = "insert" => PastP!Msg \in excused'
  BY LiveSteps DEF ForgetAuthor, pastVars, Past!Msg, PastP!Msg
<1>2. LiveP!TypeOK' /\ LiveP!OrderInv'
  BY <1>1, LiveKeepsLive DEF ArchiveInv, LiveP!Next
<1>3. UNCHANGED <<history, proc, messages, inserting>> /\ forgotten \subseteq forgotten'
  BY <1>1 DEF LiveP!ForgetAuthor, LiveP!loops
<1>4. PastP!GuildGoesOn
  BY <1>1, <1>3 DEF PastP!GuildGoesOn, PastP!ghosts, ArchiveInv, PartsInv, PastP!BackfillInv,
    PastP!TypeInv
<1>5. PastP!BackfillInv' /\ PastP!MarkInv' /\ PastP!CountInv'
  BY <1>2, <1>4, GuildKeepsPast DEF ArchiveInv
<1>6. OutInv'
  <2>1. PastP!Msg' = PastP!Msg
    BY <1>1 DEF PastP!Msg
  <2> QED
    BY <1>1, <1>3, <2>1 DEF OutInv
<1> QED
  BY <1>2, <1>3, <1>5, <1>6 DEF ArchiveInv, PartsInv

\* What the worker does to what both share: it stores the message in its hands.
LEMMA WorkStores ==
  ASSUME PastP!BackfillInv, PastP!Work
  PROVE  /\ UNCHANGED <<history, proc, forgotten>>
         /\ messages \subseteq messages'
         /\ \A i \in messages' \ messages : worker.pc = "insert" /\ i = PastP!Msg
         /\ worker'.pc = "insert" => history[PastP!Msg'].by \notin forgotten
<1>1. UNCHANGED <<history, proc, forgotten>>
  BY DEF PastP!Work, PastP!Start, PastP!Seed, PastP!ListChannels, PastP!SaveTotal,
    PastP!NextChannel, PastP!OpenChannel, PastP!Fetch, PastP!Check, PastP!Insert,
    PastP!SaveCursor, PastP!ChannelFailed, PastP!SaveDone, PastP!CountChannel,
    PastP!Interrupted, PastP!Finish, PastP!tables
<1>w. worker = [pc |-> worker.pc, state |-> worker.state, list |-> worker.list,
                row |-> worker.row, oldest |-> worker.oldest, page |-> worker.page,
                full |-> worker.full]
  BY DEF PastP!BackfillInv, PastP!TypeInv
<1>2. CASE PastP!Check
  <2>1. messages' = messages
    BY <1>2 DEF PastP!Check, PastP!tables
  <2>2. CASE worker' = PastP!Passed
    BY <1>1, <1>w, <2>1, <2>2 DEF PastP!Passed
  <2>3. CASE worker' = [worker EXCEPT !.pc = "insert"] /\ history[PastP!Msg].by \notin forgotten
    <3>1. PastP!Msg' = PastP!Msg
      BY <1>w, <2>3 DEF PastP!Msg
    <3> QED
      BY <1>1, <2>1, <2>3, <3>1
  <2> QED
    BY <1>2, <2>2, <2>3 DEF PastP!Check
<1>3. CASE PastP!Insert
  <2>1. worker'.pc # "insert" /\ worker.pc = "insert"
    BY <1>w, <1>3 DEF PastP!Insert, PastP!Passed, PastP!At
  <2>2. messages' \in {messages, messages \cup {PastP!Msg}}
    BY <1>3 DEF PastP!Insert
  <2> QED
    BY <1>1, <2>1, <2>2
<1>4. CASE PastP!Start \/ PastP!Seed \/ PastP!ListChannels \/ PastP!SaveTotal
           \/ PastP!NextChannel \/ PastP!OpenChannel \/ PastP!Fetch \/ PastP!SaveCursor
           \/ PastP!ChannelFailed \/ PastP!SaveDone \/ PastP!CountChannel
           \/ PastP!Interrupted \/ PastP!Finish
  <2>1. messages' = messages
    BY <1>4 DEF PastP!Start, PastP!Seed, PastP!ListChannels, PastP!SaveTotal,
      PastP!NextChannel, PastP!OpenChannel, PastP!Fetch, PastP!SaveCursor,
      PastP!ChannelFailed, PastP!SaveDone, PastP!CountChannel, PastP!Interrupted,
      PastP!Finish, PastP!tables
  <2>2. worker'.pc # "insert"
    BY <1>w, <1>4 DEF PastP!Start, PastP!Seed, PastP!ListChannels, PastP!SaveTotal,
      PastP!NextChannel, PastP!OpenChannel, PastP!Fetch, PastP!SaveCursor,
      PastP!ChannelFailed, PastP!SaveDone, PastP!CountChannel, PastP!Interrupted,
      PastP!Finish, PastP!GoOn
  <2> QED
    BY <1>1, <2>1, <2>2
<1> QED
  BY <1>2, <1>3, <1>4 DEF PastP!Work

\* The live path lives with what the worker stores.
LEMMA BackfillStepKeeps ==
  ASSUME ArchiveInv, BackfillStep
  PROVE  /\ ArchiveInv'
         /\ \A i \in messages' \ messages : history[i].by \in forgotten => i \in excused
<1>1. PastP!Work /\ UNCHANGED <<liveVars, excused>>
  BY PastSteps DEF BackfillStep
<1>2. PastP!BackfillInv' /\ PastP!MarkInv' /\ PastP!CountInv'
  BY <1>1, PastKeepsPast DEF ArchiveInv, PastP!Next
<1>3. /\ UNCHANGED <<history, proc, forgotten>>
      /\ messages \subseteq messages'
      /\ \A i \in messages' \ messages : worker.pc = "insert" /\ i = PastP!Msg
      /\ worker'.pc = "insert" => history[PastP!Msg'].by \notin forgotten
  BY <1>1, WorkStores DEF ArchiveInv, PartsInv
<1>4. LiveP!TypeOK /\ LiveP!OrderInv
  BY DEF ArchiveInv, PartsInv
<1>5. LiveP!TypeOK'
  <2>1. faults' \in 0..MaxFaults /\ proc' \in {"up", "stopping", "down"}
    BY <1>2 DEF PastP!CountInv
  <2>2. messages' \subseteq LiveP!Ids
    <3>1. messages' \subseteq DOMAIN history
      BY <1>2, <1>3 DEF PastP!MarkInv
    <3> QED
      BY <1>4, <3>1, PartsAssumptions, LiveP!TypeParts DEF LiveP!Ids
  <2>3. UNCHANGED <<now, heard, inserting, chunks, closing, embedded, embedding, scored, late, split>>
    BY <1>1 DEF liveVars
  <2>4. /\ now \in 0..MaxTime /\ heard \in 0..Len(history)
        /\ forgotten \subseteq LiveP!Authors /\ inserting \subseteq LiveP!Ids
        /\ late \union split \subseteq messages
        /\ {closing, scored} \subseteq Seq(LiveP!Rows)
        /\ embedded \subseteq DOMAIN chunks /\ embedding \in Seq(DOMAIN chunks)
    BY <1>4 DEF LiveP!TypeOK
  <2> QED
    BY <1>3, <1>4, <2>1, <2>2, <2>3, <2>4, PartsAssumptions, LiveP!QuietStepTyped
<1>6. LiveP!OrderInv'
  BY <1>1, <1>3, <1>4, PartsAssumptions, LiveP!QuietStepOrdered DEF liveVars
<1>7. OutInv'
  BY <1>1, <1>3 DEF ArchiveInv, OutInv, liveVars
<1>8. \A i \in messages' \ messages : history[i].by \in forgotten => i \in excused
  BY <1>3 DEF ArchiveInv, OutInv
<1> QED
  BY <1>2, <1>5, <1>6, <1>7, <1>8 DEF ArchiveInv, PartsInv

\* The process is one for both.
LEMMA ProcessKeeps ==
  ASSUME ArchiveInv, Shutdown \/ Exit \/ Crash \/ Boot \/ UNCHANGED vars
  PROVE  ArchiveInv' /\ messages' = messages
<1>1. [LiveP!Next]_(LiveP!vars) /\ [PastP!Next]_(PastP!vars) /\ UNCHANGED excused
  BY LiveSteps, PastSteps DEF Shutdown, Exit, Crash, Boot, vars, shared, liveVars, pastVars,
    LiveP!Next, LiveP!vars, LiveP!tables, LiveP!loops, PastP!Next, PastP!vars, PastP!tables,
    PastP!ghosts
<1>2. PartsInv'
  BY <1>1, LiveKeepsLive, PastKeepsPast DEF ArchiveInv, PartsInv
<1>3. /\ UNCHANGED <<history, forgotten, messages>>
      /\ inserting' \in {inserting, {}}
      /\ worker' = worker \/ worker'.pc # "insert"
  BY LiveSteps, PastSteps DEF Shutdown, Exit, Crash, Boot, vars, shared, liveVars, pastVars,
    LiveP!Shutdown, LiveP!Exit, LiveP!Crash, LiveP!Boot, LiveP!tables, LiveP!loops,
    PastP!Shutdown, PastP!Exit, PastP!Crash, PastP!Boot, PastP!tables, PastP!Off
<1>4. worker' = worker => PastP!Msg' = PastP!Msg
  BY DEF PastP!Msg
<1>5. OutInv'
  BY <1>1, <1>3, <1>4 DEF ArchiveInv, OutInv
<1> QED
  BY <1>2, <1>3, <1>5 DEF ArchiveInv

LEMMA StepKeeps ==
  ASSUME ArchiveInv, [Next]_vars
  PROVE  /\ ArchiveInv'
         /\ \A i \in messages' \ messages : history[i].by \in forgotten => i \in excused
<1>1. CASE LiveStep
  BY <1>1, LiveStepKeeps
<1>2. CASE BackfillStep
  BY <1>2, BackfillStepKeeps
<1>3. ASSUME NEW a \in Live!Authors, ForgetAuthor(a)
      PROVE  ArchiveInv' /\ messages' = messages
  BY <1>3, ForgetKeeps
<1>4. CASE Shutdown \/ Exit \/ Crash \/ Boot \/ UNCHANGED vars
  BY <1>4, ProcessKeeps
<1> QED
  BY <1>1, <1>2, <1>3, <1>4 DEF Next

LEMMA ArchiveInvHolds == Spec => []ArchiveInv
<1>1. ArchiveInv /\ [Next]_vars => ArchiveInv'
  BY StepKeeps
<1> QED
  BY <1>1, InitHolds, PTL DEF Spec

-----------------------------------------------------------------------------

\* Together the live path and the backfill worker keep what each promises alone: no
\* overlap and no disorder of chunks, nothing scored twice, nothing skipped below a
\* cursor, whatever either stores beside the other (internal/archive/ingest.go).
THEOREM TogetherAsAlone == Spec => []EachKeepsItsPromise
<1>1. ArchiveInv => EachKeepsItsPromise
  <2> SUFFICES ASSUME ArchiveInv PROVE EachKeepsItsPromise
    OBVIOUS
  <2>1. LiveP!TypeOK /\ LiveP!ChunksInOrder /\ LiveP!ScoredOnce
    BY PartsAssumptions, LiveP!OrderScoresOnce DEF ArchiveInv, PartsInv, LiveP!OrderInv
  <2>2. PastP!NothingSkipped
    BY PartsAssumptions, PastP!InvSkipsNothing DEF ArchiveInv, PartsInv
  <2>3. PastP!TypeOK
    BY <2>1, PartsAssumptions, PastP!TypesAreOK, LiveP!TypeParts DEF ArchiveInv, PartsInv
  <2> QED
    BY <2>1, <2>2, <2>3, LiveAgrees, PastAgrees DEF EachKeepsItsPromise
<1> QED
  BY <1>1, ArchiveInvHolds, PTL

\* Once an author is forgotten neither the listener's inserts nor the worker's store a
\* message of theirs, but the ones that had passed their check by then (RecordLive,
\* backfillChannel, ForgetAuthor).
THEOREM ForgottenAreLeftOut == Spec => ForgottenStayOut
<1>1. ArchiveInv /\ [Next]_vars =>
        [\A i \in messages' \ messages : history[i].by \in forgotten => i \in excused]_vars
  BY StepKeeps
<1> QED
  BY <1>1, ArchiveInvHolds, PTL DEF Spec, ForgottenStayOut
=============================================================================
