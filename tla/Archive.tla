------------------------------- MODULE Archive -------------------------------
(***************************************************************************)
(* The whole of internal/archive/ingest.go: the live path, the chunking    *)
(* and embedding loops (ArchiveIngest) and the backfill worker (Backfill)  *)
(* in one process over one messages table, and the forget command of       *)
(* another process.                                                        *)
(***************************************************************************)
EXTENDS Integers, Sequences, FiniteSets

CONSTANTS
  Rick, OtherBots, Posts,
  ChunkGap, ChunkMaxMsgs, ChunkMaxChars, ReadLimit, EmbedBatch,
  BackfillBatch, ListLimit,
  MaxPosts, LastPost, MaxTime, MaxFaults

VARIABLES
  history, proc, forgotten, messages, faults,
  now, heard, inserting, chunks, closing, embedded, embedding, scored, late, split,
  rows, state, worker, reach, lost, aborted,
  excused     \* ids that had passed their check when the author was forgotten

shared == <<history, proc, forgotten, messages, faults>>
liveVars == <<now, heard, inserting, chunks, closing, embedded, embedding, scored, late, split>>
pastVars == <<rows, state, worker, reach, lost, aborted>>
vars == <<shared, liveVars, pastVars, excused>>

Live == INSTANCE ArchiveIngest
Past == INSTANCE Backfill WITH Channels <- Live!Channels, Histories <- {<<>>}

ASSUME ArchiveAssumption ==
  /\ {ChunkGap, ChunkMaxMsgs, ChunkMaxChars, ReadLimit, EmbedBatch,
      BackfillBatch, ListLimit} \subseteq Nat \ {0}
  /\ {MaxPosts, LastPost, MaxTime, MaxFaults} \subseteq Nat
  /\ \A p \in Posts : p.command \in BOOLEAN /\ p.chars \in Nat
  /\ IsFiniteSet(Live!Channels)

Init == Live!Init /\ Past!Init /\ excused = {}

-----------------------------------------------------------------------------

LiveStep == Live!Run /\ UNCHANGED <<pastVars, excused>>

BackfillStep == Past!Work /\ UNCHANGED <<liveVars, excused>>

ForgetAuthor(a) ==
  /\ Live!ForgetAuthor(a) /\ UNCHANGED pastVars
  /\ excused' = excused \union inserting
                \union (IF worker.pc = "insert" THEN {Past!Msg} ELSE {})

Shutdown == Live!Shutdown /\ Past!Shutdown /\ UNCHANGED excused
Exit == Live!Exit /\ Past!Exit /\ UNCHANGED excused
Crash == Live!Crash /\ Past!Crash /\ UNCHANGED excused
Boot == Live!Boot /\ Past!Boot /\ UNCHANGED excused

Next ==
  \/ LiveStep \/ BackfillStep
  \/ \E a \in Live!Authors : ForgetAuthor(a)
  \/ Shutdown \/ Exit \/ Crash \/ Boot

Spec == Init /\ [][Next]_vars

-----------------------------------------------------------------------------

\* What each part promises holds when they run together, although backfill
\* stores beside the chunking loop and the live path beside the cursor: chunks
\* do not overlap and follow the order of their messages, no message reaches
\* the scorer twice, and the cursor passes nothing that should be stored.
EachKeepsItsPromise ==
  /\ Live!TypeOK /\ Past!TypeOK
  /\ Live!ChunksInOrder /\ Live!ScoredOnce
  /\ Past!NothingSkipped

\* Once an author is forgotten neither path stores a message of theirs, but
\* the ones that had passed their check by then.
ForgottenStayOut ==
  [][\A i \in messages' \ messages :
       history[i].by \in forgotten => i \in excused]_vars

\* The chunks of a channel leave no stored message behind (unless an insert
\* of the live path came too late): "closes any complete chunks for a
\* channel's unchunked messages", says chunkChannel.
NoneLeftBehind == Live!PassedOverIsLate
=============================================================================
