---------------------------- MODULE ChannelCuts ----------------------------
(***************************************************************************)
(* A channel in which messages are posted one after the other, and what    *)
(* the chunker makes of them at any moment.                                *)
(***************************************************************************)
EXTENDS Chunker

CONSTANTS
  Pauses, Lengths,   \* between two messages, and of one
  MaxLen             \* bound

ASSUME CutsAssumption == Pauses \subseteq Nat /\ Lengths \subseteq Nat

VARIABLE posted      \* oldest first, as GetUnchunkedMessages has them

CutsInit == posted = <<>>

\* The times of one channel never go back.
NextMessage ==
  /\ Len(posted) < MaxLen
  /\ \E pause \in Pauses, chars \in Lengths :
       LET last == IF posted = <<>> THEN 0 ELSE Last(posted).at
       IN  posted' = Append(posted, [at |-> last + pause, chars |-> chars])

CutsSpec == CutsInit /\ [][NextMessage]_posted

-----------------------------------------------------------------------------
\* The chunks that completeChunks passes on, when only the first k messages
\* have been stored, stay what they are when the later ones are known: the
\* loop may save them for good.  (A message sent in the very moment of the
\* pass could extend a chunk that ended exactly one gap earlier.)
CompleteIsFinal ==
  \A k \in 1..Len(posted)-1 : \A moment \in posted[k].at..posted[k+1].at-1 :
    IsPrefix(CompleteChunks(ChunkMessages(SubSeq(posted, 1, k)), moment),
             ChunkMessages(posted))

\* Cutting a channel's messages into chunks (ChunkMessages): each is in one
\* chunk, in order; no chunk breaks a limit; two neighbours are only apart
\* because a limit forbids the first to take the first message of the second.
CutsAreRight ==
  LET Chunks == ChunkMessages(posted)
  IN  /\ FlattenSeq(Chunks) = posted
      /\ \A k \in DOMAIN Chunks :
           /\ Chunks[k] # <<>> /\ Len(Chunks[k]) <= ChunkMaxMsgs
           /\ Chars(Chunks[k]) <= ChunkMaxChars \/ Len(Chunks[k]) = 1
           /\ \A i \in 1..Len(Chunks[k])-1 :
                Chunks[k][i+1].at - Chunks[k][i].at <= ChunkGap
      /\ \A k \in 1..Len(Chunks)-1 :
           \/ Chunks[k+1][1].at - Last(Chunks[k]).at > ChunkGap
           \/ Len(Chunks[k]) = ChunkMaxMsgs
           \/ Chars(Chunks[k]) + Chunks[k+1][1].chars > ChunkMaxChars
      /\ CompleteIsFinal
=============================================================================
