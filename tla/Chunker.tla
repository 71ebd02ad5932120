------------------------------- MODULE Chunker -------------------------------
(***************************************************************************)
(* internal/archive/chunker.go: how a channel's messages, oldest first,    *)
(* are cut into chunks.  A message is a record with its time "at" and its  *)
(* length "chars"; a chunk is the sequence of its messages, from which the *)
(* code's StartedAt, EndedAt, FirstMessageID and LastMessageID are read.   *)
(***************************************************************************)
EXTENDS Integers, Sequences, SequencesExt

CONSTANTS ChunkGap, ChunkMaxMsgs, ChunkMaxChars

ASSUME ChunkAssumption == {ChunkGap, ChunkMaxMsgs, ChunkMaxChars} \subseteq Nat \ {0}

Chars(chunk) == FoldLeft(LAMBDA n, msg : n + msg.chars, 0, chunk)

\* Mutant: one message too many.
StartsNewLate(chunk, msg) ==
  \/ msg.at - Last(chunk).at > ChunkGap
  \/ Len(chunk) > ChunkMaxMsgs
  \/ Chars(chunk) + msg.chars > ChunkMaxChars

\* The message does not go into the chunk before it.
StartsNew(chunk, msg) ==
  \/ msg.at - Last(chunk).at > ChunkGap
  \/ Len(chunk) >= ChunkMaxMsgs
  \/ Chars(chunk) + msg.chars > ChunkMaxChars

Add(chunks, msg) ==
  IF chunks = <<>> \/ StartsNew(Last(chunks), msg)
  THEN Append(chunks, <<msg>>)
  ELSE [chunks EXCEPT ![Len(chunks)] = Append(@, msg)]

\* The messages are added one after the other.
ChunkMessages(msgs) ==
  LET chunked[n \in 0..Len(msgs)] ==
        IF n = 0 THEN <<>> ELSE Add(chunked[n-1], msgs[n])
  IN  chunked[Len(msgs)]

\* Mutant: the last chunk counts as complete whatever its age.
AllChunks(chunks, now) == chunks

\* completeChunks: all but a last chunk that is not older than the gap.
CompleteChunks(chunks, now) ==
  IF chunks # <<>> /\ Last(Last(chunks)).at > now - ChunkGap
  THEN Front(chunks)
  ELSE chunks
=============================================================================
