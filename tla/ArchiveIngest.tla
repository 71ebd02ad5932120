---------------------------- MODULE ArchiveIngest ----------------------------
(***************************************************************************)
(* The live half of internal/archive/ingest.go over the tables of          *)
(* internal/store/archive.go.  The listener lets a message pass the filter *)
(* and the check for forgotten authors and hands it to a goroutine that    *)
(* inserts it; the chunking loop reads what lies above the last chunk of a *)
(* channel, saves the complete chunks and hands each to the affinity       *)
(* scorer; the embedding loop works through the chunks without embedding.  *)
(*                                                                         *)
(* Time is a number of units of which an insert takes less than one.       *)
(* Message ids are positions in the guild's history, which grows in the    *)
(* order of Discord's ids.  At most MaxPosts messages are sent, none after *)
(* LastPost; at most MaxFaults times a call of the store or of the model   *)
(* fails or a process ends.                                                *)
(***************************************************************************)
EXTENDS Chunker, FiniteSets

CONSTANTS
  OtherBots,         \* authors that are bots, other than Rick
  Posts,             \* what may be sent: in (channel), by, command, chars
  ReadLimit,         \* of GetUnchunkedMessages
  EmbedBatch,        \* embedLoopBatch
  MaxPosts, LastPost, MaxTime, MaxFaults

ASSUME IngestAssumption ==
  /\ {ReadLimit, EmbedBatch} \subseteq Nat \ {0}
  /\ {MaxPosts, LastPost, MaxTime, MaxFaults} \subseteq Nat
  /\ \A p \in Posts : p.command \in BOOLEAN /\ p.chars \in Nat

VARIABLES
  now,
  history,     \* all messages of the guild: in, by, command, chars, at
  heard,       \* how many of them the gateway has delivered or passed over
  proc,        \* the process: "up", "stopping" (root context cancelled), "down"
  forgotten,   \* forgotten_authors
  messages,    \* ids in the messages table
  inserting,   \* ids with a running insert goroutine
  chunks,      \* rows of the chunks table: in, ids
  closing,     \* the rows chunkChannel has still to save
  embedded,    \* indices of chunks with an embedding
  embedding,   \* the rest of the batch the embedding loop works on
  faults,
  scored,      \* the rows handed to the scorer, in order
  late,        \* messages stored after a chunk they belong to was cut
  split        \* messages a read left out of a chunk they belong to

tables == <<forgotten, messages, chunks, embedded>>
loops == <<inserting, closing, embedding>>
vars == <<now, history, heard, proc, tables, loops, faults, scored, late, split>>

Channels == {p.in : p \in Posts}
Authors == {p.by : p \in Posts}
Ids == 1..Len(history)

Message(i) == history[i]
IdsOf(rows) == UNION {Range(row.ids) : row \in Range(rows)}

\* The messages as the chunker takes them.
WithIds(ids) ==
  [k \in DOMAIN ids |->
     [id |-> ids[k], at |-> Message(ids[k]).at, chars |-> Message(ids[k]).chars]]
ToIds(chunk) == [k \in DOMAIN chunk |-> chunk[k].id]

Init ==
  /\ now = 0
  /\ history = <<>>
  /\ heard = 0
  /\ proc = "down"
  /\ forgotten = {} /\ messages = {}
  /\ chunks = <<>> /\ closing = <<>>
  /\ embedded = {}
  /\ inserting = {}
  /\ embedding = <<>>
  /\ faults = 0
  /\ scored = <<>>
  /\ late = {} /\ split = {}

(***************************************************************************)
(* The guild, the clock and the forget command of a second process         *)
(***************************************************************************)

Post(p) ==
  /\ Len(history) < MaxPosts /\ now <= LastPost
  /\ history' = Append(history, [in |-> p.in, by |-> p.by, command |-> p.command,
                                chars |-> p.chars, at |-> now])
  /\ UNCHANGED <<now, heard, proc, tables, loops, faults, scored, late, split>>

\* Messages are delivered at once while the bot is up, and inserts are short.
Tick ==
  /\ now < MaxTime
  /\ proc = "up" => heard = Len(history)
  /\ inserting = {}
  /\ now' = now + 1
  /\ UNCHANGED <<history, heard, proc, tables, loops, faults, scored, late, split>>

\* Store.ForgetAuthor.
ForgetAuthor(a) ==
  /\ a \notin forgotten
  /\ forgotten' = forgotten \union {a}
  /\ UNCHANGED <<now, history, heard, proc, messages, chunks, embedded, loops,
                 faults, scored, late, split>>

(***************************************************************************)
(* RecordLive                                                              *)
(***************************************************************************)

\* Mutant: forgotten authors are let through.
RecordLiveUnchecked ==
  /\ proc = "up" /\ heard < Len(history)
  /\ heard' = heard + 1
  /\ \/ /\ ~Message(heard').command /\ Message(heard').by \notin OtherBots
        /\ inserting' = inserting \union {heard'}
     \/ inserting' = inserting
  /\ UNCHANGED <<now, history, proc, tables, closing, embedding, faults, scored, late, split>>

KeepContent(i) == ~Message(i).command
KeepLive(i) == KeepContent(i) /\ Message(i).by \notin OtherBots

\* The listener takes the messages one by one; a check that fails drops the
\* message.
RecordLive ==
  /\ proc = "up" /\ heard < Len(history)
  /\ heard' = heard + 1
  /\ \/ /\ KeepLive(heard') /\ Message(heard').by \notin forgotten
        /\ inserting' = inserting \union {heard'}
        /\ faults' = faults
     \/ /\ ~KeepLive(heard') \/ Message(heard').by \in forgotten
        /\ UNCHANGED <<inserting, faults>>
     \/ /\ faults < MaxFaults
        /\ faults' = faults + 1
        /\ inserting' = inserting
  /\ UNCHANGED <<now, history, proc, tables, closing, embedding, scored, late, split>>

\* Message i would have gone into the chunk with these ids: nothing that is stored
\* comes between.
Continues(i, ids) ==
  /\ Last(ids) < i /\ ~StartsNew(WithIds(ids), Message(i))
  /\ \A j \in messages : Message(j).in = Message(i).in => j <= Last(ids) \/ i <= j

\* Message i comes too late: a chunk with younger messages is cut, or one that would
\* have gone on with it, for its age or because a younger message was stored.
ComesLate(i) ==
  LET cut == chunks \o closing
      mine == {k \in DOMAIN cut : cut[k].in = Message(i).in}
      last == cut[Max(mine)].ids
  IN  /\ mine # {}
      /\ \/ i < Last(last)
         \/ /\ Continues(i, last)
            /\ \/ Message(Last(last)).at <= now - ChunkGap
               \/ \E j \in messages : Message(j).in = Message(i).in /\ i < j

\* CreateMessage, also after the root context is cancelled.
InsertMessage(i) ==
  /\ i \in inserting
  /\ inserting' = inserting \ {i}
  /\ messages' = messages \union {i}
  /\ late' = IF ComesLate(i) THEN late \union {i} ELSE late
  /\ UNCHANGED <<now, history, heard, proc, forgotten, chunks, embedded, closing,
                 embedding, faults, scored, split>>

InsertFails(i) ==
  /\ i \in inserting /\ faults < MaxFaults
  /\ inserting' = inserting \ {i}
  /\ faults' = faults + 1
  /\ UNCHANGED <<now, history, heard, proc, tables, closing, embedding, scored, late, split>>

(***************************************************************************)
(* runChunkingLoop                                                         *)
(***************************************************************************)

\* MAX(last_message_id) of the channel's chunks, 0 without any.
LastChunkedId(c) == Max({0} \union {Last(row.ids) : row \in {r \in Range(chunks) : r.in = c}})

\* ORDER BY id LIMIT n.
Ascending(ids) ==
  CHOOSE s \in [1..Cardinality(ids) -> ids] : \A j, k \in DOMAIN s : j < k => s[j] < s[k]

First(n, seq) == SubSeq(seq, 1, Min({n, Len(seq)}))

\* Mutant: the last message of the last chunk is read again.
UnchunkedFromLast(c) ==
  LET above == {i \in messages : Message(i).in = c /\ i >= LastChunkedId(c)}
  IN  First(ReadLimit, Ascending(above))

\* Mutant: of more messages than it may read it takes the newest.
UnchunkedNewest(c) ==
  LET above == Ascending({i \in messages : Message(i).in = c /\ i > LastChunkedId(c)})
      n == Len(above)
  IN  SubSeq(above, Max({1, n - ReadLimit + 1}), n)

GetUnchunkedMessages(c) ==
  LET above == {i \in messages : Message(i).in = c /\ i > LastChunkedId(c)}
  IN  First(ReadLimit, Ascending(above))

\* The first half of chunkChannel, for a channel that the tick has listed.
\* The loop treats the next channel only when this one is finished.
ReadChannel(c) ==
  /\ proc = "up" /\ closing = <<>>
  /\ \E read \in {WithIds(GetUnchunkedMessages(c))} :
       \E complete \in {CompleteChunks(ChunkMessages(read), now)} :
         closing' = [k \in DOMAIN complete |-> [in |-> c, ids |-> ToIds(complete[k])]]
  /\ split' = split \union {i \in messages \ Range(GetUnchunkedMessages(c)) :
                             Message(i).in = c /\ closing' # <<>>
                             /\ Continues(i, Last(closing').ids)}
  /\ UNCHANGED <<now, history, heard, proc, tables, inserting, embedding, faults,
                 scored, late>>

\* Mutant: the chunk is handed to the scorer though it is not saved.
SaveChunkFailsScored ==
  /\ closing # <<>> /\ faults < MaxFaults
  /\ chunks' \in {chunks, Append(chunks, Head(closing))}
  /\ closing' = <<>>
  /\ scored' = Append(scored, Head(closing))
  /\ faults' = faults + 1
  /\ UNCHANGED <<now, history, heard, proc, forgotten, messages, embedded, inserting,
                 embedding, late, split>>

\* CreateChunk and the scorer's goroutine.
SaveChunk ==
  /\ closing # <<>>
  /\ chunks' = Append(chunks, Head(closing))
  /\ closing' = Tail(closing)
  /\ scored' = Append(scored, Head(closing))
  /\ UNCHANGED <<now, history, heard, proc, forgotten, messages, embedded, inserting,
                 embedding, faults, late, split>>

\* CreateChunk fails, or commits and loses its reply: the pass ends.
SaveChunkFails ==
  /\ closing # <<>> /\ faults < MaxFaults
  /\ chunks' \in {chunks, Append(chunks, Head(closing))}
  /\ closing' = <<>>
  /\ faults' = faults + 1
  /\ UNCHANGED <<now, history, heard, proc, forgotten, messages, embedded, inserting,
                 embedding, scored, late, split>>

(***************************************************************************)
(* runEmbeddingLoop                                                        *)
(***************************************************************************)

\* Mutant: what has an embedding is read again.
ReadBacklogAgain ==
  /\ proc = "up" /\ embedding = <<>>
  /\ embedding' = First(EmbedBatch, Ascending(DOMAIN chunks))
  /\ UNCHANGED <<now, history, heard, proc, tables, inserting, closing, faults,
                 scored, late, split>>

\* GetChunksWithoutEmbedding.
ReadBacklog ==
  /\ proc = "up" /\ embedding = <<>>
  /\ embedding' = First(EmbedBatch, Ascending(DOMAIN chunks \ embedded))
  /\ UNCHANGED <<now, history, heard, proc, tables, inserting, closing, faults,
                 scored, late, split>>

\* SaveChunkEmbedding.
SaveEmbedding ==
  /\ embedding # <<>>
  /\ embedded' = embedded \union {Head(embedding)}
  /\ embedding' = Tail(embedding)
  /\ UNCHANGED <<now, history, heard, proc, forgotten, messages, chunks, inserting,
                 closing, faults, scored, late, split>>

\* The model or the store fails: the rest waits for the next tick.
EmbeddingFails ==
  /\ embedding # <<>> /\ faults < MaxFaults
  /\ embedding' = <<>>
  /\ faults' = faults + 1
  /\ UNCHANGED <<now, history, heard, proc, tables, inserting, closing, scored, late, split>>

(***************************************************************************)
(* The process                                                             *)
(***************************************************************************)

\* The loops end; what they had not saved is left to the next process.
Shutdown ==
  /\ proc = "up" /\ faults < MaxFaults
  /\ proc' = "stopping"
  /\ closing' = <<>>
  /\ embedding' = <<>>
  /\ faults' = faults + 1
  /\ UNCHANGED <<now, history, heard, tables, inserting, scored, late, split>>

\* The end of the shutdown, when Wait has seen the inserts end.
Exit ==
  /\ proc = "stopping" /\ inserting = {}
  /\ proc' = "down"
  /\ UNCHANGED <<now, history, heard, tables, loops, faults, scored, late, split>>

Crash ==
  /\ proc # "down" /\ faults < MaxFaults
  /\ proc' = "down"
  /\ inserting' = {}
  /\ closing' = <<>>
  /\ embedding' = <<>>
  /\ faults' = faults + 1
  /\ UNCHANGED <<now, history, heard, tables, scored, late, split>>

\* Nothing brings back what was sent in between.
Boot ==
  /\ proc = "down"
  /\ proc' = "up"
  /\ heard' = Len(history)
  /\ UNCHANGED <<now, history, tables, loops, faults, scored, late, split>>

-----------------------------------------------------------------------------

\* What this part does alone.
Run ==
  \/ \E p \in Posts : Post(p)
  \/ Tick
  \/ RecordLive
  \/ \E i \in Ids : InsertMessage(i) \/ InsertFails(i)
  \/ \E c \in Channels : ReadChannel(c)
  \/ SaveChunk \/ SaveChunkFails
  \/ ReadBacklog \/ SaveEmbedding \/ EmbeddingFails

Next ==
  \/ Run
  \/ \E a \in Authors : ForgetAuthor(a)
  \/ Shutdown \/ Exit \/ Crash \/ Boot

\* Each loop runs: at a tick the chunking loop reads every channel, and a read
\* that finds nothing complete is no step.
ChunkingLoop == SaveChunk \/ \E c \in Channels : ReadChannel(c)
EmbeddingLoop == ReadBacklog \/ SaveEmbedding

\* The listener, the inserts and the loops run, time passes, and a process
\* that has ended is started again.
Fairness ==
  /\ WF_vars(Tick) /\ WF_vars(RecordLive) /\ WF_vars(\E i \in Ids : InsertMessage(i))
  /\ WF_vars(ChunkingLoop) /\ WF_vars(EmbeddingLoop)
  /\ WF_vars(Exit \/ Boot)

Spec == Init /\ [][Next]_vars
FairSpec == Spec /\ Fairness

-----------------------------------------------------------------------------

Rows == [in : Channels, ids : Seq(1..MaxPosts)]

TypeOK ==
  /\ now \in 0..MaxTime /\ faults \in 0..MaxFaults
  /\ history \in Seq([in : Channels, by : Authors, command : BOOLEAN, chars : Nat,
                       at : 0..LastPost])
  /\ Len(history) <= MaxPosts
  /\ heard \in 0..Len(history)
  /\ proc \in {"up", "stopping", "down"}
  /\ forgotten \subseteq Authors
  /\ messages \subseteq Ids /\ inserting \subseteq Ids /\ late \union split \subseteq messages
  /\ {chunks, closing, scored} \subseteq Seq(Rows)
  /\ embedded \subseteq DOMAIN chunks
  /\ embedding \in Seq(DOMAIN chunks)

\* Chunks of a channel do not overlap and are saved in the order of their
\* messages, over every failed save, lost reply and restart: so the last
\* chunk's last id is a watermark, and no message is recalled twice.
ChunksInOrder ==
  \A j, k \in DOMAIN chunks :
    j < k /\ chunks[j].in = chunks[k].in => Last(chunks[j].ids) < chunks[k].ids[1]

\* What the loop saves bit by bit, over any ticks and restarts, is what one
\* pass over the whole channel would have made of it: its first chunks.  (Unless
\* an insert came too late, or the limit of a read left out what belongs to them.)
ChunkedAsOnePass ==
  late = {} /\ split = {} =>
    \A c \in Channels :
      LET stored == Ascending({i \in messages : Message(i).in = c})
          whole == ChunkMessages(WithIds(stored))
          mine == {k \in DOMAIN chunks : chunks[k].in = c}
      IN  \A k \in mine : \E n \in DOMAIN whole :
            /\ n = Cardinality({j \in mine : j <= k})
            /\ chunks[k].ids = ToIds(whole[n])

\* A stored message below the watermark is in a chunk or came too late: the
\* loop itself passes over none.
PassedOverIsLate ==
  \A i \in messages :
    i < LastChunkedId(Message(i).in) => i \in IdsOf(chunks) \union late

\* No message moves a user's affinity twice: a chunk is handed to the scorer
\* once, even when its save has to be repeated.
ScoredOnce ==
  \A j, k \in DOMAIN scored : j # k => Range(scored[j].ids) \cap Range(scored[k].ids) = {}

\* Both loops catch up, again and again and whatever failed before: every stored
\* message is in a chunk that has its embedding, or came too late.
StoredIsSearchable ==
  []<>(/\ messages \subseteq IdsOf(chunks) \union late
       /\ embedded = DOMAIN chunks)
=============================================================================
