# doofus-rick, verified

TLA+ models of doofus-rick, the Discord persona bot in this repository, with the
TLC runs that check them and the TLAPS proofs of what matters most. The source
is the reference: each definition that models code is listed in `PROJECT.json`
("map") with the lines it stands for.

## The system

One Go process (`cmd/doofus-rick`) serves one Discord guild from one PostgreSQL
database and one work directory. Its parts, the state they keep and the way they
meet:

| part | code | state | operations | hard because |
|---|---|---|---|---|
| Task scheduler | `internal/agent/scheduler.go`, `tasks.go`, `tools_task.go`, `internal/store/tasks.go` | `tasks` rows; wakeups channel, cancel functions, timers, one goroutine per running task | create, list, cancel, claim, run, post, finish, interrupt at boot, report | commands, claiming loop, goroutines and restarts interleave; store replies get lost |
| Ambient watcher | `internal/ambient` , `internal/agent/ambient.go` | `ambient_state` row per channel, `ambient_log` | check: load window, gate, touch, classify, respond, log, update | one goroutine per message, read-modify-save of the whole row |
| Archive ingest | `internal/archive/ingest.go`, `filter.go`, `chunker.go`, `embedder.go` | messages, chunks, embeddings | live insert, chunk loop, embed loop, score | asynchronous inserts, watermark over message ids, crash between chunk and score |
| Backfill | `internal/archive/ingest.go` | `backfill_channels` cursor | seed, fetch batch, advance, finish, interrupt | cursor saved by two owners of one row, shutdown in mid-batch |
| Forgetting | `cmd/doofus-rick/main.go`, `internal/store/archive.go` | `forgotten_authors` | forget a message or an author from a second process | races with live insert and profile update; partial failure |
| Profiles | `internal/profile` | `person_profiles`, cached public channels | candidates, digest, save | stale candidates, stale channel visibility |
| Deploy journal and report | `internal/selbst/deploy.go`, `internal/runtimehome`, `internal/agent/ambient.go` | append-only journal, crash files, in-memory copy | record ship and boot, evaluate boot, report | crash at every step, at most one announcement |
| Code tools | `internal/agent/tools_code.go`, `internal/selfcode`, `internal/codeedit` | checkout, repo lock, snapshots, remote | read, edit, ship (build, test, verify migrations, commit, push) | try-locks, partial failure of ship, shell outside the lock |
| Turns | `internal/agent/rick.go`, `typing.go` | conversation, tool results, typing indicators | mention, model call, tool batch, escalation | tools in parallel, code tools in one lane, first terminal result wins |
| Affinity | `internal/affinity` | ledger rows | score chunk, update | read-modify-write of one row by several scorers |
| Traces | `internal/tracer`, `internal/agent/trace.go` | ring of 50 entries, persisted failures | start, finish, find | ring wrap, cancelled turns |
| Retrieval | `internal/archive/retriever.go`, `rewriter.go`, `internal/store/search.go` | none of its own | rewrite, search, fuse, rerank, expand | merge of partial failures; mostly pure |
| Discord bot | `internal/discord` | member, presence and voice caches, once-guards | events, reports once per process | events before the loop runs, stale caches |
| Process and shutdown | `cmd/doofus-rick/main.go` | wait groups | start, stop, wait | order of the waits, 8 s cap |
| Web, LLM client, search tools, shell, config, migrations, vitals | `internal/web`, `internal/llm`, `internal/brave`, `internal/giphy`, `internal/shell`, `internal/config`, `internal/store` | sessions, rows | request and response | input and output with little control of their own |

Calls between them: the Discord listener hands each message to the agent
(mention), to the archive (`RecordLive`) and, if that kept it, to the ambient
watcher; the agent's turns call the scheduler's and the code tools; the archive
hands new chunks to the affinity scorer; the scheduler, the watcher and the
deploy report all post through the agent.

### What makes each part correct

* Task scheduler: a task is started and answered at most once over all restarts;
  a cancel of a pending task prevents it; what is recorded done was delivered; a
  running row has its goroutine; no wakeup is lost; a due task is claimed and a
  running one settles.
* Ambient: cooldown and debounce hold between fires of a channel, and no fire is
  counted that did not happen.
* Archive: every kept message ends in one chunk, as if its channel had been cut
  in one pass; a forgotten author's messages are not stored again; what is stored
  is found in the end.
* Backfill: the cursor never passes a message that should be stored, and backfill
  ends.
* Deploy report: at most one success and one crash announcement per ship.
* Code tools: what reaches main was tested, but for what the shell slips in; the
  journal names only what is on main, but for a HEAD the shell moves between the push
  and the look at it.
* Turns: a bounded number of completions, one lane for the checkout, an end.
* Profiles and forgetting: below its watermark a profile has read everything that
  is public and nothing that is private; a deleted profile stays deleted.
* Affinity: every delta counts once. Typing: one typer per channel. Traces: the
  ring is the last successes. Shutdown: "complete" means that nothing was cut off.
* Recall, edits, cuts, logs: against what their callers are told of them.

## Modules

An operator whose comment begins with "Mutant" is a faulty variant of the
definition below it; no run uses it, and each shows that a property notices the
fault.

### TaskLifecycle, TaskScheduler

`TaskLifecycle` is the promise of `sys_task` to its users: what may happen to a
row's status, and that claim, execution and answer happen at most once each.

`TaskScheduler` is the code. The row is `status`, `startedAt` and `result`; the
loop goroutine is `loop` (before its start, at `InterruptRunningTasks`, about to
claim, in the select, ended); `wakeup` is the channel of capacity one and `timer`
the `AfterFunc` of `createTask`. A task goroutine is `run`: spawned by `fireDue`,
in its turn, posting, recording. `ctx` is `ctx.Err()` of that goroutine and
`registered` the keys of `taskCancels`. A cancel command is two steps, the
transaction and the lookup of the cancel function. The report of interrupted
tasks is the channel `mail` and the goroutine `reporter`. `turns`, `posts` and
`notes` count what users could see and feed nothing back.

`proc` is the process: `Shutdown` cancels the root context, `Exit` (end of the
shutdown or a crash, at any step) clears everything but rows and history, `Boot`
starts the next one. Store calls fail, or commit and lose their reply.

Time is only "fire_at reached or not"; who asked, the prompt and the text of a
reply are left out, except whether there is a text to post. The refusals of
`createTask` (a task turn, a blank prompt, a bad fire_at) happen before any
state changes and leave no trace in the model.

### AmbientWatcher

One channel. `check[i]` is the goroutine that message `i` starts in
`Watcher.Check`: it loads the window, asks the gate, reads and saves the
evaluation mark (`TouchRead`, `TouchSave`), calls the classifier, lets the persona
answer, and reads and saves the fire (`UpdateRead`, `UpdateSave`, `CountFire`).
Reading and saving are separate steps and a save writes the whole copy, as gorm's
`Save` does; the copy is the hazard of this component. A rejected check saves the
evaluation mark all the same. The insert of a message runs beside the checks and
may be late or fail, so a window is any subset of the recent messages.

`calls`, `sends` and `counted` are history. `raced` and `slipped` name the two
ways in which the code gives up its promises: two checks passed the gate before
either left its mark, and a mark or a fire was overwritten or never written.
`CooldownHolds` and `DebounceHolds` say that there is no third way. Left out: the
`LastUnprompted*` columns, which nothing reads, the rows of `ambient_log`, and
the prompts. The unit of time is the 30 seconds a check may take. The debounce is a
setting (`AMBIENT_EVAL_DEBOUNCE`, a minute by default): set to the time of a check or
less it lets a second check through while the first is still answering, so that two
interjections may come within one cooldown. The cooldown is promised for longer ones.

### DeployReport

The journal `runtime/deploys.jsonl` and the crash files outlive the process;
`records` is the copy `Journal` loads at its first read. `Push` and `RecordShip`
are the last two steps of `code_ship`, `Boot` opens the crash file and records the
boot, `Panic` and `Stop` end the process, and the reporter is the goroutine of
the first GuildReady: `LoadRecords`, `Evaluate`, `Report` (the record in the
journal) and `Announce` (the message), each of which may be the last thing that
happens. A journal write may fail with nothing or with half a line written; the
next append completes the half line to one that nobody can read (`Garbage`). Lines that do
not parse stay in place in the model, with a kind that no reader looks for. Left
out: failures to read the journal or the crash directory, an unparsable channel
id, and the pruning of old files.

### Chunker, ChannelCuts

The cut of a channel's messages into chunks as a left fold, and `CompleteChunks`.
A chunk is the sequence of its messages; first and last ids and times are read
off it. `ChannelCuts` is a channel that grows message by message (`posted`), of which
`CutsAreRight` speaks.

### ArchiveIngest

`history` is the guild: messages in the order of their ids. The gateway delivers
them in order (`RecordLive`); each one kept becomes an insert goroutine
(`inserting`), which survives the end of the root context. The chunking loop is
`ReadChannel` (read above the watermark and cut) and one `SaveChunk` per row,
`closing` being what it has still to save; the loop treats channels one after the
other. The embedding loop is `ReadBacklog` and one `SaveEmbedding` per chunk.
Saves fail, or commit and lose their reply.

One unit of time is longer than an insert takes, and messages are delivered in
the unit they are sent in. Two history variables name the exceptions of the
properties. `late` collects the messages whose insert came after the chunk they
belong in was cut (`ComesLate`: below a chunk, or next to one that was old enough or
had been closed by a younger message); `split` those that the limit of a read left out
of the last chunk it cut. Neither excuses a chunk cut too early: a loop that also saves
the open chunk violates `ChunkedAsOnePass`. A process starts "down": what is sent while it is down is
never delivered. Left out: chunk texts, vectors and the one-message delete.

### Backfill

The worker as a program counter with the copies it holds: `worker.state` of
`backfill_state`, `worker.list` of the listed rows, `worker.row` of the row that
`backfillChannel` reads again and saves the cursor with. Two copies of one row
are saved by turns; `NothingSkipped` and `CursorIsKept` say what that may cost.
Every call on the worker's context fails once `proc` is "stopping"; the calls on a
detached context do not. `lost` are messages whose own check or insert failed,
which the worker logs and passes; `aborted` notes a run that ended before its
loop. Counts, error texts and the recovery from a panic are left out.

### Archive

`ArchiveIngest` and `Backfill` as instances over one `history`, `messages`,
`forgotten` and process, with the forget command of another process.
`excused` are the messages that had passed their check when their author was
forgotten.

### CodeTools, Turns

`CodeTools` is `code_read`, `code_edit` and `code_ship` over one checkout. A tree is a
set of edits, and a commit the sequence of the trees committed up to it, so that HEAD
and main are branches that may go on from each other or part; two commits of the same
trees count as one. `writer` and `readers` are `repoMu`, whose try-locks make a call
"busy" rather than wait. A ship is one step per command (`Test`, `Guard`,
`VerifyMigrations`, `GitAdd`, `GitCommit`, `GitPush`, `RecordHead`), each of which may
fail; a push that is not a fast-forward is refused, and one that arrives may lose its
answer. `RecordHead` writes into the journal what HEAD is at that moment, which is what
`git rev-parse` tells `recordShip` after the push.

`Shell` is the shell tool, which cloned the checkout and works in it with git and
without the lock: it may leave any tree, any index and any branch of `Checkouts`, so
that it writes, deletes, stages, commits, resets and checks out, at any moment, also
from a background process that outlives its call. It has no token and does not push,
nobody else pushes to main, and it leaves the remote's address alone. `tested`,
`shelled`, `moved` and `migrated` are history: `moved` notes that the shell moved HEAD
while a ship stood between its push and its record, the one way in which
`JournalTellsTruth` lets a commit into the journal that is not on main. That exception
belongs to the record it spoils, and the next record needs its own; a HEAD moved before
the push, a failed push or a lost answer excuse nothing. `OnlyShellSlipsIn` speaks of
the edits that main has, not of edits that the shell has taken out.

`Turns` extends it with the turns that call these tools and with the shell (`ShellWorks`): `callModel` as `pc` (ask,
tools, deliver), `asked` against `limit`, which escalation sets to the code limit,
and a batch `calls` whose goroutines are the steps of `<<turn, i>>`. The code calls
of a batch go through the lane one after the other (`LaneAt`), all others at any
time; `Collect` waits for all of them. The context of a turn may end at any
moment: commands fail then, file operations do not. A turn that is over may take
the next mention. What the model answers is any batch of `Batches`, unknown
tools among them. A panic of a tool is an error (`executeTool`). Left out: prompts,
attachments, and what other tools do beside success or an error.

### People

The profile updater beside the forget command of a second process. A message is its
id, a profile the set of messages it was made from and its watermark. The
updater is `updater.step` with the public channels it has read, the candidates
still to do and the page of the author it is at. `cached` and `fresh` are
`PublicChannels`, whose answer may be up to ten minutes old; a private channel may become
public and back (`Changing`). `forgetting` is where the command is with each person:
first the row in `forgotten_authors`, then the profile, then the quotes, each of
which may fail. Messages come in any order, so that one may be stored after a
newer one of its author (`late`), which the watermark then hides. `overtaken` are
people an update had listed when their profile was deleted.

### Affinity, Typing, Tracer, Shutdown

`Affinity`: a goroutine per saved chunk, with the deltas its model judged; it
reads a row (`ReadRow`) and saves it whole (`SaveRow`), and passes over those the
model made up or that did not write in the chunk. `clashed` names people two
goroutines were updating at once, the one way in which a delta may get lost.

`Typing`: `channels` is the sync.Map of `typist`; a turn that finds its channel there
starts no goroutine, so the indicator of a second turn stops with the first.

`Tracer`: the ring with `pos` and `count` beside `successes`, all that were finished,
in order. Failures go to the database and cancelled turns nowhere.

`Shutdown`: `run` from the signal to the end of the waits, with the numbers of
goroutines per group, and where they start others. The limit of 8 s may run out
at any moment. `overlapped` notes that `Open` or a listener was at work when the
waits began: only they may still start a goroutine in a group that has been
waited for.

### Retrieval, Recalls, CodeEdit, FileEdits, Logs

Operators and three small machines, checked against what they promise. `Retrieval`:
a query is the rankings it gives the chunks by vector and by words, the
reranker's scores or its failure, and its filters; `RetrieveRewritten` merges. An
answer is the set of its scored chunks, and a limit keeps those that fewer than so
many others come before: the order matters where something is cut, and nowhere else.
Only the reranker's answer for all candidates or none is modelled; ties of the SQL
are broken by id, where the database may choose, and ties of the reranker by the order
it was given the chunks in. `Recalls` is a message and the queries the language model
rewrites it into, one after the other. `CodeEdit`: a text is a sequence
of words, blanks and line ends; `ReplaceIn` and `InsertIn` are the editor's, error
included. `FileEdits` is one file of the checkout under `code_edit`: a command is asked
for and performed, and the next one finds what it left. An insert's text is one line,
as the tool's schema calls it ("the line to insert").

`Logs`: one file for each day, written under a lock by records that took their time
before it, pruned at the start, read back by `Problems`. A file is the sequence of
its writes: a whole line, the text without its line end, or half of the text, when a
write fails or the process dies in it. The next write then goes on in the same line,
also one of the next process, and `Scanned` and `ProblemsOf` see of that line only its
first record, if that is whole. `LogsRemember` therefore has three exceptions: a full
answer, a day with an overlong line, and a record that went on in a line (`Swallowed`).
The last one excuses just the records behind the failed write in its line, and none on
the lines after it. Which file is open is left out, since each write opens the one it
needs.

### Runs

| run | question | bounds |
|---|---|---|
| `tasks` | do the invariants hold over restarts when store calls fail or lose replies, is `TaskLifecycle` implemented, is a due task claimed and does a running one settle? | 1 task, 3 processes, 2 faults |
| `task_cancel_window` | does a cancel stop a task, as the tool says? (violated) | 1 task, 1 process |
| `ambient_daily_cap` | is the daily cap daily? (violated) | 2 messages, 2 units, days of 2 |
| `deploy_restarts` | is every outcome announced at most once, and the right commit blamed? is what reaches main tested, and the journal true, beside the shell? | 2 ships, 3 processes, 3 seconds, 1 failed and 1 torn write; 2 calls, 1 edit, branches of 2 commits, a shell that leaves any tree, any index and any branch of 1 commit |
| `archive_live` | are chunks as from one pass, is only what comes late passed over, and do both loops catch up? | 3 messages, short and long, of one channel, chunks of 2, reads of 2, 1 fault or restart |
| `backfill_faults` | does the cursor skip nothing over faults and restarts, and does the worker end? | 2 channels, 5 messages, pages of 2, 3 faults |
| `backfill_interrupted` | is an interrupted run recorded as such? (violated) | 2 channels, 1 fault |
| `archive_together` | do the promises hold when both halves run, and do forgotten authors stay out? | 2 messages of a human, Rick or another bot, 1 fault |
| `archive_left_behind` | is everything that is stored chunked? (violated) | 2 messages |
| `turns` | is the number of completions bounded, a batch never busy with itself, and does every turn end? | 2 turns, 3 batches of up to two calls, limits 1 and 2, 1 edit, which the shell commits or takes back |
| `ship_migrations` | was a migration run before it was pushed? (violated) | 2 turns, 2 edits |
| `parts` | do the parts that share no state keep their promises? | below |

`deploy_restarts` asks two questions, of what is shipped and of what is reported of it:
in `MCDeployReport` a behaviour has one of them as its `focus`. The code tools are
checked there with callers of their own, because a shell that may leave anything in the
checkout at any step is too much beside whole turns; `TurnsUseCodeTools` is the theorem
that turns do nothing that such callers may not.

`parts` is one run over parts that never meet: `MCParts` lets each behaviour take one
of them as its `focus` and leaves the others where they start, so that its states
are those of the parts added up and not multiplied.

| part of `parts` | properties | bounds |
|---|---|---|
| ambient | `CooldownHolds` `DebounceHolds` `FiresNeverOverstated` | 2 messages, 4 units, 1 fault |
| people | `DeletedStaysDeleted` `WatermarkIsTrue` | 2 people, 3 messages, 2 channels of which 1 changes, 1 message and 1 author a run |
| affinity | `ScoreAddsUp` | 2 scorers, 2 persons and one the model made up, deltas beyond the limit, a limit two deltas reach |
| typing, tracer, shutdown | `OneTyper`, `RingIsRecent`, `CompleteMeansIdle` | 3 turns in 2 channels; 4 turns, a ring of 2; 2 goroutines of a group |
| cuts | `CutsAreRight` | 5 messages, pauses and lengths below, at and above the limits |
| recall | `RecallIsRight` | 3 chunks, 1 neighbour, up to 3 queries of which 2 count, reranked, not, or with a failure, four filters |
| edits | `EditsAreRight` | every text of up to 4 tokens and what edits make of it, every search of up to 3, three replacements, three lines to insert |
| logs | `LogsRemember` | 3 records, days of 2 ticks, one day kept, 2 problems shown |

Why this is enough. Tasks meet only at the loop, its channel and the mailbox, and
the proofs hold for any number of them; the run is there for what the proofs do not
reach, liveness, and to show that the invariants are not vacuous. Two checks show
every overlap of the ambient row. Two ships are the least at which a later ship
can hide an earlier crash, three processes the least at which a report can be
repeated. Chunks of two messages let a channel have a full chunk and an open one,
long messages close one that is not full, and a read of two can end inside a
conversation; that the watermarks of several channels are not mixed up is in the
proofs, which take any number of them. Pages of two over
channels of four and one give a full page that the filter drops, a full one that it
keeps, an empty one and a short one; three faults are a failed call, a shutdown
and a crash in one behaviour. The two-message composition is small because each
half is checked alone on more. Two turns are the least that meet at the
repository lock, two calls the least that meet in the lane; two calls of the code tools
ship one after the other from a branch that the shell has changed in between, so that
a push is refused, goes on from a failed one, or has HEAD moved before and after it; and limits of 1 and 2
let escalation raise a bound that is nearly spent; that it may also lower one is in
the proof, which takes any limits. Two scorers are the least that clash. A run of
one message and one author makes the updater come back for the rest.

Fairness. Tasks: the Go runtime runs every ready goroutine, the ticker ticks and
timers fire, and a turn ends because `callModel` bounds its iterations and the
context bounds its time. Archive: the gateway delivers, inserts end (they have a
timeout), tickers tick, time passes and a stopped process is started again.
Backfill: the goroutine runs. Turns: each turn's goroutines run, weakly fair turn
by turn; completions, tools and requests end, at the latest with the turn's context,
and nothing is assumed of the order within a batch. Nothing is assumed of users,
of Discord's answers, of shutdown or of failing calls.

### Proofs

They hold for every number of tasks, turns, people, messages, channels, ships,
processes and faults, and for every size of page, list and ring. They rest on the
assumptions that name the constants' types (`TasksAssumption` and its like) and on one
premise, stated in `CooldownKept`: the cooldown is kept by a debounce that is longer
than a check (`DebounceOutlastsCheck`). Exceptions such as `late`, `raced` or `tears`
are part of the properties themselves. Which properties have no theorem is said at the
end of this section.

`TaskSchedulerProofs`. None of the invariants is inductive alone. `RowInv` ties the
status to `startedAt` and to the goroutine's existence; `RunInv` reads turns and
answers off the goroutine's position; `NoteInv` says that before the loop has
interrupted the leftovers no goroutine exists, and that what waits for a note is
interrupted and idle; `OwnerInv` says that a turn cancelled while the process is up
belongs to a cancelled row. Each part has a lemma with one step per action;
together they give the theorems, and `RefinesStep` maps every action to a step of
`TaskLifecycle`.

`AmbientWatcherProofs`. `CountInv` bounds the fires of the row and of every copy of it
by the fires that happened, which is all `FiresNeverOverstated` needs. The other two
hold but for `raced` and `slipped`, and so do the invariants below them: `MarkInv`
(one check at most is past the gate, and the row bears its mark; `GateIsShut` is where
the debounce must outlast a check), `FireInv` (every interjection is recorded in the
row, or about to be by the one check that may), and `CallInv` (who is on the way to
the classifier is a debounce less a check away from all earlier calls).

`DeployReportProofs`. `NotedInv` says that every announcement that was sent is noted in
the journal, that the one about to be noted is not, that the one about to be sent is
noted and new, and that the copy of the records a process has loaded is the journal;
`EvaluateBootIsFresh` says that what `EvaluateBoot` returns is not among the records it
was given. `BlameInv` follows who wrote a crash file: every boot line names a file
that was opened before it, by the version the line names.

`BackfillProofs`. What the rows promise (`RowsInv`: a channel is covered from its
cursor on, wholly when it is done) is saved from three copies, so the invariant
follows them: a listed copy is the row itself until the worker comes to it, and what
it promises stays true (`ListInv`, `HeadInv`), though it is saved after newer cursors;
the worker's own cursor is covered unless a call was cancelled since it was saved
(`CursorInv`), in which case the root context is gone and `SaveCursor` gives up; a page
is what comes next below it (`PageInv`), and a short page leaves nothing (`EndInv`).
`CoveredStays` is the lemma every step needs: nothing that is stored goes, and nothing
comes to be wanted, in a channel already paged from. The proof fails, as it should,
when the check of the context before the save is dropped. `FallInv` adds that the
worker's cursor is never above the row's (`CursorIsKept`), `RunInv` that a run gives up
before its list is empty only as failed, interrupted or aborted
(`DoneMeansAllTried`), `MarkInv` and `CountInv` the types.

`ArchiveIngestProofs`. The ids of a channel in ascending order exist and are all of
them (`AscendingIs`); what the chunker makes of a sequence is the sequence cut at
rising places (`Cuts`, `ChunksAreCuts`), and so is what `ReadChannel` leaves to save
(`ReadIs`). With that `OrderInv` says that saved rows, rows to be saved and rows that
were scored follow one another in each channel, from which the watermark is one, and
`PassedInv` that what is stored below a row, saved or to be saved, is in a row up to
there or came late (`BelowIsLate`). For `ChunkedAsOnePass` three more facts are
needed. The chunker is `Greedy`: no chunk ends before it has to, and none goes on when it
must not (`ChunksAreGreedy`). A row, once it is cut, ends there for good: it was old or a
younger message was stored (`OverInv`, by `ReadFollows`), so that a message that would
continue it is `late` or `split`, and otherwise nothing that is stored does (`EndInv`).
And a row has all stored messages between its ends (`Consecutive`). `NextChunk` then
compares a row with the chunk of one pass that begins at the same message: a shorter one
contradicts the greed of the row, a longer one `EndInv`; `RowsAreChunks` is the
induction over the rows of a channel.

`ArchiveProofs` takes both halves over. Each half's module is instantiated with the
variables of `Archive`, and bridging lemmas (`LiveAgrees`, `PastSteps` and their like)
say that a definition means the same in both instances. A step of the live half is
for the worker a guild that goes on (`GuildGoesOn`: messages are added at the end and
rows of the table appear, and the worker's own state stays), and the worker's steps
keep the live half's invariant because they only store. `OutInv` says that what is on
its way into the table is of nobody who is forgotten, or is `excused`.

`TurnsProofs`. Its first part is about `CodeTools` alone: a ship holds the lock
(`LockInv`), so that what index, HEAD and main have was tested or came from the shell,
and what the tree has, too, once a ship is past its test (`StagedInv`), and after its push HEAD is main
unless the shell has moved it (`PushedInv`). A journal entry stays on main because main
only grows: `PrefixIsAgreement` turns "is a prefix" into the agreement of two branches
place by place, and `GoingOn` carries it over a push. What the shell leaves is any
member of `Checkouts`, of which the proofs assume nothing but its type. The second
shows that `Turns` implements `CodeTools` (`TurnsUseCodeTools`), takes those theorems
over, and proves that escalation never lets a turn ask more than the larger of its
limits. The third is `BusyOnlyByOthers`: a code call at work is the one its turn's lane
has come to (`LaneInv`), the readers are reading (`ReadInv`), and so whoever a call
finds at the lock belongs to another turn.

Two parts that share nothing with the turns have their proofs in the same module.
`EditsAreRight` is about recursive functions, of which only
the step is known: `CountUp` carries a fact about one step to all of them. Of
`FindAllOffsets` it carries `FoundUpTo` (what has been found says of all places so far
whether there is one, and whether it is the only one), of `SplitAt` and `Join` that each
undoes the other (`SplitOfJoin`, by `SplitConcat`: what is split of a text that goes on
is what was split before, its last line extended). From there `InsertedReads` and
`DriftIsRight` only compare sequences place by place. No hypothesis is on the texts:
they may begin or end with line ends, be empty, or have occurrences that overlap.

`RecallIsRight` is about the best of a finite set under an order. An order is a set of
pairs, so that it can be a value: of a set that has one, `TopCount` says how many
elements come before less than `k` others (`k`, or all of them if they are fewer), and
`TopFirst` that none left out comes before one that is kept. From there the argument
goes over the two cuts: a chunk that a query leaves out is no better than the `TopK`
it keeps (`CutIsNoBetter`), the merged set has each chunk's best score
(`MergeAllIs`, carried over the queries by `CountUp`), so the second cut cannot miss a
chunk that the first one took away. `ScopeIsAsked` compares the SQL's condition on two
moments with the days the query means; the attempt to prove it without a condition
failed, and rightly: when "since" is after "until", a chunk that spans both is found,
although no day is asked for, and so `FindsItsDays` speaks of dates in order.
`AscendingIs` says that the ids can be counted up in order, `PlaceCounts` that the
place in that order is the number of chunks between.

`PartsProofs`. The ring's slots are the successes by their number modulo its size; a
shutdown has waited for a group only when no running group can start another there,
because `Waits` is an order in which every start goes to the same group or a later
one. `ScoreAddsUp`: a row is the sum of the deltas applied to it (`LedgerInv`), and a
scorer that has read it holds that sum unless another has read it, too (`RowInv`);
that the sum of one delta more is the sum and the delta is an induction over the
length (`SetInduction` and its like: a set of numbers with 0 and all successors, since
an operator cannot be a parameter here). `DeletedStaysDeleted` follows from what the
updater may do to people it has not listed; `WatermarkIsTrue` from a chain of five
parts, from what may be stored below a mark over what was listed and read to what is
saved. `LogsRemember` rests on what the files are at any moment (`LogsInv`: what is in a
file was written on its day, and what was written is in its file until the day is past
`LogRetention`; `WriteIsTrue` says it of one write, whole or in part), on the two constants of two packages that agree (`logRetention` and
`maxLogHours` are both two weeks, `AskedIsKept`), and on what `Problems` returns: a rearrangement of what the files hold,
in order, cut to the newest.

`CutsAreRight` is in `ArchiveIngestProofs`, beside the lemmas on the chunker
(`ChunksAreCuts`, `ChunksAreGreedy`): the greed is its third clause, and that a complete
chunk stays what it is follows because the chunks of a channel's first messages and
those of all its messages differ in the last one at most.

Only model-checked: liveness (`DueTaskIsClaimed`, `RunningTaskSettles`,
`StoredIsSearchable`, `WorkerEnds`, `TurnEnds`), whose premises are `ENABLED` conditions
that the proof system does not reason about. Every safety property that a passing run
checks has a theorem.

### Findings

* `task_cancel_window`: cancelling a task in the moment between its claim and the
  registration of its cancel function is acknowledged and ignored.
* `ambient_daily_cap`: `fires_today` is never reset; the cap is one for all days.
* `backfill_interrupted`: a shutdown while channels are listed is recorded as done.
* `archive_left_behind`: what backfill adds below a channel's last chunk is never
  chunked, so neither embedded nor found.
* `ship_migrations`: the migrations that are verified are those the running process
  was built with, never the one that was changed in the checkout.

Places where the code does less than its comments say, or less than a reader may
expect, which are built into the models as named exceptions or by what the code
does, and have no run of their own:

* Two messages in one moment both pass the gate and both reach the classifier
  (`raced`), though `gate.go` says the debounce "is honored even when the gate
  rejects early"; and a check that read the row earlier takes a recorded fire back
  when it saves its mark (`slipped`).
* After half a line in the journal the next record is unreadable; a report noted in
  it is sent again after the next restart (`tears`), in spite of the "at most one" of
  `deploy.go`.
* A read of 500 messages that ends inside an old conversation ends its chunk, and the
  next read opens another (`split`): `completeChunks` compares the last message's age
  and not whether more was to be read.
* A message of a page whose own check or insert fails for a moment is passed for
  good (`lost`).
* What was sent while the bot was down stays out of the archive once backfill has
  marked its channel done, though `.env.example` says that backfill "fills the
  archive from Discord history on boot" (`NothingSkipped` speaks of the ids up to
  `reach` only).
* A task whose `FinishTask` fails after its answer was posted stays running, and the
  next process announces it as cut off.
* Forgetting an author keeps the messages already stored, though the flag says
  "Delete all messages from an author". A forget that fails after its first
  statement cannot be repeated: the row is there, and the second try stops at it
  before it comes to the profile (`ForgetAuthor` in `People`). An update that had
  listed the author writes the profile anew (`overtaken`).
* Two scorers that update a person at once lose a delta (`clashed`).
* A ship whose push failed has committed; the next one without a further edit
  fails at its commit and never pushes. A push whose answer is lost is on main and
  not in the journal. `code_ship` answers "boot-checked", and nothing boots.
* The journal is told what HEAD is after the push: when the shell commits, resets or
  checks out between the two commands it names a commit that was never shipped
  (`moved`). `DeployReport` reports of what the journal names, and takes HEAD there
  for what was pushed.
* `code_edit` promises "one exact match", and `Replace` falls back to lines that
  differ in white space. Occurrences that overlap count as one.
* When one query's rerank fails, its fused scores, of another scale, are merged
  with the others' reranked ones.
* A log line over 1 MB hides the rest of its day from `sys_logs`, which reports a
  read error; only the newest 50 problems are returned, and the answer does not say
  that there are more.
* A log write that fails halfway takes the next record with it, of the same process or
  the next one: its line cannot be read, or only its first record can, and `sys_logs`
  reports no error (`Swallowed`).
* The typing indicator of a second turn in a channel stops with the first turn's.

## Plan

Done: all of the parts above, and the proofs of all their safety properties.
Next: `Turns` composed with `Typing` and `Shutdown`, so that what a turn leaves behind is
followed to the last wait; the member cache of the Discord client.

## Not modelled

* Web pages, the clients of the language model, search and pictures, configuration,
  vitals and the packages list: input and output with hardly any state of their own.
* The tools of a turn that make one request and format its answer; in `Turns` they
  end with success or an error.
* The statements of the store that no other part interleaves with, and the columns
  nothing reads.
* Slash commands, which format text, and the member cache of `enrichment.go`, which is
  filled once and never refreshed.
* In `Retrieval`: embedding, the limit of 50 per ranking, the least similarity, and
  which channels a reader may see. In `Logs`: a home directory that cannot be opened.
* The path jail of `codeedit` and the time limit and cut output of the shell: string
  handling, files and processes.
