------------------------------ MODULE Backfill ------------------------------
(***************************************************************************)
(* The backfill worker of internal/archive/ingest.go: one goroutine per    *)
(* process that lists the channels of backfill_channels which are not      *)
(* done, pages backwards through each from its cursor, stores what the     *)
(* filter keeps and saves the cursor after every page.  Rows are read and  *)
(* saved as whole copies: "listed" copies from the list, and one copy read *)
(* again when the channel is opened.                                       *)
(*                                                                         *)
(* A cancelled root context (proc = "stopping") fails every call that does *)
(* not run on a detached context.  At most MaxFaults times a call fails    *)
(* otherwise or a process ends.  Message counts and error texts are left   *)
(* out, and so is the recovery from a panic.                               *)
(***************************************************************************)
EXTENDS Integers, Sequences, FiniteSets, SequencesExt

CONSTANTS
  Channels,        \* text channels of the guild
  Rick,            \* the bot itself
  BackfillBatch,   \* messages asked for in a page
  ListLimit,       \* channels listed in a run
  Histories,       \* what the guild may hold when the bot first starts
  MaxFaults

ASSUME BackfillAssumption ==
  /\ {BackfillBatch, ListLimit} \subseteq Nat \ {0}
  /\ MaxFaults \in Nat
  /\ IsFiniteSet(Channels)
  /\ \A h \in Histories : Len(h) \in Nat /\ DOMAIN h = 1..Len(h)

VARIABLES
  history,    \* all messages of the guild in the order of their ids: in, by, command
  proc,       \* the process: "up", "stopping" (root context cancelled), "down"
  forgotten,  \* forgotten_authors
  messages,   \* ids in the messages table
  rows,       \* backfill_channels: cursor (OldestFetched), done, error; or NoRow
  state,      \* backfill_state: status, total, done
  worker,     \* the goroutine, with its copies of rows and state
  faults,
  reach,      \* per channel the newest id it was ever paged from
  lost,       \* ids passed over because their own check or insert failed
  aborted     \* a run gave up before it came to its channels

tables == <<forgotten, messages, rows, state>>
ghosts == <<reach, lost, aborted>>
vars == <<history, proc, tables, worker, faults, ghosts>>

NoRow == [cursor |-> 0, done |-> FALSE, error |-> FALSE, exists |-> FALSE]
NewRow == [cursor |-> 0, done |-> FALSE, error |-> FALSE, exists |-> TRUE]
NoState == [status |-> "none", total |-> 0, done |-> 0]

Off == [pc |-> "off", state |-> NoState, list |-> <<>>, row |-> NoRow, oldest |-> 0,
        page |-> <<>>, full |-> FALSE]

Ids(c) == {i \in DOMAIN history : history[i].in = c}
KeepBackfill(i) == history[i].by # Rick /\ ~history[i].command

\* The channel the worker is in, and its row as it was listed.
Current == Head(worker.list).channel
Listed == Head(worker.list).row

Init ==
  /\ history \in Histories
  /\ proc = "down"
  /\ forgotten = {} /\ messages = {}
  /\ rows = [c \in Channels |-> NoRow]
  /\ state = NoState
  /\ worker = Off
  /\ faults = 0
  /\ reach = [c \in Channels |-> 0]
  /\ lost = {} /\ aborted = FALSE

(***************************************************************************)
(* Calls                                                                   *)
(***************************************************************************)

Cancelled == proc = "stopping"

\* A call on the worker's context returns an answer, or an error.
Answers == proc = "up" /\ faults' = faults
Errs ==
  \/ Cancelled /\ faults' = faults
  \/ proc = "up" /\ faults < MaxFaults /\ faults' = faults + 1

\* A call on a detached context.
DetachedErrs == faults < MaxFaults /\ faults' = faults + 1

At(pc) == worker.pc = pc
GoOn(pc) == worker' = [worker EXCEPT !.pc = pc]

(***************************************************************************)
(* runBackfillWorker                                                       *)
(***************************************************************************)

\* GetOrCreateBackfillState and the first UpdateBackfillState.
Start ==
  /\ At("start")
  /\ LET running == [state EXCEPT !.status = "running"]
     IN  \/ /\ Answers
            /\ state' = running
            /\ worker' = [worker EXCEPT !.pc = "seed", !.state = running]
         \/ /\ Errs
            /\ state' \in {state, running,
                           IF state.status = "none" THEN [state EXCEPT !.status = "idle"] ELSE state}
            /\ GoOn("over")
  /\ UNCHANGED <<history, proc, forgotten, messages, rows, ghosts>>

\* seedBackfillChannels: rows that exist stay as they are.
Seed ==
  /\ At("seed")
  /\ \/ Answers /\ rows' = [c \in Channels |-> IF rows[c].exists THEN rows[c] ELSE NewRow]
     \/ Errs /\ rows' = rows
  /\ GoOn("list")
  /\ UNCHANGED <<history, proc, forgotten, messages, state, ghosts>>

\* GetBackfillChannels: null cursors come last.
OpenRows ==
  {s \in SetToSeqs({c \in Channels : rows[c].exists /\ ~rows[c].done}) :
     \A j, k \in DOMAIN s : j < k =>
       \/ rows[s[k]].cursor = 0
       \/ rows[s[j]].cursor # 0 /\ rows[s[j]].cursor <= rows[s[k]].cursor}

ListChannels ==
  /\ At("list")
  /\ \/ /\ Answers
        /\ \E s \in OpenRows :
             LET n == IF Len(s) < ListLimit THEN Len(s) ELSE ListLimit
             IN  worker' = [worker EXCEPT
                   !.pc = "total",
                   !.list = [k \in 1..n |-> [channel |-> s[k], row |-> rows[s[k]]]],
                   !.state.total = n,
                   !.state.done = 0]
        /\ aborted' = aborted
     \/ Errs /\ GoOn("finish") /\ aborted' = TRUE
  /\ UNCHANGED <<history, proc, tables, reach, lost>>

SaveTotal ==
  /\ At("total")
  /\ \/ Answers /\ state' = worker.state /\ GoOn("next") /\ aborted' = aborted
     \/ Errs /\ state' \in {state, worker.state} /\ GoOn("finish") /\ aborted' = TRUE
  /\ UNCHANGED <<history, proc, forgotten, messages, rows, reach, lost>>

\* The head of the loop over the channels.
NextChannel ==
  /\ At("next")
  /\ \/ worker.list = <<>> /\ GoOn("finish")
     \/ worker.list # <<>> /\ Cancelled /\ GoOn("interrupted")
     \/ worker.list # <<>> /\ ~Cancelled /\ GoOn("open")
  /\ UNCHANGED <<history, proc, tables, faults, ghosts>>

\* Mutant: the interruption is not recorded.
InterruptedSilently ==
  /\ At("interrupted")
  /\ GoOn("finish")
  /\ UNCHANGED <<history, proc, tables, faults, ghosts>>

\* recordBackfillInterrupted.
Interrupted ==
  /\ At("interrupted")
  /\ LET failed == [worker.state EXCEPT !.status = "failed"]
     IN  /\ worker' = [worker EXCEPT !.pc = "finish", !.state = failed]
         /\ \/ state' = failed /\ faults' = faults
            \/ DetachedErrs /\ state' = state
  /\ UNCHANGED <<history, proc, forgotten, messages, rows, ghosts>>

\* The deferred function.
Finish ==
  /\ At("finish")
  /\ LET final == IF worker.state.status = "running"
                  THEN [worker.state EXCEPT !.status = "done"] ELSE worker.state
     IN  /\ worker' = [worker EXCEPT !.pc = "over", !.state = final]
         /\ \/ state' = final /\ faults' = faults
            \/ DetachedErrs /\ state' = state
  /\ UNCHANGED <<history, proc, forgotten, messages, rows, ghosts>>

(***************************************************************************)
(* backfillChannel                                                         *)
(***************************************************************************)

\* Mutant: the saved cursor is not taken up.
OpenChannelAtTop ==
  /\ At("open")
  /\ \/ Answers /\ worker' = [worker EXCEPT !.pc = "fetch", !.row = rows[Current]]
     \/ Errs /\ GoOn("error")
  /\ UNCHANGED <<history, proc, tables, ghosts>>

\* The newest message is asked for and the row read again (the row exists:
\* it was listed).
OpenChannel ==
  /\ At("open")
  /\ \/ /\ Answers
        /\ worker' = [worker EXCEPT !.pc = "fetch",
                                    !.row = rows[Current], !.oldest = rows[Current].cursor]
     \/ Errs /\ GoOn("error")
  /\ UNCHANGED <<history, proc, tables, ghosts>>

\* Discord's messages before the cursor, all of them without one.
Before(c, oldest) == {i \in Ids(c) : oldest = 0 \/ i < oldest}

\* GetMessages: the newest of them, newest first; a page that is not full has
\* them all.
IsPage(page, all) ==
  /\ \A j, k \in DOMAIN page : j < k => page[k] < page[j]
  /\ \A i \in all \ {page[k] : k \in DOMAIN page} :
       Len(page) = BackfillBatch /\ \A k \in DOMAIN page : i < page[k]

Pages(c, oldest) ==
  {page \in UNION {[1..n -> Before(c, oldest)] : n \in 0..BackfillBatch} :
     IsPage(page, Before(c, oldest))}

Fetch ==
  /\ At("fetch")
  /\ \/ /\ Answers
        /\ \E page \in Pages(Current, worker.oldest) :
             /\ worker' = [worker EXCEPT
                   !.pc = IF page = <<>> THEN "complete" ELSE "check",
                   !.page = page, !.full = Len(page) = BackfillBatch]
             /\ reach' = IF worker.oldest = 0 /\ page # <<>>
                         THEN [reach EXCEPT ![Current] = Head(page)] ELSE reach
     \/ Errs /\ GoOn("error") /\ reach' = reach
  /\ UNCHANGED <<history, proc, tables, lost, aborted>>

Msg == Head(worker.page)

\* Mutant: the cursor takes in only what the filter keeps.
PassedKept == [worker EXCEPT !.page = Tail(@),
                             !.pc = IF Len(worker.page) = 1 THEN "page" ELSE "check",
                             !.oldest = IF KeepBackfill(Msg) /\ (@ = 0 \/ Msg < @)
                                        THEN Msg ELSE @]

\* The cursor takes in the message whether it is stored or not.
Passed == [worker EXCEPT !.page = Tail(@),
                         !.pc = IF Len(worker.page) = 1 THEN "page" ELSE "check",
                         !.oldest = IF @ = 0 \/ Msg < @ THEN Msg ELSE @]

\* The filter and IsAuthorForgotten.
Check ==
  /\ At("check")
  /\ \/ ~KeepBackfill(Msg) /\ worker' = Passed /\ lost' = lost /\ faults' = faults
     \/ /\ KeepBackfill(Msg)
        /\ \/ /\ Answers /\ lost' = lost
              /\ worker' = IF history[Msg].by \in forgotten
                           THEN Passed ELSE [worker EXCEPT !.pc = "insert"]
           \/ /\ Errs
              /\ worker' = Passed
              /\ lost' = IF Cancelled THEN lost ELSE lost \union {Msg}
  /\ UNCHANGED <<history, proc, tables, reach, aborted>>

\* CreateMessage; the id may be there already.
Insert ==
  /\ At("insert")
  /\ worker' = Passed
  /\ \/ Answers /\ messages' = messages \union {Msg} /\ lost' = lost
     \/ /\ Errs
        /\ messages' \in {messages, messages \union {Msg}}
        /\ lost' = IF Cancelled THEN lost ELSE lost \union {Msg}
  /\ UNCHANGED <<history, proc, forgotten, rows, state, reach, aborted>>

\* Mutant: the cursor is saved, on a detached context, after inserts that
\* were cancelled.
SaveCursorUnchecked ==
  /\ At("page")
  /\ LET moved == [worker.row EXCEPT !.cursor = worker.oldest]
     IN  /\ rows' = [rows EXCEPT ![Current] = moved]
         /\ worker' = [worker EXCEPT !.row = moved,
                                     !.pc = IF worker.full THEN "fetch" ELSE "complete"]
  /\ UNCHANGED <<history, proc, forgotten, messages, state, faults, ghosts>>

\* The end of a page.  After the last one, and after a save that fails, the
\* worker goes on all the same.
SaveCursor ==
  /\ At("page")
  /\ LET moved == [worker.row EXCEPT !.cursor = worker.oldest]
     IN  \/ Cancelled /\ GoOn("error") /\ UNCHANGED <<rows, faults>>
         \/ /\ ~Cancelled
            /\ worker' = [worker EXCEPT !.row = moved,
                                        !.pc = IF worker.full THEN "fetch" ELSE "complete"]
            /\ \/ Answers /\ rows' = [rows EXCEPT ![Current] = moved]
               \/ Errs /\ rows' = rows
  /\ UNCHANGED <<history, proc, forgotten, messages, state, ghosts>>

\* The channel returned an error: the listed copy is saved with it.
ChannelFailed ==
  /\ At("error")
  /\ \/ Cancelled /\ GoOn("interrupted") /\ UNCHANGED <<rows, faults>>
     \/ /\ ~Cancelled
        /\ worker' = [worker EXCEPT !.pc = "next", !.list = Tail(@)]
        /\ \/ Answers /\ rows' = [rows EXCEPT ![Current] = [Listed EXCEPT !.error = TRUE]]
           \/ Errs /\ rows' = rows
  /\ UNCHANGED <<history, proc, forgotten, messages, state, ghosts>>

\* The listed copy is saved as done ...
SaveDone ==
  /\ At("complete")
  /\ GoOn("count")
  /\ \/ rows' = [rows EXCEPT ![Current] = [Listed EXCEPT !.done = TRUE]] /\ faults' = faults
     \/ DetachedErrs /\ rows' = rows
  /\ UNCHANGED <<history, proc, forgotten, messages, state, ghosts>>

\* ... and the state with its count.
CountChannel ==
  /\ At("count")
  /\ LET counted == [worker.state EXCEPT !.done = @ + 1]
     IN  /\ worker' = [worker EXCEPT !.pc = "next", !.list = Tail(@), !.state = counted]
         /\ \/ state' = counted /\ faults' = faults
            \/ DetachedErrs /\ state' = state
  /\ UNCHANGED <<history, proc, forgotten, messages, rows, ghosts>>

(***************************************************************************)
(* The process and the forget command                                      *)
(***************************************************************************)

ForgetAuthor(a) ==
  /\ a \notin forgotten
  /\ forgotten' = forgotten \union {a}
  /\ UNCHANGED <<history, proc, messages, rows, state, worker, faults, ghosts>>

Shutdown ==
  /\ proc = "up" /\ faults < MaxFaults
  /\ proc' = "stopping" /\ faults' = faults + 1
  /\ UNCHANGED <<history, tables, worker, ghosts>>

\* Wait has seen the worker end.
Exit ==
  /\ proc = "stopping" /\ worker.pc = "over"
  /\ proc' = "down" /\ worker' = Off
  /\ UNCHANGED <<history, tables, faults, ghosts>>

Crash ==
  /\ proc # "down" /\ faults < MaxFaults
  /\ proc' = "down" /\ worker' = Off /\ faults' = faults + 1
  /\ UNCHANGED <<history, tables, ghosts>>

Boot ==
  /\ proc = "down"
  /\ proc' = "up" /\ worker' = [Off EXCEPT !.pc = "start"]
  /\ UNCHANGED <<history, tables, faults, ghosts>>

-----------------------------------------------------------------------------

\* Every step of the worker.
Work ==
  \/ Start \/ Seed \/ ListChannels \/ SaveTotal \/ NextChannel
  \/ OpenChannel \/ Fetch \/ Check \/ Insert \/ SaveCursor
  \/ ChannelFailed \/ SaveDone \/ CountChannel \/ Interrupted \/ Finish

Next ==
  \/ Work
  \/ \E a \in {history[i].by : i \in DOMAIN history} : ForgetAuthor(a)
  \/ Shutdown \/ Exit \/ Crash \/ Boot

\* The goroutine runs; nothing is assumed of shutdown or of failing calls.
Spec == Init /\ [][Next]_vars
FairSpec == Spec /\ WF_vars(Work)

-----------------------------------------------------------------------------

RowType == [cursor : 0..Len(history), done : BOOLEAN, error : BOOLEAN, exists : BOOLEAN]
StateType == [status : {"none", "idle", "running", "done", "failed"},
              total : 0..Cardinality(Channels), done : 0..Cardinality(Channels)]

TypeOK ==
  /\ proc \in {"up", "stopping", "down"}
  /\ messages \subseteq DOMAIN history /\ lost \subseteq DOMAIN history
  /\ rows \in [Channels -> RowType]
  /\ state \in StateType /\ worker.state \in StateType
  /\ state.done <= state.total /\ worker.state.done <= worker.state.total
  /\ worker.row \in RowType
  /\ worker.oldest \in 0..Len(history)
  /\ faults \in 0..MaxFaults
  /\ reach \in [Channels -> 0..Len(history)]

\* The cursor and the mark "done" only ever pass messages that are stored:
\* over every restart and cancelled call each message the filter keeps, of an
\* author who is not forgotten, is stored once the cursor is below it.  (Or
\* its own check or insert failed, which the worker accepts.)
NothingSkipped ==
  \A c \in Channels : \A i \in Ids(c) :
    /\ KeepBackfill(i) /\ history[i].by \notin forgotten /\ i <= reach[c] /\ i \notin lost
    /\ rows[c].done \/ (rows[c].cursor # 0 /\ rows[c].cursor <= i)
    => i \in messages

\* A run that is recorded as done has tried all the channels it listed.
DoneMeansAllTried ==
  state.status = "done" /\ worker.pc = "over" /\ ~aborted => worker.list = <<>>

\* A shutdown costs no progress: the cursor of a channel is only set back
\* by an error of that channel.
CursorIsKept ==
  [][\A c \in Channels :
       rows[c].cursor # 0 /\ ~rows'[c].error /\ ~rows'[c].done =>
         rows'[c].cursor \in 1..rows[c].cursor]_vars

\* The pages get older, so the worker comes to its end.
WorkerEnds == worker.pc = "start" ~> worker.pc \in {"over", "off"}

\* A run that is cut short by the shutdown with channels left to do is
\* recorded as failed, as TestBackfillPageDelayHonoursContext expects.
InterruptedIsRecorded ==
  worker.pc = "over" /\ proc = "stopping" /\ state.status = "done" =>
    \A c \in Channels : rows[c].done
=============================================================================
