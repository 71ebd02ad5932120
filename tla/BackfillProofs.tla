--------------------------- MODULE BackfillProofs ---------------------------
(***************************************************************************)
(* The backfill of any guild, in pages and lists of any size, over any     *)
(* faults, shutdowns and restarts: no cursor passes a message that should  *)
(* be stored and is not.                                                   *)
(***************************************************************************)
EXTENDS Backfill, FiniteSetTheorems, SequenceTheorems, TLAPS

Row == [cursor : Nat, done : BOOLEAN, error : BOOLEAN, exists : BOOLEAN]

TypeInv ==
  /\ DOMAIN history \subseteq Nat \ {0}
  /\ rows \in [Channels -> Row]
  /\ reach \in [Channels -> Int]
  /\ worker = [pc |-> worker.pc, state |-> worker.state, list |-> worker.list,
               row |-> worker.row, oldest |-> worker.oldest, page |-> worker.page,
               full |-> worker.full]
  /\ worker.list \in Seq([channel : Channels, row : Row])
  /\ worker.row \in Row
  /\ worker.oldest \in Nat
  /\ worker.page \in Seq(Nat)

\* What should be stored: of an author who is not forgotten, and not lost.
Wanted(i) ==
  KeepBackfill(i) /\ history[i].by \notin forgotten /\ i \notin lost

\* From low on all that a channel was ever paged from is stored.
Covered(c, low) ==
  \A i \in Ids(c) : Wanted(i) /\ i <= reach[c] /\ low <= i => i \in messages

\* The rows promise what NothingSkipped says.
RowsInv ==
  \A c \in Channels :
    /\ rows[c].done => Covered(c, 0)
    /\ rows[c].cursor # 0 => Covered(c, rows[c].cursor)

Paging  == worker.pc \in {"fetch", "check", "insert", "page"}
InChannel == worker.pc \in {"open", "error", "complete", "count"} \/ Paging
InList == worker.pc \in {"total", "next"} \/ InChannel

\* Channels are listed once, and not when they are done.  The copies of their
\* rows are up to date until the worker comes to them.
ListInv ==
  InList =>
    \A k \in DOMAIN worker.list :
      /\ ~worker.list[k].row.done
      /\ \A j \in DOMAIN worker.list :
           worker.list[j].channel = worker.list[k].channel => j = k
      /\ \/ k = 1 /\ InChannel /\ worker.pc # "open"
         \/ rows[worker.list[k].channel] = worker.list[k].row

\* What the listed copy promises stays true while the worker is in its channel.
HeadInv ==
  InChannel =>
    /\ worker.list # <<>>
    /\ Listed.cursor # 0 => Covered(Current, Listed.cursor)
    /\ worker.pc # "count" => ~rows[Current].done

\* The worker's own cursor is as good, unless calls were cancelled since it was
\* saved; it is only unset in a channel that has no cursor.
CursorInv ==
  Paging =>
    /\ ~worker.row.done
    /\ worker.oldest = 0 => rows[Current].cursor = 0 /\ Listed.cursor = 0
    /\ worker.oldest # 0 /\ (worker.pc = "fetch" \/ ~Cancelled) =>
         Covered(Current, worker.oldest)

\* A channel was paged from one of its messages, so what is sent later is above.
ReachInv == \A c \in Channels : reach[c] = 0 \/ reach[c] \in DOMAIN history

\* The page holds what comes next below the cursor, all of it if it is short.
PageInv ==
  worker.pc \in {"check", "insert"} =>
    /\ worker.page # <<>>
    /\ \A k \in DOMAIN worker.page :
         /\ worker.page[k] \in Ids(Current)
         /\ worker.oldest = 0 \/ worker.page[k] < worker.oldest
         /\ \A j \in DOMAIN worker.page : j < k => worker.page[k] < worker.page[j]
    /\ \A i \in Ids(Current) :
         i <= reach[Current] /\ (worker.oldest = 0 \/ i < worker.oldest) =>
         \/ \E k \in DOMAIN worker.page : worker.page[k] = i
         \/ worker.full /\ \A k \in DOMAIN worker.page : i < worker.page[k]

\* After a page that was short nothing is left, and so after the last.
EndInv ==
  /\ worker.pc = "page" =>
       /\ worker.oldest # 0
       /\ ~worker.full => \A i \in Ids(Current) : i <= reach[Current] => worker.oldest <= i
  /\ worker.pc = "complete" => Covered(Current, 0)

BackfillInv ==
  TypeInv /\ RowsInv /\ ListInv /\ HeadInv /\ CursorInv /\ ReachInv /\ PageInv /\ EndInv

-----------------------------------------------------------------------------
(* What a step leaves alone.                                               *)

\* What is stored stays stored, and nothing else comes to be wanted.
Kept ==
  /\ history' = history /\ messages \subseteq messages'
  /\ forgotten \subseteq forgotten' /\ lost \subseteq lost'

\* So a channel that is covered stays so as long as it is paged from the same.
LEMMA CoveredStays ==
  ASSUME Kept, NEW c, reach'[c] = reach[c], NEW low, Covered(c, low)
  PROVE  Covered(c, low)'
<1> SUFFICES ASSUME NEW i \in Ids(c)', Wanted(i)', i <= reach'[c], low <= i
             PROVE  i \in messages'
  BY DEF Covered
<1>1. i \in Ids(c)
  BY DEF Kept, Ids
<1>2. Wanted(i)
  BY DEF Kept, Wanted, KeepBackfill
<1> QED
  BY <1>1, <1>2 DEF Covered, Kept

\* Sequences and what they are made of.
LEMMA SeqElements ==
  ASSUME NEW S, NEW l \in Seq(S)
  PROVE  /\ \A k \in DOMAIN l : l[k] \in S
         /\ l # <<>> => 1 \in DOMAIN l /\ Head(l) = l[1]
OBVIOUS

LEMMA FunctionIsSeq ==
  ASSUME NEW S, NEW n, NEW l, n \in Nat, l \in [1..n -> S]
  PROVE  l \in Seq(S)
OBVIOUS

LEMMA TailElements ==
  ASSUME NEW S, NEW l \in Seq(S), l # <<>>
  PROVE  /\ Tail(l) \in Seq(S) /\ Len(l) \in Nat /\ DOMAIN l = 1..Len(l)
         /\ DOMAIN Tail(l) = 1..(Len(l) - 1)
         /\ \A k \in DOMAIN Tail(l) : k + 1 \in DOMAIN l /\ Tail(l)[k] = l[k + 1]
         /\ Tail(l) = <<>> <=> Len(l) = 1
<1>1. Len(l) \in Nat /\ DOMAIN l = 1..Len(l) /\ Len(l) # 0
  BY LenProperties, EmptySeq
<1>2. /\ Tail(l) \in Seq(S) /\ Len(Tail(l)) = Len(l) - 1
      /\ \A k \in 1..Len(Tail(l)) : Tail(l)[k] = l[k + 1]
  BY HeadTailProperties
<1>3. DOMAIN Tail(l) = 1..(Len(l) - 1)
  BY <1>2, LenProperties
<1>4. Tail(l) = <<>> <=> Len(l) - 1 = 0
  BY <1>2, EmptySeq
<1> QED
  BY <1>1, <1>2, <1>3, <1>4

\* The head of a list that is not empty.
LEMMA HeadIsFirst ==
  ASSUME TypeInv, worker.list # <<>>
  PROVE  /\ 1 \in DOMAIN worker.list
         /\ Current = worker.list[1].channel /\ Listed = worker.list[1].row
         /\ Current \in Channels /\ Listed \in Row
<1>1. worker.list \in Seq([channel : Channels, row : Row])
  BY DEF TypeInv
<1>2. 1 \in DOMAIN worker.list /\ Head(worker.list) = worker.list[1]
  BY <1>1, SeqElements
<1>3. worker.list[1] \in [channel : Channels, row : Row]
  BY <1>1, <1>2, SeqElements
<1> QED
  BY <1>2, <1>3 DEF Current, Listed

\* Steps that touch neither the rows nor what is paged.
LEMMA RowsStay ==
  ASSUME BackfillInv, Kept, UNCHANGED <<rows, reach>>
  PROVE  RowsInv'
BY CoveredStays DEF BackfillInv, RowsInv, TypeInv

LEMMA ReachStays ==
  ASSUME BackfillInv, Kept, UNCHANGED reach
  PROVE  ReachInv'
BY DEF BackfillInv, ReachInv, Kept

-----------------------------------------------------------------------------
(* The steps outside the channels.                                         *)

\* Off its channels the worker promises nothing.
LEMMA OutsideKeepsInv ==
  ASSUME BackfillInv,
         \/ Start \/ Interrupted \/ Finish \/ Exit \/ Crash \/ Boot
         \/ (NextChannel /\ worker'.pc # "open") \/ (SaveTotal /\ worker'.pc = "finish")
  PROVE  BackfillInv'
<1>1. /\ Kept /\ UNCHANGED <<rows, reach>>
      /\ ~InList'
  <2>1. CASE Start
    BY <2>1 DEF Start, Kept, ghosts, GoOn, InList, InChannel, Paging, BackfillInv, TypeInv
  <2>2. CASE Interrupted \/ Finish
    BY <2>2 DEF Interrupted, Finish, Kept, ghosts, InList, InChannel, Paging,
      BackfillInv, TypeInv
  <2>3. CASE Exit \/ Crash \/ Boot
    BY <2>3 DEF Exit, Crash, Boot, Kept, ghosts, tables, Off, InList, InChannel, Paging
  <2>4. CASE NextChannel /\ worker'.pc # "open"
    BY <2>4 DEF NextChannel, Kept, ghosts, tables, GoOn, InList, InChannel, Paging,
      BackfillInv, TypeInv
  <2>5. CASE SaveTotal /\ worker'.pc = "finish"
    BY <2>5 DEF SaveTotal, Kept, GoOn, InList, InChannel, Paging
  <2> QED
    BY <2>1, <2>2, <2>3, <2>4, <2>5
<1>2. TypeInv'
  <2>1. CASE Start \/ Interrupted \/ Finish \/ NextChannel \/ SaveTotal
    BY <1>1, <2>1 DEF Start, Interrupted, Finish, NextChannel, SaveTotal, GoOn,
      BackfillInv, TypeInv, Kept
  <2>2. CASE Exit \/ Crash \/ Boot
    <3>1. worker' = Off \/ worker' = [Off EXCEPT !.pc = "start"]
      BY <2>2 DEF Exit, Crash, Boot
    <3>2. /\ worker' = [pc |-> worker'.pc, state |-> worker'.state, list |-> worker'.list,
               row |-> worker'.row, oldest |-> worker'.oldest, page |-> worker'.page,
               full |-> worker'.full]
          /\ worker'.list = <<>> /\ worker'.page = <<>> /\ worker'.oldest = 0
          /\ worker'.row = NoRow
      BY <3>1 DEF Off
    <3>3. NoRow \in Row
      BY DEF NoRow, Row
    <3> QED
      BY <1>1, <3>2, <3>3 DEF BackfillInv, TypeInv, Kept
  <2> QED
    BY <2>1, <2>2
<1>3. RowsInv'
  BY <1>1, RowsStay
<1> QED
  BY ReachStays, <1>1, <1>2, <1>3 DEF BackfillInv, ListInv, HeadInv, CursorInv, PageInv, EndInv,
    InList, InChannel, Paging

\* The rows that are listed are copied as they are.
LEMMA ListingKeepsInv ==
  ASSUME BackfillInv, Seed \/ ListChannels \/ SaveTotal \/ NextChannel
  PROVE  BackfillInv'
<1>1. CASE Seed
  <2>0. /\ Kept /\ UNCHANGED reach /\ worker' = [worker EXCEPT !.pc = "list"]
        /\ rows' = rows \/ rows' = [c \in Channels |-> IF rows[c].exists THEN rows[c] ELSE NewRow]
    BY <1>1 DEF Seed, Kept, ghosts, GoOn
  <2>1. Kept /\ UNCHANGED reach /\ ~InList' /\ TypeInv'
    <3>1. NewRow \in Row
      BY DEF NewRow, Row
    <3>2. rows' \in [Channels -> Row]
      BY <2>0, <3>1 DEF BackfillInv, TypeInv
    <3>3. /\ worker'.pc = "list"
          /\ worker' = [pc |-> worker'.pc, state |-> worker'.state, list |-> worker'.list,
               row |-> worker'.row, oldest |-> worker'.oldest, page |-> worker'.page,
               full |-> worker'.full]
          /\ worker'.list = worker.list /\ worker'.row = worker.row
          /\ worker'.oldest = worker.oldest /\ worker'.page = worker.page
      BY <2>0 DEF BackfillInv, TypeInv
    <3> QED
      BY <2>0, <3>2, <3>3 DEF Kept, InList, InChannel, Paging, BackfillInv, TypeInv
  <2>2. \A c \in Channels : rows'[c] = rows[c] \/ (~rows'[c].done /\ rows'[c].cursor = 0)
    BY <1>1 DEF Seed, NewRow, NoRow
  <2>3. RowsInv'
    BY <2>1, <2>2, CoveredStays DEF BackfillInv, RowsInv
  <2> QED
    BY ReachStays, <2>1, <2>3 DEF BackfillInv, ListInv, HeadInv, CursorInv, PageInv, EndInv,
      InList, InChannel, Paging
<1>2. CASE ListChannels
  <2>1. Kept /\ UNCHANGED <<rows, reach>> /\ RowsInv'
    BY <1>2, RowsStay DEF ListChannels, Kept, tables
  <2>2. CASE GoOn("finish")
    BY ReachStays, <1>2, <2>1, <2>2 DEF GoOn, Kept, BackfillInv, TypeInv, ListInv, HeadInv,
      CursorInv, PageInv, EndInv, InList, InChannel, Paging
  <2>3. CASE ~GoOn("finish")
    <3>1. PICK s \in OpenRows, n \in Nat :
            /\ n <= Len(s)
            /\ worker' = [worker EXCEPT
                 !.pc = "total",
                 !.list = [k \in 1..n |-> [channel |-> s[k], row |-> rows[s[k]]]],
                 !.state.total = n, !.state.done = 0]
      <4>1. PICK s \in OpenRows :
              LET n == IF Len(s) < ListLimit THEN Len(s) ELSE ListLimit
              IN  worker' = [worker EXCEPT
                   !.pc = "total",
                   !.list = [k \in 1..n |-> [channel |-> s[k], row |-> rows[s[k]]]],
                   !.state.total = n,
                   !.state.done = 0]
        BY <1>2, <2>3 DEF ListChannels
      <4>2. Len(s) \in Nat
        <5>1. IsFiniteSet({c \in Channels : rows[c].exists /\ ~rows[c].done})
          BY FS_Subset, BackfillAssumption
        <5>2. Cardinality({c \in Channels : rows[c].exists /\ ~rows[c].done}) \in Nat
          BY <5>1, FS_CardinalityType
        <5>3. DOMAIN s = 1..Cardinality({c \in Channels : rows[c].exists /\ ~rows[c].done})
          BY DEF OpenRows, SetToSeqs
        <5> QED
          BY <5>2, <5>3
      <4> DEFINE n == IF Len(s) < ListLimit THEN Len(s) ELSE ListLimit
      <4>3. n \in Nat /\ n <= Len(s)
        BY <4>2, BackfillAssumption
      <4> QED
        BY <4>1, <4>3
    <3>2. /\ \A k \in 1..Len(s) : s[k] \in Channels /\ ~rows[s[k]].done
          /\ \A j, k \in 1..Len(s) : s[j] = s[k] => j = k
      <4> DEFINE open == {c \in Channels : rows[c].exists /\ ~rows[c].done}
      <4>1. IsFiniteSet(open)
        BY FS_Subset, BackfillAssumption
      <4>2. /\ s \in [1..Cardinality(open) -> open] /\ Cardinality(open) \in Nat
            /\ \A j, k \in 1..Cardinality(open) : j # k => s[j] # s[k]
        BY <4>1, FS_CardinalityType DEF OpenRows, SetToSeqs
      <4>3. Len(s) = Cardinality(open)
        BY <4>2
      <4> QED
        BY <4>2, <4>3
    <3>3. /\ worker'.pc = "total" /\ worker'.page = worker.page
          /\ worker'.oldest = worker.oldest /\ worker'.row = worker.row
          /\ worker'.list = [k \in 1..n |-> [channel |-> s[k], row |-> rows[s[k]]]]
      BY <3>1 DEF BackfillInv, TypeInv
    <3>4. worker'.list \in Seq([channel : Channels, row : Row])
      <4>1. \A k \in 1..n : k \in 1..Len(s)
        BY <3>1
      <4>2. \A k \in 1..n : [channel |-> s[k], row |-> rows[s[k]]]
                               \in [channel : Channels, row : Row]
        BY <3>2, <4>1 DEF BackfillInv, TypeInv
      <4> DEFINE S == [channel : Channels, row : Row]
                 f == [k \in 1..n |-> [channel |-> s[k], row |-> rows[s[k]]]]
      <4>3. \A k \in 1..n : f[k] \in S
        BY <4>2
      <4> HIDE DEF S
      <4>4. f \in [1..n -> S]
        BY <4>3
      <4> HIDE DEF f
      <4>5. f \in Seq(S)
        BY <3>1, <4>4, FunctionIsSeq
      <4> QED
        BY <3>3, <4>5 DEF S, f
    <3>5. worker' = [pc |-> worker'.pc, state |-> worker'.state, list |-> worker'.list,
               row |-> worker'.row, oldest |-> worker'.oldest, page |-> worker'.page,
               full |-> worker'.full]
      BY <3>1 DEF BackfillInv, TypeInv
    <3>6. TypeInv'
      BY <2>1, <3>3, <3>4, <3>5 DEF BackfillInv, TypeInv, Kept
    <3>7. ListInv'
      BY <2>1, <3>1, <3>2, <3>3 DEF ListInv
    <3> QED
      BY ReachStays, <2>1, <3>3, <3>6, <3>7 DEF BackfillInv, HeadInv, CursorInv, PageInv, EndInv,
        InChannel, Paging
  <2> QED
    BY <2>2, <2>3
<1>3. CASE (SaveTotal /\ worker'.pc # "finish") \/ (NextChannel /\ worker'.pc = "open")
  <2>1. /\ Kept /\ UNCHANGED <<rows, reach>> /\ RowsInv'
        /\ worker' = [worker EXCEPT !.pc = worker'.pc]
        /\ worker.pc \in {"total", "next"}
        /\ worker'.pc = "next" \/ (worker'.pc = "open" /\ worker.list # <<>>)
    BY <1>3, RowsStay DEF SaveTotal, NextChannel, Kept, tables, ghosts, GoOn, At,
      BackfillInv, TypeInv
  <2>2. TypeInv'
    BY <2>1 DEF BackfillInv, TypeInv, Kept
  <2>3. worker'.list = worker.list
    BY <2>1 DEF BackfillInv, TypeInv
  <2>4. ListInv'
    BY <2>1, <2>3 DEF BackfillInv, ListInv, InList, InChannel, Paging
  <2>5. HeadInv'
    <3> SUFFICES ASSUME worker'.pc = "open"
                 PROVE  HeadInv'
      BY <2>1 DEF HeadInv, InChannel, Paging
    <3>1. Listed = rows[Current] /\ ~Listed.done /\ Current \in Channels
      BY <2>1, HeadIsFirst DEF BackfillInv, ListInv, InList, InChannel, Paging
    <3>2. PICK c \in Channels, low \in Row : c = Current /\ low = Listed
      BY <2>1, HeadIsFirst DEF BackfillInv
    <3>3. low.cursor # 0 => Covered(c, low.cursor)'
      BY <2>1, <3>1, <3>2, CoveredStays DEF BackfillInv, RowsInv
    <3>4. Listed' = low /\ Current' = c
      BY <2>3, <3>2 DEF Listed, Current
    <3> QED
      BY <2>1, <2>3, <3>1, <3>2, <3>3, <3>4 DEF HeadInv, Covered
  <2> QED
    BY ReachStays, <2>1, <2>2, <2>4, <2>5 DEF BackfillInv, CursorInv, PageInv, EndInv, Paging
<1> QED
  BY <1>1, <1>2, <1>3, OutsideKeepsInv DEF SaveTotal, GoOn

-----------------------------------------------------------------------------
(* The steps in a channel.                                                 *)

\* What is covered of the channel the worker is in stays so.
LEMMA CurrentStays ==
  ASSUME Kept, worker'.list = worker.list, UNCHANGED reach, NEW low, Covered(Current, low)
  PROVE  Covered(Current, low)'
<1>1. PICK c : c = Current
  OBVIOUS
<1>2. Covered(c, low)'
  BY <1>1, CoveredStays
<1>3. Current' = c
  BY <1>1 DEF Current
<1> QED
  BY <1>2, <1>3 DEF Covered

\* A step that leaves the worker in its channel, and the rows as they are, keeps
\* what the rows, the list and its head promise.
LEMMA StaysInChannel ==
  ASSUME BackfillInv, Kept, UNCHANGED <<rows, reach>>, InChannel, InChannel',
         worker.pc # "count", worker'.pc # "open" \/ worker.pc = "open",
         worker'.list = worker.list
  PROVE  RowsInv' /\ ListInv' /\ HeadInv' /\ Current' = Current /\ Listed' = Listed
<1>1. Current' = Current /\ Listed' = Listed
  BY DEF Current, Listed
<1>2. ListInv'
  BY DEF BackfillInv, ListInv, InList
<1>3. HeadInv'
  <2>1. PICK low \in Row : low = Listed
    BY HeadIsFirst DEF BackfillInv, HeadInv
  <2>2. low.cursor # 0 => Covered(Current, low.cursor)'
    BY <2>1, CurrentStays DEF BackfillInv, HeadInv
  <2> QED
    BY <1>1, <2>1, <2>2 DEF BackfillInv, HeadInv, Covered
<1> QED
  BY <1>1, <1>2, <1>3, RowsStay

\* So does a step that changes no row but that of the channel the worker is in.
LEMMA OnlyHeadMoves ==
  ASSUME BackfillInv, InChannel, worker.pc # "open",
         \A c \in Channels : c # Current => rows'[c] = rows[c],
         \/ worker'.list = worker.list /\ InChannel' /\ worker'.pc # "open"
         \/ worker'.list = Tail(worker.list)
  PROVE  ListInv'
<1>1. worker.list # <<>> /\ worker.list \in Seq([channel : Channels, row : Row])
  BY DEF BackfillInv, HeadInv, TypeInv
<1>2. \A k \in DOMAIN worker.list :
        /\ ~worker.list[k].row.done
        /\ \A j \in DOMAIN worker.list :
             worker.list[j].channel = worker.list[k].channel => j = k
        /\ k # 1 => rows[worker.list[k].channel] = worker.list[k].row
  BY DEF BackfillInv, ListInv, InList
<1>3. 1 \in DOMAIN worker.list /\ Current = worker.list[1].channel
  BY <1>1, HeadIsFirst DEF BackfillInv
<1>4. \A k \in DOMAIN worker.list : k # 1 => rows'[worker.list[k].channel] = worker.list[k].row
  <2>1. \A k \in DOMAIN worker.list : worker.list[k].channel \in Channels
    <3>1. \A k \in DOMAIN worker.list : worker.list[k] \in [channel : Channels, row : Row]
      BY <1>1, SeqElements
    <3> QED
      BY <3>1
  <2>2. \A k \in DOMAIN worker.list : k # 1 => worker.list[k].channel # Current
    BY <1>2, <1>3
  <2> QED
    BY <1>2, <2>1, <2>2
<1>5. CASE worker'.list = worker.list /\ InChannel' /\ worker'.pc # "open"
  BY <1>2, <1>4, <1>5 DEF ListInv
<1>6. CASE worker'.list = Tail(worker.list)
  <2>1. /\ DOMAIN worker.list = 1..Len(worker.list) /\ Len(worker.list) \in Nat
        /\ DOMAIN Tail(worker.list) = 1..(Len(worker.list) - 1)
        /\ \A k \in DOMAIN Tail(worker.list) :
             k + 1 \in DOMAIN worker.list /\ Tail(worker.list)[k] = worker.list[k + 1]
    BY <1>1, TailElements
  <2>2. /\ \A k \in DOMAIN Tail(worker.list) : k + 1 # 1
        /\ \A j, k \in DOMAIN Tail(worker.list) : j + 1 = k + 1 => j = k
    BY <2>1
  <2>3. \A k \in DOMAIN Tail(worker.list) :
          /\ ~Tail(worker.list)[k].row.done
          /\ \A j \in DOMAIN Tail(worker.list) :
               Tail(worker.list)[j].channel = Tail(worker.list)[k].channel => j = k
          /\ rows'[Tail(worker.list)[k].channel] = Tail(worker.list)[k].row
    BY <1>2, <1>4, <2>1, <2>2
  <2> QED
    BY <1>6, <2>3 DEF ListInv
<1> QED
  BY <1>5, <1>6

\* A forgotten author takes nothing from what is stored, and a shutdown lets the
\* worker promise less.
LEMMA OthersKeepInv ==
  ASSUME BackfillInv, Shutdown \/ \E a \in {history[i].by : i \in DOMAIN history} : ForgetAuthor(a)
  PROVE  BackfillInv'
<1>1. /\ Kept /\ UNCHANGED <<worker, rows, reach>>
      /\ Cancelled => Cancelled'
  BY DEF Shutdown, ForgetAuthor, Kept, ghosts, tables, Cancelled
<1>2. TypeInv' /\ RowsInv' /\ ListInv' /\ PageInv'
  BY <1>1, RowsStay DEF Kept, BackfillInv, TypeInv, ListInv, PageInv, InList, InChannel,
    Paging, Ids, Current
<1>3. Current' = Current /\ Listed' = Listed
  BY <1>1 DEF Current, Listed
<1>4. HeadInv'
  <2>1. PICK low : low = Listed
    OBVIOUS
  <2>2. InChannel /\ low.cursor # 0 => Covered(Current, low.cursor)'
    BY <1>1, <2>1, CurrentStays DEF BackfillInv, HeadInv
  <2> QED
    BY <1>1, <1>3, <2>1, <2>2 DEF BackfillInv, HeadInv, InChannel, Paging, Covered
<1>5. CursorInv'
  <2>1. PICK low : low = worker.oldest
    OBVIOUS
  <2>2. Covered(Current, low) => Covered(Current, low)'
    BY <1>1, CurrentStays
  <2> QED
    BY <1>1, <1>3, <2>1, <2>2 DEF BackfillInv, CursorInv, Paging, Covered
<1>6. EndInv'
  <2>1. Covered(Current, 0) => Covered(Current, 0)'
    BY <1>1, CurrentStays
  <2>2. Ids(Current)' = Ids(Current)
    BY <1>1, <1>3 DEF Kept, Ids
  <2> QED
    BY <1>1, <1>3, <2>1, <2>2 DEF BackfillInv, EndInv
<1> QED
  BY <1>1, ReachStays, <1>2, <1>4, <1>5, <1>6 DEF BackfillInv

\* The row that is read again is the row that was listed.
LEMMA OpenKeepsInv ==
  ASSUME BackfillInv, OpenChannel
  PROVE  BackfillInv'
<1>1. /\ Kept /\ UNCHANGED <<rows, reach>> /\ worker.pc = "open"
      /\ Current \in Channels /\ rows[Current] = Listed /\ rows[Current] \in Row
      /\ ~rows[Current].done
  BY HeadIsFirst DEF OpenChannel, Kept, tables, ghosts, At, BackfillInv, TypeInv,
    HeadInv, ListInv, InList, InChannel, Paging
<1>2. \/ /\ worker'.pc = "fetch" /\ worker'.row = rows[Current]
         /\ worker'.oldest = rows[Current].cursor
      \/ worker'.pc = "error" /\ UNCHANGED <<worker.row, worker.oldest>>
  BY DEF OpenChannel, GoOn, BackfillInv, TypeInv
<1>3. /\ worker'.list = worker.list /\ worker'.page = worker.page
      /\ worker' = [pc |-> worker'.pc, state |-> worker'.state, list |-> worker'.list,
               row |-> worker'.row, oldest |-> worker'.oldest, page |-> worker'.page,
               full |-> worker'.full]
  BY DEF OpenChannel, GoOn, BackfillInv, TypeInv
<1>4. TypeInv'
  BY <1>1, <1>2, <1>3 DEF BackfillInv, TypeInv, Kept, Row
<1>5. RowsInv' /\ ListInv' /\ HeadInv' /\ Current' = Current /\ Listed' = Listed
  BY <1>1, <1>2, <1>3, StaysInChannel DEF InChannel, Paging
<1>6. CursorInv'
  <2>1. PICK low : low = Listed.cursor
    OBVIOUS
  <2>2. low # 0 => Covered(Current, low)'
    BY <1>1, <1>3, <2>1, CurrentStays DEF BackfillInv, HeadInv, InChannel
  <2> QED
    BY <1>1, <1>2, <1>5, <2>1, <2>2 DEF CursorInv, Paging, Covered
<1> QED
  BY <1>1, ReachStays, <1>2, <1>4, <1>5, <1>6 DEF BackfillInv, PageInv, EndInv

\* A page brings what is next below the cursor; without a cursor the channel has
\* made no promise yet.
LEMMA FetchKeepsInv ==
  ASSUME BackfillInv, Fetch
  PROVE  BackfillInv'
<1>0. worker.pc = "fetch" /\ Paging /\ InChannel /\ InList
  BY DEF Fetch, At, Paging, InChannel, InList
<1>1. Current \in Channels /\ worker.list # <<>> /\ ~rows[Current].done
  BY <1>0, HeadIsFirst DEF BackfillInv, HeadInv
<1>2. CASE GoOn("error") /\ reach' = reach
  <2>1. /\ Kept /\ UNCHANGED <<rows, reach>> /\ worker'.pc = "error"
        /\ worker'.list = worker.list /\ worker'.page = worker.page
        /\ worker'.oldest = worker.oldest /\ worker'.row = worker.row
        /\ worker' = [pc |-> worker'.pc, state |-> worker'.state, list |-> worker'.list,
               row |-> worker'.row, oldest |-> worker'.oldest, page |-> worker'.page,
               full |-> worker'.full]
    BY <1>2 DEF Fetch, GoOn, Kept, tables, BackfillInv, TypeInv
  <2>2. TypeInv'
    BY <2>1 DEF BackfillInv, TypeInv, Kept
  <2>3. RowsInv' /\ ListInv' /\ HeadInv'
    BY <1>0, <2>1, StaysInChannel DEF InChannel
  <2> QED
    BY ReachStays, <2>1, <2>2, <2>3 DEF BackfillInv, CursorInv, PageInv, EndInv, Paging
<1>3. ASSUME NEW page \in Pages(Current, worker.oldest),
             worker' = [worker EXCEPT
               !.pc = IF page = <<>> THEN "complete" ELSE "check",
               !.page = page, !.full = Len(page) = BackfillBatch],
             reach' = IF worker.oldest = 0 /\ page # <<>>
                      THEN [reach EXCEPT ![Current] = Head(page)] ELSE reach
      PROVE  BackfillInv'
  <2>1. /\ Kept /\ UNCHANGED rows
        /\ worker'.pc = IF page = <<>> THEN "complete" ELSE "check"
        /\ worker'.page = page /\ worker'.full = (Len(page) = BackfillBatch)
        /\ worker'.list = worker.list
        /\ worker'.oldest = worker.oldest /\ worker'.row = worker.row
        /\ worker' = [pc |-> worker'.pc, state |-> worker'.state, list |-> worker'.list,
               row |-> worker'.row, oldest |-> worker'.oldest, page |-> worker'.page,
               full |-> worker'.full]
    BY <1>3 DEF Fetch, Kept, tables, BackfillInv, TypeInv
  <2>2. /\ Current' = Current /\ Listed' = Listed /\ Ids(Current)' = Ids(Current)
        /\ Ids(Current) \subseteq Nat \ {0}
    BY <2>1 DEF Current, Listed, Ids, Kept, BackfillInv, TypeInv
  <2>3. /\ page \in Seq(Nat)
        /\ \A k \in DOMAIN page : page[k] \in Before(Current, worker.oldest)
        /\ IsPage(page, Before(Current, worker.oldest))
    <3>1. PICK n \in 0..BackfillBatch : page \in [1..n -> Before(Current, worker.oldest)]
      BY <1>3 DEF Pages
    <3>2. page \in [1..n -> Nat] /\ n \in Nat
      BY <2>2, <3>1, BackfillAssumption DEF Before
    <3>3. page \in Seq(Nat)
      BY <3>2, FunctionIsSeq
    <3>4. \A k \in DOMAIN page : page[k] \in Before(Current, worker.oldest)
      BY <3>1
    <3> QED
      BY <1>3, <3>3, <3>4 DEF Pages
  <2>4. reach' \in [Channels -> Int]
    <3>1. page # <<>> => Head(page) \in Int
      BY <2>3, SeqElements
    <3> QED
      BY <1>3, <3>1 DEF BackfillInv, TypeInv
  <2>5. TypeInv'
    BY <2>1, <2>3, <2>4 DEF BackfillInv, TypeInv, Kept
  <2>6. PICK cur \in Channels, low \in Nat, listed \in Row :
          cur = Current /\ low = worker.oldest /\ listed = Listed
    BY <1>1, HeadIsFirst DEF BackfillInv, TypeInv
  <2>7. /\ \A c \in Channels : c = cur \/ reach'[c] = reach[c]
        /\ reach'[cur] = reach[cur] \/ low = 0
    BY <1>3, <2>6 DEF BackfillInv, TypeInv
  <2>8. low = 0 => rows[cur].cursor = 0 /\ listed.cursor = 0
    BY <1>0, <2>6 DEF BackfillInv, CursorInv
  <2>9. RowsInv'
    BY <1>1, <2>1, <2>6, <2>7, <2>8, CoveredStays DEF BackfillInv, RowsInv
  <2>10. ListInv'
    BY <1>0, <2>1 DEF BackfillInv, ListInv, InList, InChannel, Paging
  <2>11. HeadInv'
    <3>1. listed.cursor # 0 => Covered(cur, listed.cursor)'
      BY <1>0, <2>1, <2>6, <2>7, <2>8, CoveredStays DEF BackfillInv, HeadInv
    <3> QED
      BY <1>1, <2>1, <2>2, <2>6, <3>1 DEF HeadInv, Covered
  <2>12. low # 0 => Covered(cur, low)'
    BY <1>0, <2>1, <2>6, <2>7, CoveredStays DEF BackfillInv, CursorInv
  <2>13. CursorInv'
    BY <1>0, <2>1, <2>2, <2>6, <2>8, <2>12 DEF BackfillInv, CursorInv, Paging, Covered
  <2>14. PageInv'
    <3> SUFFICES ASSUME page # <<>> PROVE PageInv'
      BY <2>1 DEF PageInv
    <3>1. \A k \in DOMAIN page :
            /\ page[k] \in Ids(Current)
            /\ worker.oldest = 0 \/ page[k] < worker.oldest
            /\ \A j \in DOMAIN page : j < k => page[k] < page[j]
      BY <2>3 DEF Before, IsPage
    <3>2. ASSUME NEW i \in Ids(Current), worker.oldest = 0 \/ i < worker.oldest
          PROVE  \/ \E k \in DOMAIN page : page[k] = i
                 \/ Len(page) = BackfillBatch /\ \A k \in DOMAIN page : i < page[k]
      BY <2>3, <3>2 DEF Before, IsPage
    <3> QED
      BY <2>1, <2>2, <3>1, <3>2 DEF PageInv
  <2>15. EndInv'
    <3> SUFFICES ASSUME page = <<>> PROVE Covered(Current, 0)'
      BY <2>1 DEF EndInv
    <3>1. \A i \in Ids(Current) : worker.oldest # 0 /\ worker.oldest <= i
      <4>1. Before(Current, worker.oldest) = {}
        BY <2>3, BackfillAssumption DEF IsPage
      <4> QED
        BY <2>2, <4>1 DEF Before, BackfillInv, TypeInv
    <3>2. \A i \in Ids(cur)' : low # 0 /\ low <= i
      BY <2>2, <2>6, <3>1
    <3>3. Covered(cur, 0)'
      BY <2>12, <3>2 DEF Covered
    <3> QED
      BY <2>2, <2>6, <3>3 DEF Covered
  <2>16. ReachInv'
    <3> SUFFICES ASSUME NEW c \in Channels PROVE reach'[c] = 0 \/ reach'[c] \in DOMAIN history
      BY <2>1 DEF ReachInv, Kept
    <3>1. CASE reach'[c] = reach[c]
      BY <3>1 DEF BackfillInv, ReachInv
    <3>2. CASE reach'[c] # reach[c]
      <4>1. page # <<>> /\ reach'[c] = Head(page)
        BY <1>3, <2>6, <2>7, <3>2 DEF BackfillInv, TypeInv
      <4>2. Head(page) \in Before(Current, worker.oldest)
        BY <2>3, <4>1, SeqElements
      <4> QED
        BY <4>1, <4>2 DEF Before, Ids
    <3> QED
      BY <3>1, <3>2
  <2> QED
    BY <2>5, <2>9, <2>10, <2>11, <2>13, <2>14, <2>15, <2>16 DEF BackfillInv
<1> QED
  BY <1>2, <1>3 DEF Fetch

\* The message at the head of the page is passed: it is stored, not wanted, lost,
\* or the process is stopping.
LEMMA PassedKeepsInv ==
  ASSUME BackfillInv, Kept, UNCHANGED <<rows, reach, proc>>,
         worker.pc \in {"check", "insert"}, worker' = Passed, NEW msg, msg = Msg,
         ~Cancelled /\ Wanted(msg)' => msg \in messages'
  PROVE  BackfillInv'
<1>1. /\ Paging /\ InChannel
      /\ worker.page \in Seq(Nat) /\ worker.page # <<>>
      /\ Msg = worker.page[1] /\ 1 \in DOMAIN worker.page
      /\ Msg \in Ids(Current) /\ Msg \in Nat \ {0}
      /\ worker.oldest = 0 \/ Msg < worker.oldest
  <2>1. worker.page \in Seq(Nat) /\ worker.page # <<>>
    BY DEF BackfillInv, TypeInv, PageInv
  <2>2. Msg = worker.page[1] /\ 1 \in DOMAIN worker.page
    BY <2>1, SeqElements DEF Msg
  <2>3. Msg \in Ids(Current) /\ (worker.oldest = 0 \/ Msg < worker.oldest)
    BY <2>2 DEF BackfillInv, PageInv
  <2> QED
    BY <2>1, <2>2, <2>3 DEF BackfillInv, TypeInv, Ids, Paging, InChannel
<1>3. /\ worker'.pc = IF Len(worker.page) = 1 THEN "page" ELSE "check"
      /\ worker'.page = Tail(worker.page) /\ worker'.oldest = msg
      /\ worker'.list = worker.list /\ worker'.row = worker.row /\ worker'.full = worker.full
      /\ worker' = [pc |-> worker'.pc, state |-> worker'.state, list |-> worker'.list,
               row |-> worker'.row, oldest |-> worker'.oldest, page |-> worker'.page,
               full |-> worker'.full]
  BY <1>1 DEF Passed, BackfillInv, TypeInv
<1>4. /\ Paging' /\ InChannel'
      /\ Tail(worker.page) \in Seq(Nat) /\ DOMAIN worker.page = 1..Len(worker.page)
      /\ Len(worker.page) \in Nat
      /\ DOMAIN Tail(worker.page) = 1..(Len(worker.page) - 1)
      /\ \A k \in DOMAIN Tail(worker.page) :
           k + 1 \in DOMAIN worker.page /\ Tail(worker.page)[k] = worker.page[k + 1]
      /\ Tail(worker.page) = <<>> <=> Len(worker.page) = 1
  BY <1>1, <1>3, TailElements DEF Paging, InChannel
<1>5. TypeInv'
  BY <1>1, <1>3, <1>4 DEF BackfillInv, TypeInv, Kept
<1>6. RowsInv' /\ ListInv' /\ HeadInv' /\ Current' = Current /\ Listed' = Listed
  BY <1>1, <1>3, <1>4, StaysInChannel
<1>7. Ids(Current)' = Ids(Current) /\ Ids(Current) \subseteq Nat \ {0}
  BY <1>6 DEF Kept, Ids, BackfillInv, TypeInv
\* Nothing is between the message and what was passed before it.
<1>8. ASSUME NEW i \in Ids(Current), i <= reach[Current],
             worker.oldest = 0 \/ i < worker.oldest, i # msg
      PROVE  \/ \E k \in DOMAIN worker.page : k # 1 /\ worker.page[k] = i /\ i < msg
             \/ worker.full /\ \A k \in DOMAIN worker.page : i < worker.page[k]
  <2>1. \/ \E k \in DOMAIN worker.page : worker.page[k] = i
        \/ worker.full /\ \A k \in DOMAIN worker.page : i < worker.page[k]
    BY <1>8 DEF BackfillInv, PageInv
  <2>2. \A k \in DOMAIN worker.page : k # 1 => worker.page[k] < msg
    <3>1. \A k \in DOMAIN worker.page : k # 1 => 1 < k
      BY <1>4
    <3> QED
      BY <1>1, <3>1 DEF BackfillInv, PageInv
  <2> QED
    BY <1>1, <1>8, <2>1, <2>2
<1>9. CursorInv'
  <2>1. ~Cancelled => Covered(Current, msg)'
    <3> SUFFICES ASSUME ~Cancelled, NEW i \in Ids(Current), Wanted(i)', i <= reach'[Current'],
                        msg <= i
                 PROVE  i \in messages'
      BY <1>7 DEF Covered
    <3>1. CASE i = msg
      BY <3>1
    <3>2. CASE i # msg
      <4>1. worker.oldest # 0 /\ ~(i < worker.oldest)
        BY <1>1, <1>6, <1>7, <1>8, <3>2
      <4>2. worker.oldest # 0 /\ worker.oldest <= i
        BY <1>7, <4>1 DEF BackfillInv, TypeInv
      <4>3. PICK low : low = worker.oldest
        OBVIOUS
      <4>4. Covered(Current, low)'
        BY <1>1, <1>3, <4>2, <4>3, CurrentStays DEF BackfillInv, CursorInv
      <4> QED
        BY <1>7, <4>2, <4>3, <4>4 DEF Covered
    <3> QED
      BY <3>1, <3>2
  <2>2. Cancelled' = Cancelled /\ worker'.pc # "fetch"
    BY <1>3 DEF Cancelled
  <2> QED
    BY <1>1, <1>3, <2>1, <2>2 DEF BackfillInv, CursorInv, Covered
<1>10. PageInv'
  <2> SUFFICES ASSUME Len(worker.page) # 1 PROVE PageInv'
    BY <1>3 DEF PageInv
  <2>1. \A k \in DOMAIN Tail(worker.page) :
          /\ Tail(worker.page)[k] \in Ids(Current)
          /\ Tail(worker.page)[k] < msg
          /\ \A j \in DOMAIN Tail(worker.page) :
               j < k => Tail(worker.page)[k] < Tail(worker.page)[j]
    <3>1. \A k \in DOMAIN worker.page :
            /\ worker.page[k] \in Ids(Current)
            /\ \A j \in DOMAIN worker.page : j < k => worker.page[k] < worker.page[j]
      BY DEF BackfillInv, PageInv
    <3>2. \A k \in DOMAIN Tail(worker.page) : 1 < k + 1
      BY <1>4
    <3>3. \A j, k \in DOMAIN Tail(worker.page) : j < k => j + 1 < k + 1
      BY <1>4
    <3> QED
      BY <1>1, <1>4, <3>1, <3>2, <3>3
  <2>2. ASSUME NEW i \in Ids(Current), i <= reach[Current], i < msg
        PROVE  \/ \E k \in DOMAIN Tail(worker.page) : Tail(worker.page)[k] = i
               \/ worker.full /\ \A k \in DOMAIN Tail(worker.page) : i < Tail(worker.page)[k]
    <3>1. (worker.oldest = 0 \/ i < worker.oldest) /\ i # msg
      BY <1>1, <1>7, <2>2 DEF BackfillInv, TypeInv
    <3>2. CASE \E k \in DOMAIN worker.page : k # 1 /\ worker.page[k] = i /\ i < msg
      <4>1. PICK k \in DOMAIN worker.page : k # 1 /\ worker.page[k] = i
        BY <3>2
      <4>2. k - 1 \in DOMAIN Tail(worker.page) /\ (k - 1) + 1 = k
        BY <1>4, <4>1
      <4> QED
        BY <1>4, <4>1, <4>2
    <3>3. CASE worker.full /\ \A k \in DOMAIN worker.page : i < worker.page[k]
      BY <1>4, <3>3
    <3> QED
      BY <1>8, <2>2, <3>1, <3>2, <3>3
  <2> QED
    BY <1>1, <1>3, <1>4, <1>6, <1>7, <2>1, <2>2 DEF PageInv
<1>11. EndInv'
  <2> SUFFICES ASSUME Len(worker.page) = 1
               PROVE  EndInv'
    BY <1>3 DEF EndInv
  <2>1. ASSUME ~worker.full, NEW i \in Ids(Current), i <= reach[Current]
        PROVE  msg <= i
    <3>1. ~(i < msg)
      <4> SUFFICES ASSUME i < msg PROVE FALSE
        OBVIOUS
      <4>1. (worker.oldest = 0 \/ i < worker.oldest) /\ i # msg
        BY <1>1, <1>7 DEF BackfillInv, TypeInv
      <4> QED
        BY <1>4, <1>8, <2>1, <4>1
    <3> QED
      BY <1>1, <1>7, <3>1
  <2> QED
    BY <1>1, <1>3, <1>6, <1>7, <2>1 DEF EndInv
<1>12. ReachInv'
  BY DEF BackfillInv, ReachInv, Kept
<1> QED
  BY <1>5, <1>6, <1>9, <1>10, <1>11, <1>12 DEF BackfillInv

\* A message is checked and inserted: its author is forgotten, the call fails and
\* the message is lost, it is stored, or it is left for the insert.
LEMMA StoringKeepsInv ==
  ASSUME BackfillInv, Check \/ Insert
  PROVE  BackfillInv'
<1>1. /\ Kept /\ UNCHANGED <<rows, reach, proc>> /\ worker.pc \in {"check", "insert"}
  BY DEF Check, Insert, At, Kept, tables
<1>2. PICK msg : msg = Msg
  OBVIOUS
<1>3. CASE worker' = Passed
  <2>1. ~Cancelled /\ Wanted(msg)' => msg \in messages'
    <3> SUFFICES ASSUME ~Cancelled, Wanted(msg)' PROVE msg \in messages'
      OBVIOUS
    <3>1. KeepBackfill(msg) /\ history[msg].by \notin forgotten /\ msg \notin lost'
      BY <1>1 DEF Wanted, KeepBackfill, Kept
    <3>2. worker'.pc # "insert"
      BY <1>3 DEF Passed, BackfillInv, TypeInv
    <3>3. ~Check
      <4> SUFFICES ASSUME Check PROVE FALSE
        OBVIOUS
      <4>1. \/ worker' = [worker EXCEPT !.pc = "insert"]
            \/ ~KeepBackfill(Msg) \/ history[Msg].by \in forgotten \/ Msg \in lost'
        BY DEF Check
      <4> QED
        BY <1>2, <3>1, <3>2, <4>1 DEF BackfillInv, TypeInv
    <3> QED
      BY <1>2, <3>1, <3>3 DEF Insert
  <2> QED
    BY <1>1, <1>2, <1>3, <2>1, PassedKeepsInv
<1>4. CASE Check /\ worker' = [worker EXCEPT !.pc = "insert"]
  <2>1. /\ worker.pc = "check" /\ worker'.pc = "insert"
        /\ worker'.list = worker.list /\ worker'.page = worker.page
        /\ worker'.oldest = worker.oldest /\ worker'.row = worker.row
        /\ worker'.full = worker.full
        /\ worker' = [pc |-> worker'.pc, state |-> worker'.state, list |-> worker'.list,
               row |-> worker'.row, oldest |-> worker'.oldest, page |-> worker'.page,
               full |-> worker'.full]
    BY <1>4 DEF Check, At, BackfillInv, TypeInv
  <2>2. TypeInv'
    BY <1>1, <2>1 DEF BackfillInv, TypeInv, Kept
  <2>3. RowsInv' /\ ListInv' /\ HeadInv' /\ Current' = Current /\ Listed' = Listed
    BY <1>1, <2>1, StaysInChannel DEF InChannel, Paging
  <2>4. CursorInv'
    <3>1. PICK low : low = worker.oldest
      OBVIOUS
    <3>2. Covered(Current, low) => Covered(Current, low)'
      BY <1>1, <2>1, CurrentStays
    <3>3. Cancelled' = Cancelled
      BY <1>1 DEF Cancelled
    <3> QED
      BY <1>1, <2>1, <2>3, <3>1, <3>2, <3>3 DEF BackfillInv, CursorInv, Paging, Covered
  <2>5. PageInv'
    BY <1>1, <2>1, <2>3 DEF BackfillInv, PageInv, Ids, Kept
  <2> QED
    BY <1>1, ReachStays, <2>1, <2>2, <2>3, <2>4, <2>5 DEF BackfillInv, EndInv
<1> QED
  BY <1>3, <1>4 DEF Check, Insert

\* The cursor is saved once no call of its page was cancelled.
LEMMA SaveCursorKeepsInv ==
  ASSUME BackfillInv, SaveCursor
  PROVE  BackfillInv'
<1>1. /\ Kept /\ UNCHANGED reach /\ worker.pc = "page" /\ Paging /\ InChannel /\ InList
      /\ worker.oldest \in Nat \ {0} /\ worker.row \in Row /\ ~worker.row.done
      /\ worker.list # <<>> /\ ~rows[Current].done /\ Current \in Channels
  BY HeadIsFirst DEF SaveCursor, At, Kept, ghosts, Paging, InChannel, InList, BackfillInv,
    TypeInv, CursorInv, HeadInv, EndInv
<1>2. PICK cur \in Channels, low \in Nat \ {0}, listed \in Row :
        cur = Current /\ low = worker.oldest /\ listed = Listed
  BY <1>1, HeadIsFirst DEF BackfillInv
<1>3. CASE GoOn("error") /\ UNCHANGED <<rows, faults>>
  <2>1. /\ worker'.pc = "error"
        /\ worker'.list = worker.list /\ worker'.page = worker.page
        /\ worker'.oldest = worker.oldest /\ worker'.row = worker.row
        /\ worker' = [pc |-> worker'.pc, state |-> worker'.state, list |-> worker'.list,
               row |-> worker'.row, oldest |-> worker'.oldest, page |-> worker'.page,
               full |-> worker'.full]
    BY <1>3 DEF GoOn, BackfillInv, TypeInv
  <2>2. TypeInv'
    BY <1>1, <1>3, <2>1 DEF BackfillInv, TypeInv, Kept
  <2>3. RowsInv' /\ ListInv' /\ HeadInv'
    BY <1>1, <1>3, <2>1, StaysInChannel DEF InChannel
  <2> QED
    BY <1>1, ReachStays, <2>1, <2>2, <2>3 DEF BackfillInv, CursorInv, PageInv, EndInv, Paging
<1>4. ASSUME NEW moved, moved = [worker.row EXCEPT !.cursor = low], ~Cancelled,
             worker' = [worker EXCEPT !.row = moved,
                                      !.pc = IF worker.full THEN "fetch" ELSE "complete"],
             rows' = rows \/ rows' = [rows EXCEPT ![cur] = moved]
      PROVE  BackfillInv'
  <2>1. /\ worker'.pc = IF worker.full THEN "fetch" ELSE "complete"
        /\ worker'.list = worker.list /\ worker'.page = worker.page
        /\ worker'.oldest = low /\ worker'.row = moved
        /\ worker' = [pc |-> worker'.pc, state |-> worker'.state, list |-> worker'.list,
               row |-> worker'.row, oldest |-> worker'.oldest, page |-> worker'.page,
               full |-> worker'.full]
    BY <1>2, <1>4 DEF BackfillInv, TypeInv
  <2>2. moved \in Row /\ ~moved.done /\ moved.cursor = low
    BY <1>1, <1>4 DEF Row
  <2>3. /\ \A c \in Channels : rows'[c] = rows[c] \/ (c = cur /\ rows'[c] = moved)
        /\ rows' \in [Channels -> Row]
    BY <1>4, <2>2 DEF BackfillInv, TypeInv
  <2>4. TypeInv'
    BY <1>1, <2>1, <2>2, <2>3 DEF BackfillInv, TypeInv, Kept
  <2>5. Covered(cur, low)'
    BY <1>1, <1>2, <1>4, CoveredStays DEF BackfillInv, CursorInv
  <2>6. RowsInv'
    BY <1>1, <2>2, <2>3, <2>5, CoveredStays DEF BackfillInv, RowsInv
  <2>7. Current' = cur /\ Listed' = listed
    BY <1>2, <2>1 DEF Current, Listed
  <2>8. ListInv'
    BY <1>1, <1>2, <2>1, <2>3, OnlyHeadMoves DEF InChannel, Paging
  <2>9. HeadInv'
    <3>1. listed.cursor # 0 => Covered(cur, listed.cursor)'
      BY <1>1, <1>2, CoveredStays DEF BackfillInv, HeadInv
    <3> QED
      BY <1>1, <1>2, <2>1, <2>2, <2>3, <2>7, <3>1 DEF HeadInv, Covered
  <2>10. CursorInv'
    BY <2>1, <2>2, <2>5, <2>7 DEF CursorInv, Paging, Covered
  <2>11. EndInv'
    <3> SUFFICES ASSUME ~worker.full PROVE Covered(cur, 0)'
      BY <2>1, <2>7 DEF EndInv, Covered
    <3>1. \A i \in Ids(cur)' : i <= reach'[cur] => low <= i
      BY <1>1, <1>2 DEF BackfillInv, EndInv, Ids, Kept
    <3> QED
      BY <2>5, <3>1 DEF Covered
  <2> QED
    BY <1>1, ReachStays, <2>1, <2>4, <2>6, <2>8, <2>9, <2>10, <2>11 DEF BackfillInv, PageInv
<1>5. CASE ~Cancelled
  <2>1. PICK moved : moved = [worker.row EXCEPT !.cursor = low]
    OBVIOUS
  <2>2. /\ worker' = [worker EXCEPT !.row = moved,
                                    !.pc = IF worker.full THEN "fetch" ELSE "complete"]
        /\ rows' = rows \/ rows' = [rows EXCEPT ![cur] = moved]
    BY <1>2, <1>5, <2>1 DEF SaveCursor
  <2> QED
    BY <1>4, <1>5, <2>1, <2>2
<1> QED
  BY <1>3, <1>5 DEF SaveCursor

\* The listed copy is saved as failed, with the promise it was listed with, or as
\* done, when nothing is left of the channel.
LEMMA CloseKeepsInv ==
  ASSUME BackfillInv, ChannelFailed \/ SaveDone \/ CountChannel
  PROVE  BackfillInv'
<1>1. /\ Kept /\ UNCHANGED reach /\ worker.pc \in {"error", "complete", "count"} /\ InChannel
      /\ worker.list # <<>> /\ Current \in Channels
  BY HeadIsFirst DEF ChannelFailed, SaveDone, CountChannel, At, Kept, ghosts, InChannel,
    BackfillInv, HeadInv
<1>2. PICK cur \in Channels, listed \in Row : cur = Current /\ listed = Listed
  BY <1>1, HeadIsFirst DEF BackfillInv
<1>3. /\ ~listed.done
      /\ listed.cursor # 0 => Covered(cur, listed.cursor)'
      /\ worker.pc = "complete" => Covered(cur, 0)'
  <2>1. ~listed.done
    BY <1>1, <1>2, HeadIsFirst DEF BackfillInv, ListInv, InList
  <2>2. /\ listed.cursor # 0 => Covered(cur, listed.cursor)
        /\ worker.pc = "complete" => Covered(cur, 0)
    BY <1>1, <1>2 DEF BackfillInv, HeadInv, EndInv
  <2> QED
    BY <1>1, <2>1, <2>2, CoveredStays
<1>4. PICK failed \in Row, finished \in Row :
        failed = [listed EXCEPT !.error = TRUE] /\ finished = [listed EXCEPT !.done = TRUE]
  BY DEF Row
<1>5. failed.cursor = listed.cursor /\ ~failed.done /\ finished.cursor = listed.cursor
  BY <1>3, <1>4 DEF Row
<1>6. \/ rows' = rows
      \/ rows' = [rows EXCEPT ![cur] = failed]
      \/ rows' = [rows EXCEPT ![cur] = finished] /\ worker.pc = "complete"
  BY <1>2, <1>4 DEF ChannelFailed, SaveDone, CountChannel, At
<1>7. /\ rows' \in [Channels -> Row]
      /\ \A c \in Channels : c # cur => rows'[c] = rows[c]
      /\ \/ rows'[cur] = rows[cur] \/ rows'[cur] = failed
         \/ rows'[cur] = finished /\ worker.pc = "complete"
  BY <1>6 DEF BackfillInv, TypeInv
<1>8. /\ \/ worker'.pc = "next" /\ worker'.list = Tail(worker.list)
         \/ worker'.pc = "interrupted" /\ worker'.list = worker.list
         \/ worker'.pc = "count" /\ worker'.list = worker.list
      /\ worker'.page = worker.page /\ worker'.oldest = worker.oldest
      /\ worker'.row = worker.row
      /\ worker' = [pc |-> worker'.pc, state |-> worker'.state, list |-> worker'.list,
               row |-> worker'.row, oldest |-> worker'.oldest, page |-> worker'.page,
               full |-> worker'.full]
  BY DEF ChannelFailed, SaveDone, CountChannel, GoOn, BackfillInv, TypeInv
<1>9. TypeInv'
  <2>1. Tail(worker.list) \in Seq([channel : Channels, row : Row])
    BY <1>1, TailElements DEF BackfillInv, TypeInv
  <2> QED
    BY <1>1, <1>7, <1>8, <2>1 DEF BackfillInv, TypeInv, Kept
<1>10. RowsInv'
  <2> SUFFICES ASSUME NEW c \in Channels, NEW row \in Row, row = rows'[c]
               PROVE  /\ row.done => Covered(c, 0)'
                      /\ row.cursor # 0 => Covered(c, row.cursor)'
    BY <1>7 DEF RowsInv, Covered
  <2>1. CASE row = rows[c]
    BY <1>1, <2>1, CoveredStays DEF BackfillInv, RowsInv
  <2>2. CASE row # rows[c]
    <3>1. c = cur /\ (row = failed \/ (row = finished /\ worker.pc = "complete"))
      BY <1>7, <2>2
    <3> QED
      BY <1>3, <1>5, <3>1
  <2> QED
    BY <2>1, <2>2
<1>11. ListInv'
  <2>1. CASE worker'.pc = "interrupted"
    BY <2>1 DEF ListInv, InList, InChannel, Paging
  <2> QED
    BY <1>1, <1>2, <1>7, <1>8, <2>1, OnlyHeadMoves DEF InChannel, Paging
<1>12. HeadInv'
  <2> SUFFICES ASSUME worker'.pc = "count" PROVE HeadInv'
    BY <1>8 DEF HeadInv, InChannel, Paging
  <2>1. Current' = cur /\ Listed' = listed /\ worker'.list # <<>>
    BY <1>1, <1>2, <1>8 DEF Current, Listed
  <2> QED
    BY <1>3, <2>1 DEF HeadInv, Covered
<1> QED
  BY <1>1, ReachStays, <1>8, <1>9, <1>10, <1>11, <1>12 DEF BackfillInv, CursorInv, PageInv, EndInv, Paging

-----------------------------------------------------------------------------

LEMMA InitKeepsInv ==
  ASSUME Init
  PROVE  BackfillInv
<1>1. NoRow \in Row /\ ~NoRow.done /\ NoRow.cursor = 0
  BY DEF NoRow, Row
<1>2. /\ worker = [pc |-> worker.pc, state |-> worker.state, list |-> worker.list,
             row |-> worker.row, oldest |-> worker.oldest, page |-> worker.page,
             full |-> worker.full]
      /\ worker.pc = "off" /\ worker.list = <<>> /\ worker.page = <<>>
      /\ worker.oldest = 0 /\ worker.row = NoRow
  BY DEF Init, Off
<1>0. Len(history) \in Nat /\ DOMAIN history = 1..Len(history)
  BY BackfillAssumption DEF Init
<1>3. DOMAIN history \subseteq Nat \ {0} /\ rows = [c \in Channels |-> NoRow]
      /\ reach \in [Channels -> Int] /\ reach = [c \in Channels |-> 0]
  BY <1>0 DEF Init
<1>4. TypeInv /\ ReachInv
  BY <1>1, <1>2, <1>3 DEF TypeInv, ReachInv
<1>5. RowsInv
  BY <1>1, <1>3 DEF RowsInv
<1> QED
  BY <1>2, <1>4, <1>5 DEF BackfillInv, ListInv, HeadInv, CursorInv, PageInv,
    EndInv, InList, InChannel, Paging

LEMMA StepKeepsInv ==
  ASSUME BackfillInv, [Next]_vars
  PROVE  BackfillInv'
<1>1. CASE Start \/ Interrupted \/ Finish \/ Exit \/ Crash \/ Boot
  BY <1>1, OutsideKeepsInv
<1>2. CASE Seed \/ ListChannels \/ SaveTotal \/ NextChannel
  BY <1>2, ListingKeepsInv
<1>3. CASE OpenChannel
  BY <1>3, OpenKeepsInv
<1>4. CASE Fetch
  BY <1>4, FetchKeepsInv
<1>5. CASE Check \/ Insert
  BY <1>5, StoringKeepsInv
<1>6. CASE SaveCursor
  BY <1>6, SaveCursorKeepsInv
<1>7. CASE ChannelFailed \/ SaveDone \/ CountChannel
  BY <1>7, CloseKeepsInv
<1>8. CASE Shutdown \/ \E a \in {history[i].by : i \in DOMAIN history} : ForgetAuthor(a)
  BY <1>8, OthersKeepInv
<1>9. CASE UNCHANGED vars
  BY <1>9 DEF vars, tables, ghosts, BackfillInv, ReachInv, TypeInv, RowsInv, ListInv, HeadInv,
    CursorInv, PageInv, EndInv, InList, InChannel, Paging, Covered, Wanted, KeepBackfill,
    Ids, Current, Listed, Cancelled
<1> QED
  BY <1>1, <1>2, <1>3, <1>4, <1>5, <1>6, <1>7, <1>8, <1>9 DEF Next, Work

LEMMA BackfillInvHolds == Spec => []BackfillInv
  BY InitKeepsInv, StepKeepsInv, PTL DEF Spec

LEMMA InvSkipsNothing ==
  ASSUME BackfillInv
  PROVE  NothingSkipped
<1> SUFFICES ASSUME NEW c \in Channels, NEW i \in Ids(c), Wanted(i), i <= reach[c],
                    rows[c].done \/ (rows[c].cursor # 0 /\ rows[c].cursor <= i)
             PROVE  i \in messages
  BY DEF NothingSkipped, Wanted
<1>1. 0 <= i
  BY DEF BackfillInv, TypeInv, Ids
<1> QED
  BY <1>1 DEF BackfillInv, RowsInv, Covered

\* For every guild and every course of faults, shutdowns and restarts: what is
\* wanted of a channel is stored once its cursor is below it or it is done.
THEOREM CursorsSkipNothing == Spec => []NothingSkipped
  BY InvSkipsNothing, BackfillInvHolds, PTL

-----------------------------------------------------------------------------
(* The guild goes on, and the live path stores beside the worker.          *)

GuildGoesOn ==
  /\ DOMAIN history \subseteq DOMAIN history' /\ DOMAIN history' \subseteq Nat \ {0}
  /\ \A i \in DOMAIN history : history'[i] = history[i]
  /\ \A i \in DOMAIN history' \ DOMAIN history : \A j \in DOMAIN history : j < i
  /\ messages \subseteq messages' /\ forgotten \subseteq forgotten'
  /\ UNCHANGED <<proc, rows, state, worker, ghosts>>

\* What was sent since a channel was paged is not the worker's to store.
LEMMA GuildGoesOnKeepsInv ==
  ASSUME BackfillInv, GuildGoesOn
  PROVE  BackfillInv'
<1>1. /\ UNCHANGED <<proc, rows, worker, reach, lost>>
      /\ TypeInv /\ ReachInv /\ DOMAIN history \subseteq Nat \ {0}
  BY DEF GuildGoesOn, ghosts, BackfillInv, TypeInv
<1>2. ASSUME NEW c \in Channels, NEW i \in Ids(c)', i <= reach[c]
      PROVE  i \in Ids(c) /\ history'[i] = history[i]
  <2>1. i \in DOMAIN history' /\ i \in Nat \ {0} /\ history'[i].in = c
    BY DEF Ids, GuildGoesOn
  <2>2. i \in DOMAIN history
    <3>1. reach[c] # 0
      BY <1>2, <2>1
    <3>2. reach[c] \in DOMAIN history /\ reach[c] \in Nat
      BY <1>1, <3>1 DEF ReachInv
    <3> QED
      BY <1>2, <2>1, <3>2 DEF GuildGoesOn
  <2> QED
    BY <2>1, <2>2 DEF Ids, GuildGoesOn
<1>3. ASSUME NEW c \in Channels, NEW low, Covered(c, low) PROVE Covered(c, low)'
  <2> SUFFICES ASSUME NEW i \in Ids(c)', Wanted(i)', i <= reach[c], low <= i
               PROVE  i \in messages'
    BY <1>1 DEF Covered
  <2>1. i \in Ids(c) /\ Wanted(i)
    BY <1>1, <1>2 DEF Wanted, KeepBackfill, GuildGoesOn
  <2> QED
    BY <1>3, <2>1 DEF Covered, GuildGoesOn
<1>4. TypeInv' /\ ReachInv' /\ ListInv'
  BY <1>1 DEF GuildGoesOn, BackfillInv, TypeInv, ReachInv, ListInv, InList, InChannel, Paging
<1>5. RowsInv'
  BY <1>1, <1>3 DEF BackfillInv, RowsInv
<1>6. Current' = Current /\ Listed' = Listed
  BY <1>1 DEF Current, Listed
<1>7. ASSUME InChannel
      PROVE  HeadInv' /\ CursorInv' /\ PageInv' /\ EndInv'
  <2>1. worker.list # <<>>
    BY <1>7 DEF BackfillInv, HeadInv
  <2>2. PICK cur \in Channels, listed \in Row, low \in Nat :
          cur = Current /\ listed = Listed /\ low = worker.oldest
    BY <1>1, <2>1, HeadIsFirst DEF TypeInv
  <2>3. Current' = cur /\ Listed' = listed
    BY <1>6, <2>2
  <2>4. HeadInv'
    <3>1. listed.cursor # 0 => Covered(cur, listed.cursor)'
      BY <1>3, <1>7, <2>2 DEF BackfillInv, HeadInv
    <3> QED
      BY <1>1, <2>1, <2>2, <2>3, <3>1 DEF BackfillInv, HeadInv, InChannel, Paging, Covered
  <2>5. CursorInv'
    <3>1. Covered(cur, low) => Covered(cur, low)'
      BY <1>3
    <3> QED
      BY <1>1, <2>2, <2>3, <3>1 DEF BackfillInv, CursorInv, Paging, Cancelled, Covered
  <2>6. PageInv'
    <3> SUFFICES ASSUME worker.pc \in {"check", "insert"} PROVE PageInv'
      BY <1>1 DEF PageInv
    <3>1. \A k \in DOMAIN worker.page : worker.page[k] \in Ids(cur)'
      BY <2>2 DEF BackfillInv, PageInv, Ids, GuildGoesOn
    <3>2. \A i \in Ids(cur)' : i <= reach[cur] => i \in Ids(cur)
      BY <1>2
    <3> QED
      BY <1>1, <2>2, <2>3, <3>1, <3>2 DEF BackfillInv, PageInv
  <2>7. EndInv'
    <3>1. Covered(cur, 0) => Covered(cur, 0)'
      BY <1>3
    <3>2. \A i \in Ids(cur)' : i <= reach[cur] => i \in Ids(cur)
      BY <1>2
    <3> QED
      BY <1>1, <2>2, <2>3, <3>1, <3>2 DEF BackfillInv, EndInv, Covered
  <2> QED
    BY <2>4, <2>5, <2>6, <2>7
<1>8. ASSUME ~InChannel
      PROVE  HeadInv' /\ CursorInv' /\ PageInv' /\ EndInv'
  BY <1>1, <1>8 DEF HeadInv, CursorInv, PageInv, EndInv, InChannel, Paging
<1> QED
  BY <1>4, <1>5, <1>7, <1>8 DEF BackfillInv

-----------------------------------------------------------------------------
(* The types.                                                              *)

\* Every cursor, and every copy of one, is the id of a message or unset.
Marks == {0} \cup DOMAIN history

MarkInv ==
  /\ \A c \in Channels : rows[c].cursor \in Marks
  /\ \A k \in DOMAIN worker.list : worker.list[k].row.cursor \in Marks
  /\ worker.row.cursor \in Marks /\ worker.oldest \in Marks
  /\ messages \subseteq DOMAIN history /\ lost \subseteq DOMAIN history

\* A run counts no more channels than it has listed, and lists no more than there are.
CountInv ==
  /\ proc \in {"up", "stopping", "down"} /\ faults \in 0..MaxFaults
  /\ state \in StateType /\ worker.state \in StateType
  /\ state.done <= state.total /\ worker.state.done <= worker.state.total
  /\ InList => worker.state.done + Len(worker.list) <= worker.state.total

LEMMA TypesAreOK ==
  ASSUME BackfillInv, MarkInv, CountInv, Len(history) \in Nat, DOMAIN history = 1..Len(history)
  PROVE  TypeOK
<1>1. \A x \in Marks : x \in 0..Len(history)
  BY DEF Marks
<1>2. \A row \in Row : row.cursor \in Marks => row \in RowType
  BY <1>1 DEF Row, RowType
<1>3. rows \in [Channels -> RowType] /\ worker.row \in RowType
  BY <1>2 DEF BackfillInv, TypeInv, MarkInv
<1>4. reach \in [Channels -> 0..Len(history)]
  <2>1. \A c \in Channels : reach[c] \in 0..Len(history)
    BY DEF BackfillInv, ReachInv
  <2> QED
    BY <2>1 DEF BackfillInv, TypeInv
<1> QED
  BY <1>1, <1>3, <1>4 DEF TypeOK, MarkInv, CountInv

\* The list is a first part of the open channels, each once.
LEMMA OpenRowsAre ==
  ASSUME NEW s \in OpenRows
  PROVE  LET open == {c \in Channels : rows[c].exists /\ ~rows[c].done}
             m == Cardinality(open)
         IN  /\ m \in Nat /\ m <= Cardinality(Channels) /\ Len(s) = m
             /\ \A k \in 1..m : s[k] \in open
<1> DEFINE open == {c \in Channels : rows[c].exists /\ ~rows[c].done}
<1>1. IsFiniteSet(Channels) /\ open \subseteq Channels
  BY BackfillAssumption
<1>2. IsFiniteSet(open) /\ Cardinality(open) \in Nat /\ Cardinality(open) <= Cardinality(Channels)
  BY <1>1, FS_Subset, FS_CardinalityType
<1>3. s \in [1..Cardinality(open) -> open]
  BY <1>2 DEF OpenRows, SetToSeqs
<1>4. Len(s) = Cardinality(open)
  BY <1>2, <1>3
<1> QED
  BY <1>2, <1>3, <1>4

LEMMA ListedRows ==
  ASSUME BackfillInv, ListChannels, ~GoOn("finish")
  PROVE  \E s \in OpenRows, n \in Nat :
           /\ n <= Cardinality({c \in Channels : rows[c].exists /\ ~rows[c].done})
           /\ worker'.list = [k \in 1..n |-> [channel |-> s[k], row |-> rows[s[k]]]]
           /\ worker'.row = worker.row /\ worker'.oldest = worker.oldest
           /\ worker'.pc = "total"
           /\ worker'.state = [worker.state EXCEPT !.total = n, !.done = 0]
<1>1. PICK s \in OpenRows :
        LET n == IF Len(s) < ListLimit THEN Len(s) ELSE ListLimit
        IN  worker' = [worker EXCEPT
             !.pc = "total",
             !.list = [k \in 1..n |-> [channel |-> s[k], row |-> rows[s[k]]]],
             !.state.total = n,
             !.state.done = 0]
  BY DEF ListChannels
<1> DEFINE n == IF Len(s) < ListLimit THEN Len(s) ELSE ListLimit
           m == Cardinality({c \in Channels : rows[c].exists /\ ~rows[c].done})
<1>2. Len(s) = m /\ m \in Nat /\ ListLimit \in Nat
  BY OpenRowsAre, BackfillAssumption
<1>3. n \in Nat /\ n <= m
  BY <1>2
<1>4. /\ worker'.list = [k \in 1..n |-> [channel |-> s[k], row |-> rows[s[k]]]]
      /\ worker'.row = worker.row /\ worker'.oldest = worker.oldest
      /\ worker'.pc = "total"
      /\ worker'.state = [worker.state EXCEPT !.total = n, !.done = 0]
  BY <1>1 DEF BackfillInv, TypeInv
<1> QED
  BY <1>3, <1>4

LEMMA MarkStep ==
  ASSUME BackfillInv, MarkInv, [Next]_vars
  PROVE  MarkInv'
<1>1. 0 \in Marks /\ NoRow.cursor = 0 /\ NewRow.cursor = 0
  BY DEF Marks, NoRow, NewRow
<1>2. Marks' = Marks
  BY DEF Next, Work, Start, Seed, ListChannels, SaveTotal, NextChannel, OpenChannel, Fetch,
    Check, Insert, SaveCursor, ChannelFailed, SaveDone, CountChannel, Interrupted, Finish,
    Shutdown, ForgetAuthor, Exit, Crash, Boot, vars, Marks
<1> USE DEF BackfillInv, TypeInv
<1>3. CASE Start \/ Interrupted \/ Finish \/ SaveTotal \/ NextChannel
  BY <1>2, <1>3 DEF Start, Interrupted, Finish, SaveTotal, NextChannel, GoOn, tables, ghosts, MarkInv
<1>4. CASE Seed
  BY <1>1, <1>2, <1>4 DEF Seed, GoOn, ghosts, MarkInv
<1>5. CASE ListChannels
  <2>1. UNCHANGED <<history, rows, messages, lost>>
    BY <1>5 DEF ListChannels, tables
  <2>2. CASE GoOn("finish")
    BY <1>2, <2>1, <2>2 DEF GoOn, MarkInv
  <2>3. CASE ~GoOn("finish")
    <3>1. PICK s \in OpenRows, n \in Nat :
            /\ n <= Cardinality({c \in Channels : rows[c].exists /\ ~rows[c].done})
            /\ worker'.list = [k \in 1..n |-> [channel |-> s[k], row |-> rows[s[k]]]]
            /\ worker'.row = worker.row /\ worker'.oldest = worker.oldest
      BY <1>5, <2>3, ListedRows
    <3>2. \A k \in 1..n : s[k] \in Channels
      <4> DEFINE open == {c \in Channels : rows[c].exists /\ ~rows[c].done}
      <4>1. Cardinality(open) \in Nat /\ \A k \in 1..Cardinality(open) : s[k] \in open
        BY OpenRowsAre
      <4>2. \A k \in 1..n : k \in 1..Cardinality(open)
        BY <3>1, <4>1
      <4> QED
        BY <4>1, <4>2
    <3> QED
      BY <1>2, <2>1, <3>1, <3>2 DEF MarkInv
  <2> QED
    BY <2>2, <2>3
<1>6. CASE OpenChannel
  <2>1. rows[Current].cursor \in Marks
    BY <1>6, HeadIsFirst DEF OpenChannel, At, HeadInv, InChannel, MarkInv
  <2> QED
    BY <1>2, <1>6, <2>1 DEF OpenChannel, GoOn, tables, ghosts, MarkInv
<1>7. CASE Fetch
  BY <1>2, <1>7 DEF Fetch, GoOn, tables, MarkInv
<1>8. CASE Check \/ Insert
  <2>1. Msg \in DOMAIN history
    <3>1. worker.page \in Seq(Nat) /\ worker.page # <<>>
      BY <1>8 DEF Check, Insert, At, PageInv
    <3>2. Msg = worker.page[1] /\ 1 \in DOMAIN worker.page
      BY <3>1, SeqElements DEF Msg
    <3> QED
      BY <1>8, <3>2 DEF Check, Insert, At, PageInv, Ids
  <2>2. Msg \in Marks
    BY <2>1 DEF Marks
  <2>3. /\ worker'.list = worker.list /\ worker'.row = worker.row
        /\ worker'.oldest \in {worker.oldest, Msg}
    BY <1>8 DEF Check, Insert, Passed
  <2>4. /\ UNCHANGED <<rows, history>> /\ messages' \subseteq messages \cup {Msg}
        /\ lost' \subseteq lost \cup {Msg}
    BY <1>8 DEF Check, Insert, tables
  <2> QED
    BY <1>2, <2>1, <2>2, <2>3, <2>4 DEF MarkInv
<1>9. CASE SaveCursor \/ ChannelFailed \/ SaveDone \/ CountChannel
  <2>1. worker.list # <<>>
    BY <1>9 DEF SaveCursor, ChannelFailed, SaveDone, CountChannel, At, HeadInv, InChannel, Paging
  <2>2. PICK cur \in Channels, listed \in Row :
          cur = Current /\ listed = Listed /\ listed.cursor \in Marks
    BY <2>1, HeadIsFirst DEF MarkInv
  <2>3. PICK moved, failed, finished :
          /\ moved = [worker.row EXCEPT !.cursor = worker.oldest] /\ moved.cursor \in Marks
          /\ failed = [listed EXCEPT !.error = TRUE] /\ failed.cursor \in Marks
          /\ finished = [listed EXCEPT !.done = TRUE] /\ finished.cursor \in Marks
    <3>1. /\ [worker.row EXCEPT !.cursor = worker.oldest].cursor \in Marks
          /\ [listed EXCEPT !.error = TRUE].cursor \in Marks
          /\ [listed EXCEPT !.done = TRUE].cursor \in Marks
      BY <2>2 DEF MarkInv, Row
    <3> QED
      BY <3>1
  <2>4. \/ rows' = rows
        \/ \E row \in {moved, failed, finished} : rows' = [rows EXCEPT ![cur] = row]
    BY <1>9, <2>2, <2>3 DEF SaveCursor, ChannelFailed, SaveDone, CountChannel
  <2>5. \A c \in Channels : rows'[c].cursor \in Marks
    BY <2>3, <2>4 DEF MarkInv
  <2>6. /\ worker'.list \in {worker.list, Tail(worker.list)} /\ worker'.oldest = worker.oldest
        /\ worker'.row \in {worker.row, moved} /\ UNCHANGED <<messages, lost, history>>
    BY <1>9, <2>3 DEF SaveCursor, ChannelFailed, SaveDone, CountChannel, GoOn, ghosts
  <2>7. \A k \in DOMAIN Tail(worker.list) :
          k + 1 \in DOMAIN worker.list /\ Tail(worker.list)[k] = worker.list[k + 1]
    BY <2>1, TailElements
  <2>8. \A k \in DOMAIN worker'.list : worker'.list[k].row.cursor \in Marks
    BY <2>6, <2>7 DEF MarkInv
  <2> QED
    BY <1>2, <2>3, <2>5, <2>6, <2>8 DEF MarkInv
<1>10. CASE Exit \/ Crash \/ Boot
  <2>1. worker'.list = <<>> /\ worker'.row = NoRow /\ worker'.oldest = 0
    BY <1>10 DEF Exit, Crash, Boot, Off
  <2> QED
    BY <1>1, <1>2, <1>10, <2>1 DEF Exit, Crash, Boot, tables, ghosts, MarkInv
<1>11. CASE Shutdown \/ \E a \in {history[i].by : i \in DOMAIN history} : ForgetAuthor(a)
  BY <1>2, <1>11 DEF Shutdown, ForgetAuthor, tables, ghosts, MarkInv
<1>12. CASE UNCHANGED vars
  BY <1>2, <1>12 DEF vars, tables, ghosts, MarkInv
<1> QED
  BY <1>3, <1>4, <1>5, <1>6, <1>7, <1>8, <1>9, <1>10, <1>11, <1>12 DEF Next, Work

\* States of a run that never say more channels are done than there are.
GoodStates == {st \in StateType : st.done <= st.total}

LEMMA CountStep ==
  ASSUME BackfillInv, CountInv, [Next]_vars
  PROVE  CountInv'
<1>n. Cardinality(Channels) \in Nat
  BY BackfillAssumption, FS_CardinalityType
<1>m. MaxFaults \in Nat
  BY BackfillAssumption
<1>f. faults' \in 0..MaxFaults /\ proc' \in {"up", "stopping", "down"}
  <2>1. \/ faults' = faults
        \/ faults < MaxFaults /\ faults' = faults + 1
    BY DEF Next, Work, Start, Seed, ListChannels, SaveTotal, NextChannel, OpenChannel, Fetch,
      Check, Insert, SaveCursor, ChannelFailed, SaveDone, CountChannel, Interrupted, Finish,
      Shutdown, ForgetAuthor, Exit, Crash, Boot, vars, Answers, Errs, DetachedErrs
  <2>2. proc' \in {proc, "up", "stopping", "down"}
    BY DEF Next, Work, Start, Seed, ListChannels, SaveTotal, NextChannel, OpenChannel, Fetch,
      Check, Insert, SaveCursor, ChannelFailed, SaveDone, CountChannel, Interrupted, Finish,
      Shutdown, ForgetAuthor, Exit, Crash, Boot, vars
  <2> QED
    BY <1>m, <2>1, <2>2 DEF CountInv
<1>w. /\ worker = [pc |-> worker.pc, state |-> worker.state, list |-> worker.list,
               row |-> worker.row, oldest |-> worker.oldest, page |-> worker.page,
               full |-> worker.full]
      /\ worker.list \in Seq([channel : Channels, row : Row])
      /\ Len(worker.list) \in Nat
  <2>1. worker.list \in Seq([channel : Channels, row : Row])
    BY DEF BackfillInv, TypeInv
  <2>2. Len(worker.list) \in Nat
    BY <2>1, LenProperties
  <2> QED
    BY <2>1, <2>2 DEF BackfillInv, TypeInv
<1>g. /\ state \in GoodStates /\ worker.state \in GoodStates
      /\ InList => worker.state.done + Len(worker.list) <= worker.state.total
  BY DEF CountInv, GoodStates
<1>c. ASSUME state' \in GoodStates, worker'.state \in GoodStates,
             InList' => worker'.state.done + Len(worker'.list) <= worker'.state.total
      PROVE  CountInv'
  BY <1>c, <1>f DEF CountInv, GoodStates
<1>s. ASSUME NEW st, st \in GoodStates
      PROVE  /\ st.done \in Nat /\ st.total \in Nat
             /\ \A status \in {"none", "idle", "running", "done", "failed"} :
                  [st EXCEPT !.status = status] \in GoodStates
  BY <1>n, <1>s DEF StateType, GoodStates
<1>1. CASE Start \/ Interrupted \/ Finish
  <2>1. ~InList'
    BY <1>w, <1>1 DEF Start, Interrupted, Finish, GoOn, InList, InChannel, Paging
  <2> DEFINE Statuses == {"none", "idle", "running", "done", "failed"}
             Renamed == {state, worker.state}
                          \cup {[state EXCEPT !.status = status] : status \in Statuses}
                          \cup {[worker.state EXCEPT !.status = status] : status \in Statuses}
  <2>r. Renamed \subseteq GoodStates
    <3>1. PICK st : st = state /\ st \in GoodStates
      BY <1>g
    <3>2. PICK wst : wst = worker.state /\ wst \in GoodStates
      BY <1>g
    <3>3. \A status \in Statuses : [st EXCEPT !.status = status] \in GoodStates
      BY <1>s, <3>1
    <3>4. \A status \in Statuses : [wst EXCEPT !.status = status] \in GoodStates
      BY <1>s, <3>2
    <3> QED
      BY <3>1, <3>2, <3>3, <3>4, Zenon
  <2>2. worker'.state \in Renamed /\ state' \in Renamed
    BY <1>w, <1>1 DEF Start, Interrupted, Finish, GoOn
  <2> HIDE DEF Renamed
  <2>3. worker'.state \in GoodStates
    BY <2>r, <2>2
  <2>4. state' \in GoodStates
    BY <2>r, <2>2
  <2> QED
    BY <1>c, <2>1, <2>3, <2>4
<1>2. CASE Seed \/ SaveTotal \/ NextChannel \/ OpenChannel \/ Fetch \/ Check \/ Insert
           \/ SaveCursor \/ SaveDone
  <2>1. /\ worker'.state = worker.state /\ worker'.list = worker.list
        /\ state' \in {state, worker.state}
        /\ InList' => InList
    BY <1>w, <1>2 DEF Seed, SaveTotal, NextChannel, OpenChannel, Fetch, Check, Insert,
      SaveCursor, SaveDone, At, GoOn, Passed, tables, InList, InChannel, Paging
  <2>2. worker'.state \in GoodStates
    BY <1>g, <2>1
  <2>3. state' \in GoodStates
    <3>1. CASE state' = state
      BY <1>g, <3>1
    <3>2. CASE state' = worker.state
      BY <1>g, <3>2
    <3> QED
      BY <2>1, <3>1, <3>2
  <2>4. ASSUME InList'
        PROVE  worker'.state.done + Len(worker'.list) <= worker'.state.total
    <3>1. InList
      BY <2>1, <2>4
    <3>2. worker.state.done + Len(worker.list) <= worker.state.total
      BY <1>g, <3>1
    <3> QED
      BY <2>1, <3>2
  <2> QED
    BY <1>c, <2>2, <2>3, <2>4
<1>3. CASE ListChannels
  <2>1. UNCHANGED state
    BY <1>3 DEF ListChannels, tables
  <2>2. CASE GoOn("finish")
    BY <1>c, <1>g, <1>w, <2>1, <2>2 DEF GoOn, InList, InChannel, Paging
  <2>3. CASE ~GoOn("finish")
    <3>1. PICK s \in OpenRows, n \in Nat :
            /\ n <= Cardinality({c \in Channels : rows[c].exists /\ ~rows[c].done})
            /\ worker'.list = [k \in 1..n |-> [channel |-> s[k], row |-> rows[s[k]]]]
            /\ worker'.state = [worker.state EXCEPT !.total = n, !.done = 0]
      BY <1>3, <2>3, ListedRows
    <3>2. n <= Cardinality(Channels)
      <4> DEFINE m == Cardinality({c \in Channels : rows[c].exists /\ ~rows[c].done})
      <4>1. m \in Nat /\ m <= Cardinality(Channels) /\ n <= m
        BY <3>1, OpenRowsAre
      <4> HIDE DEF m
      <4> QED
        BY <1>n, <4>1
    <3>3. Len(worker'.list) = n
      BY <3>1
    <3>4. PICK st : st = worker.state /\ st \in StateType
      BY <1>g DEF GoodStates
    <3>5. worker'.state = [st EXCEPT !.total = n, !.done = 0]
      BY <3>1, <3>4
    <3>6. worker'.state \in StateType /\ worker'.state.done = 0 /\ worker'.state.total = n
      <4>1. st = [status |-> st.status, total |-> st.total, done |-> st.done]
        BY <3>4 DEF StateType
      <4>2. worker'.state = [status |-> st.status, total |-> n, done |-> 0]
        BY <3>5, <4>1
      <4>3. n \in 0..Cardinality(Channels) /\ 0 \in 0..Cardinality(Channels)
        BY <1>n, <3>1, <3>2
      <4> QED
        BY <3>4, <4>2, <4>3 DEF StateType
    <3>7. worker'.state \in GoodStates
      BY <3>6 DEF GoodStates
    <3> QED
      BY <1>c, <1>g, <2>1, <3>3, <3>6, <3>7
  <2> QED
    BY <2>2, <2>3
<1>4. CASE ChannelFailed \/ CountChannel
  <2>1. InList /\ worker.list # <<>>
    BY <1>4 DEF ChannelFailed, CountChannel, At, BackfillInv, HeadInv, InList, InChannel
  <2>2. Len(Tail(worker.list)) = Len(worker.list) - 1 /\ 1 <= Len(worker.list)
    <3>1. Len(worker.list) # 0
      BY <1>w, <2>1, EmptySeq
    <3>2. Len(Tail(worker.list)) = Len(worker.list) - 1
      BY <1>w, <2>1, HeadTailProperties
    <3> QED
      BY <1>w, <3>1, <3>2
  <2>3. CASE ChannelFailed
    <3>1. /\ worker'.state = worker.state /\ state' = state
          /\ \/ ~InList'
             \/ worker'.list = Tail(worker.list)
      BY <1>w, <2>3 DEF ChannelFailed, GoOn, InList, InChannel, Paging
    <3>2. worker.state.done \in Nat /\ worker.state.total \in Nat
      BY <1>g, <1>s
    <3>3. InList' => worker'.state.done + Len(worker'.list) <= worker'.state.total
      BY <1>g, <1>w, <2>1, <2>2, <3>1, <3>2
    <3> QED
      BY <1>c, <1>g, <3>1, <3>3
  <2>4. CASE CountChannel
    <3>1. PICK st \in StateType : st = worker.state
      BY <1>g DEF GoodStates
    <3>2. PICK counted : counted = [st EXCEPT !.done = @ + 1]
      OBVIOUS
    <3>3. /\ worker'.state = counted /\ state' \in {state, counted}
          /\ worker'.list = Tail(worker.list)
      BY <1>w, <2>4, <3>1, <3>2 DEF CountChannel
    <3>4. st.done + Len(worker.list) <= st.total /\ st.done \in Nat /\ st.total \in Nat
      BY <1>g, <1>s, <2>1, <3>1
    <3>5. counted \in StateType /\ counted.done = st.done + 1 /\ counted.total = st.total
          /\ counted.done <= st.total
      BY <1>n, <1>w, <2>2, <3>2, <3>4 DEF StateType
    <3>6. counted.done + Len(Tail(worker.list)) <= counted.total
      BY <1>w, <2>2, <3>4, <3>5
    <3>7. counted \in GoodStates
      BY <3>5 DEF GoodStates
    <3> QED
      BY <1>c, <1>g, <3>3, <3>6, <3>7
  <2> QED
    BY <1>4, <2>3, <2>4
<1>5. CASE Exit \/ Crash \/ Boot
  <2>1. ~InList' /\ worker'.state = NoState /\ state' = state
    BY <1>5 DEF Exit, Crash, Boot, Off, tables, InList, InChannel, Paging
  <2>2. NoState \in StateType /\ NoState.done = 0 /\ NoState.total = 0
    BY <1>n DEF NoState, StateType
  <2> QED
    BY <1>c, <1>g, <2>1, <2>2 DEF GoodStates
<1>6. CASE \/ Shutdown \/ \E a \in {history[i].by : i \in DOMAIN history} : ForgetAuthor(a)
           \/ UNCHANGED vars
  <2>1. UNCHANGED <<worker, state>>
    BY <1>6 DEF Shutdown, ForgetAuthor, vars, tables
  <2> QED
    BY <1>c, <1>g, <2>1 DEF InList, InChannel, Paging
<1> QED
  BY <1>1, <1>2, <1>3, <1>4, <1>5, <1>6 DEF Next, Work

LEMMA InitTyped ==
  ASSUME Init
  PROVE  MarkInv /\ CountInv
<1>1. Cardinality(Channels) \in Nat /\ MaxFaults \in Nat
  BY BackfillAssumption, FS_CardinalityType
<1>2. MarkInv
  BY DEF Init, Off, NoRow, MarkInv, Marks
<1>3. NoState \in StateType /\ NoState.done = 0 /\ NoState.total = 0
  BY <1>1 DEF NoState, StateType
<1> QED
  BY <1>1, <1>2, <1>3 DEF Init, Off, CountInv, InList, InChannel, Paging

\* The types hold in every reachable state: every cursor and every copy of one is the
\* id of a message, and a run counts no more channels than it has listed.
THEOREM BackfillIsTyped == Spec => []TypeOK
<1> DEFINE Typed == /\ MarkInv /\ CountInv
                    /\ Len(history) \in Nat /\ DOMAIN history = 1..Len(history)
<1>1. Init => Typed
  BY InitTyped, BackfillAssumption DEF Init
<1>2. BackfillInv /\ Typed /\ [Next]_vars => Typed'
  <2> SUFFICES ASSUME BackfillInv, Typed, [Next]_vars PROVE Typed'
    OBVIOUS
  <2>1. history' = history
    BY DEF Next, Work, Start, Seed, ListChannels, SaveTotal, NextChannel, OpenChannel, Fetch,
      Check, Insert, SaveCursor, ChannelFailed, SaveDone, CountChannel, Interrupted, Finish,
      Shutdown, ForgetAuthor, Exit, Crash, Boot, vars
  <2> QED
    BY <2>1, MarkStep, CountStep
<1>3. BackfillInv /\ Typed => TypeOK
  BY TypesAreOK
<1> QED
  BY <1>1, <1>2, <1>3, BackfillInvHolds, PTL DEF Spec

-----------------------------------------------------------------------------
(* A cursor only ever goes back in time.                                   *)

\* A row that has a cursor exists.  In a channel that has one the worker's own
\* cursor is set and not above it.
FallInv ==
  /\ \A c \in Channels : rows[c].cursor # 0 => rows[c].exists
  /\ InList => \A k \in DOMAIN worker.list : worker.list[k].row.exists
  /\ Paging => worker.row.exists
  /\ Paging /\ rows[Current].cursor # 0 => worker.oldest \in 1..rows[Current].cursor

LEMMA FallInit ==
  ASSUME Init
  PROVE  FallInv
BY DEF Init, FallInv, NoRow, Off, InList, InChannel, Paging

\* The steps that keep the rows and do not page.
LEMMA FallElsewhere ==
  ASSUME BackfillInv, FallInv,
         \/ Start \/ Interrupted \/ Finish \/ Exit \/ Crash \/ Boot \/ Shutdown
         \/ \E a \in {history[i].by : i \in DOMAIN history} : ForgetAuthor(a)
         \/ SaveTotal \/ NextChannel \/ UNCHANGED vars
  PROVE  FallInv' /\ UNCHANGED rows
<1>1. CASE \/ Shutdown \/ \E a \in {history[i].by : i \in DOMAIN history} : ForgetAuthor(a)
           \/ UNCHANGED vars
  BY <1>1 DEF Shutdown, ForgetAuthor, vars, tables, ghosts, FallInv, Current, InList,
    InChannel, Paging
<1>2. CASE Start \/ Interrupted \/ Finish \/ Exit \/ Crash \/ Boot
  <2>1. UNCHANGED rows
    BY <1>2 DEF Start, Interrupted, Finish, Exit, Crash, Boot, tables
  <2>2. worker'.pc \in {"seed", "over", "finish", "off", "start"}
    <3>1. CASE Start \/ Interrupted \/ Finish
      BY <3>1 DEF Start, Interrupted, Finish, GoOn, BackfillInv, TypeInv
    <3>2. CASE Exit \/ Crash \/ Boot
      BY <3>2 DEF Exit, Crash, Boot, Off
    <3> QED
      BY <1>2, <3>1, <3>2
  <2> QED
    BY <2>1, <2>2 DEF FallInv, InList, InChannel, Paging
<1>3. CASE SaveTotal \/ NextChannel
  <2>1. UNCHANGED rows /\ InList /\ ~Paging' /\ worker'.list = worker.list
    BY <1>3 DEF SaveTotal, NextChannel, At, GoOn, tables, InList, InChannel, Paging,
      BackfillInv, TypeInv
  <2> QED
    BY <2>1 DEF FallInv
<1> QED
  BY <1>1, <1>2, <1>3

\* Seeding makes rows where none are, and a listed row exists.
LEMMA FallListing ==
  ASSUME BackfillInv, FallInv, Seed \/ ListChannels
  PROVE  FallInv' /\ \A c \in Channels : rows[c].cursor # 0 => rows'[c] = rows[c]
<1>1. CASE Seed
  <2>1. /\ worker'.pc = "list"
        /\ rows' = rows \/ rows' = [c \in Channels |-> IF rows[c].exists THEN rows[c] ELSE NewRow]
    BY <1>1 DEF Seed, GoOn, BackfillInv, TypeInv
  <2> QED
    BY <2>1 DEF FallInv, NewRow, InList, InChannel, Paging
<1>2. CASE ListChannels /\ worker'.pc # "total"
  BY <1>2 DEF ListChannels, tables, GoOn, FallInv, InList, InChannel, Paging, BackfillInv, TypeInv
<1>3. CASE ListChannels /\ worker'.pc = "total"
  <2>1. PICK s \in OpenRows :
          \E n \in {IF Len(s) < ListLimit THEN Len(s) ELSE ListLimit} :
            worker'.list = [k \in 1..n |-> [channel |-> s[k], row |-> rows[s[k]]]]
    BY <1>3 DEF ListChannels, GoOn, BackfillInv, TypeInv
  <2> DEFINE n == IF Len(s) < ListLimit THEN Len(s) ELSE ListLimit
             open == {c \in Channels : rows[c].exists /\ ~rows[c].done}
  <2>0. worker'.list = [k \in 1..n |-> [channel |-> s[k], row |-> rows[s[k]]]]
    BY <2>1
  <2>2. IsFiniteSet(open)
    BY FS_Subset, BackfillAssumption
  <2>3. s \in [1..Cardinality(open) -> open] /\ Cardinality(open) \in Nat
    BY <2>2, FS_CardinalityType DEF OpenRows, SetToSeqs
  <2>4. n \in Nat /\ n <= Cardinality(open)
    <3>1. Len(s) = Cardinality(open)
      BY <2>3
    <3> QED
      BY <2>1, <2>3, <3>1, BackfillAssumption
  <2>5. \A k \in 1..n : rows[s[k]].exists
    <3>1. \A k \in 1..n : s[k] \in open
      BY <2>3, <2>4
    <3> QED
      BY <3>1
  <2>6. \A k \in DOMAIN worker'.list : worker'.list[k].row.exists
    BY <2>0, <2>5
  <2> QED
    BY <1>3, <2>6 DEF ListChannels, tables, FallInv, Paging
<1> QED
  BY <1>1, <1>2, <1>3

\* Paging goes down from the cursor of the row.
LEMMA FallPaging ==
  ASSUME BackfillInv, FallInv, OpenChannel \/ Fetch \/ Check \/ Insert
  PROVE  FallInv' /\ UNCHANGED rows
<1>1. UNCHANGED rows /\ worker'.list = worker.list /\ InChannel /\ InList
  BY DEF OpenChannel, Fetch, Check, Insert, Passed, GoOn, At, tables, InList, InChannel,
    Paging, BackfillInv, TypeInv
<1>2. Current' = Current /\ Current \in Channels /\ rows[Current] \in Row
  BY <1>1, HeadIsFirst DEF Current, BackfillInv, HeadInv, TypeInv
<1>3. /\ Paging' => worker'.row.exists
      /\ Paging' /\ rows[Current].cursor # 0 => worker'.oldest \in 1..rows[Current].cursor
  <2>1. CASE OpenChannel
    <3>1. Paging' => worker'.row = rows[Current] /\ worker'.oldest = rows[Current].cursor
      BY <2>1 DEF OpenChannel, GoOn, Paging, BackfillInv, TypeInv
    <3>2. rows[Current] = Listed /\ Listed = worker.list[1].row /\ 1 \in DOMAIN worker.list
      BY <1>1, <2>1, HeadIsFirst DEF OpenChannel, At, BackfillInv, HeadInv, ListInv, Paging
    <3> QED
      BY <1>1, <1>2, <3>1, <3>2 DEF FallInv, Row
  <2>2. CASE Fetch
    BY <2>2 DEF Fetch, At, GoOn, FallInv, Paging, BackfillInv, TypeInv
  <2>3. CASE worker' = Passed /\ (Check \/ Insert)
    <3>1. /\ Paging /\ worker'.row = worker.row
          /\ worker'.oldest = IF worker.oldest = 0 \/ Msg < worker.oldest
                              THEN Msg ELSE worker.oldest
      BY <2>3 DEF Check, Insert, At, Paging, Passed, BackfillInv, TypeInv
    <3>2. Msg \in Nat \ {0}
      <4>1. worker.page \in Seq(Nat) /\ worker.page # <<>>
        BY <2>3 DEF Check, Insert, At, BackfillInv, TypeInv, PageInv
      <4>2. Msg = worker.page[1] /\ 1 \in DOMAIN worker.page
        BY <4>1, SeqElements DEF Msg
      <4>3. Msg \in Ids(Current)
        BY <2>3, <4>2 DEF Check, Insert, At, BackfillInv, PageInv
      <4> QED
        BY <4>3 DEF Ids, BackfillInv, TypeInv
    <3>3. worker.oldest = 0 => rows[Current].cursor = 0
      BY <3>1 DEF BackfillInv, CursorInv
    <3> QED
      BY <1>2, <3>1, <3>2, <3>3 DEF FallInv, BackfillInv, TypeInv, Row
  <2>4. CASE Check /\ worker' = [worker EXCEPT !.pc = "insert"]
    BY <2>4 DEF Check, At, FallInv, Paging, BackfillInv, TypeInv
  <2> QED
    BY <2>1, <2>2, <2>3, <2>4 DEF Check, Insert
<1> QED
  BY <1>1, <1>2, <1>3 DEF FallInv

\* The row takes the worker's cursor, or it is marked as failed or done.
LEMMA FallSaving ==
  ASSUME BackfillInv, FallInv, SaveCursor \/ ChannelFailed \/ SaveDone \/ CountChannel
  PROVE  /\ FallInv'
         /\ \A c \in Channels :
              \/ rows'[c] = rows[c] \/ rows'[c].error \/ rows'[c].done
              \/ rows[c].cursor # 0 => rows'[c].cursor \in 1..rows[c].cursor
<1>1. /\ InChannel /\ InList /\ worker.list # <<>> /\ worker.pc # "open"
      /\ Current \in Channels /\ Listed \in Row
      /\ 1 \in DOMAIN worker.list /\ Listed = worker.list[1].row
  BY HeadIsFirst DEF SaveCursor, ChannelFailed, SaveDone, CountChannel, At, InList,
    InChannel, Paging, BackfillInv, HeadInv
<1>2. PICK cur \in Channels, listed \in Row : cur = Current /\ listed = Listed /\ listed.exists
  BY <1>1 DEF FallInv
<1>3. CASE SaveCursor
  <2> DEFINE moved == [worker.row EXCEPT !.cursor = worker.oldest]
  <2>1. moved \in Row /\ moved.exists /\ moved.cursor = worker.oldest
    BY <1>3 DEF SaveCursor, At, Paging, FallInv, BackfillInv, TypeInv, Row
  <2>2. /\ worker'.list = worker.list /\ worker'.oldest = worker.oldest
        /\ worker'.row = worker.row \/ worker'.row = moved
        /\ Paging /\ worker.pc = "page"
    BY <1>3 DEF SaveCursor, At, GoOn, Paging, BackfillInv, TypeInv
  <2>3. rows' = rows \/ rows' = [rows EXCEPT ![cur] = moved]
    BY <1>2, <1>3 DEF SaveCursor
  <2> HIDE DEF moved
  <2>4. rows[cur].cursor # 0 => moved.cursor \in 1..rows[cur].cursor
    BY <1>2, <2>1, <2>2 DEF FallInv
  <2>5. worker.oldest \in Nat \ {0} /\ Current' = cur
    BY <1>2, <2>2 DEF BackfillInv, TypeInv, EndInv, Current
  <2>6. \A c \in Channels : \/ rows'[c] = rows[c]
                            \/ c = cur /\ rows'[c] = moved
    BY <2>3 DEF BackfillInv, TypeInv
  <2>7. rows'[cur].cursor # 0 => worker'.oldest \in 1..rows'[cur].cursor
    <3>1. CASE rows'[cur] = rows[cur]
      BY <1>2, <2>2, <3>1 DEF FallInv
    <3>2. CASE rows'[cur] = moved
      BY <2>1, <2>2, <2>5, <3>2
    <3> QED
      BY <2>6, <3>1, <3>2
  <2> QED
    BY <1>1, <2>1, <2>2, <2>4, <2>5, <2>6, <2>7 DEF FallInv
<1>4. CASE ChannelFailed \/ SaveDone \/ CountChannel
  <2>1. ~Paging'
    BY <1>4 DEF ChannelFailed, SaveDone, CountChannel, GoOn, Paging, BackfillInv, TypeInv
  <2>2. worker'.list = worker.list \/ worker'.list = Tail(worker.list)
    BY <1>4 DEF ChannelFailed, SaveDone, CountChannel, GoOn, BackfillInv, TypeInv
  <2>3. \A k \in DOMAIN worker'.list : worker'.list[k].row.exists
    <3>1. \A k \in DOMAIN Tail(worker.list) :
            k + 1 \in DOMAIN worker.list /\ Tail(worker.list)[k] = worker.list[k + 1]
      BY <1>1, TailElements DEF BackfillInv, TypeInv
    <3> QED
      BY <1>1, <2>2, <3>1 DEF FallInv
  <2>4. PICK failed, finished :
          /\ failed = [listed EXCEPT !.error = TRUE] /\ failed.exists /\ failed.error
          /\ finished = [listed EXCEPT !.done = TRUE] /\ finished.exists /\ finished.done
    <3>1. /\ [listed EXCEPT !.error = TRUE].exists /\ [listed EXCEPT !.error = TRUE].error
          /\ [listed EXCEPT !.done = TRUE].exists /\ [listed EXCEPT !.done = TRUE].done
      BY <1>2 DEF Row
    <3> QED
      BY <3>1
  <2>5. \/ rows' = rows
        \/ rows' = [rows EXCEPT ![cur] = failed]
        \/ rows' = [rows EXCEPT ![cur] = finished]
    BY <1>2, <1>4, <2>4 DEF ChannelFailed, SaveDone, CountChannel
  <2>6. \A c \in Channels : rows'[c] = rows[c] \/ rows'[c] = failed \/ rows'[c] = finished
    BY <2>5 DEF BackfillInv, TypeInv
  <2> QED
    BY <2>1, <2>3, <2>4, <2>6 DEF FallInv
<1> QED
  BY <1>3, <1>4

\* Whatever fails and however often the bot is restarted, no step sets a cursor
\* forward in time, or back to nothing, but an error of its channel.
THEOREM CursorsFall == Spec => CursorIsKept
<1> DEFINE Falls ==
      \A c \in Channels :
        rows[c].cursor # 0 /\ ~rows'[c].error /\ ~rows'[c].done =>
          rows'[c].cursor \in 1..rows[c].cursor
<1>1. BackfillInv /\ FallInv /\ [Next]_vars => FallInv' /\ Falls
  <2> SUFFICES ASSUME BackfillInv, FallInv, [Next]_vars PROVE FallInv' /\ Falls
    OBVIOUS
  <2>0. \A c \in Channels : rows[c].cursor \in Nat
    BY DEF BackfillInv, TypeInv, Row
  <2>1. \A c \in Channels : rows'[c] = rows[c] =>
          (rows[c].cursor # 0 => rows'[c].cursor \in 1..rows[c].cursor)
    BY <2>0
  <2>2. CASE \/ Start \/ Interrupted \/ Finish \/ Exit \/ Crash \/ Boot \/ Shutdown
             \/ \E a \in {history[i].by : i \in DOMAIN history} : ForgetAuthor(a)
             \/ SaveTotal \/ NextChannel \/ UNCHANGED vars
    BY <2>1, <2>2, FallElsewhere
  <2>3. CASE Seed \/ ListChannels
    BY <2>1, <2>3, FallListing
  <2>4. CASE OpenChannel \/ Fetch \/ Check \/ Insert
    BY <2>1, <2>4, FallPaging
  <2>5. CASE SaveCursor \/ ChannelFailed \/ SaveDone \/ CountChannel
    BY <2>1, <2>5, FallSaving
  <2> QED
    BY <2>2, <2>3, <2>4, <2>5 DEF Next, Work
<1>2. Spec => []BackfillInv
  BY BackfillInvHolds
<1> QED
  BY <1>1, <1>2, FallInit, PTL DEF Spec, CursorIsKept

-----------------------------------------------------------------------------
(* A run is recorded as what it was.                                       *)

\* While a run works its state says so; it only ends with channels left when it
\* gave up before them, or is recorded as failed or still as running.
RunInv ==
  /\ state = [status |-> state.status, total |-> state.total, done |-> state.done]
  /\ worker.state = [status |-> worker.state.status, total |-> worker.state.total,
                     done |-> worker.state.done]
  /\ worker.pc \in {"off", "start", "seed", "list"} => worker.list = <<>>
  /\ InList \/ worker.pc \in {"seed", "list", "interrupted"} =>
       state.status = "running" /\ worker.state.status = "running"
  /\ worker.pc = "finish" =>
       \/ aborted
       \/ worker.list = <<>>
       \/ state.status # "done" /\ worker.state.status = "failed"
  /\ DoneMeansAllTried

LEMMA RunStep ==
  ASSUME BackfillInv, RunInv, [Next]_vars
  PROVE  RunInv'
<1> USE DEF BackfillInv, TypeInv, InList, InChannel, Paging, DoneMeansAllTried
<1>1. CASE Start \/ Seed
  BY <1>1 DEF Start, Seed, At, GoOn, ghosts, RunInv
<1>2. CASE ListChannels
  <2>1. UNCHANGED state /\ worker.pc = "list"
    BY <1>2 DEF ListChannels, At, tables
  <2>2. CASE GoOn("finish") /\ aborted' = TRUE
    BY <2>1, <2>2 DEF GoOn, RunInv
  <2>3. CASE ~(GoOn("finish") /\ aborted' = TRUE)
    <3>1. PICK s \in OpenRows :
            LET n == IF Len(s) < ListLimit THEN Len(s) ELSE ListLimit
            IN  worker' = [worker EXCEPT
                 !.pc = "total",
                 !.list = [k \in 1..n |-> [channel |-> s[k], row |-> rows[s[k]]]],
                 !.state.total = n,
                 !.state.done = 0]
      BY <1>2, <2>3 DEF ListChannels
    <3>2. PICK n : /\ worker'.pc = "total"
                   /\ worker'.state = [worker.state EXCEPT !.total = n, !.done = 0]
      BY <3>1
    <3> QED
      BY <2>1, <3>2 DEF RunInv
  <2> QED
    BY <2>2, <2>3
<1>3. CASE SaveTotal
  BY <1>3 DEF SaveTotal, At, GoOn, RunInv
<1>4. CASE NextChannel
  BY <1>4 DEF NextChannel, At, GoOn, tables, ghosts, RunInv
<1>5. CASE OpenChannel \/ Fetch
  BY <1>5 DEF OpenChannel, Fetch, At, GoOn, tables, ghosts, RunInv
<1>6. CASE Check \/ Insert
  BY <1>6 DEF Check, Insert, Passed, At, tables, RunInv
<1>7. CASE SaveCursor \/ ChannelFailed \/ SaveDone
  BY <1>7 DEF SaveCursor, ChannelFailed, SaveDone, At, GoOn, ghosts, RunInv
<1>8. CASE CountChannel
  BY <1>8 DEF CountChannel, At, ghosts, RunInv
<1>9. CASE Interrupted
  BY <1>9 DEF Interrupted, At, ghosts, RunInv
<1>10. CASE Finish
  BY <1>10 DEF Finish, At, ghosts, RunInv
<1>11. CASE Exit \/ Crash \/ Boot
  <2>1. /\ UNCHANGED <<state, aborted>>
        /\ worker' = Off \/ worker' = [Off EXCEPT !.pc = "start"]
    BY <1>11 DEF Exit, Crash, Boot, tables, ghosts
  <2>2. /\ worker'.pc \in {"off", "start"} /\ worker'.list = <<>>
        /\ worker'.state = [status |-> "none", total |-> 0, done |-> 0]
    BY <2>1 DEF Off, NoState
  <2>3. worker'.state = [status |-> worker'.state.status, total |-> worker'.state.total,
                        done |-> worker'.state.done]
    BY <2>2
  <2> QED
    BY <2>1, <2>2, <2>3 DEF RunInv
<1>12. CASE Shutdown \/ \E a \in {history[i].by : i \in DOMAIN history} : ForgetAuthor(a)
  BY <1>12 DEF Shutdown, ForgetAuthor, tables, ghosts, RunInv
<1>13. CASE UNCHANGED vars
  BY <1>13 DEF vars, tables, ghosts, RunInv
<1> QED
  BY <1>1, <1>2, <1>3, <1>4, <1>5, <1>6, <1>7, <1>8, <1>9, <1>10, <1>11, <1>12, <1>13
  DEF Next, Work

\* A run that is recorded as done, and did not give up before it came to its
\* channels, has tried them all.
THEOREM DoneRunsTriedAll == Spec => []DoneMeansAllTried
<1>1. Init => RunInv
  BY DEF Init, Off, NoState, RunInv, InList, InChannel, Paging, DoneMeansAllTried
<1>2. RunInv => DoneMeansAllTried
  BY DEF RunInv
<1> QED
  BY <1>1, <1>2, RunStep, BackfillInvHolds, PTL DEF Spec
=============================================================================
