---------------------------- MODULE PartsProofs ----------------------------
(***************************************************************************)
(* What holds around the turns of a process, for any number of them: one   *)
(* typing indicator in a channel (Typing), the last traces in a ring of    *)
(* any size (Tracer), no goroutine left at a complete shutdown (Shutdown), *)
(* scores that are the sum of what was judged (Affinity), profiles that    *)
(* are written from all that was said and stay deleted (People), and logs  *)
(* in which what went wrong is found (Logs).                               *)
(***************************************************************************)
EXTENDS Typing, Tracer, Shutdown, Affinity, People, Logs,
  FiniteSetTheorems, SequenceTheorems, WellFoundedInduction, TLAPS

-----------------------------------------------------------------------------
(* The typing indicator.                                                   *)

\* OneTyper holds by itself, once typing is known to be a function of the turns.
TyperInv ==
  /\ typing \in [Mentions -> {"none", "waiting", "keeping"}]
  /\ OneTyper

\* Who types in a channel.
Typers(c) == {m \in Mentions : Where[m] = c /\ typing[m] # "none"}

\* A new turn begins to type only where nobody does.
LEMMA StartKeepsOneTyper ==
  ASSUME TyperInv, NEW m \in Mentions, StartTyping(m)
  PROVE  TyperInv'
<1>1. CASE Where[m] \in channels /\ UNCHANGED <<channels, typing>>
  BY <1>1 DEF TyperInv, OneTyper
<1>2. ASSUME Where[m] \notin channels, NEW how \in {"waiting", "keeping"},
             typing' = [typing EXCEPT ![m] = how],
             channels' = channels \cup {Where[m]}
      PROVE  TyperInv'
  <2>1. Typers(Where[m]) = {}
    BY <1>2 DEF TyperInv, OneTyper, Typers
  <2>2. typing' \in [Mentions -> {"none", "waiting", "keeping"}]
    BY <1>2 DEF TyperInv
  <2>3. Typers(Where[m])' = {m}
    BY <1>2, <2>1 DEF TyperInv, Typers
  <2>4. ASSUME NEW c, c # Where[m]
        PROVE  Typers(c)' = Typers(c) /\ (c \in channels' <=> c \in channels)
    BY <1>2, <2>4 DEF TyperInv, Typers
  <2>5. OneTyper'
    BY <1>2, <2>3, <2>4 DEF TyperInv, OneTyper, Typers
  <2> QED
    BY <2>2, <2>5 DEF TyperInv
<1>3. \/ Where[m] \in channels /\ UNCHANGED <<channels, typing>>
      \/ \E how \in {"waiting", "keeping"} :
           /\ Where[m] \notin channels
           /\ typing' = [typing EXCEPT ![m] = how]
           /\ channels' = channels \cup {Where[m]}
  BY DEF StartTyping
<1> QED
  BY <1>1, <1>2, <1>3

\* The goroutine that stops is the only one of its channel.
LEMMA StopKeepsOneTyper ==
  ASSUME TyperInv, NEW m \in Mentions, StopTyping(m)
  PROVE  TyperInv'
<1>1. Where[m] \in channels /\ Typers(Where[m]) = {m}
  BY DEF TyperInv, OneTyper, StopTyping, Typers
<1>2. Typers(Where[m])' = {} /\ Where[m] \notin channels'
  BY <1>1 DEF TyperInv, StopTyping, Typers
<1>3. ASSUME NEW c, c # Where[m]
      PROVE  Typers(c)' = Typers(c) /\ (c \in channels' <=> c \in channels)
  BY <1>3 DEF TyperInv, StopTyping, Typers
<1>4. OneTyper'
  BY <1>2, <1>3 DEF TyperInv, OneTyper, Typers
<1> QED
  BY <1>4 DEF TyperInv, StopTyping

\* One goroutine types in a channel that is marked, and none in another.
THEOREM OneTyperAlways == TypingSpec => []OneTyper
<1>1. TypingInit => TyperInv
  BY DEF TypingInit, TyperInv, OneTyper
<1>2. TyperInv /\ [TypingNext]_typingVars => TyperInv'
  <2> SUFFICES ASSUME TyperInv, [TypingNext]_typingVars PROVE TyperInv'
    OBVIOUS
  <2>1. CASE UNCHANGED typingVars
    BY <2>1 DEF typingVars, TyperInv, OneTyper
  <2>2. ASSUME NEW m \in Mentions, StartTyping(m) PROVE TyperInv'
    BY <2>2, StartKeepsOneTyper
  <2>3. ASSUME NEW m \in Mentions, TheatreEnds(m) \/ TurnOver(m) PROVE TyperInv'
    BY <2>3 DEF TheatreEnds, TurnOver, TyperInv, OneTyper
  <2>4. ASSUME NEW m \in Mentions, KeepTyping(m) PROVE TyperInv'
    <3>1. \A c : Typers(c)' = Typers(c)
      BY <2>4 DEF KeepTyping, TyperInv, Typers
    <3> QED
      BY <2>4, <3>1 DEF KeepTyping, TyperInv, OneTyper, Typers
  <2>5. ASSUME NEW m \in Mentions, StopTyping(m) PROVE TyperInv'
    BY <2>5, StopKeepsOneTyper
  <2> QED
    BY <2>1, <2>2, <2>3, <2>4, <2>5 DEF TypingNext
<1>3. TyperInv => OneTyper
  BY DEF TyperInv
<1> QED
  BY <1>1, <1>2, <1>3, PTL DEF TypingSpec

-----------------------------------------------------------------------------
(* The ring of traces.                                                     *)

\* Slot j % MaxEntries holds the success that was the j-th from nought, for the
\* last count of them; pos counts the successes.
RingInv ==
  /\ successes \in Seq(Traces)
  /\ pos = Len(successes)
  /\ count = IF pos < MaxEntries THEN pos ELSE MaxEntries
  /\ DOMAIN entries = 0..MaxEntries-1
  /\ \A j \in pos-count..pos-1 : entries[j % MaxEntries] = successes[j+1]

-----------------------------------------------------------------------------
(* The slots of the ring.                                                  *)

\* Division with remainder.
LEMMA DivMod ==
  ASSUME NEW a \in Nat
  PROVE  /\ a % MaxEntries \in 0..MaxEntries-1
         /\ a \div MaxEntries \in Int
         /\ a = MaxEntries * (a \div MaxEntries) + (a % MaxEntries)
BY TracerAssumption

\* A positive multiple of the size is no less than it.
LEMMA MultipleIsLarge ==
  ASSUME NEW k \in Int, 0 < MaxEntries * k
  PROVE  MaxEntries <= MaxEntries * k
<1>1. k > 0
  BY TracerAssumption, Z3
<1> QED
  BY <1>1, TracerAssumption, Z3

\* Two entries closer than the size of the ring have slots of their own.
LEMMA SlotsDiffer ==
  ASSUME NEW a \in Nat, NEW b \in Nat, a < b, b - a < MaxEntries
  PROVE  a % MaxEntries # b % MaxEntries
<1> SUFFICES ASSUME a % MaxEntries = b % MaxEntries PROVE FALSE
  OBVIOUS
<1> DEFINE k == (b \div MaxEntries) - (a \div MaxEntries)
<1>1. b - a = MaxEntries * k /\ k \in Int
  BY DivMod, TracerAssumption
<1> HIDE DEF k
<1> QED
  BY <1>1, MultipleIsLarge, TracerAssumption

-----------------------------------------------------------------------------
\* A success takes the slot of the oldest entry once the ring is full, and
\* leaves the others as they are.
LEMMA AddKeepsRing ==
  ASSUME RingInv, NEW t \in Traces, AddSuccess(t), successes' = Append(successes, t)
  PROVE  RingInv'
<1>1. /\ pos \in Nat /\ pos' = pos + 1 /\ count \in 0..pos /\ count <= MaxEntries
      /\ MaxEntries \in Nat \ {0}
  BY TracerAssumption DEF RingInv, AddSuccess
<1>2. successes' \in Seq(Traces) /\ Len(successes') = pos + 1
  BY DEF RingInv
<1>3. count' = IF pos' < MaxEntries THEN pos' ELSE MaxEntries
  BY <1>1 DEF RingInv, AddSuccess
<1>4. DOMAIN entries' = 0..MaxEntries-1
  BY DEF RingInv, AddSuccess
<1>5. ASSUME NEW j \in pos'-count'..pos'-1
      PROVE  entries'[j % MaxEntries] = successes'[j+1]
  <2>1. j \in Nat /\ j % MaxEntries \in 0..MaxEntries-1
    <3>1. pos' - count' \in Nat /\ count' \in Nat
      BY <1>1, <1>3
    <3>2. pos'-count' \in Int /\ pos'-1 \in Int
      BY <1>1, <3>1
    <3>3. j \in Int /\ pos'-count' <= j
      BY <1>5, <3>2
    <3>4. j \in Nat
      BY <3>1, <3>3
    <3> QED
      BY <3>4, DivMod
  <2>2. pos % MaxEntries \in 0..MaxEntries-1
    BY <1>1, DivMod
  <2>3. CASE j = pos
    <3>1. entries'[j % MaxEntries] = t
      BY <2>2, <2>3 DEF RingInv, AddSuccess
    <3>2. successes'[j+1] = t
      BY <2>3 DEF RingInv
    <3> QED
      BY <3>1, <3>2
  <2>4. CASE j # pos
    <3>1. j < pos /\ pos - j < MaxEntries /\ j \in pos-count..pos-1
      BY <1>1, <1>3, <2>1, <2>4 DEF RingInv
    <3>2. j % MaxEntries # pos % MaxEntries
      BY <1>1, <2>1, <3>1, SlotsDiffer
    <3>3. entries'[j % MaxEntries] = entries[j % MaxEntries]
      BY <2>1, <3>2 DEF RingInv, AddSuccess
    <3>4. successes'[j+1] = successes[j+1]
      BY <1>1, <2>1, <3>1 DEF RingInv
    <3> QED
      BY <3>1, <3>3, <3>4 DEF RingInv
  <2> QED
    BY <2>3, <2>4
<1>6. pos' = Len(successes')
  BY <1>1, <1>2
<1> QED
  BY <1>2, <1>3, <1>4, <1>5, <1>6 DEF RingInv

\* What RecentSuccesses reads off the ring are the last successes.
LEMMA RingIsRead == RingInv => RingIsRecent
<1> SUFFICES ASSUME RingInv PROVE RingIsRecent
  OBVIOUS
<1> DEFINE n == Len(successes)
           k == IF n < MaxEntries THEN n ELSE MaxEntries
           recent == SubSeq(successes, n - k + 1, n)
<1>1. n \in Nat /\ k \in 0..n /\ count = k /\ pos = n
  BY TracerAssumption DEF RingInv
<1>2. recent = [i \in 1..k |-> successes[n - k + i]]
  BY <1>1 DEF RingInv
<1>3. \A i \in 1..k : RecentSuccesses[i] = recent[i]
  <2> SUFFICES ASSUME NEW i \in 1..k PROVE RecentSuccesses[i] = recent[i]
    OBVIOUS
  <2>1. RecentSuccesses[i] = entries[(n - k + i - 1) % MaxEntries]
    BY <1>1 DEF RecentSuccesses
  <2>2. n - k + i - 1 \in n-k..n-1 /\ (n - k + i - 1) + 1 = n - k + i
    BY <1>1
  <2>3. entries[(n - k + i - 1) % MaxEntries] = successes[n - k + i]
    BY <1>1, <2>2 DEF RingInv
  <2> QED
    BY <1>2, <2>1, <2>3
<1> HIDE DEF n, k, recent
<1>4. RecentSuccesses = recent
  BY <1>1, <1>2, <1>3 DEF RecentSuccesses
<1>5. \A t \in Traces : FindByID(t) <=> \E i \in 1..k : recent[i] = t
  BY <1>1, <1>3 DEF FindByID
<1> QED
  BY <1>4, <1>5 DEF RingIsRecent, n, k, recent

\* The ring always holds the last successes, in order.
THEOREM RingHoldsRecent == TracerSpec => []RingIsRecent
<1>1. TracerInit => RingInv
  BY TracerAssumption DEF TracerInit, RingInv
<1>2. RingInv /\ [TracerNext]_tracerVars => RingInv'
  <2> SUFFICES ASSUME RingInv, [TracerNext]_tracerVars PROVE RingInv'
    OBVIOUS
  <2>1. CASE UNCHANGED <<entries, pos, count, successes>>
    BY <2>1 DEF RingInv
  <2>2. ASSUME NEW t \in Traces, AddSuccess(t), successes' = Append(successes, t)
        PROVE  RingInv'
    BY <2>2, AddKeepsRing
  <2> QED
    BY <2>1, <2>2 DEF TracerNext, StartTrace, FinishTrace, tracerVars
<1> QED
  BY <1>1, <1>2, RingIsRead, PTL DEF TracerSpec

-----------------------------------------------------------------------------
(* The shutdown.                                                           *)

\* Once the gateway is closed and neither Open nor a listener is at work, the
\* groups whose wait has returned stay empty: a goroutine starts others only in
\* groups that are not waited for before its own.
QuietInv ==
  /\ goroutines \in [Groups -> Nat]
  /\ waited \in 0..6
  /\ stage \in {"serving", "cancelled"} => waited = 0
  /\ stage \in {"waiting", "complete", "abandoned"} /\ ~overlapped =>
       /\ opener \in {"opened", "failed"} /\ ~gateway /\ handling = "none"
       /\ \A k \in 1..waited : ~Running(Waits[k])
  /\ stage = "complete" => waited = 6

\* What a goroutine starts is not waited for before it.
LEMMA StartsAreWaitedFor ==
  ASSUME NEW g \in Groups, NEW h \in Starts[g], NEW n \in 0..6,
         \A k \in 1..n : Waits[k] # g
  PROVE  \A k \in 1..n : Waits[k] # h
BY DEF Groups, Starts, Waits

\* Goroutines that start others, or end, keep the groups that are done empty.
LEMMA GoroutinesKeepQuiet ==
  ASSUME QuietInv, NEW g \in Groups, StartAnother(g) \/ Finish(g)
  PROVE  QuietInv'
<1>1. goroutines' \in [Groups -> Nat]
  BY DEF QuietInv, StartAnother, Finish, Go, Running, Starts, Groups
<1>2. UNCHANGED <<stage, opener, gateway, handling, waited, overlapped>>
  BY DEF StartAnother, Finish
<1>3. ASSUME stage = "waiting", ~overlapped, NEW k \in 1..waited
      PROVE  ~Running(Waits[k])'
  <2>1. /\ \A j \in 1..waited : ~Running(Waits[j])
        /\ waited \in 0..6
    BY <1>3 DEF QuietInv
  <2>2. Running(g)
    BY DEF StartAnother, Finish
  <2>3. \A j \in 1..waited : Waits[j] # g
    BY <2>1, <2>2
  <2>4. goroutines'[Waits[k]] = goroutines[Waits[k]]
    <3>1. CASE Finish(g)
      BY <2>3, <3>1 DEF Finish, QuietInv, Groups, Waits
    <3>2. CASE StartAnother(g)
      <4>1. PICK h \in Starts[g] : Go(h)
        BY <3>2 DEF StartAnother
      <4>2. Waits[k] # h
        BY <2>1, <2>3, StartsAreWaitedFor
      <4> QED
        BY <4>1, <4>2 DEF Go, QuietInv, Groups, Waits
    <3> QED
      BY <3>1, <3>2
  <2> QED
    BY <2>1, <2>4 DEF Running
<1>4. Alive
  BY DEF StartAnother, Finish
<1> QED
  BY <1>1, <1>2, <1>3, <1>4 DEF QuietInv, Alive

\* Everything else that may happen to the process.
LEMMA ProcessKeepsQuiet ==
  ASSUME QuietInv,
         \/ Connect \/ RunArchive \/ RunTasks \/ Receive \/ Handle
         \/ Cancel \/ CloseGateway \/ WaitReturns \/ Exit
  PROVE  QuietInv'
<1> USE DEF QuietInv, Running
<1>1. CASE Connect \/ Receive
  BY <1>1 DEF Connect, Receive, Alive
<1>2. CASE RunArchive \/ RunTasks
  BY <1>2 DEF RunArchive, RunTasks, Alive, Go, Groups
<1>3. CASE Handle
  BY <1>3 DEF Handle, Alive, Go, Groups
<1>4. CASE Cancel \/ CloseGateway
  <2>1. waited = 0 /\ UNCHANGED <<waited, goroutines>> /\ stage' \in {"cancelled", "waiting"}
    BY <1>4 DEF Cancel, CloseGateway
  <2>2. stage' = "waiting" /\ ~overlapped' =>
          opener' \in {"opened", "failed"} /\ ~gateway' /\ handling' = "none"
    BY <1>4 DEF Cancel, CloseGateway
  <2> QED
    BY <2>1, <2>2
<1>5. CASE WaitReturns
  <2>1. waited' = waited + 1 /\ waited \in 0..5 /\ ~Running(Waits[waited + 1])
    BY <1>5 DEF WaitReturns, Waits
  <2> QED
    BY <1>5, <2>1 DEF WaitReturns
<1>6. CASE Exit
  BY <1>6 DEF Exit, Waits
<1> QED
  BY <1>1, <1>2, <1>3, <1>4, <1>5, <1>6

\* A shutdown that calls itself complete has cut no goroutine off.
THEOREM CompleteShutdownIsIdle == ShutdownSpec => []CompleteMeansIdle
<1>1. ShutdownInit => QuietInv
  BY DEF ShutdownInit, QuietInv
<1>2. QuietInv /\ [ShutdownNext]_shutdownVars => QuietInv'
  <2> SUFFICES ASSUME QuietInv, [ShutdownNext]_shutdownVars PROVE QuietInv'
    OBVIOUS
  <2>1. CASE UNCHANGED shutdownVars
    BY <2>1 DEF shutdownVars, QuietInv, Running
  <2> QED
    BY <2>1, GoroutinesKeepQuiet, ProcessKeepsQuiet DEF ShutdownNext
<1>3. QuietInv => CompleteMeansIdle
  <2> SUFFICES ASSUME QuietInv, stage = "complete", ~overlapped, NEW g \in Groups
               PROVE  ~Running(g)
    BY DEF CompleteMeansIdle
  <2>1. PICK k \in 1..6 : Waits[k] = g
    BY DEF Groups, Waits
  <2> QED
    BY <2>1 DEF QuietInv
<1> QED
  BY <1>1, <1>2, <1>3, PTL DEF ShutdownSpec

-----------------------------------------------------------------------------
(* Scores.                                                                 *)

\* Induction, of a set instead of a formula: the numbers outside it have no least.
LEMMA NatSetInduction ==
  ASSUME NEW S, 0 \in S, \A n \in Nat : n \in S => n + 1 \in S
  PROVE  Nat \subseteq S
<1> DEFINE T == Nat \ S
           R == OpToRel(<, Nat)
<1> SUFFICES ASSUME T # {} PROVE FALSE
  OBVIOUS
<1>1. IsWellFoundedOn(R, Nat)
  BY NatLessThanWellFounded
<1> HIDE DEF R
<1>2. PICK x \in T : \A y \in T : <<y, x>> \notin R
  BY <1>1, WFMin, T \subseteq Nat
<1>3. \A y \in T : ~(y < x)
  BY <1>2 DEF R, OpToRel
<1>4. x # 0 /\ x - 1 \in Nat /\ x - 1 \notin T
  BY <1>3
<1> QED
  BY <1>2, <1>4

\* f has the sums of a sequence of deltas, as SumOf makes them.
Sums(f, deltas) ==
  f = [n \in 0..Len(deltas) |->
        IF n = 0 THEN Baseline
        ELSE Clamp(f[n-1] + deltas[n], -MaxScore, MaxScore)]

LEMMA ClampInt ==
  ASSUME NEW n \in Int, NEW lo \in Int, NEW hi \in Int
  PROVE  Clamp(n, lo, hi) \in Int
BY DEF Clamp

\* f has the first k of them.
UpTo(f, k, deltas) ==
  /\ f \in [0..k -> Int] /\ f[0] = Baseline
  /\ \A n \in 1..k : f[n] = Clamp(f[n-1] + deltas[n], -MaxScore, MaxScore)

LEMMA OneMoreSum ==
  ASSUME NEW deltas \in Seq(Int), NEW k \in Nat, k + 1 <= Len(deltas),
         NEW f, UpTo(f, k, deltas)
  PROVE  \E g : UpTo(g, k + 1, deltas)
<1>0. MaxScore \in Int /\ -MaxScore \in Int /\ Baseline \in Int
  BY AffinityAssumption
<1>1. deltas[k+1] \in Int /\ f[k] \in Int
  BY DEF UpTo
<1>2. f[k] + deltas[k+1] \in Int
  BY <1>1
<1>3. Clamp(f[k] + deltas[k+1], -MaxScore, MaxScore) \in Int
  BY <1>0, <1>2, ClampInt
<1> DEFINE c == Clamp(f[k] + deltas[k+1], -MaxScore, MaxScore)
           g == [n \in 0..k+1 |-> IF n = k+1 THEN c ELSE f[n]]
<1> HIDE DEF c
<1>4. g \in [0..k+1 -> Int] /\ g[0] = Baseline
  BY <1>3 DEF c, UpTo
<1>5. ASSUME NEW n \in 1..k+1
      PROVE  g[n] = Clamp(g[n-1] + deltas[n], -MaxScore, MaxScore)
  <2>1. CASE n = k + 1
    BY <2>1 DEF c
  <2>2. CASE n # k + 1
    <3>1. n \in 1..k /\ n - 1 \in 0..k /\ g[n] = f[n] /\ g[n-1] = f[n-1]
      BY <2>2
    <3> QED
      BY <3>1 DEF UpTo
  <2> QED
    BY <2>1, <2>2
<1>6. UpTo(g, k + 1, deltas)
  <2> HIDE DEF g
  <2> QED
    BY <1>4, <1>5 DEF UpTo
<1> QED
  BY <1>6

\* There is such a function, ...
LEMMA SumsExist ==
  ASSUME NEW deltas \in Seq(Int)
  PROVE  \E f : Sums(f, deltas)
<1> DEFINE S == {k \in Nat : k <= Len(deltas) => \E f : UpTo(f, k, deltas)}
<1>0. Len(deltas) \in Nat /\ Baseline \in Int
  BY AffinityAssumption
<1>1. 0 \in S
  <2>1. UpTo([n \in 0..0 |-> Baseline], 0, deltas)
    BY <1>0 DEF UpTo
  <2> QED
    BY <2>1
<1>2. ASSUME NEW k \in Nat, k \in S PROVE k + 1 \in S
  <2>1. ASSUME k + 1 <= Len(deltas) PROVE \E g : UpTo(g, k + 1, deltas)
    <3>1. k <= Len(deltas)
      BY <1>0, <2>1
    <3>2. PICK f : UpTo(f, k, deltas)
      BY <1>2, <3>1
    <3> QED
      BY <2>1, <3>2, OneMoreSum
  <2> QED
    BY <2>1
<1>3. Nat \subseteq S
  <2> HIDE DEF S
  <2> QED
    BY <1>1, <1>2, NatSetInduction
<1>4. Len(deltas) \in S /\ Len(deltas) <= Len(deltas)
  <2> HIDE DEF S
  <2> QED
    BY <1>0, <1>3
<1>5. PICK f : UpTo(f, Len(deltas), deltas)
  BY <1>4
<1>6. Sums(f, deltas)
  BY <1>0, <1>5 DEF Sums, UpTo
<1> QED
  BY <1>6

\* ... and of a beginning of the sequence it has the same sums.
LEMMA SumsAgree ==
  ASSUME NEW s \in Seq(Int), NEW t \in Seq(Int), Len(s) <= Len(t),
         \A n \in 1..Len(s) : s[n] = t[n],
         NEW f, Sums(f, s), NEW g, Sums(g, t)
  PROVE  f[Len(s)] = g[Len(s)]
<1> DEFINE S == {k \in Nat : k <= Len(s) => f[k] = g[k]}
<1>0. Len(s) \in Nat /\ Len(t) \in Nat
  OBVIOUS
<1>1. 0 \in S
  BY <1>0 DEF Sums
<1>2. ASSUME NEW k \in Nat, k \in S PROVE k + 1 \in S
  <2> SUFFICES ASSUME k + 1 <= Len(s) PROVE f[k+1] = g[k+1]
    OBVIOUS
  <2>1. k + 1 \in 1..Len(s) /\ k + 1 \in 0..Len(s) /\ k + 1 \in 0..Len(t) /\ k + 1 # 0
        /\ (k + 1) - 1 = k
    BY <1>0
  <2>2. f[k] = g[k] /\ s[k+1] = t[k+1]
    BY <1>0, <1>2, <2>1
  <2>3. f[k+1] = Clamp(f[k] + s[k+1], -MaxScore, MaxScore)
    BY <2>1 DEF Sums
  <2>4. g[k+1] = Clamp(g[k] + t[k+1], -MaxScore, MaxScore)
    BY <2>1 DEF Sums
  <2> QED
    BY <2>2, <2>3, <2>4
<1>3. Nat \subseteq S
  <2> HIDE DEF S
  <2> QED
    BY <1>1, <1>2, NatSetInduction
<1> QED
  BY <1>0, <1>3

LEMMA SumOfIs ==
  ASSUME NEW deltas \in Seq(Int)
  PROVE  \E f : Sums(f, deltas) /\ SumOf(deltas) = f[Len(deltas)]
<1>1. Sums(CHOOSE f : Sums(f, deltas), deltas)
  BY SumsExist
<1>2. SumOf(deltas) = (CHOOSE f : Sums(f, deltas))[Len(deltas)]
  BY DEF SumOf, Sums
<1> QED
  BY <1>1, <1>2

\* What SumOf adds up, delta by delta.
LEMMA SumOfNothing == SumOf(<<>>) = Baseline
<1>1. <<>> \in Seq(Int) /\ Len(<<>>) = 0
  OBVIOUS
<1>2. PICK f : Sums(f, <<>>) /\ SumOf(<<>>) = f[0]
  BY <1>1, SumOfIs
<1> QED
  BY <1>1, <1>2 DEF Sums

LEMMA SumOfAppend ==
  ASSUME NEW s \in Seq(Int), NEW d \in Int
  PROVE  SumOf(Append(s, d)) = Clamp(SumOf(s) + d, -MaxScore, MaxScore)
<1> DEFINE t == Append(s, d)
<1>1. /\ t \in Seq(Int) /\ Len(s) \in Nat /\ Len(t) = Len(s) + 1 /\ t[Len(t)] = d
      /\ \A n \in 1..Len(s) : s[n] = t[n]
  OBVIOUS
<1> HIDE DEF t
<1>2. PICK f : Sums(f, s) /\ SumOf(s) = f[Len(s)]
  BY SumOfIs
<1>3. PICK g : Sums(g, t) /\ SumOf(t) = g[Len(t)]
  BY <1>1, SumOfIs
<1>4. f[Len(s)] = g[Len(s)]
  <2>1. Len(s) <= Len(t)
    BY <1>1
  <2> QED
    BY <1>1, <1>2, <1>3, <2>1, SumsAgree
<1>5. g[Len(t)] = Clamp(g[Len(t) - 1] + t[Len(t)], -MaxScore, MaxScore)
  BY <1>1, <1>3 DEF Sums
<1> QED
  BY <1>1, <1>2, <1>3, <1>4, <1>5 DEF t

\* The ledger, the scorers and what was applied are of their kinds.
LedgerTypes ==
  /\ DOMAIN ledger \subseteq Persons /\ \A p \in DOMAIN ledger : ledger[p] \in Int
  /\ applied \in [Persons -> Seq(Int)]
  /\ scorer \in [Scorers -> [todo : Seq([person : Persons \cup {Outsider}, delta : Int]),
                            row : Int, begun : BOOLEAN]]

\* Who has no row has no deltas.
LedgerInv ==
  \A p \in Persons \ clashed :
    IF p \in DOMAIN ledger THEN ledger[p] = SumOf(applied[p]) ELSE applied[p] = <<>>

\* A scorer that has read a row holds what the ledger has, unless two hold rows of
\* that person.
Holds(s, p) ==
  /\ p \in Persons /\ scorer[s].todo # <<>> /\ PersonOf(s) = p
  /\ p \notin clashed => scorer[s].row = SumOf(applied[p]) /\ Updating(p) = {s}

RowInv == \A s \in Scorers : scorer[s].row # NoRow => \E p : Holds(s, p)

LEMMA HeadOfTodo ==
  ASSUME LedgerTypes, NEW s \in Scorers, scorer[s].todo # <<>>
  PROVE  /\ PersonOf(s) \in Persons \cup {Outsider} /\ DeltaOf(s) \in Int
         /\ Tail(scorer[s].todo) \in Seq([person : Persons \cup {Outsider}, delta : Int])
<1> DEFINE D == [person : Persons \cup {Outsider}, delta : Int]
<1>1. scorer[s].todo \in Seq(D)
  BY DEF LedgerTypes
<1> HIDE DEF D
<1>2. Head(scorer[s].todo) \in D /\ Tail(scorer[s].todo) \in Seq(D)
  BY <1>1
<1>3. MaxDelta \in Int /\ -MaxDelta \in Int
  BY AffinityAssumption
<1>4. PersonOf(s) \in Persons \cup {Outsider} /\ Head(scorer[s].todo).delta \in Int
  BY <1>2 DEF D, PersonOf
<1> QED
  BY <1>2, <1>3, <1>4, ClampInt DEF D, DeltaOf

\* A scorer's record, field by field.
LEMMA OneScorer ==
  ASSUME LedgerTypes, NEW s \in Scorers, NEW todo
  PROVE  /\ [scorer EXCEPT ![s].todo = todo, ![s].row = NoRow]
              = [scorer EXCEPT ![s] =
                  [todo |-> todo, row |-> NoRow, begun |-> scorer[s].begun]]
         /\ scorer[s].row = NoRow =>
              [scorer EXCEPT ![s].todo = todo]
                = [scorer EXCEPT ![s] =
                    [todo |-> todo, row |-> NoRow, begun |-> scorer[s].begun]]
<1> DEFINE D == Seq([person : Persons \cup {Outsider}, delta : Int])
<1>1. PICK t, row, begun : scorer[s] = [todo |-> t, row |-> row, begun |-> begun]
  <2>1. scorer \in [Scorers -> [todo : D, row : Int, begun : BOOLEAN]]
    BY DEF LedgerTypes
  <2> HIDE DEF D
  <2>2. scorer[s] \in [todo : D, row : Int, begun : BOOLEAN]
    BY <2>1
  <2>3. scorer[s] = [todo |-> scorer[s].todo, row |-> scorer[s].row, begun |-> scorer[s].begun]
    BY <2>2
  <2> QED
    BY <2>3
<1>2. [[scorer[s] EXCEPT !.todo = todo] EXCEPT !.row = NoRow]
        = [todo |-> todo, row |-> NoRow, begun |-> scorer[s].begun]
  <2>1. [scorer[s] EXCEPT !.todo = todo] = [todo |-> todo, row |-> row, begun |-> begun]
    BY <1>1
  <2>2. [[todo |-> todo, row |-> row, begun |-> begun] EXCEPT !.row = NoRow]
          = [todo |-> todo, row |-> NoRow, begun |-> begun]
    OBVIOUS
  <2>3. scorer[s].begun = begun
    BY <1>1
  <2> QED
    BY <2>1, <2>2, <2>3
<1>3. scorer[s].row = NoRow =>
        [scorer[s] EXCEPT !.todo = todo]
          = [todo |-> todo, row |-> NoRow, begun |-> scorer[s].begun]
  BY <1>1
<1>4. s \in DOMAIN scorer
  BY DEF LedgerTypes
<1>5. [scorer EXCEPT ![s].todo = todo, ![s].row = NoRow]
        = [scorer EXCEPT ![s] = [[scorer[s] EXCEPT !.todo = todo] EXCEPT !.row = NoRow]]
  BY <1>4
<1>6. [scorer EXCEPT ![s].todo = todo] = [scorer EXCEPT ![s] = [scorer[s] EXCEPT !.todo = todo]]
  BY <1>4
<1> QED
  BY <1>2, <1>3, <1>5, <1>6

\* A scorer that holds no row afterwards, and saves none, changes nothing for the
\* others.
LEMMA DroppedRow ==
  ASSUME LedgerTypes, LedgerInv, RowInv, NEW s \in Scorers, UNCHANGED <<ledger, applied, clashed>>,
         NEW todo \in Seq([person : Persons \cup {Outsider}, delta : Int]),
         NEW begun \in BOOLEAN,
         scorer' = [scorer EXCEPT ![s] = [todo |-> todo, row |-> NoRow, begun |-> begun]]
  PROVE  LedgerTypes' /\ LedgerInv' /\ RowInv'
<1>1. NoRow \in Int
  BY AffinityAssumption DEF NoRow
<1>2. LedgerTypes' /\ LedgerInv'
  BY <1>1 DEF LedgerTypes, LedgerInv
<1>3. \A r \in Scorers : r # s => scorer'[r] = scorer[r]
  BY DEF LedgerTypes
<1>4. scorer'[s].row = NoRow
  BY DEF LedgerTypes
<1>5. \A p : Updating(p)' = Updating(p) \ {s}
  BY <1>3, <1>4 DEF Updating, PersonOf
<1>6. RowInv'
  <2> SUFFICES ASSUME NEW r \in Scorers, scorer'[r].row # NoRow
               PROVE  \E p : Holds(r, p)'
    BY DEF RowInv
  <2>1. r # s /\ scorer'[r] = scorer[r] /\ PersonOf(r)' = PersonOf(r)
    BY <1>3, <1>4 DEF PersonOf
  <2>2. PICK p : Holds(r, p)
    BY <2>1 DEF RowInv
  <2>3. Holds(r, p)'
    BY <1>5, <2>1, <2>2 DEF Holds
  <2> QED
    BY <2>3
<1> QED
  BY <1>2, <1>6

\* The row that is read is the sum, or the baseline when there is no row.
LEMMA ReadKeepsSum ==
  ASSUME LedgerTypes, LedgerInv, RowInv, NEW s \in Scorers, ReadRow(s)
  PROVE  LedgerTypes' /\ LedgerInv' /\ RowInv'
<1> DEFINE p == PersonOf(s)
<1>1. /\ scorer[s].todo # <<>> /\ scorer[s].row = NoRow /\ p \in Persons
      /\ scorer' = [scorer EXCEPT ![s].row = RowOf(s)]
      /\ clashed' = IF Updating(p) # {} THEN clashed \cup {p} ELSE clashed
      /\ UNCHANGED <<ledger, applied>>
  BY DEF ReadRow
<1>2. RowOf(s) \in Int
  BY AffinityAssumption DEF RowOf, LedgerTypes
<1>3. \A r \in Scorers :
        /\ scorer'[r].todo = scorer[r].todo /\ PersonOf(r)' = PersonOf(r)
        /\ scorer'[r].row = IF r = s THEN RowOf(s) ELSE scorer[r].row
  BY <1>1 DEF LedgerTypes, PersonOf
<1>4. p \notin clashed => RowOf(s) = SumOf(applied[p])
  BY <1>1, SumOfNothing DEF RowOf, LedgerInv
<1>5. \A q : Updating(q)' \subseteq Updating(q) \cup {r \in {s} : q = p}
  BY <1>3 DEF Updating
<1>6. \A r \in Scorers : \A q : scorer'[r].row # NoRow /\ PersonOf(r) = q => r \in Updating(q)'
  BY <1>3 DEF Updating
<1> HIDE DEF p
<1>7. LedgerTypes' /\ LedgerInv'
  <2>1. scorer' \in [Scorers -> [todo : Seq([person : Persons \cup {Outsider}, delta : Int]),
                                row : Int, begun : BOOLEAN]]
    BY <1>1, <1>2 DEF LedgerTypes
  <2>2. LedgerTypes'
    BY <1>1, <2>1 DEF LedgerTypes
  <2>3. clashed \subseteq clashed'
    BY <1>1
  <2>4. LedgerInv'
    BY <1>1, <2>3 DEF LedgerInv
  <2> QED
    BY <2>2, <2>4
<1>8. ASSUME NEW r \in Scorers, scorer'[r].row # NoRow
      PROVE  \E q : Holds(r, q)'
  <2>1. CASE r = s
    <3>1. PICK q : q = p
      OBVIOUS
    <3>2. q \notin clashed' => Updating(q)' = {s}
      BY <1>1, <1>5, <1>6, <1>8, <2>1, <3>1 DEF p
    <3>3. Holds(s, q)'
      BY <1>1, <1>3, <1>4, <3>1, <3>2 DEF p, Holds
    <3> QED
      BY <2>1, <3>3
  <2>2. CASE r # s
    <3>1. scorer[r].row # NoRow /\ scorer'[r].row = scorer[r].row
      BY <1>3, <1>8, <2>2
    <3>2. PICK q : Holds(r, q)
      BY <3>1 DEF RowInv
    <3>3. r \in Updating(q)
      BY <3>1, <3>2 DEF Updating, Holds
    <3>4. q = p => q \in clashed'
      BY <1>1, <3>3
    <3>5. q \notin clashed' => Updating(q)' = {r}
      BY <1>1, <1>5, <1>6, <1>8, <3>2, <3>4 DEF Holds
    <3>6. Holds(r, q)'
      BY <1>1, <1>3, <3>1, <3>2, <3>5 DEF Holds
    <3> QED
      BY <3>6
  <2> QED
    BY <2>1, <2>2
<1>9. RowInv'
  BY <1>8 DEF RowInv
<1> QED
  BY <1>7, <1>9

\* What is saved is the next sum.
LEMMA SaveKeepsSum ==
  ASSUME LedgerTypes, LedgerInv, RowInv, NEW s \in Scorers, SaveRow(s)
  PROVE  LedgerTypes' /\ LedgerInv' /\ RowInv'
<1>1. PICK p \in Persons, d \in Int, score \in Int :
        /\ p = PersonOf(s) /\ d = DeltaOf(s) /\ scorer[s].todo # <<>>
        /\ score = Clamp(scorer[s].row + d, -MaxScore, MaxScore)
  <2>1. scorer[s].row # NoRow /\ scorer[s].todo # <<>> /\ PersonOf(s) \in Persons
    BY DEF SaveRow, RowInv, Holds
  <2>2. DeltaOf(s) \in Int
    BY <2>1, HeadOfTodo
  <2>3. scorer[s].row \in Int
    BY DEF LedgerTypes
  <2>4. MaxScore \in Int /\ -MaxScore \in Int
    BY AffinityAssumption
  <2>5. scorer[s].row + DeltaOf(s) \in Int
    BY <2>2, <2>3
  <2>6. Clamp(scorer[s].row + DeltaOf(s), -MaxScore, MaxScore) \in Int
    BY <2>4, <2>5, ClampInt
  <2> QED
    BY <2>1, <2>2, <2>6
<1>2. /\ scorer[s].row # NoRow
      /\ ledger' = [q \in DOMAIN ledger \cup {p} |-> IF q = p THEN score ELSE ledger[q]]
      /\ applied' = [applied EXCEPT ![p] = Append(@, d)]
      /\ scorer' = [scorer EXCEPT ![s].todo = Tail(@), ![s].row = NoRow]
      /\ UNCHANGED clashed
  BY <1>1 DEF SaveRow
<1>3. /\ \A r \in Scorers : r # s => scorer'[r] = scorer[r]
      /\ scorer'[s].row = NoRow
  BY <1>2 DEF LedgerTypes
<1>4. /\ applied[p] \in Seq(Int) /\ applied'[p] = Append(applied[p], d)
      /\ \A q \in Persons : q # p => applied'[q] = applied[q]
  BY <1>2 DEF LedgerTypes
<1>5. LedgerTypes'
  <2>1. Append(applied[p], d) \in Seq(Int)
    BY <1>4
  <2>2. applied' \in [Persons -> Seq(Int)]
    BY <1>2, <2>1 DEF LedgerTypes
  <2>3. DOMAIN ledger' \subseteq Persons /\ \A q \in DOMAIN ledger' : ledger'[q] \in Int
    BY <1>2 DEF LedgerTypes
  <2>4. scorer' \in [Scorers -> [todo : Seq([person : Persons \cup {Outsider}, delta : Int]),
                                row : Int, begun : BOOLEAN]]
    <3>1. Tail(scorer[s].todo) \in Seq([person : Persons \cup {Outsider}, delta : Int])
      BY <1>1, HeadOfTodo
    <3>2. NoRow \in Int
      BY AffinityAssumption DEF NoRow
    <3> QED
      BY <1>2, <3>1, <3>2 DEF LedgerTypes
  <2> QED
    BY <2>2, <2>3, <2>4 DEF LedgerTypes
<1>6. LedgerInv'
  <2> SUFFICES ASSUME NEW q \in Persons \ clashed
               PROVE  IF q \in DOMAIN ledger' THEN ledger'[q] = SumOf(applied'[q])
                      ELSE applied'[q] = <<>>
    BY <1>2 DEF LedgerInv
  <2>1. CASE q = p
    <3>1. scorer[s].row = SumOf(applied[p])
      BY <1>1, <1>2, <2>1 DEF RowInv, Holds
    <3>2. score = SumOf(applied'[p])
      BY <1>1, <1>4, <3>1, SumOfAppend
    <3> QED
      BY <1>2, <2>1, <3>2
  <2>2. CASE q # p
    BY <1>2, <1>4, <2>2 DEF LedgerInv
  <2> QED
    BY <2>1, <2>2
<1>7. RowInv'
  <2> SUFFICES ASSUME NEW r \in Scorers, scorer'[r].row # NoRow
               PROVE  \E q : Holds(r, q)'
    BY DEF RowInv
  <2>1. r # s /\ scorer'[r] = scorer[r] /\ PersonOf(r)' = PersonOf(r)
    BY <1>3 DEF PersonOf
  <2>2. \A q : Updating(q)' = Updating(q) \ {s}
    BY <1>3 DEF Updating, PersonOf
  <2>3. PICK q : Holds(r, q)
    BY <2>1 DEF RowInv
  <2>4. q \notin clashed => q # p
    <3>1. s \in Updating(p)
      BY <1>1, <1>2 DEF Updating
    <3> QED
      BY <2>1, <2>3, <3>1 DEF Holds
  <2>5. Holds(r, q)'
    BY <1>2, <1>4, <2>1, <2>2, <2>3, <2>4 DEF Holds
  <2> QED
    BY <2>5
<1> QED
  BY <1>5, <1>6, <1>7

\* Whatever models answer and wherever updates fail, a score is the sum of what was
\* saved for it, unless two scorers updated it at once.
THEOREM ScoresAddUp == AffinitySpec => []ScoreAddsUp
<1> DEFINE Inv == LedgerTypes /\ LedgerInv /\ RowInv
<1>1. AffinityInit => Inv
  <2> SUFFICES ASSUME AffinityInit PROVE Inv
    OBVIOUS
  <2>1. <<>> \in Seq(Int) /\ <<>> \in Seq([person : Persons \cup {Outsider}, delta : Int])
        /\ NoRow \in Int
    BY AffinityAssumption DEF NoRow
  <2>2. LedgerTypes
    BY <2>1 DEF AffinityInit, LedgerTypes
  <2>3. LedgerInv /\ RowInv
    BY DEF AffinityInit, LedgerInv, RowInv
  <2> QED
    BY <2>2, <2>3
<1>2. Inv /\ [AffinityNext]_affinityVars => Inv'
  <2> SUFFICES ASSUME LedgerTypes, LedgerInv, RowInv, [AffinityNext]_affinityVars PROVE Inv'
    OBVIOUS
  <2>1. CASE UNCHANGED affinityVars
    BY <2>1 DEF affinityVars, LedgerTypes, LedgerInv, RowInv, Holds, Updating, PersonOf
  <2>2. ASSUME NEW s \in Scorers, Judge(s) PROVE Inv'
    <3> DEFINE D == [person : Persons \cup {Outsider}, delta : Judged]
               E == [person : Persons \cup {Outsider}, delta : Int]
    <3>1. PICK n \in 0..2 : \E answer \in [1..n -> D] :
            scorer' = [scorer EXCEPT ![s] = [todo |-> answer, row |-> NoRow, begun |-> TRUE]]
      BY <2>2 DEF Judge
    <3>2. PICK answer \in [1..n -> D] :
            scorer' = [scorer EXCEPT ![s] = [todo |-> answer, row |-> NoRow, begun |-> TRUE]]
      BY <3>1
    <3>3. D \subseteq E
      BY AffinityAssumption
    <3>4. answer \in Seq(E)
      <4> HIDE DEF D, E
      <4> QED
        BY <3>3
    <3>5. UNCHANGED <<ledger, applied, clashed>>
      BY <2>2 DEF Judge
    <3> QED
      BY <3>2, <3>4, <3>5, DroppedRow
  <2>3. ASSUME NEW s \in Scorers, Skip(s) PROVE Inv'
    <3>1. /\ scorer[s].todo # <<>> /\ scorer[s].row = NoRow
          /\ scorer' = [scorer EXCEPT ![s].todo = Tail(@)]
          /\ UNCHANGED <<ledger, applied, clashed>>
      BY <2>3 DEF Skip
    <3>2. scorer' = [scorer EXCEPT ![s] =
            [todo |-> Tail(scorer[s].todo), row |-> NoRow, begun |-> scorer[s].begun]]
      BY <3>1, OneScorer
    <3>3. scorer[s].begun \in BOOLEAN
      BY DEF LedgerTypes
    <3> QED
      BY <3>1, <3>2, <3>3, HeadOfTodo, DroppedRow
  <2>4. ASSUME NEW s \in Scorers, ScoringFails(s) PROVE Inv'
    <3>1. /\ scorer' = [scorer EXCEPT ![s].todo = <<>>, ![s].row = NoRow]
          /\ UNCHANGED <<ledger, applied, clashed>>
      BY <2>4 DEF ScoringFails
    <3>2. scorer' = [scorer EXCEPT ![s] =
            [todo |-> <<>>, row |-> NoRow, begun |-> scorer[s].begun]]
      BY <3>1, OneScorer
    <3>3. scorer[s].begun \in BOOLEAN
          /\ <<>> \in Seq([person : Persons \cup {Outsider}, delta : Int])
      BY DEF LedgerTypes
    <3> QED
      BY <3>1, <3>2, <3>3, DroppedRow
  <2> QED
    BY <2>1, <2>2, <2>3, <2>4, ReadKeepsSum, SaveKeepsSum DEF AffinityNext
<1>3. Inv => ScoreAddsUp
  BY DEF LedgerTypes, LedgerInv, ScoreAddsUp
<1> QED
  BY <1>1, <1>2, <1>3, PTL DEF AffinitySpec

-----------------------------------------------------------------------------
(* Forgetting while profiles are updated.                                  *)

\* What the command has done, and whom the updater may still write about: the
\* profile it has deleted is gone, and its author not listed, unless the author
\* was listed when it was deleted.
ForgetInv ==
  /\ forgetting \in [People -> {"no", "failed", "profile", "quotes", "done"}]
  /\ \A p \in People : forgetting[p] \in {"profile", "quotes", "done"} => p \in forgotten
  /\ \A p \in People : forgetting[p] \in {"quotes", "done"} /\ (Has(p) \/ Listed(p))
                         => p \in overtaken

\* updater is a record with the fields it began with.
UpdaterInv ==
  updater = [step |-> updater.step, channels |-> updater.channels,
             todo |-> updater.todo, at |-> updater.at, read |-> updater.read,
             known |-> updater.known]

\* What the updater does: it lists nobody new who is forgotten, and writes a
\* profile only of somebody it has listed.
UpdaterMoves ==
  /\ \A p \in People : Listed(p)' => Listed(p) \/ p \notin forgotten
  /\ \A p \in People : Has(p)' => Has(p) \/ Listed(p)

UpdaterStep ==
  \/ StartRun \/ ListCandidates \/ ReadMessages \/ ReadProfile \/ SaveProfile
  \/ UpdateFails \/ EndRun

-----------------------------------------------------------------------------
\* Every step of the updater moves as it may.
LEMMA UpdaterKeepsToItsList ==
  ASSUME UpdaterInv, UpdaterStep
  PROVE  UpdaterInv' /\ UpdaterMoves
<1> USE DEF UpdaterInv, UpdaterMoves, Listed, Has, Update
<1>1. CASE StartRun
  BY <1>1 DEF StartRun
<1>2. CASE ListCandidates
  <2>1. PICK picked \in SUBSET Ready :
          updater' = [updater EXCEPT !.step = "next",
             !.todo = {[author |-> p, mark |-> MarkOf(p)] : p \in picked}]
    BY <1>2 DEF ListCandidates
  <2>2. picked \cap forgotten = {}
    BY DEF Ready
  <2>3. \A cand \in updater'.todo : cand.author \in picked
    BY <2>1
  <2>4. UpdaterInv'
    BY <2>1
  <2>5. updater'.at = updater.at
    BY <2>1
  <2>6. \A p \in People : Listed(p)' => Listed(p) \/ p \notin forgotten
    BY <2>2, <2>3, <2>5
  <2>7. UNCHANGED profiles
    BY <1>2 DEF ListCandidates
  <2> QED
    BY <2>4, <2>6, <2>7
<1>3. CASE ReadMessages
  <2>1. PICK cand \in updater.todo :
          LET read == FirstOf(Unread(cand.author, cand.mark, updater.channels))
          IN  updater' = [updater EXCEPT !.todo = @ \ {cand},
                     !.step = IF read = {} THEN "next" ELSE "known",
                     !.at = IF read = {} THEN @ ELSE cand, !.read = read]
    BY <1>3 DEF ReadMessages
  <2>2. updater'.todo \subseteq updater.todo
    BY <2>1
  <2>3. updater'.at \in {updater.at, cand}
    BY <2>1
  <2>4. UpdaterInv'
    BY <2>1
  <2>5. UNCHANGED profiles
    BY <1>3 DEF ReadMessages
  <2> QED
    BY <2>2, <2>3, <2>4, <2>5
<1>4. CASE ReadProfile
  BY <1>4 DEF ReadProfile
<1>5. CASE SaveProfile
  <2>1. DOMAIN profiles' = DOMAIN profiles \cup {updater.at.author}
    BY <1>5 DEF SaveProfile
  <2>2. updater' = [updater EXCEPT !.step = "next", !.at = Asleep.at, !.read = {},
                                   !.known = {}]
    BY <1>5 DEF SaveProfile, NextAuthor
  <2>3. updater'.at.author = 0 /\ updater'.todo = updater.todo /\ UpdaterInv'
    BY <2>2 DEF Asleep
  <2> QED
    BY <2>1, <2>3, PeopleAssumption
<1>6. CASE UpdateFails
  <2>1. updater' = [updater EXCEPT !.step = "next", !.at = Asleep.at, !.read = {},
                                   !.known = {}]
    BY <1>6 DEF UpdateFails, NextAuthor
  <2>2. updater'.at.author = 0 /\ updater'.todo = updater.todo /\ UpdaterInv'
    BY <2>1 DEF Asleep
  <2> QED
    BY <1>6, <2>2, PeopleAssumption DEF UpdateFails
<1>7. CASE EndRun
  BY <1>7, PeopleAssumption DEF EndRun, Asleep
<1> QED
  BY <1>1, <1>2, <1>3, <1>4, <1>5, <1>6, <1>7 DEF UpdaterStep

\* The command deletes a profile and notes whether its author was listed.
LEMMA CommandKeepsForgetInv ==
  ASSUME ForgetInv, NEW p \in People,
         ForgetAuthor(p) \/ DeleteProfile(p) \/ DeleteQuotes(p)
  PROVE  ForgetInv'
<1> USE DEF ForgetInv, Has, Listed, ForgetStep
<1>1. CASE ForgetAuthor(p)
  BY <1>1 DEF ForgetAuthor
<1>2. CASE DeleteProfile(p)
  BY <1>2 DEF DeleteProfile
<1>3. CASE DeleteQuotes(p)
  BY <1>3 DEF DeleteQuotes
<1> QED
  BY <1>1, <1>2, <1>3

\* Both hold in every state.
LEMMA ForgetInvHolds ==
  /\ PeopleInit => ForgetInv /\ UpdaterInv
  /\ ForgetInv /\ UpdaterInv /\ [PeopleNext]_peopleVars => ForgetInv' /\ UpdaterInv'
<1>1. PeopleInit => ForgetInv /\ UpdaterInv
  BY DEF PeopleInit, ForgetInv, UpdaterInv, Asleep
<1>2. ForgetInv /\ UpdaterInv /\ [PeopleNext]_peopleVars => ForgetInv' /\ UpdaterInv'
  <2> SUFFICES ASSUME ForgetInv, UpdaterInv, [PeopleNext]_peopleVars
               PROVE  ForgetInv' /\ UpdaterInv'
    OBVIOUS
  <2>1. CASE UpdaterStep
    <3>1. UpdaterInv' /\ UpdaterMoves
      BY <2>1, UpdaterKeepsToItsList
    <3>2. UNCHANGED <<forgetting, forgotten, overtaken>>
      BY <2>1 DEF UpdaterStep, StartRun, ListCandidates, ReadMessages, ReadProfile,
        SaveProfile, UpdateFails, EndRun, Update, NextAuthor
    <3> QED
      BY <3>1, <3>2 DEF ForgetInv, UpdaterMoves
  <2>2. ASSUME NEW p \in People, ForgetAuthor(p) \/ DeleteProfile(p) \/ DeleteQuotes(p)
        PROVE  ForgetInv' /\ UpdaterInv'
    <3>1. UNCHANGED updater
      BY <2>2 DEF ForgetAuthor, DeleteProfile, DeleteQuotes
    <3> QED
      BY <2>2, <3>1, CommandKeepsForgetInv DEF UpdaterInv
  <2>3. CASE \/ \E m \in Ids : StoreMessage(m) \/ ForgetMessage(m)
             \/ \E c \in Changing : ChangeChannel(c)
             \/ CacheExpires
             \/ UNCHANGED peopleVars
    <3>1. UNCHANGED <<profiles, forgotten, updater, forgetting, overtaken>>
      BY <2>3 DEF StoreMessage, ForgetMessage, ChangeChannel, CacheExpires, peopleVars
    <3> QED
      BY <3>1 DEF ForgetInv, UpdaterInv, Has, Listed
  <2> QED
    BY <2>1, <2>2, <2>3 DEF PeopleNext, UpdaterStep
<1> QED
  BY <1>1, <1>2

\* A profile that was deleted stays deleted, but for an update under way.
THEOREM DeletedProfilesStay == PeopleSpec => []DeletedStaysDeleted
<1>1. ForgetInv => DeletedStaysDeleted
  BY DEF ForgetInv, DeletedStaysDeleted
<1> QED
  BY <1>1, ForgetInvHolds, PTL DEF PeopleSpec

-----------------------------------------------------------------------------
(* The watermark.                                                          *)

Agrees(view) ==
  \A c \in Channels \ Changing : c \in view <=> c \in public

\* Who is updated, and who is not forgotten.
Busy == updater.step \in {"known", "save"}
Kept(p) == p \in People \ forgotten

StoredInv ==
  /\ stored \subseteq Ids
  /\ newest \in [People -> Nat]
  /\ \A m \in stored : m <= newest[AuthorOf[m]]

\* The channels a run works with are public, as far as that does not change.
ViewInv ==
  /\ fresh => Agrees(cached)
  /\ updater.step # "sleep" => Agrees(updater.channels)

\* Every author is listed once, with the watermark the profile has.
ListInv ==
  /\ updater.step \in {"sleep", "list"} => updater.todo = {}
  /\ ~Busy => updater.at.author = 0
  /\ Busy => updater.at.author \in People
  /\ \A c \in updater.todo :
       /\ c.author \in People /\ c.author # updater.at.author
       /\ \A d \in updater.todo : d.author = c.author => d = c
  /\ \A c \in updater.todo \cup {updater.at} :
       Kept(c.author) => c.mark = MarkOf(c.author)

\* What was read of an author: everything above the watermark up to any message
\* that was read, but for what came late.
ReadInv ==
  Busy /\ Kept(updater.at.author) =>
    /\ \A m \in updater.read :
         /\ m \in Ids /\ AuthorOf[m] = updater.at.author
         /\ ChannelOf[m] \in updater.channels
         /\ m <= newest[updater.at.author]
    /\ \A last \in updater.read, m \in stored :
         /\ AuthorOf[m] = updater.at.author /\ ChannelOf[m] \in updater.channels
         /\ updater.at.mark < m /\ m <= last
         => m \in updater.read \cup late
    /\ updater.step = "save" =>
         updater.known = IF Has(updater.at.author)
                         THEN profiles[updater.at.author].from ELSE {}

\* What a profile was made from: nothing private, its watermark, and everything
\* below it that was stored in time.
ProfileInv ==
  \A p \in DOMAIN profiles : Kept(p) =>
    /\ profiles[p].mark \in profiles[p].from /\ profiles[p].mark <= newest[p]
    /\ \A m \in profiles[p].from :
         m \in Ids /\ (ChannelOf[m] \notin Changing => ChannelOf[m] \in public)
    /\ \A m \in stored :
         /\ AuthorOf[m] = p /\ ChannelOf[m] \in public \ Changing
         /\ m <= profiles[p].mark
         => m \in profiles[p].from \cup late

WatermarkInv == StoredInv /\ ViewInv /\ ListInv /\ ReadInv /\ ProfileInv

\* The messages that are read are the first: none between two of them is not.
LEMMA FirstOfIsFirst ==
  ASSUME NEW ids \in SUBSET Ids, NEW last \in FirstOf(ids), NEW m \in ids, m <= last
  PROVE  m \in FirstOf(ids)
<1>0. (\A n \in ids : n \in Nat) /\ last \in Nat /\ m \in Nat
  BY PeopleAssumption DEF FirstOf
<1>1. {n \in ids : n < m} \subseteq {n \in ids : n < last}
  <2> SUFFICES ASSUME NEW n \in ids, n < m PROVE n < last
    OBVIOUS
  <2>1. n \in Nat
    BY <1>0
  <2> QED
    BY <1>0, <2>1
<1>2. IsFiniteSet({n \in ids : n < last})
  BY FS_Subset, PeopleAssumption
<1>3. Cardinality({n \in ids : n < m}) <= Cardinality({n \in ids : n < last})
  BY <1>1, <1>2, FS_Subset
<1>4. Cardinality({n \in ids : n < last}) \in Nat /\ Cardinality({n \in ids : n < m}) \in Nat
  BY <1>1, <1>2, FS_Subset, FS_CardinalityType
<1> QED
  BY <1>3, <1>4, PeopleAssumption DEF FirstOf

\* A message that is stored below a watermark is late.
LEMMA StoreKeepsWatermark ==
  ASSUME WatermarkInv, NEW m \in Ids, StoreMessage(m)
  PROVE  WatermarkInv'
<1> USE DEF WatermarkInv
<1>1. /\ AuthorOf[m] \in People
      /\ stored' = stored \cup {m} /\ newest' \in [People -> Nat]
      /\ late \subseteq late'
      /\ \A p \in People : newest[p] <= newest'[p]
      /\ m <= newest'[AuthorOf[m]]
      /\ m < newest[AuthorOf[m]] => m \in late'
      /\ UNCHANGED <<profiles, forgotten, public, cached, fresh, updater>>
  BY PeopleAssumption DEF StoreMessage, StoredInv, People
<1>2. \A n \in Ids : AuthorOf[n] \in People /\ n \in Nat
  BY PeopleAssumption DEF People
<1>3. StoredInv'
  BY <1>1, <1>2 DEF StoredInv
<1>4. ViewInv' /\ ListInv'
  BY <1>1 DEF ViewInv, ListInv, Agrees, Busy, Kept, MarkOf, Has
<1>5. ReadInv'
  <2> SUFFICES ASSUME Busy, Kept(updater.at.author) PROVE ReadInv'
    BY <1>1 DEF ReadInv, Busy, Kept
  <2>1. ASSUME NEW n \in updater.read
        PROVE  n \in Ids /\ n <= newest[updater.at.author] /\ n <= newest'[updater.at.author]
    BY <1>1, <1>2, <2>1 DEF ReadInv, Kept, StoredInv
  <2>2. ASSUME NEW last \in updater.read, AuthorOf[m] = updater.at.author, m <= last
        PROVE  m \in updater.read \cup late'
    BY <1>1, <1>2, <2>1, <2>2 DEF StoredInv
  <2> QED
    BY <1>1, <2>1, <2>2 DEF ReadInv, Busy, Kept, Has
<1>6. ProfileInv'
  <2> SUFFICES ASSUME NEW p \in DOMAIN profiles, Kept(p)
               PROVE  /\ profiles[p].mark <= newest'[p]
                      /\ AuthorOf[m] = p /\ m <= profiles[p].mark
                           => m \in profiles[p].from \cup late'
    BY <1>1 DEF ProfileInv, Kept
  <2>1. /\ profiles[p].mark \in profiles[p].from /\ profiles[p].mark <= newest[p]
        /\ profiles[p].mark \in Nat
    BY <1>2 DEF ProfileInv
  <2> QED
    BY <1>1, <1>2, <2>1 DEF StoredInv, Kept
<1> QED
  BY <1>3, <1>4, <1>5, <1>6

\* The guild and the command take nothing from a watermark.
LEMMA OthersKeepWatermark ==
  ASSUME WatermarkInv,
         \/ \E m \in Ids : ForgetMessage(m)
         \/ \E c \in Changing : ChangeChannel(c)
         \/ CacheExpires
         \/ \E p \in People : ForgetAuthor(p) \/ DeleteProfile(p) \/ DeleteQuotes(p)
         \/ UNCHANGED peopleVars,
         ForgetInv
  PROVE  WatermarkInv'
<1>1. /\ stored' \subseteq stored /\ forgotten \subseteq forgotten'
      /\ UNCHANGED <<updater, newest, late>>
      /\ (fresh' => fresh) /\ cached' = cached
      /\ \A c \in Channels \ Changing : c \in public' <=> c \in public
  <2>1. CASE \E c \in Changing : ChangeChannel(c)
    BY <2>1 DEF ChangeChannel
  <2>2. CASE CacheExpires
    BY <2>2 DEF CacheExpires
  <2>3. CASE \/ \E m \in Ids : ForgetMessage(m)
             \/ \E p \in People : ForgetAuthor(p) \/ DeleteProfile(p) \/ DeleteQuotes(p)
             \/ UNCHANGED peopleVars
    <3>1. UNCHANGED <<updater, newest, late, fresh, cached, public>>
      BY <2>3 DEF ForgetMessage, ForgetAuthor, DeleteProfile, DeleteQuotes, peopleVars
    <3>2. stored' \subseteq stored
      BY <2>3 DEF ForgetMessage, ForgetAuthor, DeleteProfile, DeleteQuotes, peopleVars
    <3>3. forgotten \subseteq forgotten'
      BY <2>3 DEF ForgetMessage, ForgetAuthor, DeleteProfile, DeleteQuotes, peopleVars
    <3> QED
      BY <3>1, <3>2, <3>3
  <2> QED
    BY <2>1, <2>2, <2>3
<1>2. ASSUME NEW p, Kept(p)'
      PROVE  Kept(p) /\ Has(p)' = Has(p) /\ (Has(p) => profiles'[p] = profiles[p])
  <2>1. ASSUME UNCHANGED profiles
        PROVE  Kept(p) /\ Has(p)' = Has(p) /\ (Has(p) => profiles'[p] = profiles[p])
    BY <1>1, <1>2, <2>1 DEF Kept, Has
  <2>2. ASSUME NEW q \in People, DeleteProfile(q)
        PROVE  /\ q \in forgotten /\ UNCHANGED forgotten
               /\ profiles' = [r \in DOMAIN profiles \ {q} |-> profiles[r]] \/ UNCHANGED profiles
    BY <2>2 DEF DeleteProfile, ForgetInv
  <2> QED
    <3>1. UNCHANGED profiles \/ \E q \in People : DeleteProfile(q)
      BY DEF ForgetMessage, ChangeChannel, CacheExpires, ForgetAuthor, DeleteQuotes,
        peopleVars
    <3>2. ASSUME NEW q \in People, DeleteProfile(q)
          PROVE  Kept(p) /\ Has(p)' = Has(p) /\ (Has(p) => profiles'[p] = profiles[p])
      <4>1. Kept(p) /\ p # q
        BY <1>2, <2>2, <3>2 DEF Kept
      <4>2. CASE UNCHANGED profiles
        BY <4>1, <4>2 DEF Has
      <4>3. CASE profiles' = [r \in DOMAIN profiles \ {q} |-> profiles[r]]
        <5>1. DOMAIN profiles' = DOMAIN profiles \ {q}
          BY <4>3
        <5>2. p \in DOMAIN profiles => profiles'[p] = profiles[p]
          BY <4>1, <4>3
        <5> QED
          BY <4>1, <5>1, <5>2 DEF Has
      <4> QED
        BY <2>2, <3>2, <4>2, <4>3
    <3> QED
      BY <2>1, <3>1, <3>2
<1>3. StoredInv' /\ ViewInv'
  BY <1>1 DEF WatermarkInv, StoredInv, ViewInv, Agrees
<1>4. ListInv'
  BY <1>1, <1>2 DEF WatermarkInv, ListInv, Busy, MarkOf
<1>5. ReadInv'
  BY <1>1, <1>2 DEF WatermarkInv, ReadInv, Busy
<1>6. ProfileInv'
  <2>1. ASSUME NEW p \in DOMAIN profiles', Kept(p)'
        PROVE  p \in DOMAIN profiles /\ Kept(p) /\ profiles'[p] = profiles[p]
    BY <1>2, <2>1 DEF Has
  <2>2. \A m \in Ids : ChannelOf[m] \in Channels
    BY DEF Channels
  <2> QED
    BY <1>1, <2>1, <2>2 DEF WatermarkInv, ProfileInv, StoredInv
<1> QED
  BY <1>3, <1>4, <1>5, <1>6 DEF WatermarkInv

\* A run begins with the channels that are public now, or were a while ago, and
\* lists nobody twice.
LEMMA ListingKeepsWatermark ==
  ASSUME WatermarkInv, UpdaterInv, StartRun \/ ListCandidates
  PROVE  WatermarkInv'
<1> USE DEF UpdaterInv, Update
<1>1. CASE StartRun
  <2>1. /\ updater' = [updater EXCEPT !.step = "list", !.channels = cached']
        /\ UNCHANGED <<stored, forgotten, public, newest, late, profiles>>
        /\ updater.step = "sleep"
    BY <1>1 DEF StartRun
  <2>2. /\ updater'.step = "list" /\ updater'.todo = updater.todo
        /\ updater'.at = updater.at /\ updater'.channels = cached'
    BY <2>1
  <2>3. Agrees(cached)'
    BY <1>1 DEF StartRun, WatermarkInv, ViewInv, Agrees
  <2>4. StoredInv' /\ ViewInv' /\ ProfileInv'
    BY <2>1, <2>2, <2>3 DEF WatermarkInv, StoredInv, ViewInv, ProfileInv, Kept, Agrees
  <2>5. ListInv' /\ ReadInv'
    BY <2>1, <2>2 DEF WatermarkInv, ListInv, ReadInv, Busy, Kept, MarkOf, Has
  <2> QED
    BY <2>4, <2>5 DEF WatermarkInv
<1>2. CASE ListCandidates
  <2>1. PICK picked \in SUBSET Ready :
          updater' = [updater EXCEPT !.step = "next",
             !.todo = {[author |-> p, mark |-> MarkOf(p)] : p \in picked}]
    BY <1>2 DEF ListCandidates
  <2>2. /\ UNCHANGED <<stored, forgotten, public, cached, fresh, newest, late, profiles>>
        /\ updater.step = "list"
    BY <1>2 DEF ListCandidates
  <2>3. /\ updater'.step = "next" /\ updater'.at = updater.at
        /\ updater'.channels = updater.channels
        /\ updater'.todo = {[author |-> p, mark |-> MarkOf(p)] : p \in picked}
    BY <2>1
  <2>4. picked \subseteq People
    BY DEF Ready
  <2>5. updater.at.author = 0 /\ ~Busy
    BY <2>2 DEF WatermarkInv, ListInv, Busy
  <2>6. \A p : MarkOf(p)' = MarkOf(p)
    BY <2>2 DEF MarkOf, Has
  <2>7. ListInv'
    BY <2>2, <2>3, <2>4, <2>5, <2>6, PeopleAssumption DEF ListInv, Busy, Kept
  <2>8. StoredInv' /\ ViewInv' /\ ReadInv' /\ ProfileInv'
    BY <2>2, <2>3 DEF WatermarkInv, StoredInv, ViewInv, ReadInv, ProfileInv, Busy,
      Kept, Agrees
  <2> QED
    BY <2>7, <2>8 DEF WatermarkInv
<1> QED
  BY <1>1, <1>2

\* The messages read of an author are all there are up to the last of them.
LEMMA ReadingKeepsWatermark ==
  ASSUME WatermarkInv, UpdaterInv, ReadMessages
  PROVE  WatermarkInv'
<1> USE DEF UpdaterInv, Update
<1> DEFINE Above(c) == Unread(c.author, c.mark, updater.channels)
<1>1. PICK cand \in updater.todo :
        updater' = [updater EXCEPT !.todo = @ \ {cand},
           !.step = IF FirstOf(Above(cand)) = {} THEN "next" ELSE "known",
           !.at = IF FirstOf(Above(cand)) = {} THEN @ ELSE cand,
           !.read = FirstOf(Above(cand))]
  BY DEF ReadMessages
<1>2. /\ UNCHANGED <<stored, forgotten, public, cached, fresh, newest, late, profiles>>
      /\ updater.step = "next" /\ ~Busy
  BY DEF ReadMessages, Busy
<1>3. /\ updater'.channels = updater.channels /\ updater'.todo = updater.todo \ {cand}
      /\ updater'.read = FirstOf(Above(cand))
  BY <1>1
<1>4. \/ updater'.step = "next" /\ updater'.at = updater.at
      \/ updater'.step = "known" /\ updater'.at = cand
  BY <1>1
<1>5. StoredInv' /\ ViewInv' /\ ProfileInv'
  BY <1>2, <1>3, <1>4 DEF WatermarkInv, StoredInv, ViewInv, ProfileInv, Kept, Agrees
<1>6. \A p : MarkOf(p)' = MarkOf(p)
  BY <1>2 DEF MarkOf, Has
<1>7. ListInv'
  BY <1>2, <1>3, <1>4, <1>6 DEF WatermarkInv, ListInv, Busy, Kept
<1>8. ReadInv'
  <2> SUFFICES ASSUME updater'.step = "known", updater'.at = cand, Kept(cand.author)
               PROVE  ReadInv'
    BY <1>2, <1>4 DEF ReadInv, Busy, Kept
  <2>1. Above(cand) \in SUBSET Ids /\ FirstOf(Above(cand)) \subseteq Above(cand)
    BY DEF WatermarkInv, StoredInv, Unread, FirstOf
  <2>2. ASSUME NEW m \in FirstOf(Above(cand))
        PROVE  /\ m \in Ids /\ AuthorOf[m] = cand.author
               /\ ChannelOf[m] \in updater.channels /\ m <= newest[cand.author]
    BY <2>1, <2>2 DEF WatermarkInv, StoredInv, Unread
  <2>3. ASSUME NEW last \in FirstOf(Above(cand)), NEW m \in stored,
               AuthorOf[m] = cand.author, ChannelOf[m] \in updater.channels,
               cand.mark < m, m <= last
        PROVE  m \in FirstOf(Above(cand))
    <3>1. m \in Above(cand)
      BY <2>3 DEF Unread
    <3> QED
      BY <2>1, <2>3, <3>1, FirstOfIsFirst
  <2> HIDE DEF Above
  <2> QED
    BY <1>2, <1>3, <2>2, <2>3 DEF ReadInv
<1> QED
  BY <1>5, <1>7, <1>8 DEF WatermarkInv

\* A profile is saved from what it was before and what was read since.
LEMMA SavingKeepsWatermark ==
  ASSUME WatermarkInv, UpdaterInv, ReadProfile \/ SaveProfile
  PROVE  WatermarkInv'
<1> USE DEF UpdaterInv, Update
<1>1. CASE ReadProfile
  <2>1. /\ UNCHANGED <<stored, forgotten, public, cached, fresh, newest, late, profiles>>
        /\ updater' = [updater EXCEPT !.step = "save",
             !.known = IF Has(updater.at.author)
                       THEN profiles[updater.at.author].from ELSE {}]
        /\ updater.step = "known"
    BY <1>1 DEF ReadProfile
  <2>2. /\ updater'.step = "save" /\ updater'.channels = updater.channels
        /\ updater'.todo = updater.todo /\ updater'.at = updater.at
        /\ updater'.read = updater.read
        /\ updater'.known = IF Has(updater.at.author)
                            THEN profiles[updater.at.author].from ELSE {}
    BY <2>1
  <2>3. StoredInv' /\ ViewInv' /\ ProfileInv'
    BY <2>1, <2>2 DEF WatermarkInv, StoredInv, ViewInv, ProfileInv, Kept, Agrees
  <2>4. ListInv'
    BY <2>1, <2>2 DEF WatermarkInv, ListInv, Busy, Kept, MarkOf, Has
  <2>5. ReadInv'
    BY <2>1, <2>2 DEF WatermarkInv, ReadInv, Busy, Kept, Has
  <2> QED
    BY <2>3, <2>4, <2>5 DEF WatermarkInv
<1>2. CASE SaveProfile
  <2> DEFINE p == updater.at.author
  <2>1. PICK last \in updater.read :
          /\ \A m \in updater.read : m <= last
          /\ profiles' = [q \in DOMAIN profiles \cup {p} |->
               IF q = p THEN [from |-> updater.known \cup updater.read, mark |-> last]
                        ELSE profiles[q]]
    BY <1>2 DEF SaveProfile
  <2>2. /\ UNCHANGED <<stored, forgotten, public, cached, fresh, newest, late>>
        /\ updater.step = "save" /\ p \in People
    BY <1>2 DEF SaveProfile, NextAuthor, WatermarkInv, ListInv, Busy
  <2>3. /\ updater'.step = "next" /\ updater'.channels = updater.channels
        /\ updater'.todo = updater.todo /\ updater'.at.author = 0
    BY <1>2 DEF SaveProfile, NextAuthor, Asleep
  <2>4. StoredInv' /\ ViewInv'
    BY <2>2, <2>3 DEF WatermarkInv, StoredInv, ViewInv, Agrees
  <2>5. ListInv' /\ ReadInv'
    <3>1. ASSUME NEW q, q # p PROVE MarkOf(q)' = MarkOf(q)
      BY <2>1, <3>1 DEF MarkOf, Has
    <3>2. \A c \in updater.todo : c.author # p
      BY DEF WatermarkInv, ListInv
    <3>3. ~Busy'
      BY <2>3 DEF Busy
    <3> HIDE DEF p
    <3> QED
      BY <2>2, <2>3, <3>1, <3>2, <3>3, PeopleAssumption
      DEF WatermarkInv, ListInv, ReadInv, Kept
  <2>6. ProfileInv'
    <3>1. DOMAIN profiles' = DOMAIN profiles \cup {p}
      BY <2>1
    <3>2. ASSUME NEW q \in DOMAIN profiles', q # p
          PROVE  q \in DOMAIN profiles /\ profiles'[q] = profiles[q]
      BY <2>1, <3>2
    <3>3. profiles'[p] = [from |-> updater.known \cup updater.read, mark |-> last]
      BY <2>1
    <3>4. ASSUME Kept(p)
          PROVE  /\ last \in updater.read /\ last <= newest[p]
                 /\ \A m \in updater.known \cup updater.read :
                      m \in Ids /\ (ChannelOf[m] \notin Changing => ChannelOf[m] \in public)
                 /\ \A m \in stored :
                      /\ AuthorOf[m] = p /\ ChannelOf[m] \in public \ Changing
                      /\ m <= last
                      => m \in updater.known \cup updater.read \cup late
      <4>1. /\ updater.known = IF Has(p) THEN profiles[p].from ELSE {}
            /\ updater.at.mark = MarkOf(p) /\ Agrees(updater.channels)
        BY <2>2, <3>4 DEF WatermarkInv, ReadInv, ListInv, ViewInv, Busy
      <4>2. \A m \in Ids : ChannelOf[m] \in Channels /\ m \in Nat \ {0}
        BY PeopleAssumption DEF Channels
      <4>3. \A m \in updater.read :
              m \in Ids /\ ChannelOf[m] \in updater.channels /\ m <= newest[p]
        BY <2>2, <3>4 DEF WatermarkInv, ReadInv, Busy
      <4>4. \A m \in updater.known :
              m \in Ids /\ (ChannelOf[m] \notin Changing => ChannelOf[m] \in public)
        BY <3>4, <4>1 DEF WatermarkInv, ProfileInv, Has
      <4>5. ASSUME NEW m \in stored, AuthorOf[m] = p,
                   ChannelOf[m] \in public \ Changing, m <= last
            PROVE  m \in updater.known \cup updater.read \cup late
        <5>1. m \in Ids /\ ChannelOf[m] \in updater.channels
          BY <4>1, <4>2, <4>5 DEF WatermarkInv, StoredInv, Agrees
        <5>2. CASE updater.at.mark < m
          BY <2>2, <3>4, <4>5, <5>1, <5>2 DEF WatermarkInv, ReadInv, Busy
        <5>3. CASE Has(p) /\ m <= profiles[p].mark
          BY <3>4, <4>1, <4>5, <5>3 DEF WatermarkInv, ProfileInv, Has
        <5>4. Has(p) => profiles[p].mark \in Nat
          BY <3>4, <4>2 DEF WatermarkInv, ProfileInv, Has
        <5> QED
          BY <4>1, <4>2, <5>1, <5>2, <5>3, <5>4 DEF MarkOf
      <4> HIDE DEF p
      <4> QED
        BY <2>1, <4>1, <4>2, <4>3, <4>4, <4>5 DEF Agrees
    <3> HIDE DEF p
    <3>5. \A q : Kept(q)' = Kept(q)
      BY <2>2 DEF Kept
    <3> QED
      BY <2>2, <3>1, <3>2, <3>3, <3>4, <3>5 DEF WatermarkInv, ProfileInv
  <2> QED
    BY <2>4, <2>5, <2>6 DEF WatermarkInv
<1> QED
  BY <1>1, <1>2

\* An author, or a run, that is given up changes no profile.
LEMMA GivingUpKeepsWatermark ==
  ASSUME WatermarkInv, UpdaterInv, UpdateFails \/ EndRun
  PROVE  WatermarkInv'
<1>1. /\ UNCHANGED <<stored, forgotten, public, cached, newest, late, profiles>>
      /\ fresh' = fresh \/ fresh' = FALSE
      /\ updater'.at.author = 0 /\ ~Busy'
      /\ \/ /\ updater'.step = "next" /\ updater.step # "sleep"
            /\ updater'.todo = updater.todo /\ updater'.channels = updater.channels
         \/ updater'.step = "sleep" /\ updater'.todo = {}
  <2>1. CASE UpdateFails
    BY <2>1 DEF UpdateFails, NextAuthor, Update, UpdaterInv, Asleep, Busy
  <2>2. CASE EndRun
    BY <2>2 DEF EndRun, Update, Asleep, Busy
  <2> QED
    BY <2>1, <2>2
<1>2. StoredInv' /\ ViewInv'
  BY <1>1 DEF WatermarkInv, StoredInv, ViewInv, Agrees
<1>3. ListInv' /\ ReadInv'
  BY <1>1, PeopleAssumption DEF WatermarkInv, ListInv, ReadInv, Kept, MarkOf, Has
<1>4. ProfileInv'
  BY <1>1 DEF WatermarkInv, ProfileInv, Kept
<1> QED
  BY <1>2, <1>3, <1>4 DEF WatermarkInv

\* Below its watermark a profile has everything, and nothing private.
THEOREM WatermarksAreTrue == PeopleSpec => []WatermarkIsTrue
<1> DEFINE All == ForgetInv /\ UpdaterInv /\ WatermarkInv
<1>1. PeopleInit => All
  <2> SUFFICES ASSUME PeopleInit PROVE WatermarkInv
    BY ForgetInvHolds
  <2>1. StoredInv /\ ViewInv /\ ProfileInv
    BY DEF PeopleInit, StoredInv, ViewInv, ProfileInv, Asleep
  <2>2. ListInv /\ ReadInv
    BY PeopleAssumption DEF PeopleInit, ListInv, ReadInv, Busy, Kept, Asleep
  <2> QED
    BY <2>1, <2>2 DEF WatermarkInv
<1>2. All /\ [PeopleNext]_peopleVars => All'
  <2> SUFFICES ASSUME ForgetInv, UpdaterInv, WatermarkInv, [PeopleNext]_peopleVars
               PROVE  WatermarkInv'
    BY ForgetInvHolds
  <2> QED
    BY StoreKeepsWatermark, OthersKeepWatermark, ListingKeepsWatermark,
      ReadingKeepsWatermark, SavingKeepsWatermark, GivingUpKeepsWatermark DEF PeopleNext
<1>3. All => WatermarkIsTrue
  <2> SUFFICES ASSUME WatermarkInv, NEW p \in DOMAIN profiles \ forgotten, NEW m \in stored,
                      AuthorOf[m] = p, ChannelOf[m] \notin Changing
               PROVE  IF ChannelOf[m] \in public
                      THEN m <= profiles[p].mark => m \in profiles[p].from \cup late
                      ELSE m \notin profiles[p].from
    BY DEF WatermarkIsTrue
  <2>1. Kept(p)
    BY DEF WatermarkInv, StoredInv, Kept, People
  <2> QED
    BY <2>1 DEF WatermarkInv, ProfileInv
<1> HIDE DEF All
<1> QED
  BY <1>1, <1>2, <1>3, PTL DEF PeopleSpec

-----------------------------------------------------------------------------
(* The days of the logs.                                                   *)

LEMMA DayDivides ==
  ASSUME NEW a \in Nat
  PROVE  /\ DayOf(a) \in Int
         /\ a % DayLength \in 0..DayLength-1
         /\ a = DayLength * DayOf(a) + (a % DayLength)
<1>1. DayLength \in Nat /\ DayLength > 0
  BY LogsAssumption
<1> QED
  BY <1>1 DEF DayOf

\* A time that is no more than k days later is of a day that is no more than k
\* days later.
LEMMA DaysApart ==
  ASSUME NEW a \in Nat, NEW b \in Nat, NEW k \in Nat, b - a <= k * DayLength
  PROVE  DayOf(b) - k <= DayOf(a)
<1> SUFFICES ASSUME DayOf(b) - k > DayOf(a) PROVE FALSE
  BY DayDivides
<1> DEFINE L == DayLength
           x == DayOf(a)
           y == DayOf(b)
           n == y - k - x - 1
<1>1. /\ x \in Int /\ a % L \in 0..L-1 /\ a = L * x + (a % L)
      /\ y \in Int /\ b % L \in 0..L-1 /\ b = L * y + (b % L)
      /\ L \in Nat \ {0}
  BY DayDivides, LogsAssumption
<1>2. L * y < L * x + L + k * L
  BY <1>1
<1>3. n \in Nat /\ y = x + 1 + k + n
  BY <1>1
<1> HIDE DEF L, x, y, n
<1>4. L * (x + 1 + k + n) = L * x + L + k * L + L * n
  BY <1>1, <1>3
<1>5. L * n >= 0
  BY <1>1, <1>3
<1> QED
  BY <1>1, <1>2, <1>3, <1>4, <1>5

LEMMA DaysInOrder ==
  ASSUME NEW a \in Nat, NEW b \in Nat, a <= b
  PROVE  DayOf(a) \in Nat /\ DayOf(a) <= DayOf(b)
<1>1. /\ a - b <= 0 * DayLength /\ 0 * DayLength = 0
      /\ DayOf(0) = 0 /\ 0 - a <= 0 * DayLength
  BY LogsAssumption DEF DayOf
<1>2. DayOf(a) - 0 <= DayOf(b)
  BY <1>1, DaysApart
<1>3. DayOf(0) - 0 <= DayOf(a)
  BY <1>1, DaysApart
<1> QED
  BY <1>1, <1>2, <1>3, DayDivides

\* No pruning has come to a day sys_logs may ask for.
LEMMA AskedIsKept ==
  ASSUME NEW a \in Nat, NEW b \in Nat, b - a <= MaxLogAge
  PROVE  DayOf(b) - LogRetention <= DayOf(a)
<1>1. b - a <= LogRetention * DayLength /\ LogRetention \in Nat
  BY LogsAssumption
<1> QED
  BY <1>1, DaysApart

-----------------------------------------------------------------------------
(* The files of the logs.                                                  *)

LogRecords == [id : Nat, at : Nat, kind : Kinds]

LogWrites == [rec : LogRecords, part : {"line", "text", "half"}, long : BOOLEAN]

LogsTypeOK ==
  /\ logTime \in 0..MaxLogTime
  /\ noted \cup written \subseteq LogRecords
  /\ \A r \in noted \cup written : r.at <= logTime
  /\ made \in Nat
  /\ files \in [Days -> Seq(LogWrites)]

\* A write is of a record of the day of the file, and its text has been written
\* but for a half; the text of a long record is too long for a line.
WriteIsTrue(w, day) ==
  /\ DayOf(w.rec.at) = day
  /\ w.part # "half" => w.rec \in written /\ (w.rec.kind = "long" => w.long)

FilesAreTrue ==
  \A day \in Days : \A k \in DOMAIN files[day] : WriteIsTrue(files[day][k], day)

InItsFile(r) ==
  LET file == files[DayOf(r.at)]
  IN  \E k \in DOMAIN file : file[k].rec = r /\ file[k].part # "half"

\* What was written is in a file, but for the days that may have been pruned.
WrittenIsKept ==
  \A r \in written : DayOf(logTime) - LogRetention <= DayOf(r.at) => InItsFile(r)

LogsInv == LogsTypeOK /\ FilesAreTrue /\ WrittenIsKept

LEMMA LogsDayTypes ==
  ASSUME LogsTypeOK
  PROVE  /\ logTime \in Nat /\ DayOf(logTime) \in Days /\ Days \subseteq Nat
         /\ LogRetention \in Nat
         /\ \A r \in noted \cup written :
              /\ r.at \in Nat /\ DayOf(r.at) \in Days /\ DayOf(r.at) <= DayOf(logTime)
<1>1. logTime \in Nat /\ MaxLogTime \in Nat /\ logTime <= MaxLogTime /\ LogRetention \in Nat
  BY LogsAssumption DEF LogsTypeOK
<1>2. /\ DayOf(logTime) \in Nat /\ DayOf(MaxLogTime) \in Nat
      /\ DayOf(logTime) <= DayOf(MaxLogTime)
  BY <1>1, DaysInOrder
<1>3. ASSUME NEW r \in noted \cup written
      PROVE  r.at \in Nat /\ DayOf(r.at) \in Nat /\ DayOf(r.at) <= DayOf(logTime)
  <2>1. r \in LogRecords /\ r.at <= logTime
    BY DEF LogsTypeOK
  <2>2. r.at \in Nat
    BY <2>1 DEF LogRecords
  <2> QED
    BY <1>1, <2>1, <2>2, DaysInOrder
<1> QED
  BY <1>1, <1>2, <1>3 DEF Days

LEMMA LogsInitHolds == LogsInit => LogsInv
<1> SUFFICES ASSUME LogsInit PROVE LogsInv
  OBVIOUS
<1>1. files \in [Days -> Seq(LogWrites)] /\ \A day \in Days : files[day] = <<>>
  BY DEF LogsInit
<1> QED
  BY <1>1, LogsAssumption DEF LogsInit, LogsInv, LogsTypeOK, FilesAreTrue, WrittenIsKept

\* A record, or what there is of it, comes to the end of the file of its day,
\* whatever the day is now.
LEMMA WriteKeepsLogs ==
  ASSUME LogsInv, NEW r \in noted, HandleRecord(r),
         NEW part \in {"line", "text", "half"}, Write(r, DayOf(r.at), part)
  PROVE  LogsInv'
<1> DEFINE day == DayOf(r.at)
           file == files[day]
<1>1. /\ files \in [Days -> Seq(LogWrites)] /\ day \in Days /\ r \in LogRecords
      /\ r.at <= logTime
  BY LogsDayTypes DEF LogsInv, LogsTypeOK
<1>2. file \in Seq(LogWrites) /\ Len(file) \in Nat /\ DOMAIN file = 1..Len(file)
  BY <1>1
<1>3. PICK long \in TooLong(r, day, part) :
        files' = [files EXCEPT ![day] = Append(@, [rec |-> r, part |-> part, long |-> long])]
  BY DEF Write
<1>4. long \in BOOLEAN /\ (r.kind = "long" /\ part # "half" => long)
  BY DEF TooLong
<1> DEFINE w == [rec |-> r, part |-> part, long |-> long]
<1>5. w \in LogWrites /\ w.rec = r /\ w.part = part /\ w.long = long
  BY <1>1, <1>4 DEF LogWrites
<1>6. files' = [files EXCEPT ![day] = Append(file, w)]
  BY <1>3
<1>7. /\ logTime' = logTime /\ noted' = noted \ {r} /\ made' = made
      /\ written' = IF part = "half" THEN written ELSE written \cup {r}
  BY DEF Write, HandleRecord
<1> HIDE DEF w
<1>8. /\ Append(file, w) \in Seq(LogWrites)
      /\ DOMAIN Append(file, w) = 1..Len(file)+1
      /\ Append(file, w)[Len(file)+1] = w
      /\ \A k \in 1..Len(file) : Append(file, w)[k] = file[k]
  BY <1>2, <1>5
<1>9. /\ files' \in [Days -> Seq(LogWrites)] /\ files'[day] = Append(file, w)
      /\ \A d \in Days : d # day => files'[d] = files[d]
  BY <1>1, <1>6, <1>8
<1>10. LogsTypeOK'
  BY <1>1, <1>7, <1>9 DEF LogsInv, LogsTypeOK
<1>11. \A d, v : WriteIsTrue(v, d) => WriteIsTrue(v, d)'
  BY <1>7 DEF WriteIsTrue, DayOf
<1>12. WriteIsTrue(w, day)'
  BY <1>4, <1>5, <1>7 DEF WriteIsTrue, DayOf
<1> HIDE DEF file, day
<1>13. FilesAreTrue'
  <2> SUFFICES ASSUME NEW d \in Days, NEW k \in DOMAIN files'[d]
               PROVE  WriteIsTrue(files[d][k], d)'
    BY DEF FilesAreTrue, Days, DayOf
  <2>1. CASE d # day
    BY <1>9, <1>11, <2>1 DEF LogsInv, FilesAreTrue
  <2>2. CASE d = day /\ k = Len(file) + 1
    BY <1>8, <1>9, <1>12, <2>2
  <2>3. CASE d = day /\ k # Len(file) + 1
    <3>1. k \in DOMAIN file /\ files'[d][k] = file[k]
      BY <1>2, <1>8, <1>9, <2>3
    <3> QED
      BY <1>1, <1>11, <2>3, <3>1 DEF LogsInv, FilesAreTrue, file
  <2> QED
    BY <2>1, <2>2, <2>3
<1>14. WrittenIsKept'
  <2> SUFFICES ASSUME NEW q \in written', DayOf(logTime) - LogRetention <= DayOf(q.at)
               PROVE  \E k \in DOMAIN files'[DayOf(q.at)] :
                        /\ files'[DayOf(q.at)][k].rec = q
                        /\ files'[DayOf(q.at)][k].part # "half"
    BY <1>7 DEF WrittenIsKept, InItsFile, DayOf
  <2>1. CASE q = r /\ part # "half"
    <3>1. Len(file) + 1 \in DOMAIN files'[day] /\ files'[day][Len(file) + 1] = w
      BY <1>2, <1>8, <1>9
    <3> QED
      BY <1>5, <2>1, <3>1 DEF day
  <2>2. CASE q # r \/ part = "half"
    <3>1. q \in written
      BY <1>7, <2>2
    <3>2. DayOf(q.at) \in Days
      BY <3>1, LogsDayTypes DEF LogsInv
    <3>3. PICK k \in DOMAIN files[DayOf(q.at)] :
            files[DayOf(q.at)][k].rec = q /\ files[DayOf(q.at)][k].part # "half"
      BY <3>1 DEF LogsInv, WrittenIsKept, InItsFile
    <3>4. CASE DayOf(q.at) = day
      <4>1. k \in 1..Len(file) /\ file[k].rec = q /\ file[k].part # "half"
        BY <1>2, <3>3, <3>4 DEF file
      <4>2. k \in 1..Len(file)+1
        BY <1>2, <4>1
      <4>3. k \in DOMAIN files'[day] /\ files'[day][k] = file[k]
        BY <1>8, <1>9, <4>1, <4>2
      <4> QED
        BY <3>4, <4>1, <4>3
    <3>5. CASE DayOf(q.at) # day
      BY <1>9, <3>2, <3>3, <3>5
    <3> QED
      BY <3>4, <3>5
  <2> QED
    BY <2>1, <2>2
<1> QED
  BY <1>10, <1>13, <1>14 DEF LogsInv

\* Only whole days go, and none of a record that has to stay.
LEMMA OpenKeepsLogs ==
  ASSUME LogsInv, OpenHome
  PROVE  LogsInv'
<1>1. PICK gone \in SUBSET Old :
        files' = [d \in Days |-> IF d \in gone THEN <<>> ELSE files[d]]
  BY DEF OpenHome
<1>2. noted' = {} /\ written' = written /\ logTime' = logTime /\ made' = made
  BY DEF OpenHome
<1>3. files \in [Days -> Seq(LogWrites)]
  BY DEF LogsInv, LogsTypeOK
<1>4. files' \in [Days -> Seq(LogWrites)]
  BY <1>1, <1>3
<1>5. LogsTypeOK'
  BY <1>2, <1>4 DEF LogsInv, LogsTypeOK
<1>6. \A d \in Days : \/ files'[d] = files[d]
                      \/ files'[d] = <<>> /\ d \in Old
  BY <1>1
<1>7. FilesAreTrue'
  BY <1>2, <1>6 DEF LogsInv, FilesAreTrue, WriteIsTrue, Days, DayOf
<1>8. WrittenIsKept'
  <2> SUFFICES ASSUME NEW q \in written, DayOf(logTime) - LogRetention <= DayOf(q.at)
               PROVE  files'[DayOf(q.at)] = files[DayOf(q.at)]
    BY <1>2 DEF LogsInv, WrittenIsKept, InItsFile, DayOf
  <2>1. DayOf(q.at) \in Days
    BY LogsDayTypes DEF LogsInv
  <2>2. DayOf(q.at) \notin Old
    BY <2>1, LogsDayTypes DEF Old, LogsInv
  <2> QED
    BY <1>6, <2>1, <2>2
<1> QED
  BY <1>5, <1>7, <1>8 DEF LogsInv

LEMMA LogsInvHolds == LogsSpec => []LogsInv
<1>1. LogsInv /\ [LogsNext]_logsVars => LogsInv'
  <2> SUFFICES ASSUME LogsInv, [LogsNext]_logsVars PROVE LogsInv'
    OBVIOUS
  <2> USE DEF LogsInv, LogsTypeOK, FilesAreTrue, WriteIsTrue, WrittenIsKept,
    InItsFile, DayOf, Days
  <2>1. CASE UNCHANGED logsVars
    BY <2>1 DEF logsVars
  <2>2. ASSUME NEW kind \in Kinds, Note(kind) PROVE LogsInv'
    <3>1. logTime \in Nat
      BY LogsDayTypes
    <3>2. [id |-> made + 1, at |-> logTime, kind |-> kind] \in LogRecords
      BY <3>1 DEF LogRecords
    <3> QED
      BY <2>2, <3>1, <3>2 DEF Note
  <2>3. ASSUME NEW r \in noted, HandleRecord(r) PROVE LogsInv'
    <3>1. ASSUME NEW part \in {"line", "text", "half"}, Write(r, DayOf(r.at), part)
          PROVE  LogsInv'
      BY <2>3, <3>1, WriteKeepsLogs
    <3>2. CASE UNCHANGED <<files, written>>
      BY <2>3, <3>2 DEF HandleRecord
    <3> QED
      BY <2>3, <3>1, <3>2 DEF HandleRecord
  <2>4. CASE OpenHome
    BY <2>4, OpenKeepsLogs
  <2>5. CASE LogsTick
    <3>1. logTime \in Nat /\ logTime' = logTime + 1 /\ logTime' \in 0..MaxLogTime
          /\ UNCHANGED <<made, noted, files, written>>
      BY <2>5, LogsAssumption DEF LogsTick
    <3>2. LogsTypeOK'
      <4>1. \A r \in noted \cup written : r.at \in Nat /\ r.at <= logTime
        BY LogsDayTypes
      <4>2. \A r \in noted \cup written : r.at <= logTime'
        BY <3>1, <4>1
      <4> QED
        BY <3>1, <4>2
    <3>3. ASSUME NEW r \in written, DayOf(logTime') - LogRetention <= DayOf(r.at) PROVE InItsFile(r)
      <4> USE DEF DayOf
      <4>1. DayOf(logTime) <= DayOf(logTime') /\ DayOf(logTime') \in Nat /\ DayOf(logTime) \in Nat
        BY <3>1, DaysInOrder, DaysInOrder
      <4>2. DayOf(r.at) \in Nat /\ LogRetention \in Nat
        BY LogsDayTypes
      <4> HIDE DEF DayOf
      <4>3. DayOf(logTime) - LogRetention <= DayOf(r.at)
        BY <3>3, <4>1, <4>2
      <4> QED
        BY <4>3
    <3> QED
      BY <3>1, <3>2, <3>3
  <2> QED
    BY <2>1, <2>2, <2>3, <2>4, <2>5 DEF LogsNext
<1> QED
  BY <1>1, LogsInitHolds, PTL DEF LogsSpec

-----------------------------------------------------------------------------
(* The problems in order.                                                  *)

Places == {p \in Nat \X Nat : WriteAt(p).rec.at \in Nat}

LEMMA BeforeIsOrder ==
  ASSUME NEW p \in Places, NEW q \in Places, NEW r \in Places
  PROVE  /\ p # q => Before(p, q) \/ Before(q, p)
         /\ ~Before(p, p)
         /\ Before(p, q) /\ Before(q, r) => Before(p, r)
         /\ Before(p, q) => WriteAt(p).rec.at <= WriteAt(q).rec.at
<1>1. \A x \in Places : x = <<x[1], x[2]>> /\ x[1] \in Nat /\ x[2] \in Nat /\ WriteAt(x).rec.at \in Nat
  BY DEF Places
<1>2. \A x, y \in Places : x # y => x[1] # y[1] \/ x[2] # y[2]
  BY <1>1
<1> HIDE DEF WriteAt, Places
<1> QED
  BY <1>1, <1>2 DEF Before

LEMMA LastPlace ==
  ASSUME NEW S, S \subseteq Places, IsFiniteSet(S), S # {}
  PROVE  \E m \in S : \A p \in S : p = m \/ Before(p, m)
<1> HIDE DEF Places, Before
<1> DEFINE HasLast(T) == \E m \in T : \A p \in T : p = m \/ Before(p, m)
           K == {n \in Nat : \A T \in SUBSET Places :
                   IsFiniteSet(T) /\ Cardinality(T) = n /\ T # {} => HasLast(T)}
<1>1. 0 \in K
  BY FS_EmptySet
<1>2. ASSUME NEW n \in Nat, n \in K PROVE n + 1 \in K
  <2>1. ASSUME NEW T \in SUBSET Places, IsFiniteSet(T), Cardinality(T) = n + 1, T # {}
        PROVE  HasLast(T)
    <3>1. PICK x \in T : TRUE
      BY <2>1
    <3>2. IsFiniteSet(T \ {x}) /\ Cardinality(T \ {x}) = n /\ T \ {x} \in SUBSET Places
      <4>1. IsFiniteSet(T \ {x}) /\ Cardinality(T \ {x}) = Cardinality(T) - 1
        BY <2>1, FS_RemoveElement
      <4> QED
        BY <2>1, <4>1
    <3>3. CASE T \ {x} = {}
      <4>1. \A p \in T : p = x
        BY <3>3
      <4> QED
        BY <4>1
    <3>4. CASE T \ {x} # {}
      <4>1. PICK m \in T \ {x} : \A p \in T \ {x} : p = m \/ Before(p, m)
        BY <1>2, <3>2, <3>4
      <4>2. CASE Before(m, x)
        <5>1. ASSUME NEW p \in T PROVE p = x \/ Before(p, x)
          BY <4>1, <4>2, BeforeIsOrder
        <5> QED
          BY <5>1
      <4>3. CASE ~Before(m, x)
        <5>1. Before(x, m)
          BY <4>1, <4>3, BeforeIsOrder
        <5>2. \A p \in T : p = m \/ Before(p, m)
          BY <4>1, <5>1
        <5> QED
          BY <4>1, <5>2
      <4> QED
        BY <4>2, <4>3
    <3> QED
      BY <3>3, <3>4
  <2> QED
    BY <2>1
<1>3. Nat \subseteq K
  <2> HIDE DEF K
  <2> QED
    BY <1>1, <1>2, NatSetInduction
<1>4. Cardinality(S) \in K
  BY <1>3, FS_CardinalityType
<1> QED
  BY <1>4

LEMMA SortedExists ==
  ASSUME NEW S, S \subseteq Places, IsFiniteSet(S)
  PROVE  \E s : Sorted(S, s)
<1> HIDE DEF Places, Before
<1> DEFINE K == {n \in Nat : \A T \in SUBSET Places :
                   IsFiniteSet(T) /\ Cardinality(T) = n => \E s : Sorted(T, s)}
<1>1. 0 \in K
  <2>1. ASSUME NEW T \in SUBSET Places, IsFiniteSet(T), Cardinality(T) = 0
        PROVE  Sorted(T, [i \in 1..0 |-> 0])
    <3>1. [i \in 1..0 |-> 0] \in [1..Cardinality(T) -> T]
      BY <2>1
    <3> QED
      BY <3>1 DEF Sorted
  <2> QED
    BY <2>1
<1>2. ASSUME NEW n \in Nat, n \in K PROVE n + 1 \in K
  <2>1. ASSUME NEW T \in SUBSET Places, IsFiniteSet(T), Cardinality(T) = n + 1
        PROVE  \E s : Sorted(T, s)
    <3>1. T # {}
      BY <2>1, FS_EmptySet
    <3>2. PICK m \in T : \A p \in T : p = m \/ Before(p, m)
      BY <2>1, <3>1, LastPlace
    <3>3. IsFiniteSet(T \ {m}) /\ Cardinality(T \ {m}) = n /\ T \ {m} \in SUBSET Places
      <4>1. IsFiniteSet(T \ {m}) /\ Cardinality(T \ {m}) = Cardinality(T) - 1
        BY <2>1, FS_RemoveElement
      <4> QED
        BY <2>1, <4>1
    <3>4. PICK s : Sorted(T \ {m}, s)
      BY <1>2, <3>3
    <3>5. /\ s \in [1..n -> T \ {m}]
          /\ \A i, j \in 1..n : i < j => Before(s[i], s[j])
      BY <3>3, <3>4 DEF Sorted
    <3> DEFINE t == [k \in 1..n+1 |-> IF k = n + 1 THEN m ELSE s[k]]
    <3>6. t \in [1..n+1 -> T] /\ t[n+1] = m
      BY <3>5
    <3>7. \A k \in 1..n : t[k] = s[k] /\ s[k] \in T \ {m}
      BY <3>5
    <3> HIDE DEF t
    <3>8. ASSUME NEW i \in 1..n+1, NEW j \in 1..n+1, i < j PROVE Before(t[i], t[j])
      <4>1. i \in 1..n
        BY <3>8
      <4>2. CASE j = n + 1
        BY <3>2, <3>6, <3>7, <4>1, <4>2
      <4>3. CASE j # n + 1
        <5>1. j \in 1..n
          BY <4>3
        <5> QED
          BY <3>5, <3>7, <3>8, <4>1, <5>1
      <4> QED
        BY <4>2, <4>3
    <3>9. Sorted(T, t)
      BY <2>1, <3>6, <3>8 DEF Sorted
    <3> QED
      BY <3>9
  <2> QED
    BY <2>1
<1>3. Nat \subseteq K
  <2> HIDE DEF K
  <2> QED
    BY <1>1, <1>2, NatSetInduction
<1>4. Cardinality(S) \in K
  BY <1>3, FS_CardinalityType
<1> QED
  BY <1>4

\* What InOrder makes of a finite set of places.
LEMMA InOrderIs ==
  ASSUME NEW S, S \subseteq Places, IsFiniteSet(S)
  PROVE  /\ Len(InOrder(S)) \in Nat /\ DOMAIN InOrder(S) = 1..Len(InOrder(S))
         /\ \A i \in 1..Len(InOrder(S)) : InOrder(S)[i] \in S
         /\ \A p \in S : \E i \in 1..Len(InOrder(S)) : InOrder(S)[i] = p
         /\ \A i, j \in 1..Len(InOrder(S)) :
              i <= j => WriteAt(InOrder(S)[i]).rec.at <= WriteAt(InOrder(S)[j]).rec.at
<1> HIDE DEF Before
<1> DEFINE s == InOrder(S)
           n == Cardinality(S)
<1>1. n \in Nat
  BY FS_CardinalityType
<1>2. Sorted(S, s)
  <2>1. PICK t : Sorted(S, t)
    BY SortedExists
  <2>2. t \in [1..Cardinality(S) -> S]
    BY <2>1 DEF Sorted
  <2> QED
    BY <2>1, <2>2 DEF InOrder
<1> HIDE DEF s
<1>3. s \in [1..n -> S] /\ \A i, j \in 1..n : i < j => Before(s[i], s[j])
  BY <1>2 DEF Sorted
<1> HIDE DEF n
<1>4. Len(s) = n /\ DOMAIN s = 1..n /\ \A i \in 1..n : s[i] \in S
  BY <1>1, <1>3
<1>5. ASSUME NEW i \in 1..n, NEW j \in 1..n, i # j PROVE s[i] # s[j]
  <2>1. s[i] \in Places /\ s[j] \in Places
    BY <1>4
  <2>2. Before(s[i], s[j]) \/ Before(s[j], s[i])
    BY <1>1, <1>3, <1>5
  <2> QED
    BY <2>1, <2>2, BeforeIsOrder
<1>6. s \in Surjection(1..n, S)
  <2>1. s \in Injection(1..n, S)
    BY <1>3, <1>5 DEF Injection, IsInjective
  <2>2. Cardinality(1..n) = Cardinality(S)
    BY <1>1, FS_Interval DEF n
  <2> QED
    BY <2>1, <2>2, FS_Injection
<1>7. \A p \in S : \E i \in 1..n : s[i] = p
  BY <1>6 DEF Surjection
<1>8. ASSUME NEW i \in 1..n, NEW j \in 1..n, i <= j PROVE WriteAt(s[i]).rec.at <= WriteAt(s[j]).rec.at
  <2>1. s[i] \in Places /\ s[j] \in Places
    BY <1>4
  <2>2. WriteAt(s[i]).rec.at \in Nat
    BY <2>1 DEF Places
  <2>3. CASE i = j
    BY <2>2, <2>3
  <2>4. CASE i < j
    BY <1>3, <2>1, <2>4, BeforeIsOrder
  <2> QED
    BY <1>1, <1>8, <2>3, <2>4
<1> QED
  BY <1>1, <1>4, <1>7, <1>8 DEF s

-----------------------------------------------------------------------------
(* What sys_logs finds.                                                    *)

\* What is found is in the files, of the days and times it is looked for.
LEMMA FoundAre ==
  ASSUME LogsInv, NEW since \in 0..logTime
  PROVE  /\ Found(since) \subseteq Places /\ IsFiniteSet(Found(since))
         /\ \A p \in Found(since) :
              WriteAt(p).rec \in written /\ WriteAt(p).rec.kind = "warn" /\ WriteAt(p).rec.at >= since
<1> DEFINE days == DayOf(since)..DayOf(logTime)
<1>1. /\ DayOf(since) \in Nat /\ DayOf(logTime) \in Nat
      /\ days \subseteq Days /\ Days \subseteq Nat
  <2>1. logTime \in Nat /\ since \in Nat /\ since <= logTime
    BY LogsDayTypes DEF LogsInv
  <2>2. DayOf(since) \in Nat /\ DayOf(logTime) \in Nat /\ DayOf(logTime) \in Days
    BY <2>1, DaysInOrder, LogsDayTypes DEF LogsInv
  <2>3. DayOf(MaxLogTime) \in Nat
    BY LogsAssumption, DaysInOrder
  <2> QED
    BY <2>2, <2>3 DEF Days
<1>2. ASSUME NEW day \in days
      PROVE  /\ IsFiniteSet(ProblemsOf(day, since))
             /\ \A p \in ProblemsOf(day, since) :
                  p \in Places /\ WriteAt(p).rec \in written
                  /\ WriteAt(p).rec.kind = "warn" /\ WriteAt(p).rec.at >= since
  <2>1. day \in Days /\ day \in Nat
    BY <1>1
  <2>2. files[day] \in Seq(LogWrites)
    BY <2>1 DEF LogsInv, LogsTypeOK
  <2>3. DOMAIN files[day] = 1..Len(files[day]) /\ Len(files[day]) \in Nat
    BY <2>2
  <2>4. ProblemsOf(day, since) \in SUBSET ({day} \X (1..Len(files[day])))
    BY <2>3 DEF ProblemsOf, Scanned
  <2>5. IsFiniteSet({day} \X (1..Len(files[day])))
    <3>1. IsFiniteSet({day})
      BY FS_Singleton
    <3>2. IsFiniteSet(1..Len(files[day]))
      <4>1. 1 \in Int /\ Len(files[day]) \in Int
        BY <2>3
      <4> QED
        BY <4>1, FS_Interval
    <3> QED
      BY <3>1, <3>2, FS_Product
  <2>6. ASSUME NEW p \in ProblemsOf(day, since)
        PROVE  p \in Places /\ WriteAt(p).rec \in written
               /\ WriteAt(p).rec.kind = "warn" /\ WriteAt(p).rec.at >= since
    <3>1. /\ p \in {day} \X Scanned(day) /\ WriteAt(p).part # "half"
          /\ WriteAt(p).rec.kind # "info" /\ WriteAt(p).rec.at >= since
      BY DEF ProblemsOf
    <3>2. p[1] = day /\ p[2] \in DOMAIN files[day] /\ p[2] \in Nat /\ p \in Nat \X Nat
      BY <2>1, <2>3, <3>1 DEF Scanned
    <3>3. WriteAt(p) = files[day][p[2]] /\ ~files[day][p[2]].long
      <4>1. files[day][p[2]].long => \E i \in p[2]+1..p[2] : BeginsLine(day, i)
        BY <3>1, <3>2 DEF Scanned
      <4> QED
        BY <3>2, <4>1 DEF WriteAt
    <3>4. WriteAt(p).rec \in LogRecords /\ WriteIsTrue(WriteAt(p), day)
      <4>1. WriteAt(p) \in LogWrites
        BY <2>2, <3>2, <3>3
      <4> QED
        BY <2>1, <3>2, <3>3, <4>1 DEF LogsInv, FilesAreTrue, LogWrites
    <3>5. WriteAt(p).rec.kind # "long" /\ WriteAt(p).rec \in written
      BY <3>1, <3>3, <3>4 DEF WriteIsTrue
    <3>6. WriteAt(p).rec.at \in Nat /\ WriteAt(p).rec.kind \in {"info", "warn", "long"}
      BY <3>4 DEF LogRecords, Kinds
    <3> QED
      BY <3>1, <3>2, <3>5, <3>6 DEF Places
  <2> QED
    BY <2>4, <2>5, <2>6, FS_Subset
<1>3. IsFiniteSet(Found(since))
  <2> DEFINE f == [day \in days |-> ProblemsOf(day, since)]
             T == {ProblemsOf(day, since) : day \in days}
  <2>1. f \in Surjection(days, T)
    BY DEF Surjection
  <2>2. IsFiniteSet(days)
    BY <1>1, FS_Interval
  <2>3. IsFiniteSet(T)
    BY <2>1, <2>2, FS_Surjection
  <2>4. \A U \in T : IsFiniteSet(U)
    BY <1>2
  <2> QED
    BY <2>3, <2>4, FS_UNION DEF Found
<1>4. \A p \in Found(since) : \E day \in days : p \in ProblemsOf(day, since)
  BY DEF Found
<1> QED
  BY <1>2, <1>3, <1>4

\* A warning that may be asked for is found, unless a line of its day is overlong or
\* it goes on in a line.
LEMMA WantedAreFound ==
  ASSUME LogsInv, NEW since \in 0..logTime, logTime - since <= MaxLogAge,
         NEW r \in written, r.kind = "warn", r.at >= since,
         ~ \E w \in ToSet(files[DayOf(r.at)]) : w.long, ~Swallowed(r)
  PROVE  \E p \in Found(since) : WriteAt(p).rec = r
<1> DEFINE day == DayOf(r.at)
<1>1. /\ logTime \in Nat /\ since \in Nat /\ r.at \in Nat
      /\ day \in Days /\ Days \subseteq Nat /\ DayOf(logTime) \in Nat /\ day <= DayOf(logTime)
      /\ LogRetention \in Nat
  BY LogsDayTypes DEF LogsInv
<1>2. DayOf(since) \in Nat /\ DayOf(since) <= day /\ day \in Nat
  BY <1>1, DaysInOrder
<1>3. DayOf(logTime) - LogRetention <= day
  <2>1. DayOf(logTime) - LogRetention <= DayOf(since)
    BY <1>1, AskedIsKept
  <2> HIDE DEF day
  <2> QED
    BY <1>1, <1>2, <2>1
<1>4. PICK k \in DOMAIN files[day] : files[day][k].rec = r /\ files[day][k].part # "half"
  BY <1>3 DEF LogsInv, WrittenIsKept, InItsFile
<1>5. BeginsLine(day, k)
  BY <1>4 DEF Swallowed
<1>6. \A j \in DOMAIN files[day] : ~files[day][j].long
  BY DEF ToSet
<1> HIDE DEF day
<1>7. DOMAIN files[day] = 1..Len(files[day]) /\ Len(files[day]) \in Nat
  BY <1>1 DEF LogsInv, LogsTypeOK
<1>8. k \in Scanned(day)
  BY <1>4, <1>5, <1>6 DEF Scanned
<1>9. WriteAt(<<day, k>>).rec = r /\ WriteAt(<<day, k>>).part # "half"
  BY <1>4 DEF WriteAt
<1>10. <<day, k>> \in ProblemsOf(day, since)
  BY <1>8, <1>9 DEF ProblemsOf
<1>11. day \in DayOf(since)..DayOf(logTime)
  BY <1>1, <1>2
<1>12. <<day, k>> \in Found(since)
  BY <1>10, <1>11 DEF Found
<1> QED
  BY <1>9, <1>12

\* Rick can look up what went wrong (sys_logs): what he is shown is what was
\* written since and in its order, and what he is not shown is older than all of
\* a full answer, of a day with an overlong line, or went on in a line that a failed
\* write had left without its end.
THEOREM ProblemsCanBeLookedUp == LogsSpec => []LogsRemember
<1>1. LogsInv => LogsRemember
  <2> SUFFICES ASSUME LogsInv, NEW since \in 0..logTime, logTime - since <= MaxLogAge
               PROVE  LET found == Problems(since)
                          wanted == {r \in written : r.kind = "warn" /\ r.at >= since}
                      IN  /\ ToSet(found) \subseteq wanted
                          /\ \A k \in 1..Len(found)-1 : found[k].at <= found[k+1].at
                          /\ \A r \in wanted \ ToSet(found) :
                               \/ Len(found) = MaxProblems /\ r.at <= found[1].at
                               \/ \E w \in ToSet(files[DayOf(r.at)]) : w.long
                               \/ Swallowed(r)
    BY DEF LogsRemember
  <2> DEFINE found == Problems(since)
             wanted == {r \in written : r.kind = "warn" /\ r.at >= since}
             order == InOrder(Found(since))
             n == Len(order)
             skipped == IF n > MaxProblems THEN n - MaxProblems ELSE 0
  <2>1. Found(since) \subseteq Places /\ IsFiniteSet(Found(since))
        /\ \A p \in Found(since) : WriteAt(p).rec \in wanted
    BY FoundAre
  <2>2. /\ n \in Nat
        /\ \A i \in 1..n : order[i] \in Found(since)
        /\ \A p \in Found(since) : \E i \in 1..n : order[i] = p
        /\ \A i, j \in 1..n : i <= j => WriteAt(order[i]).rec.at <= WriteAt(order[j]).rec.at
    BY <2>1, InOrderIs
  <2>3. MaxProblems \in Nat \ {0}
    BY LogsAssumption
  <2>4. found = [k \in 1..n - skipped |-> WriteAt(order[skipped + k]).rec]
    BY DEF Problems
  <2> HIDE DEF order, n, found
  <2>5. skipped \in Nat /\ n - skipped \in Nat
        /\ (skipped # 0 => skipped = n - MaxProblems)
    BY <2>2, <2>3
  <2> HIDE DEF skipped
  <2>6. DOMAIN found = 1..n - skipped /\ Len(found) = n - skipped
        /\ \A k \in 1..n - skipped : found[k] = WriteAt(order[skipped + k]).rec
    BY <2>4, <2>5
  <2>7. \A k \in 1..n - skipped : skipped + k \in 1..n
    BY <2>2, <2>5
  <2>8. ToSet(found) \subseteq wanted
    <3> HIDE DEF wanted
    <3> QED
      BY <2>1, <2>2, <2>6, <2>7 DEF ToSet
  <2>9. ASSUME NEW k \in 1..Len(found)-1 PROVE found[k].at <= found[k+1].at
    <3>1. k \in 1..n - skipped /\ k + 1 \in 1..n - skipped
          /\ skipped + k <= skipped + (k + 1)
      BY <2>5, <2>6
    <3> QED
      BY <2>2, <2>6, <2>7, <3>1
  <2>10. ASSUME NEW r \in wanted \ ToSet(found),
                ~ \E w \in ToSet(files[DayOf(r.at)]) : w.long, ~Swallowed(r)
         PROVE  Len(found) = MaxProblems /\ r.at <= found[1].at
    <3>1. r \in written /\ r.kind = "warn" /\ r.at >= since
      OBVIOUS
    <3>2. PICK p \in Found(since) : WriteAt(p).rec = r
      BY <2>10, <3>1, WantedAreFound
    <3>3. PICK i \in 1..n : order[i] = p
      BY <2>2
    <3>4. i <= skipped
      <4> SUFFICES ASSUME i > skipped PROVE FALSE
        BY <2>2, <2>5
      <4>1. i - skipped \in 1..n - skipped /\ skipped + (i - skipped) = i
        BY <2>2, <2>5
      <4>2. found[i - skipped] = r
        BY <2>6, <3>2, <3>3, <4>1
      <4> QED
        BY <2>6, <4>1, <4>2 DEF ToSet
    <3>5. skipped # 0 /\ n - skipped = MaxProblems
      BY <2>2, <2>3, <2>5, <3>4
    <3>6. 1 \in 1..n - skipped /\ skipped + 1 \in 1..n /\ i <= skipped + 1
      BY <2>2, <2>3, <2>5, <3>4, <3>5
    <3>7. found[1] = WriteAt(order[skipped + 1]).rec
      BY <2>6, <3>6
    <3>8. WriteAt(order[i]).rec.at <= WriteAt(order[skipped + 1]).rec.at
      BY <2>2, <3>6
    <3> QED
      BY <2>6, <3>2, <3>3, <3>5, <3>7, <3>8
  <2> QED
    BY <2>8, <2>9, <2>10 DEF found
<1> QED
  BY <1>1, LogsInvHolds, PTL
=============================================================================
