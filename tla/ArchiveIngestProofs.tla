------------------------ MODULE ArchiveIngestProofs ------------------------
(***************************************************************************)
(* The live archive for any guild, any chunk limits and any course of      *)
(* faults and restarts: chunks follow the order of their messages, no      *)
(* message is scored twice, and the chunking loop passes over none that    *)
(* was stored in time.  Last, what the chunker makes of any channel.       *)
(***************************************************************************)
EXTENDS ArchiveIngest, ChannelCuts, FiniteSetTheorems, SequenceTheorems,
        WellFoundedInduction, TLAPS

-----------------------------------------------------------------------------
(* Numbers in order.                                                       *)

LEMMA LeastOf ==
  ASSUME NEW S \in SUBSET Nat, S # {}
  PROVE  \E x \in S : \A y \in S : x <= y
<1> DEFINE R == OpToRel(<, Nat)
<1>1. IsWellFoundedOn(R, Nat)
  BY NatLessThanWellFounded
<1>2. \A x, y \in Nat : <<y, x>> \notin R => x <= y
  BY DEF OpToRel
<1> HIDE DEF R
<1>3. PICK x \in S : \A y \in S : <<y, x>> \notin R
  BY <1>1, WFMin
<1> QED
  BY <1>2, <1>3

\* Induction, of a set instead of a formula.
LEMMA SetInduction ==
  ASSUME NEW S, 0 \in S, \A n \in Nat : n \in S => n + 1 \in S
  PROVE  Nat \subseteq S
<1> SUFFICES ASSUME Nat \ S # {} PROVE FALSE
  OBVIOUS
<1>1. PICK x \in Nat \ S : \A y \in Nat \ S : x <= y
  BY LeastOf
<1>2. x # 0 /\ x - 1 \in Nat /\ x - 1 \in S
  BY <1>1
<1> QED
  BY <1>1, <1>2

LEMMA GreatestOf ==
  ASSUME NEW n \in Nat, NEW S \in SUBSET (0..n), S # {}
  PROVE  \E x \in S : \A y \in S : x >= y
<1> DEFINE T == {n - x : x \in S}
<1>1. T \in SUBSET Nat /\ T # {}
  <2>1. \A x \in S : x \in Int /\ 0 <= x /\ x <= n
    OBVIOUS
  <2>2. \A x \in S : n - x \in Nat
    BY <2>1
  <2> QED
    BY <2>2
<1>2. PICK x \in S : \A y \in T : n - x <= y
  BY <1>1, LeastOf
<1> QED
  BY <1>2

LEMMA MaxIs ==
  ASSUME NEW n \in Nat, NEW S \in SUBSET (0..n), S # {}
  PROVE  Max(S) \in S /\ \A y \in S : Max(S) >= y
BY GreatestOf DEF Max

\* s has the numbers of S in their order.
Ordered(s, S) ==
  s \in [1..Cardinality(S) -> S] /\ \A j, k \in DOMAIN s : j < k => s[j] < s[k]

LEMMA OrderExists ==
  ASSUME NEW n \in Nat, NEW S \in SUBSET (0..n)
  PROVE  IsFiniteSet(S) /\ Cardinality(S) \in Nat /\ \E s : Ordered(s, S)
<1>1. \A T \in SUBSET (0..n) : IsFiniteSet(T) /\ Cardinality(T) \in Nat
  <2>1. IsFiniteSet(0..n)
    BY FS_Interval
  <2> QED
    BY <2>1, FS_Subset, FS_CardinalityType
<1> DEFINE K == {k \in Nat : \A T \in SUBSET (0..n) : Cardinality(T) = k => \E s : Ordered(s, T)}
<1>2. 0 \in K
  <2> SUFFICES ASSUME NEW T \in SUBSET (0..n), Cardinality(T) = 0 PROVE \E s : Ordered(s, T)
    OBVIOUS
  <2>1. T = {}
    BY <1>1, FS_EmptySet
  <2>2. Ordered(<<>>, T)
    BY <2>1, FS_EmptySet DEF Ordered
  <2> QED
    BY <2>2
<1>3. ASSUME NEW k \in Nat, k \in K PROVE k + 1 \in K
  <2> SUFFICES ASSUME NEW T \in SUBSET (0..n), Cardinality(T) = k + 1
               PROVE  \E s : Ordered(s, T)
    OBVIOUS
  <2>1. T # {}
    BY <1>1, FS_EmptySet
  <2>2. PICK x \in T : \A y \in T : x >= y
    BY <2>1, GreatestOf
  <2>3. Cardinality(T \ {x}) = k
    BY <1>1, FS_RemoveElement
  <2>4. PICK s : Ordered(s, T \ {x})
    BY <1>3, <2>3
  <2>5. /\ s \in [1..k -> T \ {x}]
        /\ \A i, j \in 1..k : i < j => s[i] < s[j]
    BY <2>3, <2>4 DEF Ordered
  <2> DEFINE t == [j \in 1..(k+1) |-> IF j = k+1 THEN x ELSE s[j]]
  <2>6. \A j \in 1..k : j \in 1..(k+1) /\ j # k+1 /\ t[j] = s[j] /\ s[j] \in T /\ s[j] < x
    <3>1. \A y \in T : y \in Int /\ y <= x
      BY <2>2
    <3>2. \A j \in 1..k : s[j] \in T /\ s[j] # x
      BY <2>5
    <3>3. ASSUME NEW j \in 1..k PROVE s[j] < x
      <4>1. x \in Int /\ s[j] \in Int /\ s[j] <= x /\ s[j] # x
        BY <2>2, <3>1, <3>2
      <4> QED
        BY <4>1
    <3> QED
      BY <3>2, <3>3
  <2>7. t[k+1] = x /\ \A j \in 1..(k+1) : j = k+1 \/ j \in 1..k
    OBVIOUS
  <2>8. t \in [1..(k+1) -> T]
    BY <2>6, <2>7
  <2> HIDE DEF t
  <2>9. ASSUME NEW i \in 1..(k+1), NEW j \in 1..(k+1), i < j PROVE t[i] < t[j]
    <3>1. i \in 1..k
      BY <2>9
    <3> QED
      BY <2>5, <2>6, <2>7, <2>9, <3>1
  <2>10. Ordered(t, T)
    BY <2>8, <2>9 DEF Ordered
  <2> QED
    BY <2>10
<1>4. Nat \subseteq K
  <2> HIDE DEF K
  <2> QED
    BY <1>2, <1>3, SetInduction
<1>5. Cardinality(S) \in K
  <2> HIDE DEF K
  <2> QED
    BY <1>1, <1>4
<1> QED
  BY <1>1, <1>5

LEMMA AscendingIs ==
  ASSUME NEW n \in Nat, NEW S \in SUBSET (0..n)
  PROVE  /\ Ascending(S) \in Seq(S) /\ Len(Ascending(S)) \in Nat
         /\ \A j, k \in 1..Len(Ascending(S)) : j < k => Ascending(S)[j] < Ascending(S)[k]
         /\ \A i \in S : \E k \in 1..Len(Ascending(S)) : Ascending(S)[k] = i
<1> DEFINE s == Ascending(S)
           m == Cardinality(S)
<1>1. IsFiniteSet(S) /\ m \in Nat
  BY OrderExists
<1>2. Ordered(s, S)
  BY OrderExists DEF Ordered, Ascending
<1> HIDE DEF s
<1>3. /\ s \in [1..m -> S] /\ DOMAIN s = 1..m
      /\ \A j, k \in 1..m : j < k => s[j] < s[k]
  BY <1>2 DEF Ordered
<1>4. s \in Injection(1..m, S)
  <2>1. \A j, k \in 1..m : j < k => s[j] # s[k]
    <3>1. \A i \in S : i \in Int
      OBVIOUS
    <3>2. \A j \in 1..m : s[j] \in Int
      BY <1>3, <3>1
    <3> QED
      BY <1>3, <3>2
  <2>2. \A j, k \in 1..m : s[j] = s[k] => j = k
    BY <1>1, <2>1
  <2> QED
    BY <1>3, <2>2 DEF Injection, IsInjective
<1>5. Cardinality(1..m) = m
  BY <1>1, FS_Interval
<1>6. s \in Surjection(1..m, S)
  BY <1>1, <1>4, <1>5, FS_Injection
<1>7. s \in Seq(S) /\ Len(s) = m
  BY <1>1, <1>3
<1> QED
  BY <1>1, <1>3, <1>6, <1>7 DEF s, Surjection
-----------------------------------------------------------------------------
(* The chunker.                                                            *)

\* f has the chunks of the first messages, up to the k-th.
Chunked(f, k, msgs) ==
  f = [n \in 0..k |-> IF n = 0 THEN <<>> ELSE Add(f[n-1], msgs[n])]

LEMMA ChunkedExists ==
  ASSUME NEW M, NEW msgs \in Seq(M)
  PROVE  \E f : Chunked(f, Len(msgs), msgs)
<1> DEFINE K == {k \in Nat : \E f : Chunked(f, k, msgs)}
<1>1. 0 \in K
  <2>1. Chunked([n \in 0..0 |-> <<>>], 0, msgs)
    BY DEF Chunked
  <2> QED
    BY <2>1
<1>2. ASSUME NEW k \in Nat, k \in K PROVE k + 1 \in K
  <2>1. PICK f : Chunked(f, k, msgs)
    BY <1>2
  <2> DEFINE g == [n \in 0..k+1 |-> IF n = k+1 THEN Add(f[k], msgs[k+1]) ELSE f[n]]
  <2>2. \A n \in 0..k : g[n] = f[n]
    OBVIOUS
  <2>3. \A n \in 0..k : f[n] = IF n = 0 THEN <<>> ELSE Add(f[n-1], msgs[n])
    BY <2>1 DEF Chunked
  <2>4. ASSUME NEW n \in 0..k+1
        PROVE  g[n] = IF n = 0 THEN <<>> ELSE Add(g[n-1], msgs[n])
    <3>1. CASE n = k + 1
      <4>1. n - 1 = k /\ k \in 0..k /\ n # 0 /\ g[n] = Add(f[k], msgs[k+1])
        BY <3>1
      <4> QED
        BY <2>2, <3>1, <4>1
    <3>2. CASE n = 0
      BY <2>2, <2>3, <3>2
    <3>3. CASE n # k + 1 /\ n # 0
      <4>1. n \in 0..k /\ n - 1 \in 0..k
        BY <3>3
      <4> QED
        BY <2>2, <2>3, <3>3, <4>1
    <3> QED
      BY <3>1, <3>2, <3>3
  <2>5. Chunked(g, k + 1, msgs)
    <3>1. g = [n \in 0..k+1 |-> g[n]]
      OBVIOUS
    <3> HIDE DEF g
    <3> QED
      BY <2>4, <3>1 DEF Chunked
  <2> QED
    BY <2>5
<1>3. Nat \subseteq K
  <2> HIDE DEF K
  <2> QED
    BY <1>1, <1>2, SetInduction
<1>4. Len(msgs) \in K
  <2> HIDE DEF K
  <2> QED
    BY <1>3
<1> QED
  BY <1>4

LEMMA ChunkMessagesIs ==
  ASSUME NEW M, NEW msgs \in Seq(M)
  PROVE  \E f : Chunked(f, Len(msgs), msgs) /\ ChunkMessages(msgs) = f[Len(msgs)]
<1>1. Chunked(CHOOSE f : Chunked(f, Len(msgs), msgs), Len(msgs), msgs)
  BY ChunkedExists
<1>2. ChunkMessages(msgs) = (CHOOSE f : Chunked(f, Len(msgs), msgs))[Len(msgs)]
  BY DEF ChunkMessages, Chunked
<1> QED
  BY <1>1, <1>2

\* cs are the first n messages, cut after the message b[k] for each k.
Cuts(cs, b, n, msgs) ==
  /\ Len(cs) \in Nat /\ DOMAIN cs = 1..Len(cs)
  /\ b \in [0..Len(cs) -> 0..n] /\ b[0] = 0 /\ b[Len(cs)] = n
  /\ \A j, k \in 0..Len(cs) : j < k => b[j] < b[k]
  /\ \A i \in 1..n : \E k \in 1..Len(cs) : b[k-1] < i /\ i <= b[k]
  /\ \A k \in 1..Len(cs) :
       cs[k] = [i \in 1..(b[k] - b[k-1]) |-> msgs[b[k-1] + i]]

\* However a message is added, the messages stay cut into chunks.
LEMMA AddCuts ==
  ASSUME NEW M, NEW msgs \in Seq(M), NEW n \in Nat, n + 1 <= Len(msgs),
         NEW cs \in Seq(Seq(M)), NEW b, Cuts(cs, b, n, msgs)
  PROVE  /\ Add(cs, msgs[n+1]) \in Seq(Seq(M))
         /\ \E c : Cuts(Add(cs, msgs[n+1]), c, n + 1, msgs)
<1> DEFINE m == Len(cs)
           msg == msgs[n+1]
<1>1. msg \in M /\ m \in Nat
  OBVIOUS
<1>2. /\ b \in [0..m -> 0..n] /\ b[0] = 0 /\ b[m] = n
      /\ \A j, k \in 0..m : j < k => b[j] < b[k]
      /\ \A i \in 1..n : \E k \in 1..m : b[k-1] < i /\ i <= b[k]
      /\ \A k \in 1..m : cs[k] = [i \in 1..(b[k] - b[k-1]) |-> msgs[b[k-1] + i]]
  BY DEF Cuts
<1>3. ASSUME Add(cs, msg) = Append(cs, <<msg>>) PROVE Add(cs, msg) \in Seq(Seq(M))
                                                    /\ \E c : Cuts(Add(cs, msg), c, n + 1, msgs)
  <2> DEFINE c == [k \in 0..(m+1) |-> IF k = m+1 THEN n+1 ELSE b[k]]
             ds == Append(cs, <<msg>>)
  <2>1. ds \in Seq(Seq(M)) /\ Len(ds) = m + 1 /\ DOMAIN ds = 1..(m+1) /\ ds[m+1] = <<msg>>
        /\ \A k \in 1..m : ds[k] = cs[k]
    BY <1>1
  <2>2. /\ c[m+1] = n + 1 /\ \A k \in 0..m : c[k] = b[k] /\ b[k] \in 0..n
    BY <1>1, <1>2
  <2>3. c \in [0..(m+1) -> 0..(n+1)]
    BY <1>1, <1>2
  <2> HIDE DEF c, ds, m
  <2>4. ASSUME NEW j \in 0..(m+1), NEW k \in 0..(m+1), j < k PROVE c[j] < c[k]
    <3>1. j \in 0..m /\ (k = m + 1 \/ k \in 0..m)
      BY <1>1, <2>4
    <3> QED
      BY <1>2, <2>2, <2>4, <3>1
  <2>5. ASSUME NEW i \in 1..(n+1)
        PROVE  \E k \in 1..(m+1) : c[k-1] < i /\ i <= c[k]
    <3>1. CASE i = n + 1
      <4>1. m \in 0..m /\ m + 1 \in 1..(m+1) /\ (m+1) - 1 = m
        BY <1>1
      <4>2. c[(m+1) - 1] < i /\ i <= c[m+1]
        BY <1>2, <2>2, <3>1, <4>1
      <4> QED
        BY <4>1, <4>2
    <3>2. CASE i \in 1..n
      <4>1. PICK k \in 1..m : b[k-1] < i /\ i <= b[k]
        BY <1>2, <3>2
      <4>2. k \in 1..(m+1) /\ k - 1 \in 0..m /\ k \in 0..m
        BY <1>1
      <4>3. c[k-1] < i /\ i <= c[k]
        BY <2>2, <4>1, <4>2
      <4> QED
        BY <4>2, <4>3
    <3> QED
      BY <3>1, <3>2
  <2>6. ASSUME NEW k \in 1..(m+1)
        PROVE  ds[k] = [i \in 1..(c[k] - c[k-1]) |-> msgs[c[k-1] + i]]
    <3>1. CASE k = m + 1
      <4>1. c[k] - c[k-1] = 1 /\ c[k-1] = n
        <5>1. k - 1 = m /\ m \in 0..m
          BY <1>1, <3>1
        <5> QED
          BY <1>2, <2>2, <3>1, <5>1
      <4>2. [i \in 1..(c[k] - c[k-1]) |-> msgs[c[k-1] + i]] = [i \in 1..1 |-> msgs[n + i]]
        BY <4>1
      <4>3. [i \in 1..1 |-> msgs[n + i]] = <<msgs[n + 1]>>
        OBVIOUS
      <4> QED
        BY <2>1, <3>1, <4>2, <4>3
    <3>2. CASE k # m + 1
      <4>1. k \in 1..m /\ k \in 0..m /\ k - 1 \in 0..m
        BY <1>1, <3>2
      <4> QED
        BY <1>2, <2>1, <2>2, <4>1
    <3> QED
      BY <3>1, <3>2
  <2>7. c[0] = 0
    BY <1>1, <1>2, <2>2
  <2>8. Cuts(ds, c, n + 1, msgs)
    <3>1. PICK l \in Nat : l = m + 1
      BY <1>1
    <3>2. /\ c \in [0..l -> 0..(n+1)] /\ c[0] = 0 /\ c[l] = n + 1
          /\ \A j, k \in 0..l : j < k => c[j] < c[k]
      BY <2>2, <2>3, <2>4, <2>7, <3>1
    <3>3. \A i \in 1..(n+1) : \E k \in 1..l : c[k-1] < i /\ i <= c[k]
      BY <2>5, <3>1
    <3>4. \A k \in 1..l : ds[k] = [i \in 1..(c[k] - c[k-1]) |-> msgs[c[k-1] + i]]
      BY <2>6, <3>1
    <3>5. Len(ds) = l /\ DOMAIN ds = 1..l
      BY <2>1, <3>1
    <3> QED
      BY <3>2, <3>3, <3>4, <3>5 DEF Cuts
  <2> QED
    BY <1>3, <2>1, <2>8 DEF ds
<1>4. ASSUME cs # <<>>, Add(cs, msg) = [cs EXCEPT ![m] = Append(@, msg)]
      PROVE  Add(cs, msg) \in Seq(Seq(M)) /\ \E c : Cuts(Add(cs, msg), c, n + 1, msgs)
  <2> DEFINE c == [k \in 0..m |-> IF k = m THEN n+1 ELSE b[k]]
             ds == [cs EXCEPT ![m] = Append(@, msg)]
  <2>1. m \in 1..m /\ cs[m] \in Seq(M)
    BY <1>1, <1>4
  <2>2. ds \in Seq(Seq(M)) /\ Len(ds) = m /\ DOMAIN ds = 1..m /\ ds[m] = Append(cs[m], msg)
        /\ \A k \in 1..m : k # m => ds[k] = cs[k]
    BY <1>1, <2>1
  <2>3. c[m] = n + 1 /\ (\A k \in 0..m : b[k] \in 0..n)
        /\ (\A k \in 0..m : k # m => c[k] = b[k])
    <3> HIDE DEF m
    <3>1. m \in 0..m
      BY <1>1
    <3>2. \A k \in 0..m : b[k] \in 0..n
      BY <1>2
    <3> QED
      BY <3>1, <3>2
  <2>4. c \in [0..m -> 0..(n+1)]
    <3>1. \A k \in 0..m : c[k] \in 0..(n+1)
      BY <1>1, <2>3
    <3> QED
      BY <3>1
  <2> HIDE DEF c, ds, m
  <2>5. ASSUME NEW j \in 0..m, NEW k \in 0..m, j < k PROVE c[j] < c[k]
    <3>1. j # m
      BY <1>1, <2>5
    <3>2. CASE k = m
      BY <2>3, <3>1, <3>2
    <3>3. CASE k # m
      BY <1>2, <2>3, <2>5, <3>1, <3>3
    <3> QED
      BY <3>2, <3>3
  <2>6. ASSUME NEW i \in 1..(n+1)
        PROVE  \E k \in 1..m : c[k-1] < i /\ i <= c[k]
    <3>0. m - 1 \in 0..m /\ m - 1 # m /\ c[m-1] = b[m-1] /\ b[m-1] < n + 1
      BY <1>1, <2>1, <2>3
    <3>1. CASE i = n + 1
      BY <2>1, <2>3, <3>0, <3>1
    <3>2. CASE i \in 1..n
      <4>1. PICK k \in 1..m : b[k-1] < i /\ i <= b[k]
        BY <1>2, <3>2
      <4>2. k - 1 \in 0..m /\ k - 1 # m /\ k \in 0..m
        BY <1>1
      <4>3. c[k-1] < i
        BY <2>3, <4>1, <4>2
      <4>4. i <= c[k]
        <5>1. CASE k = m
          BY <2>3, <3>2, <5>1
        <5>2. CASE k # m
          BY <2>3, <4>1, <4>2, <5>2
        <5> QED
          BY <5>1, <5>2
      <4> QED
        BY <4>3, <4>4
    <3> QED
      BY <3>1, <3>2
  <2>7. ASSUME NEW k \in 1..m
        PROVE  ds[k] = [i \in 1..(c[k] - c[k-1]) |-> msgs[c[k-1] + i]]
    <3>1. k - 1 \in 0..m /\ k - 1 # m /\ c[k-1] = b[k-1] /\ k \in 0..m /\ b[k-1] \in 0..n
      BY <1>1, <2>3
    <3>2. CASE k = m
      <4> DEFINE h == n - b[m-1]
      <4>1. cs[m] = [i \in 1..h |-> msgs[b[m-1] + i]] /\ h \in Nat
        <5>1. b[m-1] \in 0..n
          BY <3>1, <3>2
        <5>2. cs[m] = [i \in 1..(b[m] - b[m-1]) |-> msgs[b[m-1] + i]]
          BY <1>2, <2>1
        <5> QED
          BY <1>2, <5>1, <5>2
      <4>2. Append(cs[m], msg) = [i \in 1..(h+1) |-> IF i = h+1 THEN msg ELSE cs[m][i]]
        <5> HIDE DEF h
        <5>1. Len(cs[m]) = h
          BY <4>1
        <5> QED
          BY <2>1, <4>1, <5>1
      <4>3. c[k] - c[k-1] = h + 1 /\ b[m-1] + (h + 1) = n + 1
        <5>1. b[m-1] \in Int /\ c[k-1] = b[m-1] /\ c[k] = n + 1
          BY <2>3, <3>1, <3>2
        <5>2. PICK y \in Int : y = b[m-1]
          BY <5>1
        <5>3. h = n - y
          BY <5>2
        <5>4. (n + 1) - y = h + 1 /\ y + (h + 1) = n + 1
          BY <5>3
        <5> QED
          BY <5>1, <5>2, <5>4
      <4>4. Append(cs[m], msg) = [i \in 1..(h+1) |-> msgs[b[m-1] + i]]
        BY <4>1, <4>2, <4>3
      <4> QED
        BY <2>2, <3>1, <3>2, <4>3, <4>4
    <3>3. CASE k # m
      BY <1>2, <2>2, <2>3, <3>1, <3>3
    <3> QED
      BY <3>2, <3>3
  <2>8. c[0] = 0
    BY <1>1, <1>2, <2>1, <2>3
  <2>9. Cuts(ds, c, n + 1, msgs)
    BY <1>1, <2>1, <2>2, <2>3, <2>4, <2>5, <2>6, <2>7, <2>8 DEF Cuts
  <2> QED
    BY <1>4, <2>2, <2>9 DEF ds
<1>5. \/ Add(cs, msg) = Append(cs, <<msg>>)
      \/ cs # <<>> /\ Add(cs, msg) = [cs EXCEPT ![m] = Append(@, msg)]
  BY DEF Add
<1> QED
  BY <1>3, <1>4, <1>5

\* So the chunks are the messages, cut.
LEMMA ChunksAreCuts ==
  ASSUME NEW M, NEW msgs \in Seq(M)
  PROVE  /\ ChunkMessages(msgs) \in Seq(Seq(M))
         /\ \E b : Cuts(ChunkMessages(msgs), b, Len(msgs), msgs)
<1>1. PICK f : Chunked(f, Len(msgs), msgs) /\ ChunkMessages(msgs) = f[Len(msgs)]
  BY ChunkMessagesIs
<1> DEFINE K == {k \in Nat : k <= Len(msgs) =>
                   f[k] \in Seq(Seq(M)) /\ \E b : Cuts(f[k], b, k, msgs)}
<1>2. Len(msgs) \in Nat
  OBVIOUS
<1>3. 0 \in K
  <2>1. f[0] = <<>>
    BY <1>1, <1>2 DEF Chunked
  <2>2. Cuts(<<>>, [k \in 0..0 |-> 0], 0, msgs)
    BY DEF Cuts
  <2>3. <<>> \in Seq(Seq(M))
    OBVIOUS
  <2> QED
    BY <2>1, <2>2, <2>3
<1>4. ASSUME NEW k \in Nat, k \in K PROVE k + 1 \in K
  <2>1. ASSUME k + 1 <= Len(msgs)
        PROVE  f[k+1] \in Seq(Seq(M)) /\ \E b : Cuts(f[k+1], b, k+1, msgs)
    <3>1. f[k] \in Seq(Seq(M)) /\ \E b : Cuts(f[k], b, k, msgs)
      BY <1>2, <1>4, <2>1
    <3>2. PICK b : Cuts(f[k], b, k, msgs)
      BY <3>1
    <3>3. f[k+1] = Add(f[k], msgs[k+1])
      <4>1. k + 1 \in 0..Len(msgs) /\ k + 1 # 0 /\ (k + 1) - 1 = k
        BY <1>2, <2>1
      <4> QED
        BY <1>1, <4>1 DEF Chunked
    <3> QED
      BY <2>1, <3>1, <3>2, <3>3, AddCuts
  <2> QED
    BY <2>1
<1>5. Nat \subseteq K
  <2> HIDE DEF K
  <2> QED
    BY <1>3, <1>4, SetInduction
<1>6. Len(msgs) \in K
  <2> HIDE DEF K
  <2> QED
    BY <1>2, <1>5
<1> QED
  BY <1>1, <1>2, <1>6

LEMMA CompleteIsPrefix ==
  ASSUME NEW M, NEW cs \in Seq(Seq(M)), NEW t
  PROVE  /\ CompleteChunks(cs, t) \in Seq(Seq(M))
         /\ Len(CompleteChunks(cs, t)) <= Len(cs)
         /\ \A k \in 1..Len(CompleteChunks(cs, t)) : CompleteChunks(cs, t)[k] = cs[k]
<1> DEFINE D == Seq(M)
<1> HIDE DEF D
<1>1. CASE CompleteChunks(cs, t) = cs
  BY <1>1
<1>2. CASE CompleteChunks(cs, t) = Front(cs) /\ cs # <<>>
  <2>1. cs \in Seq(D) /\ Len(cs) \in Nat \ {0}
    BY <1>2 DEF D
  <2>2. Front(cs) \in Seq(D) /\ Len(Front(cs)) = Len(cs) - 1
        /\ \A k \in 1..Len(cs) - 1 : Front(cs)[k] = cs[k]
    <3>1. Len(cs) - 1 \in Nat /\ Len(cs) - 1 <= Len(cs)
      BY <2>1
    <3>2. PICK m \in Nat : m = Len(cs) - 1 /\ m <= Len(cs)
      BY <3>1
    <3>3. SubSeq(cs, 1, m) \in Seq(D) /\ Len(SubSeq(cs, 1, m)) = m
          /\ \A k \in 1..m : SubSeq(cs, 1, m)[k] = cs[k]
      <4>1. \A i \in 1..m : cs[i] \in D
        BY <2>1, <3>2
      <4> QED
        BY <3>2, <4>1, SubSeqProperties
    <3> QED
      BY <3>2, <3>3 DEF Front
  <2> QED
    BY <1>2, <2>1, <2>2 DEF D
<1> QED
  BY <1>1, <1>2 DEF CompleteChunks

LEMMA FunctionIsSeq ==
  ASSUME NEW S, NEW n \in Nat, NEW s \in [1..n -> S]
  PROVE  s \in Seq(S) /\ Len(s) = n
OBVIOUS

LEMMA FirstIs ==
  ASSUME NEW S, NEW s \in Seq(S), NEW n \in Nat
  PROVE  /\ First(n, s) \in Seq(S) /\ Len(First(n, s)) \in Nat /\ Len(First(n, s)) <= Len(s)
         /\ \A k \in 1..Len(First(n, s)) : First(n, s)[k] = s[k]
<1> DEFINE m == Min({n, Len(s)})
<1>1. m \in Nat /\ m <= Len(s)
  <2>1. \E x \in {n, Len(s)} : \A y \in {n, Len(s)} : x <= y
    OBVIOUS
  <2>2. m \in {n, Len(s)} /\ m <= Len(s)
    BY <2>1 DEF Min
  <2> QED
    BY <2>2
<1> HIDE DEF m
<1>2. SubSeq(s, 1, m) \in Seq(S) /\ Len(SubSeq(s, 1, m)) = m
      /\ \A k \in 1..m : SubSeq(s, 1, m)[k] = s[k]
  BY <1>1
<1> QED
  BY <1>1, <1>2 DEF First, m

Increasing(s) == \A j, k \in DOMAIN s : j < k => s[j] < s[k]

\* rs has the ids of the first chunks into which messages with these ids are cut.
CutUp(rs, ids) ==
  /\ rs \in Seq(Seq(Nat))
  /\ \A k \in DOMAIN rs :
       /\ rs[k] # <<>> /\ Increasing(rs[k]) /\ Range(rs[k]) \subseteq Range(ids)
       /\ \A j \in DOMAIN rs : j < k => Last(rs[j]) < rs[k][1]
       /\ \A i \in Range(ids) : i <= Last(rs[k]) => \E j \in 1..k : i \in Range(rs[j])

\* Where a sequence is cut, and the first l pieces.
CutPoints(b, m, n) ==
  /\ b \in [0..m -> 0..n] /\ b[0] = 0
  /\ \A j, k \in 0..m : j < k => b[j] < b[k]
  /\ \A i \in 1..n : \E k \in 1..m : b[k-1] < i /\ i <= b[k]

Pieces(ids, b, l) == [k \in 1..l |-> [i \in 1..(b[k] - b[k-1]) |-> ids[b[k-1] + i]]]

LEMMA PiecesCutUp ==
  ASSUME NEW ids \in Seq(Nat), Increasing(ids), NEW l \in Nat, NEW m \in Nat, l <= m,
         NEW b, CutPoints(b, m, Len(ids)), NEW rs, rs = Pieces(ids, b, l)
  PROVE  CutUp(rs, ids)
<1> DEFINE n == Len(ids)
<1>1. n \in Nat /\ DOMAIN ids = 1..n /\ \A i \in 1..n : ids[i] \in Nat
  OBVIOUS
<1> HIDE DEF n
<1>e. CutPoints(b, m, n)
  BY DEF n
<1>0. /\ \A k \in 0..m : b[k] \in Nat /\ b[k] <= n
      /\ \A j, k \in 0..m : j < k => b[j] < b[k]
      /\ \A i \in 1..n : \E k \in 1..m : b[k-1] < i /\ i <= b[k]
  BY <1>1, <1>e DEF CutPoints
<1>a. \A k \in 1..l : k \in 0..m /\ k - 1 \in 0..m /\ k - 1 < k
  OBVIOUS
<1> DEFINE h == [k \in 1..l |-> b[k] - b[k-1]]
<1>b. ASSUME NEW k \in 1..l
      PROVE  h[k] \in Nat /\ 1 <= h[k] /\ b[k-1] + h[k] = b[k] /\ b[k-1] \in Nat /\ b[k] \in Nat
             /\ b[k] <= n
  <2>1. b[k] \in Nat /\ b[k-1] \in Nat /\ b[k-1] < b[k] /\ b[k] <= n
    BY <1>0, <1>a
  <2>2. PICK x \in Nat, y \in Nat : x = b[k] /\ y = b[k-1]
    BY <2>1
  <2>3. x - y \in Nat /\ 1 <= x - y /\ y + (x - y) = x
    BY <2>1, <2>2
  <2> QED
    BY <2>1, <2>2, <2>3
<1>c. \A k \in 1..l : rs[k] = [i \in 1..h[k] |-> ids[b[k-1] + i]]
  BY DEF Pieces
<1>d. DOMAIN rs = 1..l /\ rs = [k \in 1..l |-> rs[k]]
  BY DEF Pieces
<1> HIDE DEF h
<1>2. ASSUME NEW k \in 1..l
      PROVE  /\ DOMAIN rs[k] = 1..h[k] /\ Len(rs[k]) = h[k] /\ rs[k] \in Seq(Nat)
             /\ \A i \in 1..h[k] : b[k-1] + i \in 1..n /\ rs[k][i] = ids[b[k-1] + i]
  <2>4. ASSUME NEW i \in 1..h[k] PROVE b[k-1] + i \in 1..n
    <3>1. PICK x \in Nat, y \in Nat, z \in Nat : x = b[k] /\ y = b[k-1] /\ z = h[k]
      BY <1>b
    <3>2. i \in Nat /\ 1 <= i /\ i <= z /\ y + z = x /\ x <= n
      BY <1>b, <3>1
    <3>3. y + i \in Int /\ 1 <= y + i /\ y + i <= x
      BY <3>2
    <3>4. y + i \in 1..n
      BY <1>1, <3>2, <3>3
    <3> QED
      BY <3>1, <3>4
  <2>6. rs[k] \in [1..h[k] -> Nat]
    <3>1. \A i \in 1..h[k] : ids[b[k-1] + i] \in Nat
      BY <1>1, <2>4
    <3>2. rs[k] = [i \in 1..h[k] |-> ids[b[k-1] + i]]
      BY <1>c
    <3> QED
      BY <3>1, <3>2
  <2>7. rs[k] \in Seq(Nat) /\ Len(rs[k]) = h[k]
    BY <1>b, <2>6, FunctionIsSeq
  <2> QED
    BY <1>c, <2>4, <2>7
<1>3. rs \in Seq(Seq(Nat))
  <2> DEFINE D == Seq(Nat)
  <2>1. \A k \in 1..l : rs[k] \in D
    BY <1>2
  <2> HIDE DEF D
  <2>2. rs \in [1..l -> D]
    BY <1>d, <2>1
  <2>3. rs \in Seq(D)
    BY <2>2
  <2> QED
    BY <2>3 DEF D
<1>4. ASSUME NEW k \in 1..l
      PROVE  /\ Last(rs[k]) = ids[b[k]] /\ rs[k][1] = ids[b[k-1] + 1]
             /\ b[k] \in 1..n /\ b[k-1] + 1 \in 1..n
  <2>1. h[k] \in 1..h[k] /\ 1 \in 1..h[k]
    BY <1>b
  <2>2. Last(rs[k]) = rs[k][h[k]]
    BY <1>2 DEF Last
  <2> QED
    BY <1>2, <1>b, <2>1, <2>2
<1>5. ASSUME NEW k \in 1..l PROVE Increasing(rs[k]) /\ rs[k] # <<>> /\ Range(rs[k]) \subseteq Range(ids)
  <2>1. ASSUME NEW i \in 1..h[k], NEW j \in 1..h[k], i < j PROVE rs[k][i] < rs[k][j]
    <3>1. /\ b[k-1] + i \in 1..n /\ rs[k][i] = ids[b[k-1] + i]
          /\ b[k-1] + j \in 1..n /\ rs[k][j] = ids[b[k-1] + j]
      BY <1>2
    <3>2. b[k-1] \in Nat
      BY <1>b
    <3>3. b[k-1] + i < b[k-1] + j
      BY <2>1, <3>2
    <3>4. \A x, y \in 1..n : x < y => ids[x] < ids[y]
      BY <1>1 DEF Increasing
    <3> QED
      BY <3>1, <3>3, <3>4
  <2>0. DOMAIN rs[k] = 1..h[k]
    BY <1>2
  <2>2. 1 \in DOMAIN rs[k]
    <3>1. h[k] \in Nat /\ 1 <= h[k]
      BY <1>b
    <3> QED
      BY <2>0, <3>1
  <2>3. ASSUME NEW x \in Range(rs[k]) PROVE x \in Range(ids)
    <3>1. PICK i \in 1..h[k] : x = rs[k][i]
      BY <1>2, <2>3 DEF Range
    <3>2. b[k-1] + i \in DOMAIN ids /\ x = ids[b[k-1] + i]
      BY <1>1, <1>2, <3>1
    <3> QED
      BY <3>2 DEF Range
  <2>4. rs[k] # <<>>
    BY <2>2
  <2>5. Increasing(rs[k])
    BY <1>2, <2>1 DEF Increasing
  <2> QED
    BY <2>3, <2>4, <2>5
<1>6. ASSUME NEW k \in 1..l, NEW j \in 1..l, j < k PROVE Last(rs[j]) < rs[k][1]
  <2>1. b[j] <= b[k-1]
    <3>1. CASE j = k - 1
      BY <1>b, <3>1
    <3>2. CASE j < k - 1
      <4>1. b[j] < b[k-1]
        BY <1>0, <1>a, <3>2
      <4> QED
        BY <1>b, <4>1
    <3> QED
      BY <1>6, <3>1, <3>2
  <2>2. b[k-1] + 1 \in 1..n /\ b[j] \in 1..n /\ b[j] < b[k-1] + 1
    <3>1. b[k-1] \in Nat /\ b[j] \in Nat
      BY <1>b
    <3>2. b[k-1] + 1 \in 1..n /\ b[j] \in 1..n
      BY <1>4
    <3> QED
      BY <2>1, <3>1, <3>2
  <2>3. ids[b[j]] < ids[b[k-1] + 1]
    BY <1>1, <2>2 DEF Increasing
  <2> QED
    BY <1>4, <2>3
<1>7. ASSUME NEW k \in 1..l, NEW x \in Range(ids), x <= Last(rs[k])
      PROVE  \E j \in 1..k : x \in Range(rs[j])
  <2>1. PICK i \in 1..n : ids[i] = x
    BY <1>1 DEF Range
  <2>2. i <= b[k]
    <3>1. ids[i] <= ids[b[k]] /\ b[k] \in 1..n
      BY <1>4, <1>7, <2>1
    <3>2. b[k] < i => ids[b[k]] < ids[i]
      BY <1>1, <3>1 DEF Increasing
    <3>3. ids[i] \in Int /\ ids[b[k]] \in Int
      BY <1>1, <3>1
    <3>4. ~(b[k] < i)
      BY <3>1, <3>2, <3>3
    <3> QED
      BY <1>1, <3>1, <3>4
  <2>3. PICK j \in 1..m : b[j-1] < i /\ i <= b[j]
    BY <1>0
  <2>4. j <= k
    <3>1. j - 1 \in 0..m /\ k \in 0..m
      BY <1>a
    <3>2. b[j-1] \in Int /\ b[k] \in Int /\ b[j-1] < b[k]
      BY <1>0, <2>2, <2>3, <3>1
    <3>3. ~(k < j - 1) /\ k # j - 1
      BY <1>0, <3>1, <3>2
    <3> QED
      BY <3>3
  <2>5. j \in 1..l /\ j \in 1..k
    BY <2>4
  <2>6. PICK y \in Nat : y = b[j-1]
    BY <1>b, <2>5
  <2>7. i - y \in 1..h[j] /\ y + (i - y) = i
    <3>1. y + h[j] = b[j] /\ h[j] \in Nat
      BY <1>b, <2>5, <2>6
    <3> QED
      BY <2>3, <2>6, <3>1
  <2>8. rs[j][i - y] = x
    <3>1. rs[j][i - y] = ids[b[j-1] + (i - y)]
      BY <1>2, <2>5, <2>7
    <3>2. b[j-1] + (i - y) = i
      BY <2>6, <2>7
    <3> QED
      BY <2>1, <3>1, <3>2
  <2> QED
    BY <1>2, <2>5, <2>7, <2>8 DEF Range
<1> QED
  BY <1>d, <1>3, <1>5, <1>6, <1>7 DEF CutUp
-----------------------------------------------------------------------------
(* What the chunking loop reads.                                           *)

\* What is stored above the last chunk of a channel, in its order and without a gap.
LEMMA UnchunkedIs ==
  ASSUME NEW n \in Nat, messages \subseteq 1..n, NEW c,
         \A r \in Range(chunks) : r.in = c => Last(r.ids) \in 0..n
  PROVE  LET low == LastChunkedId(c)
             ids == GetUnchunkedMessages(c)
         IN  /\ low \in 0..n /\ \A r \in Range(chunks) : r.in = c => Last(r.ids) <= low
             /\ low = 0 \/ \E r \in Range(chunks) : r.in = c /\ Last(r.ids) = low
             /\ ids \in Seq(Nat) /\ Increasing(ids)
             /\ \A i \in Range(ids) : i \in messages /\ Message(i).in = c /\ low < i
             /\ \A i \in messages, j \in Range(ids) :
                  Message(i).in = c /\ low < i /\ i <= j => i \in Range(ids)
<1> DEFINE low == LastChunkedId(c)
           T == {0} \union {Last(row.ids) : row \in {r \in Range(chunks) : r.in = c}}
           S == {i \in messages : Message(i).in = c /\ i > low}
           a == Ascending(S)
           ids == First(ReadLimit, a)
<1>1. low \in T /\ \A x \in T : low >= x
  <2>1. T \in SUBSET (0..n) /\ T # {}
    OBVIOUS
  <2>2. low = Max(T)
    BY DEF LastChunkedId
  <2> HIDE DEF T, low
  <2> QED
    BY <2>1, <2>2, MaxIs
<1>2. /\ low \in 0..n /\ \A r \in Range(chunks) : r.in = c => Last(r.ids) <= low
      /\ low = 0 \/ \E r \in Range(chunks) : r.in = c /\ Last(r.ids) = low
  <2> HIDE DEF low
  <2>1. low \in 0..n
    BY <1>1
  <2> QED
    BY <1>1, <2>1
<1> HIDE DEF low, T
<1>3. S \in SUBSET (0..n) /\ S \subseteq Nat
  <2>1. \A i \in messages : i \in 0..n /\ i \in Nat
    OBVIOUS
  <2> QED
    BY <2>1
<1> HIDE DEF S
<1>4. /\ a \in Seq(S) /\ Len(a) \in Nat
      /\ \A j, k \in 1..Len(a) : j < k => a[j] < a[k]
      /\ \A i \in S : \E k \in 1..Len(a) : a[k] = i
  BY <1>3, AscendingIs
<1> HIDE DEF a
<1>5. ReadLimit \in Nat
  BY IngestAssumption
<1>6. /\ ids \in Seq(S) /\ Len(ids) \in Nat /\ Len(ids) <= Len(a)
      /\ \A k \in 1..Len(ids) : ids[k] = a[k]
  BY <1>4, <1>5, FirstIs
<1> HIDE DEF ids
<1>7. DOMAIN ids = 1..Len(ids) /\ \A k \in 1..Len(ids) : k \in 1..Len(a) /\ ids[k] \in S
  <2>1. DOMAIN ids = 1..Len(ids) /\ \A k \in 1..Len(ids) : ids[k] \in S
    BY <1>6
  <2>2. \A k \in 1..Len(ids) : k \in 1..Len(a)
    BY <1>4, <1>6
  <2> QED
    BY <2>1, <2>2
<1>8. Increasing(ids)
  BY <1>4, <1>6, <1>7 DEF Increasing
<1>9. ids \in Seq(Nat)
  BY <1>3, <1>6, SeqMonotonic
<1>10. \A i \in Range(ids) : i \in S
  BY <1>7 DEF Range
<1>11. ASSUME NEW i \in S, NEW j \in Range(ids), i <= j PROVE i \in Range(ids)
  <2>1. PICK k \in 1..Len(a) : a[k] = i
    BY <1>4
  <2>2. PICK l \in 1..Len(ids) : ids[l] = j
    BY <1>7 DEF Range
  <2>3. l \in 1..Len(a) /\ a[l] = j /\ a[k] \in Nat /\ a[l] \in Nat
    BY <1>3, <1>6, <1>7, <1>11, <2>1, <2>2
  <2>4. ~(l < k)
    <3>1. l < k => a[l] < a[k]
      BY <1>4, <2>3
    <3>2. i \in Nat /\ j \in Nat /\ i <= j
      BY <1>11, <2>1, <2>3
    <3> QED
      BY <2>1, <2>3, <3>1, <3>2
  <2>5. k \in 1..Len(ids)
    BY <1>4, <1>6, <2>4
  <2> QED
    BY <1>6, <1>7, <2>1, <2>5 DEF Range
<1>12. ids = GetUnchunkedMessages(c)
  BY DEF GetUnchunkedMessages, ids, a, S, low
<1> HIDE DEF ids
<1>13. \A i : i \in S <=> i \in messages /\ Message(i).in = c /\ low < i
  <2>1. \A i \in messages : i > low <=> low < i
    BY <1>2
  <2> QED
    BY <2>1 DEF S
<1> QED
  BY <1>2, <1>8, <1>9, <1>10, <1>11, <1>12, <1>13 DEF low

\* What it saves are these ids, cut up.
LEMMA ReadCutsUp ==
  ASSUME NEW c, GetUnchunkedMessages(c) \in Seq(Nat), Increasing(GetUnchunkedMessages(c)),
         ReadChannel(c)
  PROVE  \E rs : /\ CutUp(rs, GetUnchunkedMessages(c))
                 /\ closing' = [k \in DOMAIN rs |-> [in |-> c, ids |-> rs[k]]]
<1> DEFINE ids == GetUnchunkedMessages(c)
           msgs == WithIds(ids)
           cs == ChunkMessages(msgs)
           complete == CompleteChunks(cs, now)
           rs == [k \in DOMAIN complete |-> ToIds(complete[k])]
<1>1. closing' = [k \in DOMAIN complete |-> [in |-> c, ids |-> ToIds(complete[k])]]
  BY DEF ReadChannel
<1> DEFINE M == Range(msgs)
           n == Len(ids)
<1>2. n \in Nat /\ DOMAIN ids = 1..n
  OBVIOUS
<1> HIDE DEF ids
<1>3. DOMAIN msgs = 1..n /\ \A k \in 1..n : msgs[k].id = ids[k]
  BY <1>2 DEF WithIds
<1>4. msgs \in [1..n -> M]
  <2>1. msgs = [k \in DOMAIN msgs |-> msgs[k]]
    BY DEF WithIds
  <2> HIDE DEF msgs
  <2> QED
    BY <1>3, <2>1 DEF Range
<1> HIDE DEF msgs, M, n
<1>5. msgs \in Seq(M) /\ Len(msgs) = n
  BY <1>2, <1>4, FunctionIsSeq
<1>6. cs \in Seq(Seq(M)) /\ \E b : Cuts(cs, b, n, msgs)
  BY <1>5, ChunksAreCuts
<1>7. PICK b : Cuts(cs, b, n, msgs)
  BY <1>6
<1> HIDE DEF cs
<1>8. /\ complete \in Seq(Seq(M)) /\ Len(complete) <= Len(cs)
      /\ \A k \in 1..Len(complete) : complete[k] = cs[k]
  BY <1>6, CompleteIsPrefix
<1> HIDE DEF complete
<1>9. CutPoints(b, Len(cs), n)
  BY <1>7 DEF Cuts, CutPoints
<1>10. rs = Pieces(ids, b, Len(complete))
  <2>1. DOMAIN complete = 1..Len(complete) /\ Len(complete) \in Nat /\ Len(cs) \in Nat
    BY <1>6, <1>8
  <2>2. ASSUME NEW k \in 1..Len(complete)
        PROVE  ToIds(complete[k]) = [i \in 1..(b[k] - b[k-1]) |-> ids[b[k-1] + i]]
    <3>1. k \in 1..Len(cs) /\ k \in 0..Len(cs) /\ k - 1 \in 0..Len(cs) /\ k - 1 < k
      BY <1>8, <2>1
    <3>2. complete[k] = [i \in 1..(b[k] - b[k-1]) |-> msgs[b[k-1] + i]]
      BY <1>7, <1>8, <3>1 DEF Cuts
    <3>3. PICK x \in Nat, y \in Nat : x = b[k] /\ y = b[k-1] /\ y < x /\ x <= n
      <4>1. b[k] \in 0..n /\ b[k-1] \in 0..n /\ b[k-1] < b[k]
        BY <1>9, <3>1 DEF CutPoints
      <4>2. b[k] \in Nat /\ b[k-1] \in Nat /\ b[k] <= n
        BY <1>2, <4>1
      <4> QED
        BY <4>1, <4>2
    <3>4. \A i \in 1..(x - y) : y + i \in 1..n
      BY <1>2, <3>3
    <3>5. \A i \in 1..(x - y) : msgs[y + i].id = ids[y + i]
      BY <1>3, <3>4
    <3> QED
      BY <3>2, <3>3, <3>5 DEF ToIds
  <2> QED
    BY <2>1, <2>2 DEF Pieces
<1>11. Len(complete) \in Nat /\ Len(cs) \in Nat
  BY <1>6, <1>8
<1> HIDE DEF rs
<1>12. CutUp(rs, ids)
  BY <1>8, <1>9, <1>10, <1>11, PiecesCutUp DEF ids, n
<1>13. closing' = [k \in DOMAIN rs |-> [in |-> c, ids |-> rs[k]]]
  BY <1>1 DEF rs
<1> QED
  BY <1>12, <1>13 DEF ids
-----------------------------------------------------------------------------
(* The rows of the chunks table, and those about to be saved.              *)

\* A row has stored messages of its channel, in their order.
GoodRow(r) ==
  /\ r.ids # <<>> /\ Increasing(r.ids)
  /\ \A i \in Range(r.ids) : i \in messages /\ Message(i).in = r.in

RowsInv == \A r \in Range(chunks) \cup Range(closing) : GoodRow(r)

\* What is about to be saved is of one channel and follows what is saved there.
ClosingInv ==
  \A k \in DOMAIN closing :
    /\ \A j \in DOMAIN closing : closing[j].in = closing[k].in
    /\ \A j \in DOMAIN closing : j < k => Last(closing[j].ids) < closing[k].ids[1]
    /\ \A r \in Range(chunks) : r.in = closing[k].in => Last(r.ids) < closing[k].ids[1]

\* What was scored was saved, and in the same order.
ScoredInv ==
  /\ Range(scored) \subseteq Range(chunks)
  /\ \A j, k \in DOMAIN scored :
       j < k /\ scored[j].in = scored[k].in => Last(scored[j].ids) < scored[k].ids[1]

OrderInv == RowsInv /\ ChunksInOrder /\ ClosingInv /\ ScoredInv

\* A stored message that has younger ones in a chunk of its channel, saved or about
\* to be, is in such a chunk itself or came too late.
PassedInv ==
  \A i \in messages :
    /\ \A r \in Range(chunks) :
         r.in = Message(i).in /\ i < Last(r.ids) => i \in IdsOf(chunks) \cup late
    /\ \A k \in DOMAIN closing :
         closing[k].in = Message(i).in /\ i < Last(closing[k].ids) =>
           \/ i \in IdsOf(chunks) \cup late
           \/ \E j \in 1..k : i \in Range(closing[j].ids)

LEMMA SeqElements ==
  ASSUME NEW S, NEW s \in Seq(S)
  PROVE  /\ Len(s) \in Nat /\ DOMAIN s = 1..Len(s)
         /\ \A k \in DOMAIN s : s[k] \in S
         /\ \A x \in Range(s) : x \in S /\ \E k \in DOMAIN s : s[k] = x
         /\ \A k \in DOMAIN s : s[k] \in Range(s)
<1>1. Len(s) \in Nat /\ DOMAIN s = 1..Len(s) /\ \A k \in DOMAIN s : s[k] \in S
  OBVIOUS
<1> QED
  BY <1>1 DEF Range

LEMMA RowFacts ==
  ASSUME NEW r \in Rows, r.ids # <<>>, Increasing(r.ids)
  PROVE  /\ Range(r.ids) \subseteq 1..MaxPosts
         /\ r.ids[1] \in Range(r.ids) /\ Last(r.ids) \in Range(r.ids)
         /\ \A i \in Range(r.ids) : i \in Nat /\ r.ids[1] <= i /\ i <= Last(r.ids)
<1> DEFINE s == r.ids
           n == Len(s)
<1>1. s \in Seq(1..MaxPosts)
  BY DEF Rows
<1>2. n \in Nat /\ DOMAIN s = 1..n /\ \A k \in 1..n : s[k] \in 1..MaxPosts
  BY <1>1, SeqElements
<1>3. n # 0
  BY <1>1, EmptySeq
<1> HIDE DEF n, s
<1>4. 1 \in 1..n /\ n \in 1..n
  BY <1>2, <1>3
<1>5. MaxPosts \in Nat
  BY IngestAssumption
<1>6. \A k \in 1..n : s[k] \in Nat
  BY <1>2, <1>5
<1>7. \A k \in 1..n : s[1] <= s[k] /\ s[k] <= s[n]
  <2> SUFFICES ASSUME NEW k \in 1..n PROVE s[1] <= s[k] /\ s[k] <= s[n]
    OBVIOUS
  <2>1. /\ k = 1 \/ s[1] < s[k]
        /\ k = n \/ s[k] < s[n]
    <3>1. /\ k = 1 \/ 1 < k
          /\ k = n \/ k < n
      BY <1>2
    <3> QED
      BY <1>2, <1>4, <3>1 DEF Increasing, s
  <2> QED
    BY <1>4, <1>6, <2>1
<1> QED
  BY <1>2, <1>4, <1>6, <1>7 DEF Range, Last, n, s

LEMMA TypeParts ==
  ASSUME TypeOK
  PROVE  /\ chunks \in Seq(Rows) /\ closing \in Seq(Rows) /\ scored \in Seq(Rows)
         /\ Len(history) \in Nat /\ DOMAIN history = 1..Len(history) /\ Len(history) <= MaxPosts
         /\ messages \subseteq 1..Len(history)
         /\ \A r \in Range(chunks) \cup Range(closing) \cup Range(scored) : r \in Rows
<1>1. chunks \in Seq(Rows) /\ closing \in Seq(Rows) /\ scored \in Seq(Rows)
  BY DEF TypeOK
<1>2. history \in Seq([in : Channels, by : Authors, command : BOOLEAN, chars : Nat,
                       at : 0..LastPost])
  BY DEF TypeOK
<1>3. Len(history) \in Nat /\ DOMAIN history = 1..Len(history)
  BY <1>2, SeqElements
<1>4. \A r \in Range(chunks) \cup Range(closing) \cup Range(scored) : r \in Rows
  BY <1>1, SeqElements
<1> QED
  BY <1>1, <1>3, <1>4 DEF TypeOK, Ids

\* The loop reads what follows the chunks of the channel, and leaves out none of it.
LEMMA ReadIs ==
  ASSUME TypeOK, RowsInv, NEW c \in Channels, ReadChannel(c)
  PROVE  /\ closing' \in Seq(Rows)
         /\ \A k \in DOMAIN closing' :
              /\ closing'[k].in = c /\ GoodRow(closing'[k])
              /\ \A j \in DOMAIN closing' : j < k => Last(closing'[j].ids) < closing'[k].ids[1]
              /\ \A r \in Range(chunks) : r.in = c => Last(r.ids) < closing'[k].ids[1]
              /\ \A i \in messages :
                   Message(i).in = c /\ i < Last(closing'[k].ids) =>
                     \/ \E r \in Range(chunks) : r.in = c /\ i <= Last(r.ids)
                     \/ \E j \in 1..k : i \in Range(closing'[j].ids)
<1> DEFINE n == Len(history)
           ids == GetUnchunkedMessages(c)
           low == LastChunkedId(c)
<1>1. n \in Nat /\ messages \subseteq 1..n /\ n <= MaxPosts /\ MaxPosts \in Nat
  BY TypeParts, IngestAssumption
<1>2. \A r \in Range(chunks) : Last(r.ids) \in messages
  <2> SUFFICES ASSUME NEW r \in Range(chunks) PROVE Last(r.ids) \in messages
    OBVIOUS
  <2>1. r \in Rows /\ GoodRow(r)
    BY TypeParts DEF RowsInv
  <2> QED
    BY <2>1, RowFacts DEF GoodRow
<1> HIDE DEF n
<1>n. \A i \in messages : i \in 0..n /\ i \in Nat /\ i # 0 /\ i \in 1..MaxPosts
  <2> SUFFICES ASSUME NEW i \in messages
               PROVE  i \in 0..n /\ i \in Nat /\ i # 0 /\ i \in 1..MaxPosts
    OBVIOUS
  <2>1. i \in 1..n
    BY <1>1
  <2> QED
    BY <1>1, <2>1
<1>3. \A r \in Range(chunks) : r.in = c => Last(r.ids) \in 0..n
  BY <1>2, <1>n
<1>4. /\ low \in 0..n /\ \A r \in Range(chunks) : r.in = c => Last(r.ids) <= low
      /\ low = 0 \/ \E r \in Range(chunks) : r.in = c /\ Last(r.ids) = low
      /\ ids \in Seq(Nat) /\ Increasing(ids)
      /\ \A i \in Range(ids) : i \in messages /\ Message(i).in = c /\ low < i
      /\ \A i \in messages, j \in Range(ids) :
           Message(i).in = c /\ low < i /\ i <= j => i \in Range(ids)
  BY <1>1, <1>3, UnchunkedIs
<1> HIDE DEF low
<1>5. PICK rs : /\ CutUp(rs, ids)
                /\ closing' = [k \in DOMAIN rs |-> [in |-> c, ids |-> rs[k]]]
  BY <1>4, ReadCutsUp
<1> HIDE DEF ids
<1>6. rs \in Seq(Seq(Nat)) /\ Len(rs) \in Nat /\ DOMAIN rs = 1..Len(rs) /\ DOMAIN closing' = DOMAIN rs
  BY <1>5, SeqElements DEF CutUp
<1>7. \A k \in DOMAIN rs :
        /\ closing'[k] = [in |-> c, ids |-> rs[k]]
        /\ rs[k] # <<>> /\ Increasing(rs[k]) /\ Range(rs[k]) \subseteq Range(ids)
        /\ \A j \in DOMAIN rs : j < k => Last(rs[j]) < rs[k][1]
        /\ \A i \in Range(ids) : i <= Last(rs[k]) => \E j \in 1..k : i \in Range(rs[j])
  BY <1>5 DEF CutUp
<1>8. ASSUME NEW k \in DOMAIN rs
      PROVE  closing'[k].in = c /\ closing'[k].ids = rs[k] /\ closing'[k] \in Rows
  <2>1. \A i \in Range(ids) : i \in 1..MaxPosts
    BY <1>4, <1>n
  <2>2. rs[k] \in Seq(Nat)
    BY <1>6
  <2>3. DOMAIN rs[k] = 1..Len(rs[k]) /\ Len(rs[k]) \in Nat
        /\ \A i \in DOMAIN rs[k] : rs[k][i] \in 1..MaxPosts
    BY <1>7, <2>1, <2>2, SeqElements
  <2>4. rs[k] \in [1..Len(rs[k]) -> 1..MaxPosts]
    BY <2>2, <2>3
  <2>5. rs[k] \in Seq(1..MaxPosts)
    BY <2>3, <2>4, FunctionIsSeq
  <2>6. closing'[k] = [in |-> c, ids |-> rs[k]]
    BY <1>7
  <2>7. [in |-> c, ids |-> rs[k]] \in Rows
    BY <2>5 DEF Rows
  <2> QED
    BY <2>6, <2>7
<1>9. closing' \in Seq(Rows)
  <2>1. closing' \in [1..Len(rs) -> Rows]
    BY <1>5, <1>6, <1>8
  <2> QED
    BY <1>6, <2>1, FunctionIsSeq
<1>10. ASSUME NEW k \in DOMAIN rs
       PROVE  /\ GoodRow(closing'[k])
              /\ rs[k][1] \in Range(ids) /\ Last(rs[k]) \in Range(ids)
  <2>1. GoodRow(closing'[k])
    BY <1>4, <1>7, <1>8 DEF GoodRow
  <2>2. rs[k][1] \in Range(rs[k]) /\ Last(rs[k]) \in Range(rs[k])
    BY <1>7, <1>8, RowFacts
  <2> QED
    BY <1>7, <2>1, <2>2
<1>11. ASSUME NEW k \in DOMAIN rs, NEW r \in Range(chunks), r.in = c
       PROVE  Last(r.ids) < rs[k][1]
  <2>1. Last(r.ids) <= low /\ low < rs[k][1] /\ Last(r.ids) \in Nat /\ rs[k][1] \in Nat
    BY <1>2, <1>4, <1>n, <1>10, <1>11
  <2>2. low \in Nat
    BY <1>1, <1>4
  <2> QED
    BY <2>1, <2>2
<1>12. ASSUME NEW k \in DOMAIN rs, NEW i \in messages, Message(i).in = c, i < Last(rs[k])
       PROVE  \/ \E r \in Range(chunks) : r.in = c /\ i <= Last(r.ids)
              \/ \E j \in 1..k : i \in Range(rs[j])
  <2>1. i \in Nat /\ i # 0 /\ Last(rs[k]) \in Nat
    BY <1>4, <1>n, <1>10
  <2>2. low \in Nat
    BY <1>1, <1>4
  <2>3. CASE i <= low
    BY <1>4, <2>1, <2>2, <2>3
  <2>4. CASE low < i
    <3>1. i \in Range(ids)
      BY <1>4, <1>10, <1>12, <2>1, <2>4
    <3>2. i <= Last(rs[k])
      BY <1>12, <2>1
    <3> QED
      BY <1>7, <3>1, <3>2
  <2> QED
    BY <2>1, <2>2, <2>3, <2>4
<1>13. \A k \in DOMAIN rs : \A j \in 1..k : j \in DOMAIN rs
  BY <1>6
<1>14. ASSUME NEW k \in DOMAIN rs
       PROVE  /\ closing'[k].in = c /\ GoodRow(closing'[k])
              /\ \A j \in DOMAIN rs : j < k => Last(closing'[j].ids) < closing'[k].ids[1]
              /\ \A r \in Range(chunks) : r.in = c => Last(r.ids) < closing'[k].ids[1]
  BY <1>7, <1>8, <1>10, <1>11
<1>15. ASSUME NEW k \in DOMAIN rs, NEW i \in messages, Message(i).in = c,
              i < Last(closing'[k].ids)
       PROVE  \/ \E r \in Range(chunks) : r.in = c /\ i <= Last(r.ids)
              \/ \E j \in 1..k : i \in Range(closing'[j].ids)
  BY <1>8, <1>12, <1>13, <1>15
<1> QED
  BY <1>6, <1>9, <1>14, <1>15
-----------------------------------------------------------------------------
(* The types.                                                              *)

\* The steps that touch neither the guild's history nor the chunks.
LEMMA QuietStepTyped ==
  ASSUME TypeOK, UNCHANGED <<history, chunks>>,
         now' \in 0..MaxTime, faults' \in 0..MaxFaults, heard' \in 0..Len(history),
         proc' \in {"up", "stopping", "down"}, forgotten' \subseteq Authors,
         messages' \subseteq Ids, inserting' \subseteq Ids, late' \union split' \subseteq messages',
         {closing', scored'} \subseteq Seq(Rows),
         embedded' \subseteq DOMAIN chunks, embedding' \in Seq(DOMAIN chunks)
  PROVE  TypeOK'
<1>1. Ids' = Ids
  BY DEF Ids
<1>2. chunks \in Seq(Rows) /\ Len(history) <= MaxPosts
      /\ history \in Seq([in : Channels, by : Authors, command : BOOLEAN, chars : Nat,
                          at : 0..LastPost])
  BY DEF TypeOK
<1> QED
  BY <1>1, <1>2 DEF TypeOK

LEMMA EmptyRows == <<>> \in Seq(Rows) /\ <<>> \in Seq(DOMAIN chunks)
  OBVIOUS

\* What the embedding loop reads are chunks without embedding.
LEMMA BacklogIs ==
  ASSUME TypeOK
  PROVE  First(EmbedBatch, Ascending(DOMAIN chunks \ embedded)) \in Seq(DOMAIN chunks)
<1> DEFINE S == DOMAIN chunks \ embedded
           a == Ascending(S)
           s == First(EmbedBatch, a)
<1>1. chunks \in Seq(Rows)
  BY DEF TypeOK
<1>2. Len(chunks) \in Nat /\ DOMAIN chunks = 1..Len(chunks)
  BY <1>1, SeqElements
<1>3. S \in SUBSET (0..Len(chunks)) /\ S \subseteq DOMAIN chunks
  <2>1. \A i \in 1..Len(chunks) : i \in 0..Len(chunks)
    BY <1>2
  <2> QED
    BY <1>2, <2>1
<1> HIDE DEF S
<1>4. a \in Seq(S) /\ Len(a) \in Nat
  BY <1>2, <1>3, AscendingIs
<1> HIDE DEF a
<1>5. s \in Seq(S)
  BY <1>4, IngestAssumption, FirstIs
<1> HIDE DEF s
<1>6. s \in Seq(DOMAIN chunks)
  BY <1>3, <1>5, SeqMonotonic
<1> QED
  BY <1>6 DEF s, a, S

LEMMA InitTyped == Init => TypeOK
<1> SUFFICES ASSUME Init PROVE TypeOK
  OBVIOUS
<1>1. <<>> \in Seq(Rows) /\ <<>> \in Seq(DOMAIN chunks)
  BY EmptyRows
<1>2. MaxTime \in Nat /\ MaxFaults \in Nat /\ MaxPosts \in Nat
  BY IngestAssumption
<1>3. history \in Seq([in : Channels, by : Authors, command : BOOLEAN, chars : Nat,
                       at : 0..LastPost]) /\ Len(history) = 0
  BY DEF Init
<1> QED
  BY <1>1, <1>2, <1>3 DEF Init, TypeOK

LEMMA StepTyped ==
  ASSUME TypeOK, RowsInv, [Next]_vars
  PROVE  TypeOK'
<1>c. MaxTime \in Nat /\ MaxFaults \in Nat /\ MaxPosts \in Nat /\ LastPost \in Nat
  BY IngestAssumption
<1>e. <<>> \in Seq(Rows) /\ <<>> \in Seq(DOMAIN chunks)
  BY EmptyRows
<1>t. /\ now \in 0..MaxTime /\ faults \in 0..MaxFaults /\ heard \in 0..Len(history)
      /\ proc \in {"up", "stopping", "down"} /\ forgotten \subseteq Authors
      /\ messages \subseteq Ids /\ inserting \subseteq Ids /\ late \union split \subseteq messages
      /\ chunks \in Seq(Rows) /\ closing \in Seq(Rows) /\ scored \in Seq(Rows)
      /\ embedded \subseteq DOMAIN chunks /\ embedding \in Seq(DOMAIN chunks)
      /\ Len(history) <= MaxPosts
      /\ history \in Seq([in : Channels, by : Authors, command : BOOLEAN, chars : Nat,
                          at : 0..LastPost])
  BY DEF TypeOK
<1>l. Len(history) \in Nat /\ Ids = 1..Len(history)
  BY TypeParts DEF Ids
<1>f. ASSUME faults < MaxFaults, faults' = faults + 1 PROVE faults' \in 0..MaxFaults
  BY <1>c, <1>f, <1>t
<1>1. ASSUME NEW p \in Posts, Post(p) PROVE TypeOK'
  <2> DEFINE m == [in |-> p.in, by |-> p.by, command |-> p.command, chars |-> p.chars, at |-> now]
             H == [in : Channels, by : Authors, command : BOOLEAN, chars : Nat, at : 0..LastPost]
  <2>1. m \in H
    <3>1. p.in \in Channels /\ p.by \in Authors
      BY DEF Channels, Authors
    <3>2. p.command \in BOOLEAN /\ p.chars \in Nat
      BY IngestAssumption
    <3>3. now \in 0..LastPost
      BY <1>1, <1>c, <1>t DEF Post
    <3> QED
      BY <3>1, <3>2, <3>3
  <2>2. history' = Append(history, m)
    BY <1>1 DEF Post
  <2>3. history \in Seq(H)
    BY <1>t
  <2> HIDE DEF m, H
  <2>4. history' \in Seq(H) /\ Len(history') = Len(history) + 1
    BY <2>1, <2>2, <2>3, AppendProperties
  <2>5. Len(history) < MaxPosts
    BY <1>1 DEF Post
  <2>6. Ids \subseteq Ids' /\ heard \in 0..Len(history') /\ Len(history') <= MaxPosts
    BY <1>c, <1>l, <1>t, <2>4, <2>5 DEF Ids
  <2>7. UNCHANGED <<now, heard, proc, tables, loops, faults, scored, late, split>>
    BY <1>1 DEF Post
  <2> QED
    BY <1>t, <2>4, <2>6, <2>7 DEF TypeOK, H, tables, loops
<1>2. CASE Tick
  BY <1>2, <1>c, <1>t, QuietStepTyped DEF Tick, tables, loops
<1>3. ASSUME NEW a \in Authors, ForgetAuthor(a) PROVE TypeOK'
  BY <1>3, <1>t, QuietStepTyped DEF ForgetAuthor, tables, loops
<1>4. CASE RecordLive
  <2>1. heard' = heard + 1 /\ heard < Len(history)
    BY <1>4 DEF RecordLive
  <2>2. heard' \in 0..Len(history) /\ heard' \in Ids
    BY <1>l, <1>t, <2>1
  <2>3. UNCHANGED <<now, history, proc, tables, closing, embedding, scored, late, split>>
    BY <1>4 DEF RecordLive
  <2>4. inserting' \in {inserting, inserting \union {heard'}} /\ faults' \in 0..MaxFaults
    BY <1>4, <1>f, <1>t DEF RecordLive
  <2> QED
    BY <1>t, <2>2, <2>3, <2>4, QuietStepTyped DEF tables
<1>5. ASSUME NEW i \in Ids, InsertMessage(i) PROVE TypeOK'
  BY <1>5, <1>t, QuietStepTyped DEF InsertMessage
<1>6. ASSUME NEW i \in Ids, InsertFails(i) PROVE TypeOK'
  BY <1>6, <1>f, <1>t, QuietStepTyped DEF InsertFails, tables
<1>7. ASSUME NEW c \in Channels, ReadChannel(c) PROVE TypeOK'
  <2>1. closing' \in Seq(Rows)
    BY <1>7, ReadIs
  <2>2. /\ UNCHANGED <<now, history, heard, proc, tables, inserting, embedding, faults, scored, late>>
        /\ split' \subseteq split \union messages
    BY <1>7 DEF ReadChannel
  <2> QED
    BY <1>t, <2>1, <2>2, QuietStepTyped DEF tables
<1>d. ASSUME NEW r \in Rows, chunks' \in {chunks, Append(chunks, r)}
      PROVE  /\ chunks' \in Seq(Rows) /\ DOMAIN chunks \subseteq DOMAIN chunks'
             /\ embedding \in Seq(DOMAIN chunks')
  <2>1. CASE chunks' = chunks
    BY <1>t, <2>1
  <2>2. CASE chunks' = Append(chunks, r)
    <3>1. chunks' \in Seq(Rows) /\ Len(chunks') = Len(chunks) + 1
      BY <1>d, <1>t, <2>2, AppendProperties
    <3>2. DOMAIN chunks \subseteq DOMAIN chunks'
      BY <1>t, <3>1, SeqElements
    <3> QED
      BY <1>t, <3>1, <3>2, SeqMonotonic
  <2> QED
    BY <1>d, <2>1, <2>2
<1>h. ASSUME closing # <<>> PROVE Head(closing) \in Rows /\ Tail(closing) \in Seq(Rows)
  BY <1>h, <1>t, HeadTailProperties
<1>8. CASE SaveChunk
  <2>1. Head(closing) \in Rows /\ Tail(closing) \in Seq(Rows)
    BY <1>8, <1>h DEF SaveChunk
  <2>2. /\ chunks' = Append(chunks, Head(closing)) /\ closing' = Tail(closing)
        /\ scored' = Append(scored, Head(closing))
        /\ UNCHANGED <<now, history, heard, proc, forgotten, messages, embedded, inserting,
                       embedding, faults, late, split>>
    BY <1>8 DEF SaveChunk
  <2>3. chunks' \in Seq(Rows) /\ DOMAIN chunks \subseteq DOMAIN chunks'
        /\ embedding \in Seq(DOMAIN chunks')
    BY <1>d, <2>1, <2>2
  <2>4. scored' \in Seq(Rows)
    BY <1>t, <2>1, <2>2, AppendProperties
  <2> QED
    BY <1>t, <2>1, <2>2, <2>3, <2>4 DEF TypeOK, Ids
<1>9. CASE SaveChunkFails
  <2>1. Head(closing) \in Rows
    BY <1>9, <1>h DEF SaveChunkFails
  <2>2. /\ chunks' \in {chunks, Append(chunks, Head(closing))} /\ closing' = <<>>
        /\ faults' \in 0..MaxFaults
        /\ UNCHANGED <<now, history, heard, proc, forgotten, messages, embedded, inserting,
                       embedding, scored, late, split>>
    BY <1>9, <1>f DEF SaveChunkFails
  <2>3. chunks' \in Seq(Rows) /\ DOMAIN chunks \subseteq DOMAIN chunks'
        /\ embedding \in Seq(DOMAIN chunks')
    BY <1>d, <2>1, <2>2
  <2> QED
    BY <1>e, <1>t, <2>2, <2>3 DEF TypeOK, Ids
<1>10. CASE ReadBacklog
  <2>1. embedding' \in Seq(DOMAIN chunks)
    BY <1>10, BacklogIs DEF ReadBacklog
  <2>2. UNCHANGED <<now, history, heard, proc, tables, inserting, closing, faults, scored, late, split>>
    BY <1>10 DEF ReadBacklog
  <2> QED
    BY <1>t, <2>1, <2>2, QuietStepTyped DEF tables
<1>11. CASE SaveEmbedding
  <2>1. embedding # <<>> /\ embedding' = Tail(embedding)
        /\ embedded' = embedded \union {Head(embedding)}
        /\ UNCHANGED <<now, history, heard, proc, forgotten, messages, chunks, inserting,
                       closing, faults, scored, late, split>>
    BY <1>11 DEF SaveEmbedding
  <2>2. Head(embedding) \in DOMAIN chunks /\ Tail(embedding) \in Seq(DOMAIN chunks)
    BY <1>t, <2>1, HeadTailProperties
  <2> QED
    BY <1>t, <2>1, <2>2, QuietStepTyped
<1>12. CASE EmbeddingFails
  BY <1>12, <1>e, <1>f, <1>t, QuietStepTyped DEF EmbeddingFails, tables
<1>13. CASE Shutdown
  BY <1>13, <1>e, <1>f, <1>t, QuietStepTyped DEF Shutdown, tables
<1>14. CASE Exit
  BY <1>14, <1>t, QuietStepTyped DEF Exit, tables, loops
<1>15. CASE Crash
  BY <1>15, <1>e, <1>f, <1>t, QuietStepTyped DEF Crash, tables
<1>16. CASE Boot
  BY <1>16, <1>l, <1>t, QuietStepTyped DEF Boot, tables, loops
<1>17. CASE UNCHANGED vars
  BY <1>17, <1>t, QuietStepTyped DEF vars, tables, loops
<1> QED
  BY <1>1, <1>2, <1>3, <1>4, <1>5, <1>6, <1>7, <1>8, <1>9, <1>10, <1>11, <1>12, <1>13,
     <1>14, <1>15, <1>16, <1>17 DEF Next, Run
-----------------------------------------------------------------------------
(* The order of the chunks.                                                *)

\* Nothing but a row appended at the end makes a difference.
LEMMA AppendedIs ==
  ASSUME NEW S, NEW s \in Seq(S), NEW x, NEW t, t = Append(s, x)
  PROVE  /\ Len(s) \in Nat /\ DOMAIN s = 1..Len(s) /\ DOMAIN t = 1..(Len(s) + 1)
         /\ \A k \in DOMAIN s : k \in DOMAIN t /\ t[k] = s[k] /\ k < Len(s) + 1
         /\ \A k \in DOMAIN t : k \in DOMAIN s \/ k = Len(s) + 1
         /\ t[Len(s) + 1] = x /\ Range(t) = Range(s) \cup {x}
<1>1. Len(s) \in Nat /\ DOMAIN s = 1..Len(s)
  BY SeqElements
<1>2. DOMAIN t = 1..(Len(s) + 1) /\ t[Len(s) + 1] = x /\ \A k \in 1..Len(s) : t[k] = s[k]
  OBVIOUS
<1>3. /\ \A k \in 1..Len(s) : k \in 1..(Len(s) + 1) /\ k < Len(s) + 1
      /\ \A k \in 1..(Len(s) + 1) : k \in 1..Len(s) \/ k = Len(s) + 1
      /\ Len(s) + 1 \in 1..(Len(s) + 1)
  BY <1>1
<1>4. Range(t) = Range(s) \cup {x}
  <2> DEFINE n == Len(s)
  <2>1. ASSUME NEW y \in Range(t) PROVE y \in Range(s) \cup {x}
    <3>1. PICK k \in 1..(n + 1) : t[k] = y
      BY <1>2 DEF Range
    <3> QED
      BY <1>1, <1>2, <1>3, <3>1 DEF Range
  <2>2. ASSUME NEW y \in Range(s) PROVE y \in Range(t)
    <3>1. PICK k \in 1..n : s[k] = y
      BY <1>1 DEF Range
    <3> QED
      BY <1>2, <1>3, <3>1 DEF Range
  <2>3. x \in Range(t)
    BY <1>2, <1>3 DEF Range
  <2> QED
    BY <2>1, <2>2, <2>3
<1> QED
  BY <1>1, <1>2, <1>3, <1>4

\* Rows in the order of their messages stay so when one is appended that follows
\* all of its channel.
InOrder(rows) ==
  \A j, k \in DOMAIN rows :
    j < k /\ rows[j].in = rows[k].in => Last(rows[j].ids) < rows[k].ids[1]

LEMMA AppendedInOrder ==
  ASSUME NEW S, NEW rows \in Seq(S), InOrder(rows), NEW h,
         \A r \in Range(rows) : r.in = h.in => Last(r.ids) < h.ids[1]
  PROVE  InOrder(Append(rows, h)) /\ Range(Append(rows, h)) = Range(rows) \cup {h}
<1> DEFINE n == Len(rows)
           all == Append(rows, h)
<1>1. /\ n \in Nat /\ DOMAIN rows = 1..n /\ DOMAIN all = 1..(n + 1)
      /\ \A k \in DOMAIN rows : k \in DOMAIN all /\ all[k] = rows[k] /\ k < n + 1
      /\ \A k \in DOMAIN all : k \in DOMAIN rows \/ k = n + 1
      /\ all[n + 1] = h /\ Range(all) = Range(rows) \cup {h}
  BY AppendedIs, Zenon
<1> HIDE DEF n, all
<1>2. \A k \in DOMAIN rows : rows[k] \in Range(rows)
  BY DEF Range
<1>3. ASSUME NEW j \in DOMAIN all, NEW k \in DOMAIN all, j < k, all[j].in = all[k].in
      PROVE  Last(all[j].ids) < all[k].ids[1]
  <2>1. j \in DOMAIN rows
    BY <1>1, <1>3
  <2>2. CASE k \in DOMAIN rows
    BY <1>1, <1>3, <2>1, <2>2 DEF InOrder
  <2>3. CASE k = n + 1
    BY <1>1, <1>2, <1>3, <2>1, <2>3
  <2> QED
    BY <1>1, <2>2, <2>3
<1> QED
  BY <1>1, <1>3 DEF InOrder, all

LEMMA TailIs ==
  ASSUME NEW S, NEW s \in Seq(S), s # <<>>
  PROVE  /\ 1 \in DOMAIN s /\ Head(s) = s[1] /\ s[1] \in Range(s)
         /\ \A k \in DOMAIN Tail(s) : k + 1 \in DOMAIN s /\ Tail(s)[k] = s[k + 1] /\ k \in Nat /\ 1 <= k
         /\ Range(Tail(s)) \subseteq Range(s)
<1>1. Len(s) \in Nat /\ DOMAIN s = 1..Len(s) /\ Len(s) # 0
  BY SeqElements, EmptySeq
<1>2. Head(s) = s[1] /\ 1 \in 1..Len(s)
  BY <1>1
<1>3. /\ DOMAIN Tail(s) = 1..(Len(s) - 1)
      /\ \A k \in 1..(Len(s) - 1) : Tail(s)[k] = s[k + 1]
  BY <1>1, HeadTailProperties
<1>4. \A k \in 1..(Len(s) - 1) : k + 1 \in 1..Len(s) /\ k \in Nat /\ 1 <= k
  BY <1>1
<1> QED
  BY <1>1, <1>2, <1>3, <1>4 DEF Range

\* What is stored stays, and nothing is cut.
LEMMA QuietStepOrdered ==
  ASSUME OrderInv, UNCHANGED <<chunks, scored>>, closing' \in {closing, <<>>},
         messages \subseteq messages', \A i \in messages : history'[i] = history[i]
  PROVE  OrderInv'
<1>1. DOMAIN <<>> = {} /\ Range(<<>>) = {}
  BY DEF Range
<1>2. Range(closing') \subseteq Range(closing)
  BY <1>1
<1>3. RowsInv'
  <2>1. \A r \in Range(chunks) \cup Range(closing) : GoodRow(r)'
    BY DEF OrderInv, RowsInv, GoodRow, Message
  <2> QED
    BY <1>2, <2>1 DEF RowsInv
<1>4. ChunksInOrder' /\ ScoredInv'
  BY DEF OrderInv, ChunksInOrder, ScoredInv
<1>5. ClosingInv'
  <2>1. CASE closing' = closing
    BY <2>1 DEF OrderInv, ClosingInv
  <2>2. CASE closing' = <<>>
    BY <1>1, <2>2 DEF ClosingInv
  <2> QED
    BY <2>1, <2>2
<1> QED
  BY <1>3, <1>4, <1>5 DEF OrderInv

\* The next row to be saved follows all rows of its channel.
LEMMA HeadFollows ==
  ASSUME TypeOK, OrderInv, closing # <<>>
  PROVE  /\ Head(closing) \in Rows /\ GoodRow(Head(closing))
         /\ \A r \in Range(chunks) : r.in = Head(closing).in => Last(r.ids) < Head(closing).ids[1]
<1>1. 1 \in DOMAIN closing /\ Head(closing) = closing[1] /\ closing[1] \in Range(closing)
  BY TypeParts, TailIs
<1> QED
  BY <1>1, TypeParts DEF OrderInv, RowsInv, ClosingInv

\* So the order of the table is kept when it is saved.
LEMMA SavedInOrder ==
  ASSUME TypeOK, OrderInv, closing # <<>>, chunks' = Append(chunks, Head(closing)),
         UNCHANGED <<messages, history>>
  PROVE  /\ ChunksInOrder' /\ Range(chunks') = Range(chunks) \cup {Head(closing)}
         /\ \A r \in Range(chunks) \cup Range(closing) : GoodRow(r)'
<1> DEFINE h == Head(closing)
<1>1. h \in Rows /\ GoodRow(h) /\ \A r \in Range(chunks) : r.in = h.in => Last(r.ids) < h.ids[1]
  BY HeadFollows
<1> HIDE DEF h
<1>2. chunks \in Seq(Rows) /\ InOrder(chunks)
  BY TypeParts DEF OrderInv, ChunksInOrder, InOrder
<1>3. chunks' = Append(chunks, h)
  BY DEF h
<1>4. InOrder(Append(chunks, h)) /\ Range(Append(chunks, h)) = Range(chunks) \cup {h}
  BY <1>1, <1>2, AppendedInOrder
<1>5. ChunksInOrder' /\ Range(chunks') = Range(chunks) \cup {h}
  BY <1>3, <1>4 DEF InOrder, ChunksInOrder
<1>6. \A r \in Range(chunks) \cup Range(closing) : GoodRow(r)'
  BY DEF OrderInv, RowsInv, GoodRow, Message
<1> QED
  BY <1>5, <1>6 DEF h

LEMMA ScoredStays ==
  ASSUME OrderInv, UNCHANGED scored, Range(chunks) \subseteq Range(chunks')
  PROVE  ScoredInv'
  BY DEF OrderInv, ScoredInv

LEMMA InitOrdered == Init => OrderInv /\ PassedInv
<1> SUFFICES ASSUME Init PROVE OrderInv /\ PassedInv
  OBVIOUS
<1>1. chunks = <<>> /\ closing = <<>> /\ scored = <<>> /\ messages = {}
  BY DEF Init
<1>2. DOMAIN <<>> = {} /\ Range(<<>>) = {}
  BY DEF Range
<1> QED
  BY <1>1, <1>2 DEF OrderInv, RowsInv, ChunksInOrder, ClosingInv, ScoredInv, PassedInv
LEMMA SaveChunkOrdered ==
  ASSUME TypeOK, OrderInv, SaveChunk
  PROVE  OrderInv'
<1> DEFINE h == Head(closing)
<1>1. /\ closing # <<>> /\ chunks' = Append(chunks, h) /\ closing' = Tail(closing)
      /\ scored' = Append(scored, h) /\ UNCHANGED <<messages, history>>
  BY DEF SaveChunk
<1>2. /\ ChunksInOrder' /\ Range(chunks') = Range(chunks) \cup {h}
      /\ \A r \in Range(chunks) \cup Range(closing) : GoodRow(r)'
  BY <1>1, SavedInOrder
<1>3. /\ 1 \in DOMAIN closing /\ h = closing[1] /\ closing[1] \in Range(closing)
      /\ \A k \in DOMAIN closing' : k + 1 \in DOMAIN closing /\ closing'[k] = closing[k + 1]
                                    /\ k \in Nat /\ 1 <= k
      /\ Range(closing') \subseteq Range(closing)
  <2>1. closing \in Seq(Rows)
    BY TypeParts
  <2> QED
    BY <1>1, <2>1, TailIs
<1>4. \A r \in Range(chunks) : r.in = h.in => Last(r.ids) < h.ids[1]
  BY <1>1, HeadFollows
<1> HIDE DEF h
<1>5. RowsInv'
  BY <1>2, <1>3 DEF RowsInv
<1>6. ClosingInv'
  <2> SUFFICES ASSUME NEW k \in DOMAIN closing'
               PROVE  /\ \A j \in DOMAIN closing' : closing'[j].in = closing'[k].in
                      /\ \A j \in DOMAIN closing' :
                           j < k => Last(closing'[j].ids) < closing'[k].ids[1]
                      /\ \A r \in Range(chunks') :
                           r.in = closing'[k].in => Last(r.ids) < closing'[k].ids[1]
    BY DEF ClosingInv
  <2>1. k + 1 \in DOMAIN closing /\ closing'[k] = closing[k + 1] /\ 1 < k + 1 /\ k \in Nat
    BY <1>3
  <2>2. ASSUME NEW j \in DOMAIN closing'
        PROVE  /\ closing'[j].in = closing'[k].in
               /\ j < k => Last(closing'[j].ids) < closing'[k].ids[1]
    <3>1. j + 1 \in DOMAIN closing /\ closing'[j] = closing[j + 1] /\ (j < k => j + 1 < k + 1)
      BY <1>3, <2>1
    <3> QED
      BY <2>1, <3>1 DEF OrderInv, ClosingInv
  <2>3. ASSUME NEW r \in Range(chunks'), r.in = closing'[k].in
        PROVE  Last(r.ids) < closing'[k].ids[1]
    <3>1. CASE r \in Range(chunks)
      BY <2>1, <2>3, <3>1 DEF OrderInv, ClosingInv
    <3>2. CASE r = h
      BY <1>3, <2>1, <3>2 DEF OrderInv, ClosingInv
    <3> QED
      BY <1>2, <2>3, <3>1, <3>2
  <2> QED
    BY <2>2, <2>3
<1>7. ScoredInv'
  <2>1. scored \in Seq(Rows) /\ InOrder(scored) /\ Range(scored) \subseteq Range(chunks)
    BY TypeParts DEF OrderInv, ScoredInv, InOrder
  <2>2. \A r \in Range(scored) : r.in = h.in => Last(r.ids) < h.ids[1]
    BY <1>4, <2>1
  <2>3. InOrder(Append(scored, h)) /\ Range(Append(scored, h)) = Range(scored) \cup {h}
    BY <2>1, <2>2, AppendedInOrder
  <2>4. scored' = Append(scored, h)
    BY <1>1
  <2> QED
    BY <1>2, <2>1, <2>3, <2>4 DEF ScoredInv, InOrder
<1> QED
  BY <1>2, <1>5, <1>6, <1>7 DEF OrderInv

LEMMA SaveChunkFailsOrdered ==
  ASSUME TypeOK, OrderInv, SaveChunkFails
  PROVE  OrderInv'
<1> DEFINE h == Head(closing)
<1>1. /\ closing # <<>> /\ chunks' \in {chunks, Append(chunks, h)} /\ closing' = <<>>
      /\ UNCHANGED <<scored, messages, history>>
  BY DEF SaveChunkFails
<1> HIDE DEF h
<1>2. CASE chunks' = chunks
  BY <1>1, <1>2, QuietStepOrdered
<1>3. CASE chunks' = Append(chunks, h)
  <2>1. /\ ChunksInOrder' /\ Range(chunks') = Range(chunks) \cup {h}
        /\ \A r \in Range(chunks) \cup Range(closing) : GoodRow(r)'
    BY <1>1, <1>3, SavedInOrder DEF h
  <2>2. Range(closing') = {} /\ DOMAIN closing' = {} /\ h \in Range(closing)
    <3>1. DOMAIN <<>> = {}
      OBVIOUS
    <3>2. closing \in Seq(Rows)
      BY TypeParts
    <3> QED
      BY <1>1, <3>1, <3>2, TailIs DEF Range, h
  <2>3. RowsInv' /\ ClosingInv'
    BY <2>1, <2>2 DEF RowsInv, ClosingInv
  <2> QED
    BY <1>1, <2>1, <2>3, ScoredStays DEF OrderInv
<1> QED
  BY <1>1, <1>2, <1>3

LEMMA ReadChannelOrdered ==
  ASSUME TypeOK, OrderInv, NEW c \in Channels, ReadChannel(c)
  PROVE  OrderInv'
<1>1. UNCHANGED <<chunks, scored, messages, history>>
  BY DEF ReadChannel, tables
<1>2. RowsInv
  BY DEF OrderInv
<1>3. /\ closing' \in Seq(Rows)
      /\ \A k \in DOMAIN closing' :
           /\ closing'[k].in = c /\ GoodRow(closing'[k])
           /\ \A j \in DOMAIN closing' : j < k => Last(closing'[j].ids) < closing'[k].ids[1]
           /\ \A r \in Range(chunks) : r.in = c => Last(r.ids) < closing'[k].ids[1]
  BY <1>2, ReadIs
<1>4. RowsInv'
  <2>1. \A r \in Range(closing') : GoodRow(r)
    BY <1>3, SeqElements
  <2>2. \A r : GoodRow(r) => GoodRow(r)'
    BY <1>1 DEF GoodRow, Message
  <2> QED
    BY <1>1, <1>2, <2>1, <2>2 DEF RowsInv
<1>5. ClosingInv'
  BY <1>1, <1>3 DEF ClosingInv
<1> QED
  BY <1>1, <1>4, <1>5 DEF OrderInv, ChunksInOrder, ScoredInv

LEMMA StepOrdered ==
  ASSUME TypeOK, OrderInv, [Next]_vars
  PROVE  OrderInv'
<1>q. ASSUME UNCHANGED <<chunks, scored, history>>, closing' \in {closing, <<>>},
             messages \subseteq messages'
      PROVE  OrderInv'
  BY <1>q, QuietStepOrdered
<1>1. ASSUME NEW p \in Posts, Post(p) PROVE OrderInv'
  <2> DEFINE H == [in : Channels, by : Authors, command : BOOLEAN, chars : Nat, at : 0..LastPost]
  <2>1. UNCHANGED <<chunks, scored, closing, messages>>
    BY <1>1 DEF Post, tables, loops
  <2>2. history \in Seq(H) /\ messages \subseteq DOMAIN history
    BY TypeParts DEF TypeOK
  <2>3. PICK m : history' = Append(history, m)
    BY <1>1 DEF Post
  <2> HIDE DEF H
  <2>4. \A i \in messages : history'[i] = history[i]
    BY <2>2, <2>3, AppendedIs
  <2> QED
    BY <2>1, <2>4, QuietStepOrdered
<1>2. CASE Tick
  BY <1>2, <1>q DEF Tick, tables, loops
<1>3. ASSUME NEW a \in Authors, ForgetAuthor(a) PROVE OrderInv'
  BY <1>3, <1>q DEF ForgetAuthor, tables, loops
<1>4. CASE RecordLive
  BY <1>4, <1>q DEF RecordLive, tables
<1>5. ASSUME NEW i \in Ids, InsertMessage(i) \/ InsertFails(i) PROVE OrderInv'
  BY <1>5, <1>q DEF InsertMessage, InsertFails, tables
<1>6. ASSUME NEW c \in Channels, ReadChannel(c) PROVE OrderInv'
  BY <1>6, ReadChannelOrdered
<1>7. CASE SaveChunk
  BY <1>7, SaveChunkOrdered
<1>8. CASE SaveChunkFails
  BY <1>8, SaveChunkFailsOrdered
<1>9. CASE ReadBacklog \/ SaveEmbedding \/ EmbeddingFails
  BY <1>9, <1>q DEF ReadBacklog, SaveEmbedding, EmbeddingFails, tables
<1>10. CASE Shutdown \/ Exit \/ Crash \/ Boot
  BY <1>10, <1>q DEF Shutdown, Exit, Crash, Boot, tables, loops
<1>11. CASE UNCHANGED vars
  BY <1>11, <1>q DEF vars, tables, loops
<1> QED
  BY <1>1, <1>2, <1>3, <1>4, <1>5, <1>6, <1>7, <1>8, <1>9, <1>10, <1>11 DEF Next, Run
-----------------------------------------------------------------------------
(* No message is passed over.                                              *)

\* What is cut of a channel is in the order of its messages, saved or not.
LEMMA CutIs ==
  ASSUME TypeOK, OrderInv
  PROVE  LET cut == chunks \o closing
         IN  /\ Len(cut) \in Nat /\ DOMAIN cut = 1..Len(cut)
             /\ Range(cut) = Range(chunks) \cup Range(closing)
             /\ \A k \in DOMAIN cut : cut[k] \in Range(chunks) \cup Range(closing)
             /\ \A j, k \in DOMAIN cut :
                  j < k /\ cut[j].in = cut[k].in => Last(cut[j].ids) < cut[k].ids[1]
<1> DEFINE cut == chunks \o closing
           n == Len(chunks)
           m == Len(closing)
<1>1. chunks \in Seq(Rows) /\ closing \in Seq(Rows)
  BY TypeParts
<1>2. /\ n \in Nat /\ DOMAIN chunks = 1..n /\ m \in Nat /\ DOMAIN closing = 1..m
      /\ \A k \in 1..n : chunks[k] \in Range(chunks)
      /\ \A k \in 1..m : closing[k] \in Range(closing)
  BY <1>1, SeqElements
<1>3. /\ cut \in Seq(Rows) /\ Len(cut) = n + m
      /\ \A k \in 1..(n + m) : cut[k] = IF k <= n THEN chunks[k] ELSE closing[k - n]
  BY <1>1, ConcatProperties
<1> HIDE DEF cut, n, m
<1>4. Len(cut) \in Nat /\ DOMAIN cut = 1..(n + m)
  BY <1>2, <1>3, SeqElements
<1>5. ASSUME NEW k \in DOMAIN cut
      PROVE  \/ k \in 1..n /\ cut[k] = chunks[k]
             \/ n < k /\ k - n \in 1..m /\ cut[k] = closing[k - n]
  BY <1>2, <1>3, <1>4
<1>6. \A k \in DOMAIN cut : cut[k] \in Range(chunks) \cup Range(closing)
  BY <1>2, <1>5
<1>7. Range(cut) = Range(chunks) \cup Range(closing)
  <2>1. ASSUME NEW r \in Range(chunks) PROVE r \in Range(cut)
    <3>1. PICK k \in 1..n : chunks[k] = r
      BY <1>2 DEF Range
    <3>2. k \in DOMAIN cut /\ cut[k] = r
      BY <1>2, <1>3, <1>4, <3>1
    <3> QED
      BY <3>2 DEF Range
  <2>2. ASSUME NEW r \in Range(closing) PROVE r \in Range(cut)
    <3>1. PICK k \in 1..m : closing[k] = r
      BY <1>2 DEF Range
    <3>2. n + k \in 1..(n + m) /\ ~(n + k <= n) /\ (n + k) - n = k
      BY <1>2
    <3>3. cut[n + k] = r
      BY <1>3, <3>1, <3>2
    <3> QED
      BY <1>4, <3>2, <3>3 DEF Range
  <2> QED
    BY <1>6, <2>1, <2>2 DEF Range
<1>8. ASSUME NEW j \in DOMAIN cut, NEW k \in DOMAIN cut, j < k, cut[j].in = cut[k].in
      PROVE  Last(cut[j].ids) < cut[k].ids[1]
  <2>1. CASE k \in 1..n /\ cut[k] = chunks[k]
    <3>1. j \in 1..n /\ cut[j] = chunks[j]
      BY <1>2, <1>4, <1>5, <1>8, <2>1
    <3> QED
      BY <1>2, <1>8, <2>1, <3>1 DEF OrderInv, ChunksInOrder
  <2>2. CASE n < k /\ k - n \in 1..m /\ cut[k] = closing[k - n]
    <3>1. CASE j \in 1..n /\ cut[j] = chunks[j]
      <4>1. cut[j] \in Range(chunks)
        BY <1>2, <3>1
      <4> QED
        BY <1>2, <1>8, <2>2, <4>1 DEF OrderInv, ClosingInv
    <3>2. CASE n < j /\ j - n \in 1..m /\ cut[j] = closing[j - n]
      <4>1. j - n < k - n
        BY <1>2, <1>4, <1>8
      <4> QED
        BY <1>2, <1>8, <2>2, <3>2, <4>1 DEF OrderInv, ClosingInv
    <3> QED
      BY <1>5, <3>1, <3>2
  <2> QED
    BY <1>5, <2>1, <2>2
<1> QED
  BY <1>3, <1>4, <1>6, <1>7, <1>8 DEF cut, n, m

\* A message that is stored below one that is cut comes too late.
LEMMA BelowIsLate ==
  ASSUME TypeOK, OrderInv, NEW i \in Ids,
         NEW r \in Range(chunks) \cup Range(closing), r.in = Message(i).in, i < Last(r.ids)
  PROVE  ComesLate(i)
<1> DEFINE cut == chunks \o closing
           mine == {k \in DOMAIN cut : cut[k].in = Message(i).in}
           n == Len(cut)
           top == Max(mine)
<1>1. /\ n \in Nat /\ DOMAIN cut = 1..n
      /\ Range(cut) = Range(chunks) \cup Range(closing)
      /\ \A k \in DOMAIN cut : cut[k] \in Range(chunks) \cup Range(closing)
      /\ \A j, k \in DOMAIN cut :
           j < k /\ cut[j].in = cut[k].in => Last(cut[j].ids) < cut[k].ids[1]
  BY CutIs
<1> HIDE DEF cut, n
<1>2. \A q \in Range(chunks) \cup Range(closing) :
        q \in Rows /\ GoodRow(q) /\ q.ids[1] \in Nat /\ Last(q.ids) \in Nat
        /\ q.ids[1] <= Last(q.ids)
  <2> SUFFICES ASSUME NEW q \in Range(chunks) \cup Range(closing)
               PROVE  q \in Rows /\ GoodRow(q) /\ q.ids[1] \in Nat /\ Last(q.ids) \in Nat
                      /\ q.ids[1] <= Last(q.ids)
    OBVIOUS
  <2>1. q \in Rows /\ GoodRow(q)
    BY TypeParts DEF OrderInv, RowsInv
  <2> QED
    BY <2>1, RowFacts DEF GoodRow
<1>3. PICK k \in DOMAIN cut : cut[k] = r
  BY <1>1 DEF Range
<1>4. k \in mine
  BY <1>3
<1>5. mine \in SUBSET (0..n) /\ mine # {}
  <2>1. \A j \in DOMAIN cut : j \in 0..n
    BY <1>1
  <2> QED
    BY <1>4, <2>1
<1>6. top \in mine /\ \A x \in mine : top >= x
  <2> HIDE DEF mine
  <2> QED
    BY <1>1, <1>5, MaxIs
<1> HIDE DEF top
<1>7. top \in DOMAIN cut /\ cut[top].in = Message(i).in /\ top >= k
  BY <1>4, <1>6
<1> HIDE DEF mine
<1>8. Last(r.ids) <= Last(cut[top].ids)
  <2>1. CASE top = k
    BY <1>2, <1>3, <2>1
  <2>2. CASE k < top
    <3>1. Last(r.ids) < cut[top].ids[1]
      BY <1>1, <1>3, <1>7, <2>2
    <3> QED
      BY <1>1, <1>2, <1>7, <3>1
  <2> QED
    BY <1>1, <1>3, <1>7, <2>1, <2>2
<1>9. i < Last(cut[top].ids)
  <2>1. i \in Nat /\ Last(r.ids) \in Nat /\ Last(cut[top].ids) \in Nat
    BY <1>1, <1>2, <1>7 DEF Ids
  <2> QED
    BY <1>8, <2>1
<1> QED
  BY <1>5, <1>9 DEF ComesLate, cut, mine, top

\* The steps that neither store nor cut anything.
LEMMA QuietStepPasses ==
  ASSUME PassedInv, UNCHANGED <<chunks, messages, late>>, closing' \in {closing, <<>>},
         \A i \in messages : history'[i] = history[i]
  PROVE  PassedInv'
<1>1. DOMAIN <<>> = {}
  OBVIOUS
<1>2. closing' = closing \/ DOMAIN closing' = {}
  BY <1>1
<1> QED
  BY <1>2 DEF PassedInv, IdsOf, Message
LEMMA InsertPasses ==
  ASSUME TypeOK, OrderInv, PassedInv, NEW i \in Ids, InsertMessage(i)
  PROVE  PassedInv'
<1>1. /\ messages' = messages \cup {i}
      /\ late \subseteq late'
      /\ ComesLate(i) => i \in late'
      /\ UNCHANGED <<history, chunks, closing>>
  BY DEF InsertMessage
<1>2. ASSUME NEW r \in Range(chunks) \cup Range(closing), r.in = Message(i).in, i < Last(r.ids)
      PROVE  i \in late'
  BY <1>1, <1>2, BelowIsLate
<1>3. ASSUME NEW x \in messages'
      PROVE  /\ \A r \in Range(chunks) :
                  r.in = Message(x).in /\ x < Last(r.ids) => x \in IdsOf(chunks) \cup late'
             /\ \A k \in DOMAIN closing :
                  closing[k].in = Message(x).in /\ x < Last(closing[k].ids) =>
                    \/ x \in IdsOf(chunks) \cup late'
                    \/ \E j \in 1..k : x \in Range(closing[j].ids)
  <2>1. CASE x \in messages
    BY <1>1, <2>1 DEF PassedInv
  <2>2. CASE x = i
    <3>1. \A k \in DOMAIN closing : closing[k] \in Range(closing)
      BY DEF Range
    <3> QED
      BY <1>2, <2>2, <3>1
  <2> QED
    BY <1>1, <1>3, <2>1, <2>2
<1> QED
  BY <1>1, <1>3 DEF PassedInv, IdsOf, Message

LEMMA ReadChannelPasses ==
  ASSUME TypeOK, OrderInv, PassedInv, NEW c \in Channels, ReadChannel(c)
  PROVE  PassedInv'
<1>1. UNCHANGED <<chunks, messages, late, history>>
  BY DEF ReadChannel, tables
<1>2. \A k \in DOMAIN closing' :
        /\ closing'[k].in = c
        /\ \A i \in messages :
             Message(i).in = c /\ i < Last(closing'[k].ids) =>
               \/ \E r \in Range(chunks) : r.in = c /\ i <= Last(r.ids)
               \/ \E j \in 1..k : i \in Range(closing'[j].ids)
  BY ReadIs DEF OrderInv
<1>3. ASSUME NEW i \in messages, NEW r \in Range(chunks), r.in = Message(i).in, i <= Last(r.ids)
      PROVE  i \in IdsOf(chunks) \cup late
  <2>1. r \in Rows /\ GoodRow(r)
    BY TypeParts DEF OrderInv, RowsInv
  <2>2. Last(r.ids) \in Range(r.ids) /\ Last(r.ids) \in Nat
    BY <2>1, RowFacts DEF GoodRow
  <2>3. i \in Nat
    BY TypeParts
  <2>4. CASE i = Last(r.ids)
    BY <2>2, <2>4 DEF IdsOf
  <2>5. CASE i < Last(r.ids)
    BY <1>3, <2>5 DEF PassedInv
  <2> QED
    BY <1>3, <2>2, <2>3, <2>4, <2>5
<1>4. ASSUME NEW i \in messages, NEW k \in DOMAIN closing',
             closing'[k].in = Message(i).in, i < Last(closing'[k].ids)
      PROVE  \/ i \in IdsOf(chunks) \cup late
             \/ \E j \in 1..k : i \in Range(closing'[j].ids)
  BY <1>2, <1>3, <1>4
<1> QED
  BY <1>1, <1>4 DEF PassedInv, IdsOf, Message

LEMMA SavePasses ==
  ASSUME TypeOK, OrderInv, PassedInv, closing # <<>>,
         chunks' = Append(chunks, Head(closing)), closing' \in {<<>>, Tail(closing)},
         UNCHANGED <<messages, late, history>>
  PROVE  PassedInv'
<1> DEFINE h == Head(closing)
<1>1. closing \in Seq(Rows) /\ chunks \in Seq(Rows)
  BY TypeParts
<1>2. /\ 1 \in DOMAIN closing /\ h = closing[1]
      /\ \A k \in DOMAIN Tail(closing) : k + 1 \in DOMAIN closing
                                         /\ Tail(closing)[k] = closing[k + 1]
                                         /\ k \in Nat /\ 1 <= k
  BY <1>1, TailIs
<1>3. Range(chunks') = Range(chunks) \cup {h}
  BY SavedInOrder
<1>4. IdsOf(chunks) \subseteq IdsOf(chunks') /\ Range(h.ids) \subseteq IdsOf(chunks')
  BY <1>3 DEF IdsOf
<1>5. DOMAIN <<>> = {}
  OBVIOUS
<1> HIDE DEF h
<1>6. ASSUME NEW i \in messages, NEW r \in Range(chunks'), r.in = Message(i).in,
             i < Last(r.ids)
      PROVE  i \in IdsOf(chunks') \cup late
  <2>1. CASE r \in Range(chunks)
    BY <1>4, <1>6, <2>1 DEF PassedInv
  <2>2. CASE r = h
    <3>1. \/ i \in IdsOf(chunks) \cup late
          \/ \E j \in 1..1 : i \in Range(closing[j].ids)
      BY <1>2, <1>6, <2>2 DEF PassedInv
    <3>2. \A j \in 1..1 : j = 1
      OBVIOUS
    <3> QED
      BY <1>2, <1>4, <3>1, <3>2
  <2> QED
    BY <1>3, <1>6, <2>1, <2>2
<1>7. ASSUME NEW i \in messages, NEW k \in DOMAIN closing',
             closing'[k].in = Message(i).in, i < Last(closing'[k].ids)
      PROVE  \/ i \in IdsOf(chunks') \cup late
             \/ \E j \in 1..k : i \in Range(closing'[j].ids)
  <2>1. closing' = Tail(closing)
    BY <1>5, <1>7
  <2>2. k + 1 \in DOMAIN closing /\ closing'[k] = closing[k + 1] /\ k \in Nat /\ 1 <= k
    BY <1>2, <1>7, <2>1
  <2>3. \/ i \in IdsOf(chunks) \cup late
        \/ \E j \in 1..(k + 1) : i \in Range(closing[j].ids)
    BY <1>7, <2>2 DEF PassedInv
  <2>4. ASSUME NEW j \in 1..(k + 1), i \in Range(closing[j].ids)
        PROVE  \/ i \in IdsOf(chunks')
               \/ \E l \in 1..k : i \in Range(closing'[l].ids)
    <3>1. CASE j = 1
      BY <1>2, <1>4, <2>4, <3>1
    <3>2. CASE j # 1
      <4> DEFINE l == j - 1
      <4>1. l \in 1..k /\ l + 1 = j
        BY <2>2, <3>2
      <4> HIDE DEF l
      <4>2. l \in DOMAIN Tail(closing)
        <5>1. Tail(closing) \in Seq(Rows)
          BY <1>1, HeadTailProperties
        <5> QED
          BY <1>7, <2>1, <2>2, <4>1, <5>1, SeqElements
      <4>3. closing'[l] = closing[j]
        BY <1>2, <2>1, <4>1, <4>2
      <4> QED
        BY <2>4, <4>1, <4>3
    <3> QED
      BY <3>1, <3>2
  <2> QED
    BY <1>4, <2>3, <2>4
<1> QED
  BY <1>6, <1>7 DEF PassedInv, Message

LEMMA StepPasses ==
  ASSUME TypeOK, OrderInv, PassedInv, [Next]_vars
  PROVE  PassedInv'
<1>q. ASSUME UNCHANGED <<chunks, messages, late, history>>, closing' \in {closing, <<>>}
      PROVE  PassedInv'
  BY <1>q, QuietStepPasses
<1>1. ASSUME NEW p \in Posts, Post(p) PROVE PassedInv'
  <2> DEFINE H == [in : Channels, by : Authors, command : BOOLEAN, chars : Nat, at : 0..LastPost]
  <2>1. UNCHANGED <<chunks, late, closing, messages>>
    BY <1>1 DEF Post, tables, loops
  <2>2. history \in Seq(H) /\ messages \subseteq DOMAIN history
    BY TypeParts DEF TypeOK
  <2>3. PICK m : history' = Append(history, m)
    BY <1>1 DEF Post
  <2> HIDE DEF H
  <2>4. \A i \in messages : history'[i] = history[i]
    BY <2>2, <2>3, AppendedIs
  <2> QED
    BY <2>1, <2>4, QuietStepPasses
<1>2. CASE Tick
  BY <1>2, <1>q DEF Tick, tables, loops
<1>3. ASSUME NEW a \in Authors, ForgetAuthor(a) PROVE PassedInv'
  BY <1>3, <1>q DEF ForgetAuthor, tables, loops
<1>4. CASE RecordLive
  BY <1>4, <1>q DEF RecordLive, tables
<1>5. ASSUME NEW i \in Ids, InsertMessage(i) PROVE PassedInv'
  BY <1>5, InsertPasses
<1>6. ASSUME NEW i \in Ids, InsertFails(i) PROVE PassedInv'
  BY <1>6, <1>q DEF InsertFails, tables
<1>7. ASSUME NEW c \in Channels, ReadChannel(c) PROVE PassedInv'
  BY <1>7, ReadChannelPasses
<1>8. CASE SaveChunk
  BY <1>8, SavePasses DEF SaveChunk
<1>9. CASE SaveChunkFails
  <2>1. /\ closing # <<>> /\ closing' = <<>> /\ UNCHANGED <<messages, late, history>>
        /\ chunks' = chunks \/ chunks' = Append(chunks, Head(closing))
    BY <1>9 DEF SaveChunkFails
  <2> QED
    BY <1>q, <2>1, SavePasses
<1>10. CASE ReadBacklog \/ SaveEmbedding \/ EmbeddingFails
  BY <1>10, <1>q DEF ReadBacklog, SaveEmbedding, EmbeddingFails, tables
<1>11. CASE Shutdown \/ Exit \/ Crash \/ Boot
  BY <1>11, <1>q DEF Shutdown, Exit, Crash, Boot, tables, loops
<1>12. CASE UNCHANGED vars
  BY <1>12, <1>q DEF vars, tables, loops
<1> QED
  BY <1>1, <1>2, <1>3, <1>4, <1>5, <1>6, <1>7, <1>8, <1>9, <1>10, <1>11, <1>12 DEF Next, Run
-----------------------------------------------------------------------------

IngestInv == TypeOK /\ OrderInv /\ PassedInv

LEMMA IngestInvHolds == Spec => []IngestInv
<1>1. Init => IngestInv
  BY InitTyped, InitOrdered DEF IngestInv
<1>2. IngestInv /\ [Next]_vars => IngestInv'
  <2> SUFFICES ASSUME IngestInv, [Next]_vars PROVE IngestInv'
    OBVIOUS
  <2>1. TypeOK /\ OrderInv /\ RowsInv /\ PassedInv
    BY DEF IngestInv, OrderInv
  <2> QED
    BY <2>1, StepTyped, StepOrdered, StepPasses DEF IngestInv
<1> QED
  BY <1>1, <1>2, PTL DEF Spec

\* The types hold in every reachable state: the batches of both loops, the tables and
\* what was scored have rows of stored messages, whatever fails.
THEOREM RowsAreTyped == Spec => []TypeOK
<1>1. IngestInv => TypeOK
  BY DEF IngestInv
<1> QED
  BY <1>1, IngestInvHolds, PTL

\* The chunks of a channel are saved in the order of their messages and do not
\* overlap, over failed saves, lost replies, shutdowns and crashes (chunkChannel).
THEOREM SavedInOrderOfMessages == Spec => []ChunksInOrder
<1>1. IngestInv => ChunksInOrder
  BY DEF IngestInv, OrderInv
<1> QED
  BY <1>1, IngestInvHolds, PTL

\* Rows that follow each other have no message in common.
LEMMA OrderScoresOnce ==
  ASSUME TypeOK, OrderInv
  PROVE  ScoredOnce
<1> SUFFICES ASSUME NEW j \in DOMAIN scored, NEW k \in DOMAIN scored, j # k,
                    NEW i, i \in Range(scored[j].ids), i \in Range(scored[k].ids)
             PROVE  FALSE
  BY DEF ScoredOnce
<1>1. scored \in Seq(Rows) /\ Range(scored) \subseteq Range(chunks)
  BY TypeParts DEF OrderInv, ScoredInv
<1>2. \A l \in DOMAIN scored : scored[l] \in Rows /\ GoodRow(scored[l])
  BY <1>1, SeqElements DEF OrderInv, RowsInv
<1>3. \A l \in {j, k} : /\ Message(i).in = scored[l].in
                        /\ scored[l].ids[1] <= i /\ i <= Last(scored[l].ids) /\ i \in Nat
                        /\ scored[l].ids[1] \in Nat /\ Last(scored[l].ids) \in Nat
  BY <1>2, RowFacts DEF GoodRow
<1>4. j \in Nat /\ k \in Nat
  BY <1>1, SeqElements
<1>5. CASE j < k
  BY <1>3, <1>5 DEF OrderInv, ScoredInv
<1>6. CASE k < j
  BY <1>3, <1>6 DEF OrderInv, ScoredInv
<1> QED
  BY <1>4, <1>5, <1>6

\* No message is handed to the affinity scorer twice.
THEOREM ScoredOnlyOnce == Spec => []ScoredOnce
<1>1. IngestInv => ScoredOnce
  BY OrderScoresOnce DEF IngestInv
<1> QED
  BY <1>1, IngestInvHolds, PTL

\* The chunking loop passes over no message that was stored in time: what is below the
\* watermark of its channel is in a chunk or came too late (GetUnchunkedMessages).
THEOREM NonePassedOver == Spec => []PassedOverIsLate
<1>1. IngestInv => PassedOverIsLate
  <2> SUFFICES ASSUME IngestInv, NEW i \in messages, i < LastChunkedId(Message(i).in)
               PROVE  i \in IdsOf(chunks) \cup late
    BY DEF PassedOverIsLate
  <2> DEFINE n == Len(history)
             c == Message(i).in
  <2>1. n \in Nat /\ messages \subseteq 1..n
    BY TypeParts DEF IngestInv
  <2>2. ASSUME NEW r \in Range(chunks), r.in = c PROVE Last(r.ids) \in 0..n
    <3>1. r \in Rows /\ GoodRow(r)
      BY TypeParts DEF IngestInv, OrderInv, RowsInv
    <3>2. Last(r.ids) \in messages
      BY <3>1, RowFacts DEF GoodRow
    <3>3. \A x \in 1..n : x \in 0..n
      BY <2>1
    <3> QED
      BY <2>1, <3>2, <3>3
  <2> HIDE DEF n, c
  <2>3. LastChunkedId(c) = 0 \/ \E r \in Range(chunks) : r.in = c /\ Last(r.ids) = LastChunkedId(c)
    BY <2>1, <2>2, UnchunkedIs
  <2>4. LastChunkedId(c) # 0
    BY <2>1 DEF c
  <2> QED
    BY <2>3, <2>4 DEF IngestInv, PassedInv, c
<1> QED
  BY <1>1, IngestInvHolds, PTL
-----------------------------------------------------------------------------
(* One pass.                                                               *)

\* The first j elements.
Upto(s, j) == [i \in 1..j |-> s[i]]

LEMMA UptoIs ==
  ASSUME NEW S, NEW s \in Seq(S), NEW j \in 0..Len(s)
  PROVE  /\ Upto(s, j) \in Seq(S) /\ Len(Upto(s, j)) = j /\ DOMAIN Upto(s, j) = 1..j
         /\ \A i \in 1..j : Upto(s, j)[i] = s[i]
<1>1. Len(s) \in Nat /\ DOMAIN s = 1..Len(s) /\ \A i \in 1..Len(s) : s[i] \in S
  BY SeqElements
<1>2. j \in Nat /\ \A i \in 1..j : i \in 1..Len(s)
  BY <1>1
<1>3. Upto(s, j) \in [1..j -> S]
  BY <1>1, <1>2 DEF Upto
<1> QED
  BY <1>2, <1>3, FunctionIsSeq DEF Upto

LEMMA UptoAppend ==
  ASSUME NEW S, NEW s \in Seq(S), NEW e \in S
  PROVE  /\ Append(s, e) \in Seq(S) /\ Len(Append(s, e)) = Len(s) + 1
         /\ \A j \in 0..Len(s) : Upto(Append(s, e), j) = Upto(s, j)
         /\ Upto(s, Len(s)) = s
         /\ Append(s, e)[Len(s) + 1] = e
         /\ \A i \in 1..Len(s) : Append(s, e)[i] = s[i]
<1>1. Len(s) \in Nat /\ DOMAIN s = 1..Len(s)
  BY SeqElements
<1>2. /\ Append(s, e) \in Seq(S) /\ Len(Append(s, e)) = Len(s) + 1
      /\ Append(s, e)[Len(s) + 1] = e
      /\ \A i \in 1..Len(s) : Append(s, e)[i] = s[i]
  BY AppendProperties
<1>3. \A j \in 0..Len(s) : \A i \in 1..j : i \in 1..Len(s)
  BY <1>1
<1>4. \A j \in 0..Len(s) : Upto(Append(s, e), j) = Upto(s, j)
  BY <1>2, <1>3 DEF Upto
<1>5. s = [i \in 1..Len(s) |-> s[i]]
  BY <1>1
<1> QED
  BY <1>2, <1>4, <1>5 DEF Upto

LEMMA StartsNewSame ==
  ASSUME NEW s, NEW m1, NEW m2, m1.at = m2.at, m1.chars = m2.chars
  PROVE  StartsNew(s, m1) <=> StartsNew(s, m2)
BY DEF StartsNew

\* No chunk ends before it has to, and none goes on when it must not.
Greedy(cs) ==
  \A k \in DOMAIN cs :
    /\ cs[k] # <<>>
    /\ \A j \in 1..Len(cs[k])-1 : ~StartsNew(Upto(cs[k], j), cs[k][j+1])
    /\ k + 1 \in DOMAIN cs => StartsNew(cs[k], cs[k+1][1])

LEMMA AddTyped ==
  ASSUME NEW M, NEW cs \in Seq(Seq(M)), NEW msg \in M
  PROVE  Add(cs, msg) \in Seq(Seq(M))
<1> DEFINE D == Seq(M)
<1>1. <<msg>> \in D /\ \A s \in D : Append(s, msg) \in D
  OBVIOUS
<1>2. cs \in Seq(D) /\ Len(cs) \in Nat /\ DOMAIN cs = 1..Len(cs)
      /\ \A k \in 1..Len(cs) : cs[k] \in D
  BY SeqElements
<1> HIDE DEF D
<1>3. Append(cs, <<msg>>) \in Seq(D)
  BY <1>1, <1>2
<1>4. [cs EXCEPT ![Len(cs)] = Append(@, msg)] \in Seq(D)
  <2>1. [cs EXCEPT ![Len(cs)] = Append(@, msg)] \in [1..Len(cs) -> D]
    BY <1>1, <1>2
  <2> QED
    BY <1>2, <2>1, FunctionIsSeq
<1> QED
  BY <1>3, <1>4 DEF Add, D

LEMMA AddIsGreedy ==
  ASSUME NEW M, NEW cs \in Seq(Seq(M)), NEW msg \in M, Greedy(cs)
  PROVE  Greedy(Add(cs, msg))
<1> DEFINE m == Len(cs)
<1>1. m \in Nat /\ DOMAIN cs = 1..m /\ \A k \in 1..m : cs[k] \in Seq(M)
  BY SeqElements
<1>2. Last(cs) = cs[m]
  BY DEF Last
<1>3. CASE cs = <<>> \/ StartsNew(Last(cs), msg)
  <2> DEFINE ds == Append(cs, <<msg>>)
  <2>1. Add(cs, msg) = ds
    BY <1>3 DEF Add
  <2>2. /\ DOMAIN ds = 1..(m+1) /\ ds[m+1] = <<msg>> /\ \A k \in 1..m : ds[k] = cs[k]
    BY <1>1
  <2>3. Len(<<msg>>) = 1 /\ <<msg>> # <<>> /\ <<msg>>[1] = msg
    OBVIOUS
  <2> HIDE DEF ds, m
  <2>4. ASSUME NEW k \in 1..(m+1)
        PROVE  /\ ds[k] # <<>>
               /\ \A j \in 1..Len(ds[k])-1 : ~StartsNew(Upto(ds[k], j), ds[k][j+1])
               /\ k + 1 \in DOMAIN ds => StartsNew(ds[k], ds[k+1][1])
    <3>1. CASE k = m + 1
      <4>1. k + 1 \notin DOMAIN ds
        BY <1>1, <2>2, <3>1
      <4>2. ds[k] = <<msg>>
        BY <2>2, <3>1
      <4>3. ~(\E j \in 1..Len(ds[k])-1 : TRUE)
        BY <2>3, <4>2
      <4> QED
        BY <2>3, <4>1, <4>2, <4>3
    <3>2. CASE k = m /\ m # 0
      <4>1. k \in DOMAIN cs /\ ds[k] = cs[k] /\ ds[k+1] = <<msg>>
        BY <1>1, <2>2, <3>2
      <4>2. cs # <<>>
        BY <1>1, <3>2
      <4>3. StartsNew(cs[k], msg)
        BY <1>2, <1>3, <3>2, <4>2
      <4> QED
        BY <2>3, <4>1, <4>3 DEF Greedy
    <3>3. CASE k < m
      <4>1. k \in DOMAIN cs /\ k + 1 \in DOMAIN cs /\ ds[k] = cs[k] /\ ds[k+1] = cs[k+1]
        BY <1>1, <2>2, <3>3
      <4> QED
        BY <4>1 DEF Greedy
    <3>4. k = m + 1 \/ (k = m /\ m # 0) \/ k < m
      BY <1>1
    <3> QED
      BY <3>1, <3>2, <3>3, <3>4
  <2> QED
    BY <2>1, <2>2, <2>4 DEF Greedy
<1>4. CASE ~(cs = <<>> \/ StartsNew(Last(cs), msg))
  <2> DEFINE ds == [cs EXCEPT ![m] = Append(@, msg)]
             c == cs[m]
             d == Append(c, msg)
  <2>1. Add(cs, msg) = ds
    BY <1>4 DEF Add
  <2>2. m \in 1..m /\ ~StartsNew(c, msg)
    BY <1>1, <1>2, <1>4
  <2>3. DOMAIN ds = 1..m /\ ds[m] = d /\ \A k \in 1..m : k # m => ds[k] = cs[k]
    BY <1>1, <2>2
  <2>4. c \in Seq(M) /\ c # <<>> /\ m \in DOMAIN cs
    BY <1>1, <2>2 DEF Greedy
  <2>5. Len(c) \in Nat /\ Len(c) # 0
    BY <2>4, EmptySeq
  <2>6. /\ d \in Seq(M) /\ Len(d) = Len(c) + 1
        /\ \A j \in 0..Len(c) : Upto(d, j) = Upto(c, j)
        /\ Upto(c, Len(c)) = c
        /\ d[Len(c) + 1] = msg
        /\ \A i \in 1..Len(c) : d[i] = c[i]
    BY <2>4, UptoAppend
  <2>7. \A j \in 1..Len(c)-1 : ~StartsNew(Upto(c, j), c[j+1])
    BY <2>4 DEF Greedy
  <2>8. d[1] = c[1] /\ d # <<>>
    BY <2>5, <2>6
  <2> HIDE DEF ds, c, d, m
  <2>9. ASSUME NEW j \in 1..Len(d)-1 PROVE ~StartsNew(Upto(d, j), d[j+1])
    <3>1. j \in 1..Len(c)
      BY <2>5, <2>6, <2>9
    <3>2. CASE j = Len(c)
      <4>1. Upto(d, j) = c /\ d[j+1] = msg
        BY <2>5, <2>6, <3>2
      <4> QED
        BY <2>2, <4>1
    <3>3. CASE j # Len(c)
      <4>1. j \in 1..Len(c)-1 /\ j \in 0..Len(c) /\ j + 1 \in 1..Len(c)
        BY <2>5, <3>1, <3>3
      <4> QED
        BY <2>6, <2>7, <4>1
    <3> QED
      BY <3>2, <3>3
  <2>10. ASSUME NEW k \in 1..m
         PROVE  /\ ds[k] # <<>>
                /\ \A j \in 1..Len(ds[k])-1 : ~StartsNew(Upto(ds[k], j), ds[k][j+1])
                /\ k + 1 \in DOMAIN ds => StartsNew(ds[k], ds[k+1][1])
    <3>1. CASE k = m
      <4>1. k + 1 \notin DOMAIN ds
        BY <1>1, <2>3, <3>1
      <4> QED
        BY <2>3, <2>8, <2>9, <3>1, <4>1
    <3>2. CASE k # m
      <4>1. k + 1 \in 1..m /\ k \in DOMAIN cs /\ k + 1 \in DOMAIN cs /\ ds[k] = cs[k]
        BY <1>1, <2>3, <3>2
      <4>2. ds[k+1][1] = cs[k+1][1]
        <5>1. CASE k + 1 = m
          BY <2>3, <2>8, <4>1, <5>1 DEF c
        <5>2. CASE k + 1 # m
          BY <2>3, <4>1, <5>2
        <5> QED
          BY <5>1, <5>2
      <4> QED
        BY <4>1, <4>2 DEF Greedy
    <3> QED
      BY <3>1, <3>2
  <2> QED
    BY <2>1, <2>3, <2>10 DEF Greedy
<1> QED
  BY <1>3, <1>4

LEMMA ChunksAreGreedy ==
  ASSUME NEW M, NEW msgs \in Seq(M)
  PROVE  ChunkMessages(msgs) \in Seq(Seq(M)) /\ Greedy(ChunkMessages(msgs))
<1>1. PICK f : Chunked(f, Len(msgs), msgs) /\ ChunkMessages(msgs) = f[Len(msgs)]
  BY ChunkMessagesIs
<1> DEFINE K == {k \in Nat : k <= Len(msgs) => f[k] \in Seq(Seq(M)) /\ Greedy(f[k])}
<1>2. Len(msgs) \in Nat /\ \A k \in 1..Len(msgs) : msgs[k] \in M
  OBVIOUS
<1>3. 0 \in K
  <2>1. f[0] = <<>>
    BY <1>1, <1>2 DEF Chunked
  <2>2. Greedy(<<>>)
    BY DEF Greedy
  <2>3. <<>> \in Seq(Seq(M))
    OBVIOUS
  <2> QED
    BY <2>1, <2>2, <2>3
<1>4. ASSUME NEW k \in Nat, k \in K PROVE k + 1 \in K
  <2>1. ASSUME k + 1 <= Len(msgs)
        PROVE  f[k+1] \in Seq(Seq(M)) /\ Greedy(f[k+1])
    <3>1. f[k] \in Seq(Seq(M)) /\ Greedy(f[k])
      BY <1>2, <1>4, <2>1
    <3>2. f[k+1] = Add(f[k], msgs[k+1])
      <4>1. k + 1 \in 0..Len(msgs) /\ k + 1 # 0 /\ (k + 1) - 1 = k
        BY <1>2, <2>1
      <4> QED
        BY <1>1, <4>1 DEF Chunked
    <3>3. msgs[k+1] \in M
      BY <1>2, <2>1
    <3>4. Add(f[k], msgs[k+1]) \in Seq(Seq(M))
      BY <3>1, <3>3, AddTyped
    <3> QED
      BY <3>1, <3>2, <3>3, <3>4, AddIsGreedy
  <2> QED
    BY <2>1
<1>5. Nat \subseteq K
  <2> HIDE DEF K
  <2> QED
    BY <1>3, <1>4, SetInduction
<1>6. Len(msgs) \in K
  <2> HIDE DEF K
  <2> QED
    BY <1>2, <1>5
<1> QED
  BY <1>1, <1>2, <1>6

-----------------------------------------------------------------------------
(* Rows end where one pass ends them.                                      *)

\* The row goes on as far as it may, and no stored message would continue it.
EndsRight(r) ==
  /\ \A j \in 1..Len(r.ids)-1 : ~StartsNew(WithIds(Upto(r.ids, j)), Message(r.ids[j+1]))
  /\ \A i \in messages : Message(i).in = r.in => ~Continues(i, r.ids)

EndInv ==
  late = {} /\ split = {} => \A r \in Range(chunks) \cup Range(closing) : EndsRight(r)

LEMMA WithIdsKept ==
  ASSUME NEW ids, \A k \in DOMAIN ids : history'[ids[k]] = history[ids[k]]
  PROVE  WithIds(ids)' = WithIds(ids)
BY DEF WithIds, Message

\* What is stored anew must not continue a row; the rest is as it was.
LEMMA EndKept ==
  ASSUME NEW r \in Rows, GoodRow(r), EndsRight(r),
         messages \subseteq messages', \A i \in messages : history'[i] = history[i],
         \A i \in messages' \ messages : Message(i)'.in = r.in => ~Continues(i, r.ids)'
  PROVE  EndsRight(r)'
<1>1. r.ids \in Seq(1..MaxPosts)
  BY DEF Rows
<1>2. DOMAIN r.ids = 1..Len(r.ids) /\ Len(r.ids) \in Nat
  BY <1>1, SeqElements
<1>3. \A k \in DOMAIN r.ids : r.ids[k] \in messages
  BY DEF GoodRow, Range
<1>4. \A i \in messages : Message(i)' = Message(i)
  BY DEF Message
<1>5. ASSUME NEW j \in 1..Len(r.ids)-1
      PROVE  ~StartsNew(WithIds(Upto(r.ids, j))', Message(r.ids[j+1])')
  <2>1. j \in 0..Len(r.ids) /\ j + 1 \in DOMAIN r.ids /\ \A k \in 1..j : k \in DOMAIN r.ids
    BY <1>2
  <2>2. DOMAIN Upto(r.ids, j) = 1..j /\ \A k \in 1..j : Upto(r.ids, j)[k] = r.ids[k]
    BY <1>1, <2>1, UptoIs
  <2>3. \A k \in DOMAIN Upto(r.ids, j) : history'[Upto(r.ids, j)[k]] = history[Upto(r.ids, j)[k]]
    BY <1>3, <2>1, <2>2
  <2>4. WithIds(Upto(r.ids, j))' = WithIds(Upto(r.ids, j))
    BY <2>3, WithIdsKept
  <2>5. Message(r.ids[j+1])' = Message(r.ids[j+1])
    BY <1>3, <1>4, <2>1
  <2>6. ~StartsNew(WithIds(Upto(r.ids, j)), Message(r.ids[j+1]))
    BY DEF EndsRight
  <2> QED
    BY <2>4, <2>5, <2>6
<1>6. WithIds(r.ids)' = WithIds(r.ids)
  BY <1>3, WithIdsKept
<1>7. ASSUME NEW i \in messages, Message(i).in = r.in PROVE ~Continues(i, r.ids)'
  <2>1. Message(i)' = Message(i)
    BY <1>4
  <2>2. Continues(i, r.ids)' => Continues(i, r.ids)
    BY <1>4, <1>6, <2>1 DEF Continues
  <2> QED
    BY <1>7, <2>2 DEF EndsRight
<1>8. ASSUME NEW i \in messages', Message(i)'.in = r.in PROVE ~Continues(i, r.ids)'
  BY <1>4, <1>7, <1>8
<1> QED
  BY <1>5, <1>8 DEF EndsRight

\* The steps that store nothing and cut nothing.
LEMMA QuietStepEnds ==
  ASSUME TypeOK, RowsInv, EndInv, UNCHANGED messages, late \subseteq late', split \subseteq split',
         \A i \in messages : history'[i] = history[i],
         Range(chunks') \cup Range(closing') \subseteq Range(chunks) \cup Range(closing)
  PROVE  EndInv'
<1> SUFFICES ASSUME late' = {}, split' = {}, NEW r \in Range(chunks') \cup Range(closing')
             PROVE  EndsRight(r)'
  BY DEF EndInv
<1>1. r \in Range(chunks) \cup Range(closing) /\ late = {} /\ split = {}
  OBVIOUS
<1>2. r \in Rows /\ GoodRow(r) /\ EndsRight(r)
  BY <1>1, TypeParts DEF RowsInv, EndInv
<1> QED
  BY <1>2, EndKept

\* A row was cut for its age or for a younger message.
IsOver(r) ==
  \/ Message(Last(r.ids)).at <= now - ChunkGap
  \/ \E j \in messages : Message(j).in = r.in /\ Last(r.ids) < j

OverInv == \A r \in Range(chunks) \cup Range(closing) : IsOver(r)

LEMMA InsertEnds ==
  ASSUME TypeOK, OrderInv, OverInv, EndInv, NEW i \in Ids, InsertMessage(i)
  PROVE  EndInv'
<1> SUFFICES ASSUME late' = {}, split' = {}, NEW r \in Range(chunks) \cup Range(closing)
             PROVE  EndsRight(r)'
  BY DEF EndInv, InsertMessage
<1>1. /\ messages' = messages \cup {i} /\ late = {} /\ split = {} /\ ~ComesLate(i)
      /\ history' = history
  BY DEF InsertMessage
<1>2. r \in Rows /\ GoodRow(r) /\ EndsRight(r)
  BY <1>1, TypeParts DEF OrderInv, RowsInv, EndInv
<1>3. ASSUME i \notin messages, Message(i).in = r.in, Continues(i, r.ids)'
      PROVE  FALSE
  <2> DEFINE cut == chunks \o closing
             mine == {k \in DOMAIN cut : cut[k].in = Message(i).in}
             n == Len(cut)
             top == Max(mine)
             last == cut[top].ids
  <2>1. /\ n \in Nat /\ DOMAIN cut = 1..n
        /\ Range(cut) = Range(chunks) \cup Range(closing)
        /\ \A k \in DOMAIN cut : cut[k] \in Range(chunks) \cup Range(closing)
        /\ \A j, k \in DOMAIN cut :
             j < k /\ cut[j].in = cut[k].in => Last(cut[j].ids) < cut[k].ids[1]
    BY CutIs
  <2>2. WithIds(r.ids)' = WithIds(r.ids) /\ Message(i)' = Message(i)
    BY <1>1 DEF WithIds, Message
  <2>3. Continues(i, r.ids)
    BY <1>1, <1>3, <2>2 DEF Continues, Message
  <2>4. ~(/\ mine # {}
          /\ \/ i < Last(last)
             \/ /\ Continues(i, last)
                /\ \/ Message(Last(last)).at <= now - ChunkGap
                   \/ \E j \in messages : Message(j).in = Message(i).in /\ i < j)
    BY <1>1 DEF ComesLate
  <2> HIDE DEF cut, n
  <2>5. PICK k \in DOMAIN cut : cut[k] = r
    BY <2>1 DEF Range
  <2>6. k \in mine
    BY <1>3, <2>5
  <2>7. mine \in SUBSET (0..n) /\ mine # {}
    <3>1. \A j \in DOMAIN cut : j \in 0..n
      BY <2>1
    <3> QED
      BY <2>6, <3>1
  <2>8. top \in mine /\ \A x \in mine : top >= x
    <3> HIDE DEF mine
    <3> QED
      BY <2>1, <2>7, MaxIs
  <2> HIDE DEF top
  <2>9. top \in DOMAIN cut /\ cut[top].in = Message(i).in /\ top >= k
    BY <2>6, <2>8
  <2>10. cut[top] \in Range(chunks) \cup Range(closing)
    BY <2>1, <2>9
  <2>11. cut[top] \in Rows /\ GoodRow(cut[top])
    BY <2>10, TypeParts DEF OrderInv, RowsInv
  <2>12. /\ Last(last) \in Nat /\ last[1] \in Nat /\ last[1] <= Last(last)
         /\ Last(last) \in messages /\ Message(Last(last)).in = Message(i).in
    BY <2>9, <2>11, RowFacts DEF GoodRow
  <2>13. Last(r.ids) \in Nat /\ i \in Nat
    BY <1>2, RowFacts, TypeParts DEF GoodRow, Ids
  <2>14. ~(i < Last(last)) /\ ~Continues(i, last)
    <3>1. \/ Message(Last(last)).at <= now - ChunkGap
          \/ \E j \in messages : Message(j).in = Message(i).in /\ Last(last) < j
      BY <2>9, <2>10 DEF OverInv, IsOver
    <3>2. ASSUME Continues(i, last), NEW j \in messages, Message(j).in = Message(i).in,
                 Last(last) < j
          PROVE  i < j
      <4>1. j <= Last(last) \/ i <= j
        BY <3>2 DEF Continues
      <4>2. j \in Nat /\ j # i
        BY <1>3, <3>2, TypeParts
      <4> QED
        BY <2>12, <2>13, <3>2, <4>1, <4>2
    <3> QED
      BY <2>4, <2>7, <3>1, <3>2
  <2> HIDE DEF mine
  <2>15. k # top
    BY <2>3, <2>5, <2>14
  <2>16. Last(r.ids) < last[1]
    <3>1. k < top
      BY <2>1, <2>5, <2>9, <2>15
    <3> QED
      BY <1>3, <2>1, <2>5, <2>9, <3>1
  <2> HIDE DEF last
  <2>17. Last(last) <= Last(r.ids) \/ i <= Last(last)
    BY <2>3, <2>12 DEF Continues
  <2>18. i = Last(last)
    BY <2>12, <2>13, <2>14, <2>16, <2>17
  <2> QED
    BY <1>3, <2>12, <2>18
<1>4. \A j \in messages' \ messages : Message(j)'.in = r.in => ~Continues(j, r.ids)'
  BY <1>1, <1>3 DEF Message
<1> QED
  BY <1>1, <1>2, <1>4, EndKept

\* The messages of a chunk are those with its ids.
LEMMA WithIdsOfIds ==
  ASSUME NEW ids \in Seq(Nat), NEW s \in Seq(Range(WithIds(ids)))
  PROVE  /\ Len(s) \in Nat /\ DOMAIN ToIds(s) = 1..Len(s) /\ ToIds(s) \in Seq(Nat)
         /\ Len(ToIds(s)) = Len(s) /\ WithIds(ToIds(s)) = s
         /\ \A j \in 0..Len(s) : WithIds(Upto(ToIds(s), j)) = Upto(s, j)
         /\ \A j \in 1..Len(s) : /\ s[j].at = Message(ToIds(s)[j]).at
                                 /\ s[j].chars = Message(ToIds(s)[j]).chars
<1> DEFINE M == Range(WithIds(ids))
           t == ToIds(s)
           n == Len(s)
<1>1. n \in Nat /\ DOMAIN s = 1..n /\ \A k \in 1..n : s[k] \in M
  BY SeqElements
<1>2. \A m \in M : m.id \in Nat /\ m = [id |-> m.id, at |-> Message(m.id).at, chars |-> Message(m.id).chars]
  <2> SUFFICES ASSUME NEW m \in M
               PROVE  m.id \in Nat
                      /\ m = [id |-> m.id, at |-> Message(m.id).at, chars |-> Message(m.id).chars]
    OBVIOUS
  <2>1. PICK k \in DOMAIN ids : m = [id |-> ids[k], at |-> Message(ids[k]).at,
                                     chars |-> Message(ids[k]).chars]
    BY DEF Range, WithIds
  <2>2. ids[k] \in Nat
    BY <2>1, SeqElements
  <2> QED
    BY <2>1, <2>2
<1>3. s = [k \in 1..n |-> s[k]]
  BY <1>1
<1> HIDE DEF M, n
<1>4. t = [k \in 1..n |-> s[k].id]
  BY <1>1 DEF ToIds
<1>5. \A k \in 1..n : t[k] = s[k].id /\ t[k] \in Nat
  BY <1>1, <1>2, <1>4
<1>6. t \in [1..n -> Nat]
  BY <1>1, <1>2, <1>4
<1>7. t \in Seq(Nat) /\ Len(t) = n
  BY <1>1, <1>6, FunctionIsSeq
<1>8. DOMAIN t = 1..n
  BY <1>4
<1> HIDE DEF t
<1>9. \A k \in 1..n : s[k] = [id |-> t[k], at |-> Message(t[k]).at, chars |-> Message(t[k]).chars]
  BY <1>1, <1>2, <1>5
<1>10. WithIds(t) = s
  BY <1>3, <1>8, <1>9 DEF WithIds
<1>11. ASSUME NEW j \in 0..n PROVE WithIds(Upto(t, j)) = Upto(s, j)
  <2>1. j \in Nat /\ \A k \in 1..j : k \in 1..n
    BY <1>1
  <2>2. WithIds(Upto(t, j)) = [k \in 1..j |-> [id |-> t[k], at |-> Message(t[k]).at,
                                               chars |-> Message(t[k]).chars]]
    BY DEF Upto, WithIds
  <2> QED
    BY <1>9, <2>1, <2>2 DEF Upto
<1>12. ASSUME NEW j \in 1..n
       PROVE  s[j].at = Message(t[j]).at /\ s[j].chars = Message(t[j]).chars
  <2>1. s[j] = [id |-> t[j], at |-> Message(t[j]).at, chars |-> Message(t[j]).chars]
    BY <1>9
  <2> QED
    BY <2>1
<1> QED
  BY <1>1, <1>7, <1>8, <1>10, <1>11, <1>12 DEF t, n

LEMMA WithIdsIs ==
  ASSUME NEW ids \in Seq(Nat)
  PROVE  /\ WithIds(ids) \in Seq(Range(WithIds(ids))) /\ Len(WithIds(ids)) = Len(ids)
         /\ \A k \in 1..Len(ids) : WithIds(ids)[k].id = ids[k]
<1> DEFINE msgs == WithIds(ids)
           M == Range(msgs)
           n == Len(ids)
<1>1. n \in Nat /\ DOMAIN ids = 1..n
  BY SeqElements
<1>2. DOMAIN msgs = 1..n /\ \A k \in 1..n : msgs[k].id = ids[k]
  BY <1>1 DEF WithIds
<1>3. msgs \in [1..n -> M]
  <2>1. msgs = [k \in DOMAIN msgs |-> msgs[k]]
    BY DEF WithIds
  <2> HIDE DEF msgs
  <2> QED
    BY <1>2, <2>1 DEF Range
<1> HIDE DEF msgs, M, n
<1> QED
  BY <1>1, <1>2, <1>3, FunctionIsSeq DEF msgs, M, n

\* What is read is cut by the chunker's rule.
LEMMA ReadIsGreedy ==
  ASSUME NEW c, GetUnchunkedMessages(c) \in Seq(Nat), ReadChannel(c)
  PROVE  \A k \in DOMAIN closing' :
           LET ids == closing'[k].ids
           IN  /\ \A j \in 1..Len(ids)-1 : ~StartsNew(WithIds(Upto(ids, j)), Message(ids[j+1]))
               /\ k + 1 \in DOMAIN closing' =>
                    StartsNew(WithIds(ids), Message(closing'[k+1].ids[1]))
<1> DEFINE ids == GetUnchunkedMessages(c)
           msgs == WithIds(ids)
           M == Range(msgs)
           cs == ChunkMessages(msgs)
           complete == CompleteChunks(cs, now)
<1>1. closing' = [k \in DOMAIN complete |-> [in |-> c, ids |-> ToIds(complete[k])]]
  BY DEF ReadChannel
<1> HIDE DEF ids
<1>2. msgs \in Seq(M)
  BY WithIdsIs DEF ids
<1>w. ASSUME NEW s \in Seq(M)
      PROVE  /\ Len(s) \in Nat /\ Len(ToIds(s)) = Len(s) /\ WithIds(ToIds(s)) = s
             /\ \A j \in 0..Len(s) : WithIds(Upto(ToIds(s), j)) = Upto(s, j)
             /\ \A j \in 1..Len(s) : /\ s[j].at = Message(ToIds(s)[j]).at
                                     /\ s[j].chars = Message(ToIds(s)[j]).chars
  BY <1>w, WithIdsOfIds DEF ids
<1> HIDE DEF msgs, M
<1>3. cs \in Seq(Seq(M)) /\ Greedy(cs)
  BY <1>2, ChunksAreGreedy
<1> HIDE DEF cs
<1>4. /\ complete \in Seq(Seq(M)) /\ Len(complete) <= Len(cs)
      /\ \A k \in 1..Len(complete) : complete[k] = cs[k]
  BY <1>3, CompleteIsPrefix
<1> HIDE DEF complete
<1>5. /\ DOMAIN complete = 1..Len(complete) /\ DOMAIN cs = 1..Len(cs)
      /\ Len(complete) \in Nat /\ Len(cs) \in Nat
      /\ \A k \in 1..Len(cs) : cs[k] \in Seq(M)
  BY <1>3, <1>4, SeqElements
<1>6. \A k \in 1..Len(complete) : k \in 1..Len(cs) /\ closing'[k].ids = ToIds(cs[k])
  BY <1>1, <1>4, <1>5
<1>7. DOMAIN closing' = 1..Len(complete)
  BY <1>1, <1>5
<1> SUFFICES ASSUME NEW k \in 1..Len(complete)
             PROVE  /\ \A j \in 1..Len(closing'[k].ids)-1 :
                         ~StartsNew(WithIds(Upto(closing'[k].ids, j)), Message(closing'[k].ids[j+1]))
                    /\ k + 1 \in 1..Len(complete) =>
                         StartsNew(WithIds(closing'[k].ids), Message(closing'[k+1].ids[1]))
  BY <1>7
<1> DEFINE s == cs[k]
<1>8. s \in Seq(M) /\ k \in DOMAIN cs /\ closing'[k].ids = ToIds(s)
  BY <1>5, <1>6
<1>9. /\ Len(s) \in Nat /\ Len(ToIds(s)) = Len(s) /\ WithIds(ToIds(s)) = s
      /\ \A j \in 0..Len(s) : WithIds(Upto(ToIds(s), j)) = Upto(s, j)
      /\ \A j \in 1..Len(s) : /\ s[j].at = Message(ToIds(s)[j]).at
                              /\ s[j].chars = Message(ToIds(s)[j]).chars
  BY <1>8, <1>w
<1>10. ASSUME NEW j \in 1..Len(s)-1
       PROVE  ~StartsNew(WithIds(Upto(ToIds(s), j)), Message(ToIds(s)[j+1]))
  <2>1. j \in 0..Len(s) /\ j + 1 \in 1..Len(s)
    BY <1>9
  <2>2. ~StartsNew(Upto(s, j), s[j+1])
    BY <1>3, <1>8 DEF Greedy
  <2> HIDE DEF s
  <2> QED
    BY <1>9, <2>1, <2>2, StartsNewSame
<1>11. ASSUME k + 1 \in 1..Len(complete)
       PROVE  StartsNew(WithIds(closing'[k].ids), Message(closing'[k+1].ids[1]))
  <2> DEFINE t == cs[k+1]
  <2>1. k + 1 \in DOMAIN cs /\ closing'[k+1].ids = ToIds(t) /\ t \in Seq(M)
    BY <1>5, <1>6, <1>11
  <2>2. StartsNew(s, t[1]) /\ t # <<>>
    BY <1>3, <1>8, <2>1 DEF Greedy
  <2> HIDE DEF s, t
  <2>3. Len(t) \in Nat /\ Len(t) # 0
    BY <2>1, <2>2, SeqElements, EmptySeq
  <2>4. 1 \in 1..Len(t)
    BY <2>3
  <2>5. t[1].at = Message(ToIds(t)[1]).at /\ t[1].chars = Message(ToIds(t)[1]).chars
    BY <1>w, <2>1, <2>4
  <2>6. StartsNew(s, Message(ToIds(t)[1]))
    BY <2>2, <2>5, StartsNewSame
  <2>7. WithIds(closing'[k].ids) = s /\ closing'[k+1].ids[1] = ToIds(t)[1]
    BY <1>8, <1>9, <2>1
  <2> QED
    BY <2>6, <2>7
<1> HIDE DEF s
<1> QED
  BY <1>8, <1>9, <1>10, <1>11

LEMMA UnchunkedTyped ==
  ASSUME TypeOK, RowsInv, NEW c
  PROVE  /\ GetUnchunkedMessages(c) \in Seq(Nat) /\ Increasing(GetUnchunkedMessages(c))
         /\ \A i \in Range(GetUnchunkedMessages(c)) : i \in messages /\ Message(i).in = c
<1> DEFINE n == Len(history)
<1>1. n \in Nat /\ messages \subseteq 1..n
  BY TypeParts
<1>2. ASSUME NEW r \in Range(chunks) PROVE Last(r.ids) \in 0..n
  <2>1. r \in Rows /\ GoodRow(r)
    BY TypeParts DEF RowsInv
  <2>2. Last(r.ids) \in 1..n
    BY <1>1, <2>1, RowFacts DEF GoodRow
  <2> HIDE DEF n
  <2> QED
    BY <1>1, <2>2
<1> HIDE DEF n
<1> QED
  BY <1>1, <1>2, UnchunkedIs

\* What is read after a row that is cut starts anew; and if nothing is, the row is old.
LEMMA ReadFollows ==
  ASSUME TypeOK, RowsInv, NEW c \in Channels, ReadChannel(c), NEW k \in DOMAIN closing'
  PROVE  LET t == closing'[k].ids
             ids == GetUnchunkedMessages(c)
         IN  \/ \E y \in Range(ids) : /\ Last(t) < y /\ StartsNew(WithIds(t), Message(y))
                                      /\ \A i \in Range(ids) : i <= Last(t) \/ y <= i
             \/ /\ \A i \in Range(ids) : i <= Last(t)
                /\ Message(Last(t)).at <= now - ChunkGap
<1> DEFINE ids == GetUnchunkedMessages(c)
           msgs == WithIds(ids)
           M == Range(msgs)
           cs == ChunkMessages(msgs)
           complete == CompleteChunks(cs, now)
           n == Len(ids)
           t == closing'[k].ids
<1>1. closing' = [l \in DOMAIN complete |-> [in |-> c, ids |-> ToIds(complete[l])]]
  BY DEF ReadChannel
<1>2. ids \in Seq(Nat) /\ Increasing(ids) /\ \A i \in Range(ids) : i \in messages
  BY UnchunkedTyped
<1>3. \A i \in messages : Message(i).at \in Nat
  <2> DEFINE H == [in : Channels, by : Authors, command : BOOLEAN, chars : Nat, at : 0..LastPost]
  <2>1. history \in Seq(H) /\ messages \subseteq DOMAIN history /\ LastPost \in Nat
    BY TypeParts, IngestAssumption DEF TypeOK
  <2>2. \A i \in messages : history[i] \in H
    <3> HIDE DEF H
    <3> QED
      BY <2>1, SeqElements
  <2> QED
    BY <2>1, <2>2 DEF Message
<1>4. now \in Nat /\ ChunkGap \in Nat
  BY ChunkAssumption, IngestAssumption DEF TypeOK
<1> HIDE DEF ids
<1>5. /\ n \in Nat /\ DOMAIN ids = 1..n /\ \A x \in 1..n : ids[x] \in Nat /\ ids[x] \in Range(ids)
      /\ \A x, y \in 1..n : x < y => ids[x] < ids[y]
  BY <1>2, SeqElements DEF Increasing
<1>6. msgs \in Seq(M) /\ Len(msgs) = n /\ \A x \in 1..n : msgs[x].id = ids[x]
  BY <1>2, WithIdsIs
<1>w. ASSUME NEW s \in Seq(M)
      PROVE  /\ Len(s) \in Nat /\ DOMAIN ToIds(s) = 1..Len(s) /\ WithIds(ToIds(s)) = s
             /\ Len(ToIds(s)) = Len(s)
             /\ \A j \in 1..Len(s) : /\ s[j].at = Message(ToIds(s)[j]).at
                                     /\ s[j].chars = Message(ToIds(s)[j]).chars
  BY <1>2, <1>w, WithIdsOfIds
<1> HIDE DEF msgs, M, n
<1>7. cs \in Seq(Seq(M)) /\ Greedy(cs) /\ \E b : Cuts(cs, b, n, msgs)
  BY <1>6, ChunksAreGreedy, ChunksAreCuts
<1>8. PICK b : Cuts(cs, b, n, msgs)
  BY <1>7
<1>9. complete = IF cs # <<>> /\ Last(Last(cs)).at > now - ChunkGap THEN Front(cs) ELSE cs
  BY DEF CompleteChunks
<1> HIDE DEF cs
<1>10. /\ complete \in Seq(Seq(M)) /\ Len(complete) <= Len(cs)
       /\ \A l \in 1..Len(complete) : complete[l] = cs[l]
  BY <1>7, CompleteIsPrefix
<1> HIDE DEF complete
<1>11. /\ Len(complete) \in Nat /\ DOMAIN complete = 1..Len(complete)
       /\ Len(cs) \in Nat /\ DOMAIN cs = 1..Len(cs) /\ \A l \in 1..Len(cs) : cs[l] \in Seq(M)
  BY <1>7, <1>10, SeqElements
<1>12. k \in 1..Len(complete) /\ k \in 1..Len(cs) /\ k \in Nat /\ t = ToIds(cs[k])
  BY <1>1, <1>10, <1>11
<1>13. /\ b \in [0..Len(cs) -> 0..n] /\ b[Len(cs)] = n
       /\ \A i, j \in 0..Len(cs) : i < j => b[i] < b[j]
       /\ \A l \in 1..Len(cs) : cs[l] = [i \in 1..(b[l] - b[l-1]) |-> msgs[b[l-1] + i]]
  BY <1>8 DEF Cuts
<1> DEFINE u == b[k]
           v == b[k-1]
           q == u - v
           chunk == cs[k]
<1>14. u \in 1..n /\ v \in Nat /\ v < u /\ q \in Nat /\ q # 0 /\ v + q = u /\ u \in Nat
  <2>1. k \in 0..Len(cs) /\ k - 1 \in 0..Len(cs) /\ k - 1 < k
    BY <1>11, <1>12
  <2>2. u \in 0..n /\ v \in 0..n /\ v < u
    BY <1>13, <2>1
  <2> HIDE DEF u, v
  <2> QED
    BY <1>5, <2>2
<1>15. chunk = [i \in 1..q |-> msgs[v + i]]
  BY <1>12, <1>13
<1>16. chunk \in Seq(M) /\ Greedy(cs)
  BY <1>7, <1>11, <1>12
<1> HIDE DEF u, v, q, chunk
<1>17. Len(chunk) = q /\ DOMAIN chunk = 1..q /\ q \in 1..q
  <2>1. chunk \in [1..q -> Range(chunk)]
    BY <1>15 DEF Range
  <2>2. Len(chunk) = q
    BY <1>14, <2>1, FunctionIsSeq
  <2> QED
    BY <1>14, <1>15, <2>2
<1>18. t = ToIds(chunk)
  BY <1>12 DEF chunk
<1> HIDE DEF t
<1>19. /\ WithIds(t) = chunk /\ Last(t) = ids[u] /\ chunk[q].at = Message(ids[u]).at
  <2>1. /\ WithIds(ToIds(chunk)) = chunk /\ Len(ToIds(chunk)) = q
        /\ chunk[q].at = Message(ToIds(chunk)[q]).at
    BY <1>16, <1>17, <1>w
  <2>2. ToIds(chunk)[q] = ids[u]
    <3>1. chunk[q] = msgs[u]
      BY <1>14, <1>15, <1>17
    <3>2. ToIds(chunk)[q] = chunk[q].id
      BY <1>17 DEF ToIds
    <3> QED
      BY <1>6, <1>14, <3>1, <3>2
  <2> QED
    BY <1>18, <2>1, <2>2 DEF Last
<1>20. \A x \in 1..n : x <= u => ids[x] <= ids[u]
  <2> SUFFICES ASSUME NEW x \in 1..n, x <= u PROVE ids[x] <= ids[u]
    OBVIOUS
  <2>1. x = u \/ ids[x] < ids[u]
    BY <1>5, <1>14
  <2> QED
    BY <1>5, <1>14, <2>1
<1>21. CASE k # Len(cs)
  <2> DEFINE z == u + 1
             next == cs[k+1]
  <2>1. k + 1 \in 1..Len(cs) /\ k + 1 \in 0..Len(cs) /\ k \in 0..Len(cs) /\ k < k + 1
        /\ (k + 1) - 1 = k
    BY <1>11, <1>12, <1>21
  <2>2. b[k+1] \in 0..n /\ u < b[k+1]
    BY <1>13, <2>1 DEF u
  <2>3. z \in 1..n /\ 1 \in 1..(b[k+1] - u) /\ u < z
    BY <1>5, <1>14, <2>2
  <2>4. next = [i \in 1..(b[k+1] - u) |-> msgs[u + i]] /\ next \in Seq(M)
    BY <1>11, <1>13, <2>1 DEF u
  <2>5. StartsNew(chunk, next[1]) /\ next # <<>>
    BY <1>11, <1>12, <1>16, <2>1 DEF Greedy, chunk
  <2>6. next[1] = msgs[z]
    BY <2>3, <2>4
  <2> HIDE DEF next, z
  <2>7. 1 \in 1..Len(next) /\ 1 \in DOMAIN next
    <3>1. next \in Seq(M) /\ next # <<>>
      BY <2>4, <2>5
    <3>2. Len(next) \in Nat /\ DOMAIN next = 1..Len(next)
      BY <3>1, SeqElements
    <3>3. Len(next) # 0
      BY <3>1, EmptySeq
    <3> QED
      BY <3>2, <3>3
  <2>8. next[1].at = Message(ids[z]).at /\ next[1].chars = Message(ids[z]).chars
    <3>1. ToIds(next)[1] = ids[z]
      <4>1. ToIds(next)[1] = next[1].id
        BY <2>7 DEF ToIds
      <4> QED
        BY <1>6, <2>3, <2>6, <4>1
    <3> QED
      BY <1>w, <2>4, <2>7, <3>1
  <2>9. StartsNew(WithIds(t), Message(ids[z]))
    <3>1. StartsNew(chunk, Message(ids[z]))
      BY <2>5, <2>8, StartsNewSame
    <3> QED
      BY <1>19, <3>1
  <2>10. ASSUME NEW i \in Range(ids) PROVE i <= Last(t) \/ ids[z] <= i
    <3>1. PICK x \in 1..n : ids[x] = i
      BY <1>5 DEF Range
    <3>2. CASE x <= u
      BY <1>19, <1>20, <3>1, <3>2
    <3>3. CASE ~(x <= u)
      <4>1. x = z \/ z < x
        BY <1>14, <3>1, <3>3 DEF z
      <4>2. x = z \/ ids[z] < ids[x]
        BY <1>5, <2>3, <3>1, <4>1
      <4> QED
        BY <1>5, <2>3, <3>1, <4>2
    <3> QED
      BY <3>2, <3>3
  <2>11. ids[z] \in Range(ids) /\ Last(t) < ids[z]
    BY <1>5, <1>14, <1>19, <2>3
  <2> QED
    BY <2>9, <2>10, <2>11 DEF ids, t
<1>22. CASE k = Len(cs)
  <2>1. u = n
    BY <1>13, <1>22 DEF u
  <2>2. ASSUME NEW i \in Range(ids) PROVE i <= Last(t)
    <3>1. PICK x \in 1..n : ids[x] = i
      BY <1>5 DEF Range
    <3>2. x <= u
      BY <1>5, <2>1, <3>1
    <3> QED
      BY <1>19, <1>20, <3>1, <3>2
  <2>3. cs # <<>>
    BY <1>11, <1>12
  <2>4. complete # Front(cs)
    <3>1. Len(Front(cs)) = Len(cs) - 1
      <4>1. Len(cs) - 1 \in Nat
        BY <1>11, <1>12
      <4>2. PICK m \in Nat : m = Len(cs) - 1
        BY <4>1
      <4>3. Front(cs) = SubSeq(cs, 1, m)
        BY <4>2 DEF Front
      <4>4. Front(cs) = [i \in 1..m |-> cs[i]]
        <5>1. \A i \in 1..m : i \in 1..Len(cs)
          BY <1>11, <4>2
        <5> DEFINE D == Seq(M)
        <5>2. cs \in Seq(D) /\ m <= Len(cs)
          BY <1>7, <1>11, <4>2
        <5> HIDE DEF D
        <5> QED
          BY <4>3, <5>1, <5>2
      <4>5. Front(cs) \in [1..m -> Seq(M)]
        BY <1>11, <4>2, <4>4
      <4> QED
        BY <4>2, <4>5, FunctionIsSeq
    <3> QED
      BY <1>11, <1>12, <1>22, <3>1
  <2>5. ~(Last(Last(cs)).at > now - ChunkGap)
    BY <1>9, <2>3, <2>4
  <2>6. Last(cs) = chunk /\ Last(chunk) = chunk[q]
    BY <1>17, <1>22 DEF Last, chunk
  <2>7. Message(ids[u]).at \in Nat
    BY <1>2, <1>3, <1>5, <1>14
  <2>8. Message(Last(t)).at <= now - ChunkGap
    BY <1>4, <1>19, <2>5, <2>6, <2>7
  <2> QED
    BY <2>2, <2>8 DEF ids, t
<1> QED
  BY <1>21, <1>22

\* So nothing that is read continues a row that is cut.
LEMMA ReadStops ==
  ASSUME TypeOK, RowsInv, NEW c \in Channels, ReadChannel(c), NEW k \in DOMAIN closing',
         NEW i \in Range(GetUnchunkedMessages(c)), Continues(i, closing'[k].ids)
  PROVE  FALSE
<1> DEFINE t == closing'[k].ids
           ids == GetUnchunkedMessages(c)
<1>1. /\ ids \in Seq(Nat) /\ \A j \in Range(ids) : j \in messages /\ Message(j).in = c
  BY UnchunkedTyped
<1>2. \A j \in messages : j \in Nat
  BY TypeParts
<1>3. closing' \in Seq(Rows) /\ GoodRow(closing'[k])
  BY ReadIs
<1>4. Last(t) \in Nat
  <2>1. closing'[k] \in Rows
    BY <1>3, SeqElements
  <2> QED
    BY <1>3, <2>1, RowFacts DEF GoodRow
<1>5. /\ Last(t) < i /\ ~StartsNew(WithIds(t), Message(i))
      /\ \A j \in messages : Message(j).in = Message(i).in => j <= Last(t) \/ i <= j
  BY DEF Continues
<1>6. \/ \E y \in Range(ids) : /\ Last(t) < y /\ StartsNew(WithIds(t), Message(y))
                               /\ \A j \in Range(ids) : j <= Last(t) \/ y <= j
      \/ \A j \in Range(ids) : j <= Last(t)
  BY ReadFollows
<1>7. i \in Range(ids)
  OBVIOUS
<1> HIDE DEF t, ids
<1>8. ~(i <= Last(t)) /\ i \in Nat
  BY <1>1, <1>2, <1>4, <1>5, <1>7
<1>9. PICK y \in Range(ids) : /\ Last(t) < y /\ StartsNew(WithIds(t), Message(y))
                              /\ y <= i
  BY <1>6, <1>7, <1>8
<1>10. y \in Nat /\ ~(y <= Last(t)) /\ i <= y
  BY <1>1, <1>2, <1>4, <1>5, <1>7, <1>9
<1>11. i = y
  BY <1>8, <1>9, <1>10
<1> QED
  BY <1>5, <1>9, <1>11


\* The rows cut at a read: what follows the last of them is either not stored yet, or
\* starts anew, or was left out by the read.
LEMMA ReadEnds ==
  ASSUME TypeOK, OrderInv, EndInv, NEW c \in Channels, ReadChannel(c)
  PROVE  EndInv'
<1>1. /\ UNCHANGED <<chunks, messages, late, history>>
      /\ split' = split \union {i \in messages \ Range(GetUnchunkedMessages(c)) :
                                  Message(i).in = c /\ closing' # <<>>
                                  /\ Continues(i, Last(closing').ids)}
  BY DEF ReadChannel, tables
<1> SUFFICES ASSUME late' = {}, split' = {}, NEW r \in Range(chunks) \cup Range(closing')
             PROVE  EndsRight(r)'
  BY <1>1 DEF EndInv
<1>2. RowsInv /\ late = {} /\ split = {}
  BY <1>1 DEF OrderInv
<1>3. /\ closing' \in Seq(Rows)
      /\ \A k \in DOMAIN closing' :
           /\ closing'[k].in = c /\ GoodRow(closing'[k])
           /\ \A j \in DOMAIN closing' : j < k => Last(closing'[j].ids) < closing'[k].ids[1]
           /\ \A q \in Range(chunks) : q.in = c => Last(q.ids) < closing'[k].ids[1]
           /\ \A i \in messages :
                Message(i).in = c /\ i < Last(closing'[k].ids) =>
                  \/ \E q \in Range(chunks) : q.in = c /\ i <= Last(q.ids)
                  \/ \E j \in 1..k : i \in Range(closing'[j].ids)
  BY <1>2, ReadIs
<1>4. CASE r \in Range(chunks)
  <2>1. r \in Rows /\ GoodRow(r) /\ EndsRight(r)
    BY <1>2, <1>4, TypeParts DEF RowsInv, EndInv
  <2> QED
    BY <1>1, <2>1, EndKept
<1>5. CASE r \in Range(closing')
  <2>1. Len(closing') \in Nat /\ DOMAIN closing' = 1..Len(closing')
    BY <1>3, SeqElements
  <2>2. PICK k \in DOMAIN closing' : r = closing'[k]
    BY <1>5 DEF Range
  <2>3. r \in Rows /\ GoodRow(r) /\ r.in = c
    BY <1>3, <2>2, SeqElements
  <2>4. \A j \in DOMAIN closing' :
          /\ closing'[j].ids[1] \in messages /\ Message(closing'[j].ids[1]).in = c
          /\ closing'[j].ids[1] \in Nat /\ Last(closing'[j].ids) \in Nat
          /\ closing'[j].ids[1] <= Last(closing'[j].ids)
          /\ \A i \in Range(closing'[j].ids) :
               i \in Nat /\ closing'[j].ids[1] <= i /\ i <= Last(closing'[j].ids)
    <3> SUFFICES ASSUME NEW j \in DOMAIN closing'
                 PROVE  /\ closing'[j].ids[1] \in messages /\ Message(closing'[j].ids[1]).in = c
                        /\ closing'[j].ids[1] \in Nat /\ Last(closing'[j].ids) \in Nat
                        /\ closing'[j].ids[1] <= Last(closing'[j].ids)
                        /\ \A i \in Range(closing'[j].ids) :
                             i \in Nat /\ closing'[j].ids[1] <= i /\ i <= Last(closing'[j].ids)
      OBVIOUS
    <3>1. closing'[j] \in Rows /\ GoodRow(closing'[j]) /\ closing'[j].in = c
      BY <1>3, SeqElements
    <3> QED
      BY <3>1, RowFacts DEF GoodRow
  <2>5. \A q \in Range(chunks) : Last(q.ids) \in Nat
    <3> SUFFICES ASSUME NEW q \in Range(chunks) PROVE Last(q.ids) \in Nat
      OBVIOUS
    <3>1. q \in Rows /\ GoodRow(q)
      BY <1>2, TypeParts DEF RowsInv
    <3> QED
      BY <3>1, RowFacts DEF GoodRow
  <2>6. /\ \A j \in 1..Len(r.ids)-1 :
             ~StartsNew(WithIds(Upto(r.ids, j)), Message(r.ids[j+1]))
        /\ k + 1 \in DOMAIN closing' =>
             StartsNew(WithIds(r.ids), Message(closing'[k+1].ids[1]))
    BY <1>2, <2>2, UnchunkedTyped, ReadIsGreedy
  <2>7. ASSUME NEW i \in messages, Message(i).in = c, Continues(i, r.ids)
        PROVE  FALSE
    <3>1. /\ i \in Nat /\ Last(r.ids) < i /\ ~StartsNew(WithIds(r.ids), Message(i))
          /\ \A j \in messages : Message(j).in = c => j <= Last(r.ids) \/ i <= j
      BY <2>7, TypeParts DEF Continues
    <3>2. CASE k + 1 \in DOMAIN closing'
      <4> DEFINE t == closing'[k+1].ids
      <4>1. /\ t[1] \in messages /\ Message(t[1]).in = c /\ t[1] \in Nat /\ Last(t) \in Nat
            /\ t[1] <= Last(t) /\ \A j \in Range(t) : j \in Nat /\ t[1] <= j
            /\ StartsNew(WithIds(r.ids), Message(t[1]))
        BY <2>4, <2>6, <3>2
      <4>2. k \in Nat /\ k < k + 1 /\ Last(r.ids) < t[1]
        BY <1>3, <2>1, <2>2, <3>2
      <4>3. \/ ~(i < Last(t))
            \/ \E q \in Range(chunks) : q.in = c /\ i <= Last(q.ids)
            \/ \E j \in 1..(k + 1) : i \in Range(closing'[j].ids)
        BY <1>3, <2>7, <3>2
      <4>4. closing'[k+1].ids = t
        OBVIOUS
      <4> HIDE DEF t
      <4>5. Last(r.ids) \in Nat /\ i <= t[1]
        BY <2>2, <2>4, <3>1, <4>1, <4>2
      <4>6. ASSUME NEW q \in Range(chunks), q.in = c, i <= Last(q.ids) PROVE FALSE
        <5>1. Last(q.ids) < r.ids[1] /\ r.ids[1] <= Last(r.ids) /\ r.ids[1] \in Nat
          BY <1>3, <2>2, <2>4, <4>6
        <5> QED
          BY <2>5, <3>1, <4>5, <4>6, <5>1
      <4>7. ASSUME NEW j \in 1..(k + 1), i \in Range(closing'[j].ids) PROVE t[1] <= i
        <5>1. CASE j = k + 1
          BY <4>1, <4>4, <4>7, <5>1
        <5>2. CASE j # k + 1
          <6>1. j \in DOMAIN closing' /\ j <= k /\ j \in Nat
            BY <2>1, <4>2, <4>7, <5>2
          <6>2. i <= Last(closing'[j].ids) /\ Last(closing'[j].ids) \in Nat
            BY <2>4, <4>7, <6>1
          <6>3. Last(closing'[j].ids) <= Last(r.ids)
            <7>1. CASE j = k
              BY <2>2, <6>2, <7>1
            <7>2. CASE j < k
              <8>1. Last(closing'[j].ids) < r.ids[1] /\ r.ids[1] <= Last(r.ids) /\ r.ids[1] \in Nat
                BY <1>3, <2>2, <2>4, <6>1, <7>2
              <8> QED
                BY <4>5, <6>2, <8>1
            <7> QED
              BY <4>2, <6>1, <7>1, <7>2
          <6> QED
            BY <3>1, <4>5, <6>2, <6>3
        <5> QED
          BY <5>1, <5>2
      <4>8. t[1] <= i
        BY <3>1, <4>1, <4>3, <4>6, <4>7
      <4>9. i = t[1]
        BY <3>1, <4>1, <4>5, <4>8
      <4> QED
        BY <3>1, <4>1, <4>9
    <3>3. CASE k + 1 \notin DOMAIN closing'
      <4>1. k = Len(closing') /\ closing' # <<>>
        BY <2>1, <2>2, <3>3
      <4>2. Last(closing') = r
        BY <2>2, <4>1 DEF Last
      <4>3. i \in Range(GetUnchunkedMessages(c))
        BY <1>1, <2>7, <4>1, <4>2
      <4> QED
        BY <1>2, <2>2, <2>7, <3>1, <4>3, ReadStops
    <3> QED
      BY <3>2, <3>3
  <2>8. EndsRight(r)
    BY <2>3, <2>6, <2>7 DEF EndsRight
  <2> QED
    BY <1>1, <2>3, <2>8, EndKept
<1> QED
  BY <1>4, <1>5

LEMMA SaveEnds ==
  ASSUME TypeOK, OrderInv, EndInv, closing # <<>>,
         chunks' = Append(chunks, Head(closing)), closing' \in {<<>>, Tail(closing)},
         UNCHANGED <<messages, late, split, history>>
  PROVE  EndInv'
<1>1. /\ closing \in Seq(Rows) /\ RowsInv
  BY TypeParts DEF OrderInv
<1>2. Head(closing) \in Range(closing) /\ Range(Tail(closing)) \subseteq Range(closing)
  BY <1>1, TailIs
<1>3. Range(chunks') = Range(chunks) \cup {Head(closing)}
  BY SavedInOrder
<1>4. Range(<<>>) = {}
  BY DEF Range
<1>5. Range(chunks') \cup Range(closing') \subseteq Range(chunks) \cup Range(closing)
  BY <1>2, <1>3, <1>4
<1>6. RowsInv /\ late \subseteq late' /\ split \subseteq split' /\ UNCHANGED messages
      /\ \A i \in messages : history'[i] = history[i]
  BY <1>1
<1> QED
  BY <1>5, <1>6, QuietStepEnds

LEMMA StepEnds ==
  ASSUME TypeOK, OrderInv, OverInv, EndInv, [Next]_vars
  PROVE  EndInv'
<1>r. RowsInv
  BY DEF OrderInv
<1>q. ASSUME UNCHANGED <<chunks, messages, late, split>>, closing' \in {closing, <<>>},
             \A i \in messages : history'[i] = history[i]
      PROVE  EndInv'
  <2>1. Range(<<>>) = {}
    BY DEF Range
  <2>2. Range(chunks') \cup Range(closing') \subseteq Range(chunks) \cup Range(closing)
    BY <1>q, <2>1
  <2> QED
    BY <1>q, <1>r, <2>2, QuietStepEnds
<1>1. ASSUME NEW p \in Posts, Post(p) PROVE EndInv'
  <2> DEFINE H == [in : Channels, by : Authors, command : BOOLEAN, chars : Nat, at : 0..LastPost]
  <2>1. UNCHANGED <<chunks, late, split, closing, messages>>
    BY <1>1 DEF Post, tables, loops
  <2>2. history \in Seq(H) /\ messages \subseteq DOMAIN history
    BY TypeParts DEF TypeOK
  <2>3. PICK m : history' = Append(history, m)
    BY <1>1 DEF Post
  <2> HIDE DEF H
  <2>4. \A i \in messages : history'[i] = history[i]
    BY <2>2, <2>3, AppendedIs
  <2> QED
    BY <1>q, <2>1, <2>4
<1>2. CASE Tick
  BY <1>2, <1>q DEF Tick, tables, loops
<1>3. ASSUME NEW a \in Authors, ForgetAuthor(a) PROVE EndInv'
  BY <1>3, <1>q DEF ForgetAuthor, tables, loops
<1>4. CASE RecordLive
  BY <1>4, <1>q DEF RecordLive, tables
<1>5. ASSUME NEW i \in Ids, InsertMessage(i) PROVE EndInv'
  BY <1>5, InsertEnds
<1>6. ASSUME NEW i \in Ids, InsertFails(i) PROVE EndInv'
  BY <1>6, <1>q DEF InsertFails, tables
<1>7. ASSUME NEW c \in Channels, ReadChannel(c) PROVE EndInv'
  BY <1>7, ReadEnds
<1>8. CASE SaveChunk
  BY <1>8, SaveEnds DEF SaveChunk
<1>9. CASE SaveChunkFails
  <2>1. /\ closing # <<>> /\ closing' = <<>> /\ UNCHANGED <<messages, late, split, history>>
        /\ chunks' = chunks \/ chunks' = Append(chunks, Head(closing))
    BY <1>9 DEF SaveChunkFails
  <2> QED
    BY <1>q, <2>1, SaveEnds
<1>10. CASE ReadBacklog \/ SaveEmbedding \/ EmbeddingFails
  BY <1>10, <1>q DEF ReadBacklog, SaveEmbedding, EmbeddingFails, tables
<1>11. CASE Shutdown \/ Exit \/ Crash \/ Boot
  BY <1>11, <1>q DEF Shutdown, Exit, Crash, Boot, tables, loops
<1>12. CASE UNCHANGED vars
  BY <1>12, <1>q DEF vars, tables, loops
<1> QED
  BY <1>1, <1>2, <1>3, <1>4, <1>5, <1>6, <1>7, <1>8, <1>9, <1>10, <1>11, <1>12 DEF Next, Run

LEMMA OverKept ==
  ASSUME NEW r \in Rows, GoodRow(r), IsOver(r), now \in Nat, now' \in Nat, now <= now',
         messages \subseteq messages', \A i \in messages : history'[i] = history[i],
         \A i \in messages : Message(i).at \in Nat
  PROVE  IsOver(r)'
<1>1. Last(r.ids) \in messages
  BY RowFacts DEF GoodRow
<1>2. \A i \in messages : Message(i)' = Message(i)
  BY DEF Message
<1>3. ChunkGap \in Nat
  BY ChunkAssumption
<1>4. CASE Message(Last(r.ids)).at <= now - ChunkGap
  <2> DEFINE a == Message(Last(r.ids)).at
  <2>1. a \in Nat /\ a <= now - ChunkGap
    BY <1>1, <1>4
  <2>2. Message(Last(r.ids))'.at = a
    BY <1>1, <1>2
  <2> HIDE DEF a
  <2>3. a <= now' - ChunkGap
    BY <1>3, <2>1
  <2> QED
    BY <2>2, <2>3 DEF IsOver
<1>5. CASE \E j \in messages : Message(j).in = r.in /\ Last(r.ids) < j
  BY <1>2, <1>5 DEF IsOver
<1> QED
  BY <1>4, <1>5 DEF IsOver

LEMMA SentAtTyped ==
  ASSUME TypeOK
  PROVE  \A i \in messages : Message(i).at \in Nat
<1> DEFINE H == [in : Channels, by : Authors, command : BOOLEAN, chars : Nat, at : 0..LastPost]
<1>1. history \in Seq(H) /\ messages \subseteq DOMAIN history /\ LastPost \in Nat
  BY TypeParts, IngestAssumption DEF TypeOK
<1>2. \A i \in messages : history[i] \in H
  <2> HIDE DEF H
  <2> QED
    BY <1>1, SeqElements
<1> QED
  BY <1>1, <1>2 DEF Message

\* Whatever a read cuts is over, and what is over stays so.
LEMMA StepOver ==
  ASSUME TypeOK, OrderInv, OverInv, [Next]_vars
  PROVE  OverInv'
<1>r. RowsInv /\ now \in Nat /\ MaxTime \in Nat /\ Range(<<>>) = {}
  BY IngestAssumption DEF OrderInv, TypeOK, Range
<1>h. \A i \in messages : history'[i] = history[i]
  <2>1. CASE UNCHANGED history
    BY <2>1
  <2>2. ASSUME NEW p \in Posts, Post(p) PROVE \A i \in messages : history'[i] = history[i]
    <3> DEFINE H == [in : Channels, by : Authors, command : BOOLEAN, chars : Nat, at : 0..LastPost]
    <3>1. history \in Seq(H) /\ messages \subseteq DOMAIN history
      BY TypeParts DEF TypeOK
    <3>2. PICK m : history' = Append(history, m)
      BY <2>2 DEF Post
    <3> HIDE DEF H
    <3> QED
      BY <3>1, <3>2, AppendedIs
  <2> QED
    BY <2>1, <2>2 DEF Next, Run, Tick, RecordLive, InsertMessage, InsertFails, ReadChannel, SaveChunk,
          SaveChunkFails, ReadBacklog, SaveEmbedding, EmbeddingFails, ForgetAuthor, Shutdown,
          Exit, Crash, Boot, vars
<1>k. ASSUME NEW r \in Range(chunks) \cup Range(closing), now' \in {now, now + 1},
             messages \subseteq messages'
      PROVE  IsOver(r)'
  <2>1. r \in Rows /\ GoodRow(r) /\ IsOver(r)
    BY <1>r, TypeParts DEF RowsInv, OverInv
  <2>2. now' \in Nat /\ now <= now'
    BY <1>r, <1>k
  <2> QED
    BY <1>h, <1>k, <1>r, <2>1, <2>2, SentAtTyped, OverKept
<1>q. ASSUME now' \in {now, now + 1}, messages \subseteq messages',
             Range(chunks') \cup Range(closing') \subseteq Range(chunks) \cup Range(closing)
      PROVE  OverInv'
  BY <1>k, <1>q DEF OverInv
<1>1. ASSUME NEW p \in Posts, Post(p) PROVE OverInv'
  BY <1>1, <1>q DEF Post, tables, loops
<1>2. CASE Tick
  BY <1>2, <1>q DEF Tick, tables, loops
<1>3. ASSUME NEW a \in Authors, ForgetAuthor(a) PROVE OverInv'
  BY <1>3, <1>q DEF ForgetAuthor, tables, loops
<1>4. CASE RecordLive
  BY <1>4, <1>q DEF RecordLive, tables
<1>5. ASSUME NEW i \in Ids, InsertMessage(i) \/ InsertFails(i) PROVE OverInv'
  BY <1>5, <1>q DEF InsertMessage, InsertFails, tables
<1>6. ASSUME NEW c \in Channels, ReadChannel(c) PROVE OverInv'
  <2>1. UNCHANGED <<chunks, messages, now, history>>
    BY <1>6 DEF ReadChannel, tables
  <2>2. ASSUME NEW k \in DOMAIN closing' PROVE IsOver(closing'[k])
    <3>1. \A j \in Range(GetUnchunkedMessages(c)) : j \in messages /\ Message(j).in = c
      BY <1>r, UnchunkedTyped
    <3>2. closing'[k].in = c
      BY <1>6, <1>r, ReadIs
    <3>3. \/ \E y \in Range(GetUnchunkedMessages(c)) : Last(closing'[k].ids) < y
          \/ Message(Last(closing'[k].ids)).at <= now - ChunkGap
      BY <1>6, <1>r, ReadFollows
    <3> QED
      BY <3>1, <3>2, <3>3 DEF IsOver
  <2>3. \A r : IsOver(r) => IsOver(r)'
    BY <2>1 DEF IsOver, Message
  <2>4. \A r \in Range(closing') : IsOver(r)
    BY <2>2 DEF Range
  <2> QED
    BY <2>1, <2>3, <2>4 DEF OverInv
<1>s. ASSUME closing # <<>>, chunks' \in {chunks, Append(chunks, Head(closing))},
             closing' \in {<<>>, Tail(closing)}, UNCHANGED <<messages, history, now>>
      PROVE  OverInv'
  <2>1. closing \in Seq(Rows)
    BY TypeParts
  <2>2. Head(closing) \in Range(closing) /\ Range(Tail(closing)) \subseteq Range(closing)
    BY <1>s, <2>1, TailIs
  <2>3. Range(chunks') \subseteq Range(chunks) \cup {Head(closing)}
    BY <1>s, SavedInOrder
  <2>4. Range(chunks') \cup Range(closing') \subseteq Range(chunks) \cup Range(closing)
    BY <1>r, <1>s, <2>2, <2>3
  <2> QED
    BY <1>q, <1>s, <2>4
<1>7. CASE SaveChunk \/ SaveChunkFails
  BY <1>7, <1>s DEF SaveChunk, SaveChunkFails
<1>9. CASE ReadBacklog \/ SaveEmbedding \/ EmbeddingFails
  BY <1>9, <1>q DEF ReadBacklog, SaveEmbedding, EmbeddingFails, tables
<1>c. ASSUME UNCHANGED <<now, messages, chunks>>, closing' \in {closing, <<>>} PROVE OverInv'
  BY <1>c, <1>q, <1>r
<1>10. CASE Shutdown \/ Exit \/ Crash \/ Boot
  BY <1>10, <1>c DEF Shutdown, Exit, Crash, Boot, tables, loops
<1>11. CASE UNCHANGED vars
  BY <1>11, <1>q DEF vars, tables, loops
<1> QED
  BY <1>1, <1>2, <1>3, <1>4, <1>5, <1>6, <1>7, <1>9, <1>10, <1>11 DEF Next, Run

LEMMA EndInvHolds == Spec => [](IngestInv /\ OverInv /\ EndInv)
<1>1. Init => OverInv /\ EndInv
  <2>1. Range(<<>>) = {}
    BY DEF Range
  <2> QED
    BY <2>1 DEF Init, OverInv, EndInv
<1>2. IngestInv /\ OverInv /\ EndInv /\ [Next]_vars => OverInv' /\ EndInv'
  BY StepOver, StepEnds DEF IngestInv
<1> QED
  BY <1>1, <1>2, IngestInvHolds, PTL DEF Spec

-----------------------------------------------------------------------------
(* The rows of a channel are the chunks of one pass.                       *)

\* What leaves out nothing between its ends is a stretch of the whole.
LEMMA Consecutive ==
  ASSUME NEW asc \in Seq(Nat), Increasing(asc), NEW ids \in Seq(Nat), Increasing(ids),
         Range(ids) \subseteq Range(asc), NEW p \in 0..Len(asc),
         \A x \in 1..p : asc[x] < ids[1],
         \A x \in 1..Len(asc) : p < x /\ asc[x] <= Last(ids) => asc[x] \in Range(ids)
  PROVE  \A i \in 1..Len(ids) : p + i \in 1..Len(asc) /\ asc[p+i] = ids[i]
<1> DEFINE n == Len(asc)
           l == Len(ids)
           K == {i \in Nat : i \in 1..l => p + i \in 1..n /\ asc[p+i] = ids[i]}
<1>1. /\ n \in Nat /\ DOMAIN asc = 1..n /\ \A x \in 1..n : asc[x] \in Nat
      /\ l \in Nat /\ DOMAIN ids = 1..l /\ \A x \in 1..l : ids[x] \in Nat
  BY SeqElements
<1>2. Last(ids) = ids[l]
  BY DEF Last
<1>3. /\ \A x \in 1..n : p < x /\ asc[x] <= ids[l] => asc[x] \in Range(ids)
      /\ p \in 0..n
  BY <1>2
<1> HIDE DEF n, l
<1>4. p \in Nat /\ p <= n
  BY <1>1, <1>3
<1>5. \A x, y \in 1..n : x < y => asc[x] < asc[y]
  BY <1>1 DEF Increasing
<1>6. \A x, y \in 1..l : x < y => ids[x] < ids[y]
  BY <1>1 DEF Increasing
<1>a. ASSUME NEW x \in 1..n, NEW y \in 1..n, asc[x] < asc[y] PROVE x < y
  <2>1. asc[x] \in Nat /\ asc[y] \in Nat
    BY <1>1
  <2>2. x # y /\ ~(y < x)
    BY <1>5, <1>a, <2>1
  <2> QED
    BY <2>2
<1>b. ASSUME NEW x \in 1..l, NEW y \in 1..l, ids[x] < ids[y] PROVE x < y
  <2>1. ids[x] \in Nat /\ ids[y] \in Nat
    BY <1>1
  <2>2. x # y /\ ~(y < x)
    BY <1>6, <1>b, <2>1
  <2> QED
    BY <2>2
<1>7. \A y \in 1..l : \E x \in 1..n : asc[x] = ids[y]
  BY <1>1 DEF Range
<1>8. ASSUME NEW i \in Nat, i \in K, i + 1 \in 1..l
      PROVE  p + (i + 1) \in 1..n /\ asc[p + (i + 1)] = ids[i+1]
  <2>1. i # 0 => i \in 1..l /\ p + i \in 1..n /\ asc[p+i] = ids[i] /\ ids[i] < ids[i+1]
    BY <1>1, <1>6, <1>8
  <2>2. PICK x \in 1..n : asc[x] = ids[i+1]
    BY <1>7, <1>8
  <2>3. ids[i+1] \in Nat /\ l \in 1..l /\ ids[i+1] <= ids[l] /\ i + 1 <= l
    <3>1. l \in 1..l /\ i + 1 <= l
      BY <1>1, <1>8
    <3>2. i + 1 = l \/ ids[i+1] < ids[l]
      BY <1>1, <1>6, <1>8, <3>1
    <3> QED
      BY <1>1, <1>8, <3>1, <3>2
  <2>4. p + i < x
    <3>1. CASE i = 0
      <4>1. ~(x \in 1..p)
        BY <2>2, <2>3, <3>1
      <4> QED
        BY <1>4, <2>2, <3>1, <4>1
    <3>2. CASE i # 0
      <4>1. asc[p+i] < asc[x] /\ p + i \in 1..n
        BY <2>1, <2>2, <3>2
      <4> QED
        BY <1>a, <2>2, <4>1
    <3> QED
      BY <3>1, <3>2
  <2>5. p + (i + 1) \in 1..n /\ p + (i + 1) <= x /\ p < p + (i + 1)
    BY <1>1, <1>4, <2>2, <2>4
  <2>6. ASSUME p + (i + 1) < x PROVE FALSE
    <3> DEFINE z == p + (i + 1)
    <3>1. z \in 1..n /\ p < z /\ asc[z] < ids[i+1] /\ asc[z] \in Nat
      BY <1>1, <1>5, <2>2, <2>5, <2>6
    <3>2. i # 0 => asc[p+i] < asc[z]
      <4>1. i # 0 => p + i < z
        BY <1>4
      <4> QED
        BY <1>5, <2>1, <3>1, <4>1
    <3> HIDE DEF z
    <3>3. asc[z] <= ids[l]
      BY <1>1, <2>3, <3>1
    <3>4. PICK y \in 1..l : ids[y] = asc[z]
      BY <1>1, <1>3, <3>1, <3>3 DEF Range
    <3>5. y < i + 1
      BY <1>8, <1>b, <3>1, <3>4
    <3>6. i # 0 /\ y <= i /\ i \in 1..l
      BY <2>1, <3>4, <3>5
    <3>7. ids[y] <= ids[i]
      <4>1. y = i \/ ids[y] < ids[i]
        BY <1>6, <3>4, <3>6
      <4> QED
        BY <1>1, <3>4, <3>6, <4>1
    <3> QED
      BY <1>1, <2>1, <3>1, <3>2, <3>4, <3>6, <3>7
  <2>7. x = p + (i + 1)
    BY <1>4, <2>2, <2>5, <2>6
  <2> QED
    BY <2>2, <2>5, <2>7
<1>9. 0 \in K
  OBVIOUS
<1>10. \A i \in Nat : i \in K => i + 1 \in K
  BY <1>8
<1> HIDE DEF K
<1>11. Nat \subseteq K
  BY <1>9, <1>10, SetInduction
<1>12. \A i \in 1..l : i \in K
  BY <1>11
<1> QED
  BY <1>12 DEF K, n, l

Stored(c) == {i \in messages : Message(i).in = c}

\* A row that begins where m chunks of the pass end is the next of them.
LEMMA NextChunk ==
  ASSUME NEW c, NEW asc \in Seq(Nat), Increasing(asc),
         Range(asc) = Stored(c),
         NEW cs, Greedy(cs), NEW b, Cuts(cs, b, Len(asc), WithIds(asc)),
         NEW m \in 0..Len(cs),
         NEW r \in Rows, r.in = c, GoodRow(r), EndsRight(r),
         \A x \in 1..b[m] : asc[x] < r.ids[1],
         \A x \in 1..Len(asc) : b[m] < x /\ asc[x] <= Last(r.ids) => asc[x] \in Range(r.ids)
  PROVE  /\ m + 1 \in 1..Len(cs) /\ r.ids = ToIds(cs[m+1])
         /\ b[m+1] \in 1..Len(asc) /\ asc[b[m+1]] = Last(r.ids)
<1> DEFINE n == Len(asc)
           W == WithIds(asc)
           ids == r.ids
           l == Len(ids)
           p == b[m]
<1>1. n \in Nat /\ DOMAIN asc = 1..n /\ \A x \in 1..n : asc[x] \in Nat /\ asc[x] \in Range(asc)
  BY SeqElements
<1>2. ids \in Seq(1..MaxPosts) /\ MaxPosts \in Nat
  BY IngestAssumption DEF Rows
<1>3. l \in Nat /\ DOMAIN ids = 1..l /\ l # 0 /\ ids \in Seq(Nat)
  <2>1. 1..MaxPosts \subseteq Nat
    BY <1>2
  <2>2. ids # <<>>
    BY DEF GoodRow
  <2> QED
    BY <1>2, <2>1, <2>2, SeqElements, SeqMonotonic, EmptySeq
<1>4. Increasing(ids) /\ Range(ids) \subseteq Range(asc)
  BY DEF GoodRow, Stored
<1>5. /\ Len(cs) \in Nat /\ DOMAIN cs = 1..Len(cs)
      /\ b \in [0..Len(cs) -> 0..n] /\ b[Len(cs)] = n
      /\ \A j, k \in 0..Len(cs) : j < k => b[j] < b[k]
      /\ \A k \in 1..Len(cs) : cs[k] = [i \in 1..(b[k] - b[k-1]) |-> W[b[k-1] + i]]
  BY DEF Cuts
<1>6. \A x \in 1..n : W[x] = [id |-> asc[x], at |-> Message(asc[x]).at, chars |-> Message(asc[x]).chars]
  BY <1>1 DEF WithIds
<1>7. /\ p \in 0..n /\ \A x \in 1..p : asc[x] < ids[1]
      /\ \A x \in 1..n : p < x /\ asc[x] <= Last(ids) => asc[x] \in Range(ids)
      /\ Last(ids) = ids[l]
  BY <1>5 DEF Last
<1>8. \A k \in 0..Len(cs) : b[k] \in 0..n
  BY <1>5
<1> HIDE DEF n, W, ids, l, p
<1>9. \A i \in 1..l : p + i \in 1..n /\ asc[p+i] = ids[i]
  BY <1>1, <1>3, <1>4, <1>7, Consecutive DEF n, l
<1>10. p \in Nat /\ p + l <= n /\ p < n
  BY <1>1, <1>3, <1>7, <1>9
<1>11. m + 1 \in 1..Len(cs) /\ m \in Nat
  <2>1. m # Len(cs)
    <3>1. p # n
      BY <1>1, <1>10
    <3> QED
      BY <1>5, <3>1 DEF p
  <2>2. Len(cs) \in Nat /\ m \in 0..Len(cs)
    BY <1>5
  <2> QED
    BY <2>1, <2>2
<1> DEFINE u == b[m+1]
           q == u - p
           chunk == cs[m+1]
<1>12. u \in Nat /\ u <= n /\ p < u /\ q \in Nat /\ q # 0 /\ p + q = u
  <2>1. m + 1 \in 0..Len(cs) /\ m \in 0..Len(cs) /\ m < m + 1
    BY <1>5, <1>11
  <2>2. u \in 0..n /\ p < u
    BY <1>5, <1>8, <2>1 DEF p
  <2> HIDE DEF u
  <2> QED
    BY <1>1, <1>10, <2>2
<1>13. chunk = [i \in 1..q |-> W[p + i]]
  <2>1. (m + 1) - 1 = m
    BY <1>11
  <2> QED
    BY <1>5, <1>11, <2>1 DEF p
<1> HIDE DEF u, q, chunk
<1>14. Len(chunk) = q /\ DOMAIN chunk = 1..q /\ \A i \in 1..q : chunk[i] = W[p+i]
  <2>1. chunk \in [1..q -> Range(chunk)]
    BY <1>13 DEF Range
  <2>2. Len(chunk) = q
    BY <1>12, <2>1, FunctionIsSeq
  <2> QED
    BY <1>13, <2>2
<1>15. \A j \in 1..l : WithIds(Upto(ids, j)) = [i \in 1..j |-> W[p + i]]
  <2> SUFFICES ASSUME NEW j \in 1..l PROVE WithIds(Upto(ids, j)) = [i \in 1..j |-> W[p + i]]
    OBVIOUS
  <2>1. \A i \in 1..j : i \in 1..l
    BY <1>3
  <2>2. WithIds(Upto(ids, j)) = [i \in 1..j |-> [id |-> ids[i], at |-> Message(ids[i]).at,
                                                 chars |-> Message(ids[i]).chars]]
    BY DEF WithIds, Upto
  <2> QED
    BY <1>6, <1>9, <2>1, <2>2
<1>16. ASSUME q < l PROVE FALSE
  <2>1. m + 2 \in 1..Len(cs) /\ m + 1 \in 0..Len(cs)
    <3>1. u < n
      BY <1>1, <1>3, <1>10, <1>12, <1>16
    <3>2. m + 1 # Len(cs)
      <4>1. u # n
        BY <1>1, <1>12, <3>1
      <4> QED
        BY <1>5, <4>1 DEF u
    <3>3. Len(cs) \in Nat /\ m + 1 \in 1..Len(cs) /\ m \in Nat
      BY <1>5, <1>11
    <3> QED
      BY <3>2, <3>3
  <2>2. cs[m+2] = [i \in 1..(b[m+2] - u) |-> W[u + i]]
    <3>1. (m + 2) - 1 = m + 1
      BY <1>11
    <3> QED
      BY <1>5, <2>1, <3>1 DEF u
  <2>3. 1 \in 1..(b[m+2] - u)
    <3>1. m + 2 \in 0..Len(cs) /\ m + 1 < m + 2
      BY <1>5, <1>11, <2>1
    <3>2. b[m+2] \in 0..n /\ u < b[m+2]
      BY <1>5, <1>8, <2>1, <3>1 DEF u
    <3> QED
      BY <1>1, <1>12, <3>2
  <2>4. cs[m+2][1] = W[u + 1]
    BY <2>2, <2>3
  <2>5. StartsNew(chunk, W[u + 1])
    <3>1. m + 1 \in DOMAIN cs /\ (m + 1) + 1 \in DOMAIN cs /\ (m + 1) + 1 = m + 2
      BY <1>5, <1>11, <2>1
    <3> QED
      BY <2>4, <3>1 DEF Greedy, chunk
  <2>6. q \in 1..l-1 /\ q \in 1..l /\ q + 1 \in 1..l
    BY <1>3, <1>12, <1>16
  <2>7. ~StartsNew(WithIds(Upto(ids, q)), Message(ids[q+1]))
    BY <2>6 DEF EndsRight, ids, l
  <2>8. WithIds(Upto(ids, q)) = chunk
    BY <1>13, <1>15, <2>6
  <2>9. asc[u + 1] = ids[q+1] /\ u + 1 \in 1..n
    <3>1. p + (q + 1) = u + 1
      BY <1>10, <1>12
    <3> QED
      BY <1>9, <2>6, <3>1
  <2>10. W[u + 1].at = Message(ids[q+1]).at /\ W[u + 1].chars = Message(ids[q+1]).chars
    <3>1. W[u + 1] = [id |-> asc[u + 1], at |-> Message(asc[u + 1]).at,
                      chars |-> Message(asc[u + 1]).chars]
      BY <1>6, <2>9
    <3> QED
      BY <2>9, <3>1
  <2> QED
    BY <2>5, <2>7, <2>8, <2>10, StartsNewSame
<1>17. ASSUME l < q PROVE FALSE
  <2> DEFINE z == p + (l + 1)
             i == asc[z]
  <2>1. l \in 1..q-1 /\ l + 1 \in 1..q /\ l \in 1..l
    BY <1>3, <1>12, <1>17
  <2>2. z \in 1..n /\ p + l \in 1..n /\ p + l < z
    BY <1>1, <1>3, <1>10, <1>12, <1>17
  <2>3. ~StartsNew(Upto(chunk, l), chunk[l+1])
    BY <1>5, <1>11, <1>14, <2>1 DEF Greedy, chunk
  <2>4. chunk[l+1] = W[z]
    BY <1>14, <2>1
  <2> HIDE DEF z
  <2>5. Upto(chunk, l) = WithIds(Upto(ids, l))
    <3>1. \A x \in 1..l : x \in 1..q
      BY <1>3, <1>12, <1>17
    <3> QED
      BY <1>14, <1>15, <2>1, <3>1 DEF Upto
  <2>6. Upto(ids, l) = ids
    <3>1. ids = [x \in 1..l |-> ids[x]]
      BY <1>3
    <3> QED
      BY <3>1 DEF Upto
  <2>7. W[z].at = Message(i).at /\ W[z].chars = Message(i).chars
    <3>1. W[z] = [id |-> i, at |-> Message(i).at, chars |-> Message(i).chars]
      BY <1>6, <2>2
    <3> QED
      BY <3>1
  <2>8. ~StartsNew(WithIds(ids), Message(i))
    BY <2>3, <2>4, <2>5, <2>6, <2>7, StartsNewSame
  <2>9. i \in messages /\ Message(i).in = r.in
    BY <1>1, <2>2 DEF Stored
  <2>10. Last(ids) < i
    <3>1. asc[p + l] = Last(ids)
      BY <1>7, <1>9, <2>1
    <3>2. asc[p + l] < asc[z]
      BY <1>1, <2>2 DEF Increasing
    <3> QED
      BY <3>1, <3>2
  <2>11. ASSUME NEW j \in messages, Message(j).in = Message(i).in
         PROVE  j <= Last(ids) \/ i <= j
    <3>1. PICK y \in 1..n : asc[y] = j
      <4>1. j \in Range(asc)
        BY <2>9, <2>11 DEF Stored
      <4> QED
        BY <1>1, <4>1 DEF Range
    <3>2. CASE y <= p + l
      <4>1. y = p + l \/ asc[y] < asc[p + l]
        <5>1. y = p + l \/ y < p + l
          BY <1>3, <1>10, <3>1, <3>2
        <5> QED
          BY <1>1, <2>2, <3>1, <5>1 DEF Increasing
      <4>2. asc[p + l] = Last(ids) /\ asc[p + l] \in Nat /\ j \in Nat
        BY <1>1, <1>7, <1>9, <2>1, <2>2, <3>1
      <4> QED
        BY <3>1, <4>1, <4>2
    <3>3. CASE p + l < y
      <4>1. y = z \/ z < y
        <5>1. z = p + (l + 1) /\ l \in Nat /\ p \in Nat /\ y \in Nat /\ p + l < y
          BY <1>1, <1>3, <1>10, <3>1, <3>3 DEF z
        <5> QED
          BY <5>1
      <4>2. y = z \/ asc[z] < asc[y]
        BY <1>1, <2>2, <3>1, <4>1 DEF Increasing
      <4>3. i \in Nat /\ j \in Nat
        BY <1>1, <2>2, <3>1
      <4> QED
        BY <3>1, <4>2, <4>3
    <3> QED
      BY <1>3, <1>10, <3>1, <3>2, <3>3
  <2> HIDE DEF i
  <2>12. Continues(i, ids)
    BY <2>8, <2>10, <2>11 DEF Continues
  <2> QED
    BY <2>9, <2>12 DEF EndsRight, ids
<1>18. q = l
  BY <1>3, <1>12, <1>16, <1>17
<1>19. ids = ToIds(chunk)
  <2>1. ASSUME NEW i \in 1..l PROVE chunk[i].id = ids[i]
    <3>1. chunk[i] = W[p+i] /\ p + i \in 1..n /\ asc[p+i] = ids[i]
      BY <1>9, <1>14, <1>18
    <3>2. W[p+i] = [id |-> asc[p+i], at |-> Message(asc[p+i]).at,
                    chars |-> Message(asc[p+i]).chars]
      BY <1>6, <3>1
    <3> QED
      BY <3>1, <3>2
  <2>2. ids = [i \in 1..l |-> ids[i]]
    BY <1>3
  <2> QED
    BY <1>14, <1>18, <2>1, <2>2 DEF ToIds
<1>20. u \in 1..n /\ asc[u] = Last(ids)
  <2>1. l \in 1..l /\ u = p + l
    BY <1>3, <1>10, <1>12, <1>18
  <2> QED
    BY <1>7, <1>9, <2>1
<1> QED
  BY <1>11, <1>19, <1>20 DEF chunk, u, ids, n

\* The rows of a channel up to the k-th of the table.
RowsUpTo(c, k) == {j \in DOMAIN chunks : chunks[j].in = c /\ j <= k}

LEMMA RowsUpToGrow ==
  ASSUME TypeOK, NEW c, NEW k \in Nat, k + 1 \in DOMAIN chunks
  PROVE  /\ IsFiniteSet(RowsUpTo(c, k)) /\ Cardinality(RowsUpTo(c, k)) \in Nat
         /\ RowsUpTo(c, 0) = {}
         /\ chunks[k+1].in # c => RowsUpTo(c, k + 1) = RowsUpTo(c, k)
         /\ chunks[k+1].in = c => Cardinality(RowsUpTo(c, k + 1)) = Cardinality(RowsUpTo(c, k)) + 1
<1>1. chunks \in Seq(Rows)
  BY TypeParts
<1>2. Len(chunks) \in Nat /\ DOMAIN chunks = 1..Len(chunks)
  BY <1>1, SeqElements
<1>3. IsFiniteSet(1..Len(chunks))
  BY <1>2, FS_Interval
<1>4. RowsUpTo(c, k) \subseteq 1..Len(chunks)
  BY <1>2 DEF RowsUpTo
<1>5. IsFiniteSet(RowsUpTo(c, k)) /\ Cardinality(RowsUpTo(c, k)) \in Nat
  BY <1>3, <1>4, FS_Subset, FS_CardinalityType
<1>6. RowsUpTo(c, 0) = {}
  BY <1>2 DEF RowsUpTo
<1>7. \A j \in DOMAIN chunks : j <= k + 1 <=> (j <= k \/ j = k + 1)
  BY <1>2
<1>8. ASSUME chunks[k+1].in # c PROVE RowsUpTo(c, k + 1) = RowsUpTo(c, k)
  BY <1>7, <1>8 DEF RowsUpTo
<1>9. ASSUME chunks[k+1].in = c
      PROVE  Cardinality(RowsUpTo(c, k + 1)) = Cardinality(RowsUpTo(c, k)) + 1
  <2>1. RowsUpTo(c, k + 1) = RowsUpTo(c, k) \cup {k + 1}
    BY <1>7, <1>9 DEF RowsUpTo
  <2>2. k + 1 \notin RowsUpTo(c, k)
    BY DEF RowsUpTo
  <2> QED
    BY <1>5, <2>1, <2>2, FS_AddElement
<1> QED
  BY <1>5, <1>6, <1>8, <1>9

\* After the k-th row, what is below the last row of the channel is in as many chunks
\* of the pass as the channel has rows, and the k-th row is the last of them.
Aligned(c, k, asc, cs, b) ==
  LET m == Cardinality(RowsUpTo(c, k))
  IN  /\ m \in 0..Len(cs)
      /\ \A x \in 1..b[m] : \E j \in RowsUpTo(c, k) : asc[x] <= Last(chunks[j].ids)
      /\ \A j \in RowsUpTo(c, k) : \A x \in 1..Len(asc) :
           asc[x] <= Last(chunks[j].ids) => x <= b[m]
      /\ k \in RowsUpTo(c, k) => m \in 1..Len(cs) /\ chunks[k].ids = ToIds(cs[m])

LEMMA AlignedNext ==
  ASSUME IngestInv, EndInv, late = {}, split = {}, NEW c,
         NEW asc \in Seq(Nat), Increasing(asc),
         Range(asc) = Stored(c),
         NEW cs, Greedy(cs), NEW b, Cuts(cs, b, Len(asc), WithIds(asc)),
         NEW k \in Nat, k + 1 \in DOMAIN chunks, Aligned(c, k, asc, cs, b)
  PROVE  Aligned(c, k + 1, asc, cs, b)
<1> DEFINE n == Len(asc)
           m == Cardinality(RowsUpTo(c, k))
           r == chunks[k+1]
<1>1. TypeOK /\ RowsInv /\ ChunksInOrder /\ PassedInv
  BY DEF IngestInv, OrderInv
<1>2. /\ n \in Nat /\ DOMAIN asc = 1..n /\ \A x \in 1..n : asc[x] \in Nat /\ asc[x] \in Range(asc)
      /\ \A x, y \in 1..n : x < y => asc[x] < asc[y]
  BY SeqElements DEF Increasing
<1>3. /\ Len(cs) \in Nat /\ b \in [0..Len(cs) -> 0..n]
      /\ \A i, j \in 0..Len(cs) : i < j => b[i] < b[j]
  BY DEF Cuts
<1>4. \A j \in DOMAIN chunks : chunks[j] \in Rows /\ GoodRow(chunks[j]) /\ chunks[j] \in Range(chunks)
  BY <1>1, TypeParts, SeqElements DEF RowsInv
<1>5. \A j \in DOMAIN chunks :
        /\ j \in Nat /\ chunks[j].ids[1] \in Nat /\ Last(chunks[j].ids) \in Nat
        /\ Last(chunks[j].ids) \in Range(chunks[j].ids)
        /\ \A i \in Range(chunks[j].ids) :
             /\ i \in Nat /\ chunks[j].ids[1] <= i /\ i <= Last(chunks[j].ids)
             /\ i \in messages /\ Message(i).in = chunks[j].in
  <2> SUFFICES ASSUME NEW j \in DOMAIN chunks
               PROVE  /\ j \in Nat /\ chunks[j].ids[1] \in Nat /\ Last(chunks[j].ids) \in Nat
                      /\ Last(chunks[j].ids) \in Range(chunks[j].ids)
                      /\ \A i \in Range(chunks[j].ids) :
                           /\ i \in Nat /\ chunks[j].ids[1] <= i /\ i <= Last(chunks[j].ids)
                           /\ i \in messages /\ Message(i).in = chunks[j].in
    OBVIOUS
  <2>1. chunks[j] \in Rows /\ GoodRow(chunks[j])
    BY <1>4
  <2>2. j \in Nat
    <3>1. chunks \in Seq(Rows)
      BY <1>1, TypeParts
    <3> QED
      BY <3>1, SeqElements
  <2> QED
    BY <2>1, <2>2, RowFacts DEF GoodRow
<1>6. /\ m \in 0..Len(cs) /\ m \in Nat
      /\ \A x \in 1..b[m] : \E j \in RowsUpTo(c, k) : asc[x] <= Last(chunks[j].ids)
      /\ \A j \in RowsUpTo(c, k) : \A x \in 1..n : asc[x] <= Last(chunks[j].ids) => x <= b[m]
  BY <1>3 DEF Aligned
<1>7. /\ r.in # c => RowsUpTo(c, k + 1) = RowsUpTo(c, k)
      /\ r.in = c => Cardinality(RowsUpTo(c, k + 1)) = m + 1
  BY <1>1, RowsUpToGrow
<1> HIDE DEF n, m
<1>8. CASE r.in # c
  <2>1. k + 1 \notin RowsUpTo(c, k + 1)
    BY <1>8 DEF RowsUpTo
  <2> QED
    BY <1>6, <1>7, <1>8, <2>1 DEF Aligned, m, n
<1>9. CASE r.in = c
  <2>1. \A x \in 1..b[m] : x \in 1..n
    <3>1. b[m] \in 0..n
      BY <1>3, <1>6
    <3> QED
      BY <1>2, <3>1
  <2>2. ASSUME NEW x \in 1..b[m] PROVE asc[x] < r.ids[1]
    <3>1. PICK j \in RowsUpTo(c, k) : asc[x] <= Last(chunks[j].ids)
      BY <1>6
    <3>2. j \in DOMAIN chunks /\ chunks[j].in = c /\ j < k + 1
      BY <1>5 DEF RowsUpTo
    <3>3. Last(chunks[j].ids) < r.ids[1]
      BY <1>1, <1>9, <3>2 DEF ChunksInOrder
    <3>4. asc[x] \in Nat /\ Last(chunks[j].ids) \in Nat /\ r.ids[1] \in Nat
      BY <1>2, <1>5, <2>1, <3>2
    <3> QED
      BY <3>1, <3>3, <3>4
  <2>3. ASSUME NEW x \in 1..n, b[m] < x, asc[x] <= Last(r.ids)
        PROVE  asc[x] \in Range(r.ids)
    <3>1. asc[x] \in messages /\ Message(asc[x]).in = c /\ asc[x] \in Nat
      BY <1>2 DEF Stored
    <3>2. CASE asc[x] = Last(r.ids)
      BY <1>5, <3>2
    <3>3. CASE asc[x] # Last(r.ids)
      <4>1. asc[x] < Last(r.ids)
        BY <1>5, <2>3, <3>1, <3>3
      <4>2. asc[x] \in IdsOf(chunks)
        BY <1>1, <1>4, <1>9, <3>1, <4>1 DEF PassedInv
      <4>3. PICK j \in DOMAIN chunks : asc[x] \in Range(chunks[j].ids)
        BY <4>2 DEF IdsOf, Range
      <4>4. chunks[j].in = c /\ chunks[j].ids[1] <= asc[x] /\ asc[x] <= Last(chunks[j].ids)
        BY <1>5, <3>1, <4>3
      <4>5. ~(j <= k)
        <5>1. b[m] \in 0..n /\ x \in Nat /\ b[m] \in Nat
          <6>1. b[m] \in 0..n
            BY <1>3, <1>6
          <6> QED
            BY <1>2, <6>1
        <5>2. ~(x <= b[m])
          BY <2>3, <5>1
        <5> QED
          BY <1>6, <4>4, <5>2 DEF RowsUpTo
      <4>6. ~(k + 1 < j)
        <5>1. k + 1 < j => Last(r.ids) < chunks[j].ids[1]
          BY <1>1, <1>9, <4>4 DEF ChunksInOrder
        <5>2. Last(r.ids) \in Nat /\ chunks[j].ids[1] \in Nat
          BY <1>5
        <5> QED
          BY <3>1, <4>1, <4>4, <5>1, <5>2
      <4>7. j = k + 1
        BY <1>5, <4>5, <4>6
      <4> QED
        BY <4>3, <4>7
    <3> QED
      BY <3>2, <3>3
  <2>4. r \in Rows /\ GoodRow(r) /\ EndsRight(r)
    BY <1>4 DEF EndInv
  <2>5. /\ m + 1 \in 1..Len(cs) /\ r.ids = ToIds(cs[m+1])
        /\ b[m+1] \in 1..n /\ asc[b[m+1]] = Last(r.ids)
    <3> HIDE DEF r
    <3>1. r.in = c /\ m \in 0..Len(cs)
      BY <1>6, <1>9
    <3>2. \A x \in 1..Len(asc) : b[m] < x /\ asc[x] <= Last(r.ids) => asc[x] \in Range(r.ids)
      BY <2>3 DEF n
    <3> QED
      BY <2>2, <2>4, <3>1, <3>2, NextChunk DEF n
  <2>6. m + 1 \in 0..Len(cs) /\ b[m] < b[m+1] /\ b[m] \in Nat /\ b[m+1] \in Nat /\ b[m+1] <= n
    <3>1. m + 1 \in 0..Len(cs) /\ m < m + 1
      BY <1>3, <1>6, <2>5
    <3>2. b[m] \in 0..n /\ b[m+1] \in 0..n /\ b[m] < b[m+1]
      BY <1>3, <1>6, <3>1
    <3> QED
      BY <1>2, <3>1, <3>2
  <2>7. k + 1 \in RowsUpTo(c, k + 1)
    BY <1>9 DEF RowsUpTo
  <2>8. ASSUME NEW x \in 1..b[m+1] PROVE asc[x] <= Last(chunks[k+1].ids)
    <3>1. x \in 1..n /\ (x = b[m+1] \/ x < b[m+1])
      BY <1>2, <2>6
    <3>2. asc[x] = asc[b[m+1]] \/ asc[x] < asc[b[m+1]]
      BY <1>2, <2>5, <3>1
    <3>3. asc[x] \in Nat /\ asc[b[m+1]] \in Nat
      BY <1>2, <2>5, <3>1
    <3> QED
      BY <2>5, <3>2, <3>3
  <2>9. ASSUME NEW j \in RowsUpTo(c, k + 1), NEW x \in 1..n, asc[x] <= Last(chunks[j].ids)
        PROVE  x <= b[m+1]
    <3>1. j \in DOMAIN chunks /\ chunks[j].in = c /\ j \in Nat /\ j <= k + 1
      BY <1>5 DEF RowsUpTo
    <3>2. CASE j <= k
      <4>1. x <= b[m]
        BY <1>6, <2>9, <3>1, <3>2 DEF RowsUpTo
      <4> QED
        BY <1>2, <2>6, <4>1
    <3>3. CASE j = k + 1
      <4>1. asc[x] <= asc[b[m+1]] /\ asc[x] \in Nat /\ asc[b[m+1]] \in Nat
        BY <1>2, <2>5, <2>9, <3>3
      <4>2. ~(b[m+1] < x)
        <5>1. b[m+1] < x => asc[b[m+1]] < asc[x]
          BY <1>2, <2>5
        <5> QED
          BY <4>1, <5>1
      <4> QED
        BY <1>2, <2>6, <4>2
    <3> QED
      BY <3>1, <3>2, <3>3
  <2> QED
    BY <1>7, <1>9, <2>5, <2>6, <2>7, <2>8, <2>9 DEF Aligned, n
<1> QED
  BY <1>8, <1>9

LEMMA RowsAreChunks ==
  ASSUME IngestInv, EndInv, late = {}, split = {}, NEW c,
         NEW asc \in Seq(Nat), Increasing(asc),
         Range(asc) = Stored(c),
         NEW cs, Greedy(cs), NEW b, Cuts(cs, b, Len(asc), WithIds(asc))
  PROVE  \A k \in DOMAIN chunks : Aligned(c, k, asc, cs, b)
<1> DEFINE K == {k \in Nat : k <= Len(chunks) => Aligned(c, k, asc, cs, b)}
<1>1. TypeOK
  BY DEF IngestInv
<1>2. Len(chunks) \in Nat /\ DOMAIN chunks = 1..Len(chunks)
  BY <1>1, TypeParts, SeqElements
<1>3. 0 \in K
  <2>1. RowsUpTo(c, 0) = {}
    BY <1>2 DEF RowsUpTo
  <2>2. Cardinality(RowsUpTo(c, 0)) = 0
    BY <2>1, FS_EmptySet
  <2>3. b[0] = 0 /\ 0 \in 0..Len(cs)
    BY DEF Cuts
  <2>4. ~(\E x \in 1..0 : TRUE)
    OBVIOUS
  <2> QED
    BY <2>1, <2>2, <2>3, <2>4 DEF Aligned
<1>4. ASSUME NEW k \in Nat, k \in K PROVE k + 1 \in K
  <2>1. ASSUME k + 1 <= Len(chunks) PROVE Aligned(c, k + 1, asc, cs, b)
    <3>1. Aligned(c, k, asc, cs, b) /\ k + 1 \in DOMAIN chunks
      BY <1>2, <1>4, <2>1
    <3> QED
      BY <3>1, AlignedNext
  <2> QED
    BY <2>1
<1> HIDE DEF K
<1>5. Nat \subseteq K
  BY <1>3, <1>4, SetInduction
<1>6. \A k \in DOMAIN chunks : k \in K /\ k <= Len(chunks)
  BY <1>2, <1>5
<1> QED
  BY <1>6 DEF K

\* What the loop saves bit by bit is what one pass over all of the channel would have
\* made of it, unless an insert came after its chunk was cut or a read left out a
\* message of the last chunk it cut (chunkChannel, ChunkMessages, completeChunks).
THEOREM SavedAsInOnePass == Spec => []ChunkedAsOnePass
<1>1. IngestInv /\ EndInv => ChunkedAsOnePass
  <2> SUFFICES ASSUME IngestInv, EndInv, late = {}, split = {}, NEW c \in Channels,
                      NEW k \in {j \in DOMAIN chunks : chunks[j].in = c}
               PROVE  LET S == {i \in messages : Message(i).in = c}
                          whole == ChunkMessages(WithIds(Ascending(S)))
                          mine == {j \in DOMAIN chunks : chunks[j].in = c}
                      IN  \E m \in DOMAIN whole : /\ m = Cardinality({j \in mine : j <= k})
                                                  /\ chunks[k].ids = ToIds(whole[m])
    BY DEF ChunkedAsOnePass
  <2> DEFINE S == {i \in messages : Message(i).in = c}
             asc == Ascending(S)
             W == WithIds(asc)
             cs == ChunkMessages(W)
             n == Len(history)
  <2>1. n \in Nat /\ messages \subseteq 1..n
    BY TypeParts DEF IngestInv
  <2>2. S \in SUBSET (0..n) /\ S \in SUBSET Nat
    <3>1. \A i \in 1..n : i \in 0..n /\ i \in Nat
      BY <2>1
    <3> QED
      BY <2>1, <3>1
  <2>3. S = Stored(c)
    BY DEF Stored
  <2> HIDE DEF S, n
  <2>4. /\ asc \in Seq(S) /\ Len(asc) \in Nat
        /\ \A j, l \in 1..Len(asc) : j < l => asc[j] < asc[l]
        /\ \A i \in S : \E j \in 1..Len(asc) : asc[j] = i
    BY <2>1, <2>2, AscendingIs
  <2> HIDE DEF asc
  <2>5. DOMAIN asc = 1..Len(asc) /\ \A j \in 1..Len(asc) : asc[j] \in S
    BY <2>4, SeqElements
  <2>6. asc \in Seq(Nat) /\ Increasing(asc) /\ Range(asc) = S
    <3>1. asc \in Seq(Nat)
      BY <2>2, <2>4, SeqMonotonic
    <3> QED
      BY <2>4, <2>5, <3>1 DEF Increasing, Range
  <2>7. W \in Seq(Range(W)) /\ Len(W) = Len(asc)
    BY <2>6, WithIdsIs
  <2>8. W = WithIds(asc)
    OBVIOUS
  <2> HIDE DEF W
  <2>9. cs \in Seq(Seq(Range(W))) /\ Greedy(cs) /\ \E b : Cuts(cs, b, Len(asc), W)
    BY <2>7, ChunksAreGreedy, ChunksAreCuts
  <2> HIDE DEF cs
  <2>10. PICK b : Cuts(cs, b, Len(asc), WithIds(asc))
    BY <2>8, <2>9
  <2>11. Aligned(c, k, asc, cs, b)
    BY <2>3, <2>6, <2>9, <2>10, RowsAreChunks
  <2>12. k \in Nat /\ DOMAIN cs = 1..Len(cs)
    <3>1. chunks \in Seq(Rows)
      BY TypeParts DEF IngestInv
    <3> QED
      BY <2>9, <3>1, SeqElements
  <2>13. RowsUpTo(c, k) = {j \in {j \in DOMAIN chunks : chunks[j].in = c} : j <= k}
    BY DEF RowsUpTo
  <2>14. k \in RowsUpTo(c, k)
    BY <2>12 DEF RowsUpTo
  <2> DEFINE m == Cardinality(RowsUpTo(c, k))
  <2>15. m \in DOMAIN cs /\ chunks[k].ids = ToIds(cs[m])
    BY <2>11, <2>12, <2>14 DEF Aligned
  <2> QED
    BY <2>13, <2>15 DEF cs, W, asc, S
<1> QED
  BY <1>1, EndInvHolds, PTL

-----------------------------------------------------------------------------
(* The messages of a channel, cut.                                         *)

PostRecords == [at : Nat, chars : Nat]

\* it has, for every set of the first n positions, the sum of their lengths.
Totals(it, n, s) ==
  it = [x \in SUBSET (1..n) |-> IF x = {} THEN 0 ELSE it[x \ {Max(x)}] + s[Max(x)].chars]

LEMMA MaxOfFirst ==
  ASSUME NEW n \in Nat
  PROVE  /\ \A x \in SUBSET (1..n) : x # {} =>
               Max(x) \in x /\ (\A y \in x : Max(x) >= y) /\ x \ {Max(x)} \in SUBSET (1..n)
         /\ \A k \in 1..n : Max(1..k) = k /\ (1..k) \ {k} = 1..k-1
<1>1. ASSUME NEW x \in SUBSET (1..n), x # {}
      PROVE  Max(x) \in x /\ \A y \in x : Max(x) >= y
  <2>1. x \in SUBSET (0..n)
    OBVIOUS
  <2> QED
    BY <1>1, <2>1, MaxIs
<1>2. ASSUME NEW k \in 1..n PROVE Max(1..k) = k
  <2>1. 1..k \in SUBSET (1..n) /\ 1..k # {} /\ k \in 1..k
    OBVIOUS
  <2>2. Max(1..k) \in 1..k /\ Max(1..k) >= k
    BY <1>1, <2>1
  <2> QED
    BY <2>2
<1>3. \A k \in 1..n : (1..k) \ {k} = 1..k-1
  OBVIOUS
<1> QED
  BY <1>1, <1>2, <1>3

LEMMA TotalsExist ==
  ASSUME NEW s, NEW n \in Nat
  PROVE  \E it : Totals(it, n, s)
<1> DEFINE K == {k \in Nat : \E it : Totals(it, k, s)}
<1>1. 0 \in K
  <2>1. SUBSET (1..0) = {{}}
    OBVIOUS
  <2>2. Totals([x \in {{}} |-> 0], 0, s)
    BY <2>1 DEF Totals
  <2> QED
    BY <2>2
<1>2. ASSUME NEW k \in Nat, k \in K PROVE k + 1 \in K
  <2>1. PICK f : Totals(f, k, s)
    BY <1>2
  <2> DEFINE g == [x \in SUBSET (1..k+1) |->
                     IF k + 1 \in x THEN f[x \ {k+1}] + s[k+1].chars ELSE f[x]]
  <2>2. \A x \in SUBSET (1..k) : x \in SUBSET (1..k+1) /\ k + 1 \notin x /\ g[x] = f[x]
    OBVIOUS
  <2>3. \A x \in SUBSET (1..k) :
          f[x] = IF x = {} THEN 0 ELSE f[x \ {Max(x)}] + s[Max(x)].chars
    BY <2>1 DEF Totals
  <2>4. ASSUME NEW x \in SUBSET (1..k+1), x # {}
        PROVE  g[x] = g[x \ {Max(x)}] + s[Max(x)].chars
    <3>1. Max(x) \in x /\ \A y \in x : Max(x) >= y
      BY <2>4, MaxOfFirst
    <3>2. CASE k + 1 \in x
      <4>1. Max(x) = k + 1
        <5> HIDE DEF g
        <5>1. Max(x) \in 1..k+1 /\ Max(x) >= k + 1
          BY <3>1, <3>2
        <5> QED
          BY <5>1
      <4>2. x \ {k+1} \in SUBSET (1..k)
        OBVIOUS
      <4>3. g[x] = f[x \ {k+1}] + s[k+1].chars
        BY <3>2
      <4> HIDE DEF g
      <4> QED
        BY <2>2, <4>1, <4>2, <4>3
    <3>3. CASE k + 1 \notin x
      <4> HIDE DEF g
      <4>1. x \in SUBSET (1..k) /\ x \ {Max(x)} \in SUBSET (1..k)
        <5>1. \A y \in x : y \in 1..k+1 /\ y # k + 1
          BY <3>3
        <5>2. \A y \in x : y \in 1..k
          BY <5>1
        <5> QED
          BY <5>2
      <4> QED
        BY <2>2, <2>3, <2>4, <4>1
    <3> QED
      BY <3>2, <3>3
  <2>5. g[{}] = 0 /\ {} \in SUBSET (1..k+1)
    <3>1. {} \in SUBSET (1..k)
      OBVIOUS
    <3> HIDE DEF g
    <3> QED
      BY <2>2, <2>3, <3>1
  <2>6. \A x \in SUBSET (1..k+1) :
          g[x] = IF x = {} THEN 0 ELSE g[x \ {Max(x)}] + s[Max(x)].chars
    <3> HIDE DEF g
    <3> QED
      BY <2>4, <2>5
  <2>7. g = [x \in SUBSET (1..k+1) |-> g[x]]
    OBVIOUS
  <2> HIDE DEF g
  <2>8. Totals(g, k + 1, s)
    BY <2>6, <2>7 DEF Totals
  <2> QED
    BY <2>8
<1>3. Nat \subseteq K
  <2> HIDE DEF K
  <2> QED
    BY <1>1, <1>2, SetInduction
<1>4. n \in K
  <2> HIDE DEF K
  <2> QED
    BY <1>3
<1> QED
  BY <1>4

LEMMA CharsAreTotal ==
  ASSUME NEW s \in Seq(PostRecords)
  PROVE  \E it : Totals(it, Len(s), s) /\ Chars(s) = it[1..Len(s)]
<1>1. DOMAIN s = 1..Len(s) /\ Len(s) \in Nat
  OBVIOUS
<1>2. Totals(CHOOSE it : Totals(it, Len(s), s), Len(s), s)
  BY <1>1, TotalsExist
<1>3. Chars(s) = (CHOOSE it : Totals(it, Len(s), s))[1..Len(s)]
  BY <1>1 DEF Chars, FoldLeft, MapThenFoldSet, Totals
<1> QED
  BY <1>2, <1>3

LEMMA TotalsAgree ==
  ASSUME NEW s, NEW n \in Nat, NEW m \in Nat, NEW t, NEW f, NEW g,
         Totals(f, n, s), Totals(g, m, t), n <= m,
         \A i \in 1..n : s[i] = t[i] /\ s[i] \in PostRecords
  PROVE  f[1..n] = g[1..n] /\ f[1..n] \in Int
<1> DEFINE K == {k \in Nat : k <= n => f[1..k] = g[1..k] /\ f[1..k] \in Int}
<1>1. \A x \in SUBSET (1..n) : f[x] = IF x = {} THEN 0 ELSE f[x \ {Max(x)}] + s[Max(x)].chars
  BY DEF Totals
<1>2. \A x \in SUBSET (1..m) : g[x] = IF x = {} THEN 0 ELSE g[x \ {Max(x)}] + t[Max(x)].chars
  BY DEF Totals
<1>3. 0 \in K
  <2>1. 1..0 = {} /\ {} \in SUBSET (1..n) /\ {} \in SUBSET (1..m)
    OBVIOUS
  <2>2. f[{}] = 0 /\ g[{}] = 0
    BY <1>1, <1>2, <2>1
  <2> QED
    BY <2>1, <2>2
<1>4. ASSUME NEW k \in Nat, k \in K PROVE k + 1 \in K
  <2> SUFFICES ASSUME k + 1 <= n PROVE f[1..k+1] = g[1..k+1] /\ f[1..k+1] \in Int
    OBVIOUS
  <2>1. k + 1 \in 1..n /\ k + 1 \in 1..m /\ (k + 1) - 1 = k
    OBVIOUS
  <2>2. Max(1..k+1) = k + 1 /\ (1..k+1) \ {k+1} = 1..k
    BY <2>1, MaxOfFirst
  <2>3. 1..k+1 \in SUBSET (1..n) /\ 1..k+1 \in SUBSET (1..m) /\ 1..k+1 # {}
    OBVIOUS
  <2>4. f[1..k+1] = f[1..k] + s[k+1].chars /\ g[1..k+1] = g[1..k] + t[k+1].chars
    BY <1>1, <1>2, <2>2, <2>3
  <2>5. f[1..k] = g[1..k] /\ f[1..k] \in Int
    BY <1>4
  <2>6. s[k+1] = t[k+1] /\ s[k+1].chars \in Int
    BY <2>1 DEF PostRecords
  <2> QED
    BY <2>4, <2>5, <2>6
<1>5. Nat \subseteq K
  <2> HIDE DEF K
  <2> QED
    BY <1>3, <1>4, SetInduction
<1>6. n \in K
  <2> HIDE DEF K
  <2> QED
    BY <1>5
<1> QED
  BY <1>6

LEMMA CharsAppend ==
  ASSUME NEW s \in Seq(PostRecords), NEW p \in PostRecords
  PROVE  Chars(s) \in Int /\ Chars(Append(s, p)) = Chars(s) + p.chars
<1> DEFINE n == Len(s)
           t == Append(s, p)
<1>1. /\ n \in Nat /\ t \in Seq(PostRecords) /\ Len(t) = n + 1 /\ t[n+1] = p
      /\ \A i \in 1..n : s[i] = t[i] /\ s[i] \in PostRecords
  OBVIOUS
<1> HIDE DEF n, t
<1>2. PICK f : Totals(f, n, s) /\ Chars(s) = f[1..n]
  BY CharsAreTotal DEF n
<1>3. PICK g : Totals(g, n + 1, t) /\ Chars(t) = g[1..n+1]
  BY <1>1, CharsAreTotal
<1>4. f[1..n] = g[1..n] /\ f[1..n] \in Int
  BY <1>1, <1>2, <1>3, TotalsAgree
<1>5. g[1..n+1] = g[1..n] + t[n+1].chars
  <2>1. \A x \in SUBSET (1..n+1) : g[x] = IF x = {} THEN 0 ELSE g[x \ {Max(x)}] + t[Max(x)].chars
    BY <1>3 DEF Totals
  <2>2. n + 1 \in Nat /\ n + 1 \in 1..n+1 /\ (n + 1) - 1 = n
    BY <1>1
  <2>3. Max(1..n+1) = n + 1 /\ (1..n+1) \ {n+1} = 1..n
    BY <2>2, MaxOfFirst
  <2>4. 1..n+1 \in SUBSET (1..n+1) /\ 1..n+1 # {}
    BY <2>2
  <2> QED
    BY <2>1, <2>3, <2>4
<1> QED
  BY <1>1, <1>2, <1>3, <1>4, <1>5 DEF t

\* f has what the first chunks hold together.
Flat(f, cs) ==
  f = [k \in 1..Len(cs) |-> IF k = 1 THEN cs[k] ELSE f[k-1] \o cs[k]]

LEMMA FlatExists ==
  ASSUME NEW cs, Len(cs) \in Nat
  PROVE  \E f : Flat(f, cs)
<1> DEFINE Step(f, k) == IF k = 1 THEN cs[k] ELSE f[k-1] \o cs[k]
           K == {n \in Nat : \E f : f = [k \in 1..n |-> Step(f, k)]}
<1>1. 0 \in K
  <2>1. \A f : [k \in 1..0 |-> Step(f, k)] = [k \in 1..0 |-> 0]
    OBVIOUS
  <2> QED
    BY <2>1
<1>2. ASSUME NEW n \in Nat, n \in K PROVE n + 1 \in K
  <2>1. PICK f : f = [k \in 1..n |-> Step(f, k)]
    BY <1>2
  <2> DEFINE g == [k \in 1..n+1 |-> IF k = n + 1 THEN Step(f, n+1) ELSE f[k]]
  <2>2. \A k \in 1..n : g[k] = f[k] /\ f[k] = Step(f, k)
    <3>1. \A k \in 1..n : g[k] = f[k]
      OBVIOUS
    <3> HIDE DEF g, Step
    <3>2. \A k \in 1..n : f[k] = Step(f, k)
      BY <2>1
    <3> QED
      BY <3>1, <3>2
  <2>3. g[n+1] = Step(f, n+1)
    OBVIOUS
  <2>4. g = [k \in 1..n+1 |-> g[k]]
    OBVIOUS
  <2> HIDE DEF g
  <2>5. ASSUME NEW k \in 1..n+1 PROVE g[k] = Step(g, k)
    <3>1. k = 1 \/ k - 1 \in 1..n
      OBVIOUS
    <3>2. Step(g, k) = Step(f, k)
      BY <2>2, <3>1
    <3>3. CASE k = n + 1
      BY <2>3, <3>2, <3>3
    <3>4. CASE k # n + 1
      <4>1. k \in 1..n
        BY <3>4
      <4> QED
        BY <2>2, <3>2, <4>1
    <3> QED
      BY <3>3, <3>4
  <2>6. g = [k \in 1..n+1 |-> Step(g, k)]
    <3> HIDE DEF Step
    <3> QED
      BY <2>4, <2>5
  <2> HIDE DEF Step
  <2> QED
    BY <2>6
<1>3. Nat \subseteq K
  <2> HIDE DEF K
  <2> QED
    BY <1>1, <1>2, SetInduction
<1>4. Len(cs) \in K
  <2> HIDE DEF K
  <2> QED
    BY <1>3
<1>5. PICK f : f = [k \in 1..Len(cs) |-> Step(f, k)]
  BY <1>4
<1> QED
  BY <1>5 DEF Flat

\* The chunks together are the messages.
LEMMA FlattenCuts ==
  ASSUME NEW M, NEW msgs \in Seq(M), NEW cs, NEW b, Cuts(cs, b, Len(msgs), msgs)
  PROVE  FlattenSeq(cs) = msgs
<1> DEFINE n == Len(cs)
           m == Len(msgs)
<1>1. /\ n \in Nat /\ m \in Nat /\ DOMAIN cs = 1..n
      /\ b \in [0..n -> 0..m] /\ b[0] = 0 /\ b[n] = m
      /\ \A j, k \in 0..n : j < k => b[j] < b[k]
      /\ \A k \in 1..n : cs[k] = [i \in 1..(b[k] - b[k-1]) |-> msgs[b[k-1] + i]]
  BY DEF Cuts
<1>2. \A k \in 0..n : Upto(msgs, b[k]) \in Seq(M) /\ Len(Upto(msgs, b[k])) = b[k]
                      /\ b[k] \in 0..m
                      /\ \A i \in 1..b[k] : Upto(msgs, b[k])[i] = msgs[i]
  <2>1. \A k \in 0..n : b[k] \in 0..m
    BY <1>1
  <2> QED
    BY <2>1, UptoIs
<1>3. ASSUME NEW k \in 1..n
      PROVE  cs[k] \in Seq(M) /\ Len(cs[k]) = b[k] - b[k-1]
             /\ \A i \in 1..b[k] - b[k-1] : cs[k][i] = msgs[b[k-1] + i]
  <2>1. k \in 0..n /\ k - 1 \in 0..n /\ k - 1 < k
    BY <1>1
  <2>2. PICK x \in 0..m, y \in 0..m : x = b[k-1] /\ y = b[k] /\ x < y
    BY <1>1, <2>1
  <2>3. cs[k] = [i \in 1..(y - x) |-> msgs[x + i]]
    BY <1>1, <2>2
  <2>4. y - x \in Nat /\ \A i \in 1..(y - x) : x + i \in 1..m
    BY <1>1, <2>2
  <2>5. \A i \in 1..m : msgs[i] \in M
    OBVIOUS
  <2>6. cs[k] \in [1..(y - x) -> M]
    BY <2>3, <2>4, <2>5
  <2>7. cs[k] \in Seq(M) /\ Len(cs[k]) = y - x
    BY <2>4, <2>6, FunctionIsSeq
  <2> QED
    BY <2>2, <2>3, <2>7
<1>4. CASE n = 0
  <2>1. cs = <<>> /\ m = 0
    BY <1>1, <1>4
  <2> QED
    BY <1>4, <2>1 DEF FlattenSeq
<1>5. CASE n # 0
  <2>1. PICK f : Flat(f, cs) /\ FlattenSeq(cs) = f[n]
    <3>1. Flat(CHOOSE f : Flat(f, cs), cs)
      BY <1>1, FlatExists
    <3>2. FlattenSeq(cs) = (CHOOSE f : Flat(f, cs))[n]
      BY <1>5 DEF FlattenSeq, Flat
    <3> QED
      BY <3>1, <3>2
  <2>2. \A k \in 1..n : f[k] = IF k = 1 THEN cs[k] ELSE f[k-1] \o cs[k]
    BY <2>1 DEF Flat
  <2> DEFINE K == {k \in Nat : k + 1 <= n => f[k+1] = Upto(msgs, b[k+1])}
  <2>3. 0 \in K
    <3>1. 1 \in 1..n /\ 1 - 1 = 0 /\ 1 \in 0..n
      BY <1>1, <1>5
    <3>2. f[1] = cs[1] /\ cs[1] = [i \in 1..(b[1] - b[0]) |-> msgs[b[0] + i]]
      BY <1>1, <2>2, <3>1
    <3>3. b[1] \in Nat /\ b[0] = 0
      BY <1>1, <1>2, <3>1
    <3>4. cs[1] = [i \in 1..b[1] |-> msgs[i]]
      BY <3>2, <3>3
    <3> QED
      BY <3>2, <3>4 DEF Upto
  <2>4. ASSUME NEW k \in Nat, k \in K PROVE k + 1 \in K
    <3> SUFFICES ASSUME k + 2 <= n PROVE f[k+2] = Upto(msgs, b[k+2])
      BY <1>1
    <3>1. /\ k + 2 \in 1..n /\ k + 2 # 1 /\ (k + 2) - 1 = k + 1
          /\ k + 1 \in 0..n /\ k + 2 \in 0..n /\ k + 1 <= n /\ k + 1 < k + 2
      BY <1>1
    <3>2. f[k+2] = Upto(msgs, b[k+1]) \o cs[k+2]
      BY <2>2, <2>4, <3>1
    <3>3. PICK x \in 0..m, y \in 0..m : x = b[k+1] /\ y = b[k+2] /\ x < y
      BY <1>1, <1>2, <3>1
    <3> DEFINE s == Upto(msgs, x)
               t == cs[k+2]
               u == Upto(msgs, y)
    <3>4. s \in Seq(M) /\ Len(s) = x /\ \A i \in 1..x : s[i] = msgs[i]
      BY <1>2, <3>1, <3>3
    <3>5. u \in Seq(M) /\ Len(u) = y /\ \A i \in 1..y : u[i] = msgs[i]
      BY <1>2, <3>1, <3>3
    <3>6. t \in Seq(M) /\ Len(t) = y - x /\ \A i \in 1..(y - x) : t[i] = msgs[x + i]
      BY <1>3, <3>1, <3>3
    <3> HIDE DEF s, t, u, m, n
    <3>7. /\ s \o t \in Seq(M) /\ Len(s \o t) = Len(s) + Len(t)
          /\ \A i \in 1..Len(s) + Len(t) :
               (s \o t)[i] = IF i <= Len(s) THEN s[i] ELSE t[i - Len(s)]
      BY <3>4, <3>6, ConcatProperties
    <3>8. Len(s) + Len(t) = y /\ x \in Nat /\ y \in Nat /\ x < y
      BY <1>1, <3>3, <3>4, <3>6
    <3>9. ASSUME NEW i \in 1..y PROVE (s \o t)[i] = u[i]
      <4>0. (s \o t)[i] = (IF i <= x THEN s[i] ELSE t[i - x]) /\ u[i] = msgs[i]
        BY <3>4, <3>5, <3>7, <3>8
      <4>1. CASE i <= x
        BY <3>4, <3>8, <4>0, <4>1
      <4>2. CASE i > x
        <5>1. i - x \in 1..(y - x) /\ x + (i - x) = i
          BY <3>8, <4>2
        <5> QED
          BY <3>6, <3>8, <4>0, <4>2, <5>1
      <4> QED
        BY <3>8, <4>1, <4>2
    <3>10. s \o t = u
      BY <3>5, <3>7, <3>8, <3>9, SeqEqual
    <3> QED
      BY <3>2, <3>3, <3>10 DEF s, t, u
  <2>5. Nat \subseteq K
    <3> HIDE DEF K
    <3> QED
      BY <2>3, <2>4, SetInduction
  <2>6. n - 1 \in K
    <3> HIDE DEF K
    <3> QED
      BY <1>1, <1>5, <2>5
  <2>7. f[n] = Upto(msgs, b[n])
    <3>1. (n - 1) + 1 = n
      BY <1>1
    <3> QED
      BY <1>1, <2>6, <3>1
  <2>8. Upto(msgs, m) = msgs
    BY <1>1 DEF Upto
  <2> QED
    BY <1>1, <2>1, <2>7, <2>8
<1> QED
  BY <1>4, <1>5

\* The first messages alone are cut the same way.
LEMMA FirstChunks ==
  ASSUME NEW M, NEW msgs \in Seq(M), NEW f, Chunked(f, Len(msgs), msgs), NEW j \in 0..Len(msgs)
  PROVE  /\ SubSeq(msgs, 1, j) \in Seq(M) /\ Len(SubSeq(msgs, 1, j)) = j
         /\ \A i \in 1..j : SubSeq(msgs, 1, j)[i] = msgs[i]
         /\ ChunkMessages(SubSeq(msgs, 1, j)) = f[j]
<1> DEFINE p == SubSeq(msgs, 1, j)
           n == Len(msgs)
<1>1. n \in Nat /\ j \in Nat /\ j <= n /\ \A i \in 1..n : msgs[i] \in M
  OBVIOUS
<1>2. p \in Seq(M) /\ Len(p) = j /\ \A i \in 1..j : p[i] = msgs[i]
  <2>1. \A i \in 1..j : msgs[i] \in M
    BY <1>1
  <2> QED
    BY <1>1, <2>1, SubSeqProperties
<1>3. PICK g : Chunked(g, j, p) /\ ChunkMessages(p) = g[j]
  BY <1>2, ChunkMessagesIs
<1> HIDE DEF p, n
<1>4. \A i \in 0..n : f[i] = IF i = 0 THEN <<>> ELSE Add(f[i-1], msgs[i])
  BY DEF Chunked, n
<1>5. \A i \in 0..j : g[i] = IF i = 0 THEN <<>> ELSE Add(g[i-1], p[i])
  BY <1>3 DEF Chunked
<1> DEFINE K == {i \in Nat : i <= j => g[i] = f[i]}
<1>6. 0 \in K
  BY <1>1, <1>4, <1>5
<1>7. ASSUME NEW i \in Nat, i \in K PROVE i + 1 \in K
  <2> SUFFICES ASSUME i + 1 <= j PROVE g[i+1] = f[i+1]
    OBVIOUS
  <2>1. /\ i + 1 \in 0..j /\ i + 1 \in 0..n /\ i + 1 # 0 /\ (i + 1) - 1 = i
        /\ i + 1 \in 1..j /\ i <= j
    BY <1>1
  <2>2. g[i+1] = Add(g[i], p[i+1]) /\ f[i+1] = Add(f[i], msgs[i+1])
    BY <1>4, <1>5, <2>1
  <2> QED
    BY <1>2, <1>7, <2>1, <2>2
<1>8. Nat \subseteq K
  <2> HIDE DEF K
  <2> QED
    BY <1>6, <1>7, SetInduction
<1>9. j \in K
  <2> HIDE DEF K
  <2> QED
    BY <1>1, <1>8
<1> QED
  BY <1>1, <1>2, <1>3, <1>9 DEF p

\* The chunks of the first messages end with the last of these.
LEMMA ChunksEnd ==
  ASSUME NEW M, NEW msgs \in Seq(M), Len(msgs) # 0
  PROVE  /\ ChunkMessages(msgs) \in Seq(Seq(M)) /\ ChunkMessages(msgs) # <<>>
         /\ Last(Last(ChunkMessages(msgs))) = msgs[Len(msgs)]
<1> DEFINE n == Len(msgs)
           cs == ChunkMessages(msgs)
           l == Len(cs)
<1>1. cs \in Seq(Seq(M)) /\ \E b : Cuts(cs, b, n, msgs)
  BY ChunksAreCuts
<1>2. PICK b : Cuts(cs, b, n, msgs)
  BY <1>1
<1>3. n \in Nat \ {0}
  OBVIOUS
<1> HIDE DEF n, cs
<1>4. /\ l \in Nat /\ b \in [0..l -> 0..n] /\ b[0] = 0 /\ b[l] = n
      /\ \A j, k \in 0..l : j < k => b[j] < b[k]
      /\ \A k \in 1..l : cs[k] = [i \in 1..(b[k] - b[k-1]) |-> msgs[b[k-1] + i]]
  BY <1>2 DEF Cuts
<1> HIDE DEF l
<1>5. l # 0
  BY <1>3, <1>4
<1>6. l \in 1..l /\ l \in 0..l /\ l - 1 \in 0..l /\ l - 1 < l
  BY <1>4, <1>5
<1>7. PICK x \in 0..n : x = b[l-1] /\ x < n
  BY <1>4, <1>6
<1>8. cs[l] = [i \in 1..(n - x) |-> msgs[x + i]]
  BY <1>4, <1>6, <1>7
<1>9. n - x \in Nat /\ n - x \in 1..(n - x) /\ x + (n - x) = n
  BY <1>3, <1>7
<1>10. Len(cs[l]) = n - x
  BY <1>8, <1>9
<1>11. cs[l][n - x] = msgs[n]
  BY <1>8, <1>9
<1> QED
  BY <1>1, <1>5, <1>10, <1>11 DEF Last, n, cs, l

\* A message more changes no chunk but the last, and that only if it goes into it.
LEMMA AddKeeps ==
  ASSUME NEW M, NEW cs \in Seq(Seq(M)), NEW msg \in M
  PROVE  /\ Len(cs) <= Len(Add(cs, msg))
         /\ \A i \in 1..Len(cs) - 1 : Add(cs, msg)[i] = cs[i]
         /\ cs # <<>> /\ StartsNew(Last(cs), msg) =>
              /\ Len(Add(cs, msg)) = Len(cs) + 1
              /\ \A i \in 1..Len(cs) : Add(cs, msg)[i] = cs[i]
<1>1. <<msg>> \in Seq(M) /\ Len(cs) \in Nat /\ DOMAIN cs = 1..Len(cs)
  OBVIOUS
<1>2. CASE cs = <<>> \/ StartsNew(Last(cs), msg)
  <2>1. Add(cs, msg) = Append(cs, <<msg>>)
    BY <1>2 DEF Add
  <2>2. /\ Len(Append(cs, <<msg>>)) = Len(cs) + 1
        /\ \A i \in 1..Len(cs) : Append(cs, <<msg>>)[i] = cs[i]
    BY <1>1, AppendProperties
  <2> QED
    BY <1>1, <2>1, <2>2
<1>3. CASE ~(cs = <<>> \/ StartsNew(Last(cs), msg))
  <2> DEFINE ds == [cs EXCEPT ![Len(cs)] = Append(@, msg)]
  <2>1. Add(cs, msg) = ds
    BY <1>3 DEF Add
  <2>2. Len(cs) \in 1..Len(cs) /\ cs[Len(cs)] \in Seq(M)
    BY <1>1, <1>3
  <2>3. Append(cs[Len(cs)], msg) \in Seq(M)
    BY <2>2
  <2>4. Len(ds) = Len(cs) /\ \A i \in 1..Len(cs) - 1 : ds[i] = cs[i]
    <3> DEFINE D == Seq(M)
               e == Append(cs[Len(cs)], msg)
    <3>1. cs \in Seq(D) /\ e \in D
      BY <2>3
    <3> HIDE DEF D, e
    <3>2. /\ Len([cs EXCEPT ![Len(cs)] = e]) = Len(cs)
          /\ \A i \in 1..Len(cs) :
               [cs EXCEPT ![Len(cs)] = e][i] = IF i = Len(cs) THEN e ELSE cs[i]
      BY <2>2, <3>1, ExceptSeq
    <3>3. \A i \in 1..Len(cs) - 1 : i \in 1..Len(cs) /\ i # Len(cs)
      <4>1. PICK n \in Nat : n = Len(cs)
        BY <1>1
      <4>2. \A i \in 1..n - 1 : i \in 1..n /\ i # n
        OBVIOUS
      <4> QED
        BY <4>1, <4>2
    <3>4. ds = [cs EXCEPT ![Len(cs)] = e]
      BY DEF e
    <3> HIDE DEF ds
    <3> QED
      BY <3>2, <3>3, <3>4
  <2> HIDE DEF ds
  <2>5. Len(cs) <= Len(ds)
    BY <1>1, <2>4
  <2> QED
    BY <1>3, <2>1, <2>4, <2>5
<1> QED
  BY <1>2, <1>3

LEMMA ChunksGrow ==
  ASSUME NEW M, NEW msgs \in Seq(M), NEW f, Chunked(f, Len(msgs), msgs),
         NEW j \in 0..Len(msgs)
  PROVE  /\ Len(f[j]) \in Nat /\ Len(f[Len(msgs)]) \in Nat /\ Len(f[j]) <= Len(f[Len(msgs)])
         /\ \A i \in 1..Len(f[j]) - 1 : f[Len(msgs)][i] = f[j][i]
<1> DEFINE n == Len(msgs)
           l == Len(f[j])
           K == {k \in Nat : j + k <= n =>
                   l <= Len(f[j+k]) /\ \A i \in 1..l - 1 : f[j+k][i] = f[j][i]}
<1>1. n \in Nat /\ j \in Nat /\ j <= n /\ \A k \in 1..n : msgs[k] \in M
  OBVIOUS
<1>2. \A k \in 0..n : f[k] \in Seq(Seq(M)) /\ Len(f[k]) \in Nat
  <2> SUFFICES ASSUME NEW k \in 0..n PROVE f[k] \in Seq(Seq(M))
    OBVIOUS
  <2>1. SubSeq(msgs, 1, k) \in Seq(M) /\ ChunkMessages(SubSeq(msgs, 1, k)) = f[k]
    BY FirstChunks
  <2> QED
    BY <2>1, ChunksAreCuts
<1>3. l \in Nat
  BY <1>2
<1>4. \A k \in 0..n : f[k] = IF k = 0 THEN <<>> ELSE Add(f[k-1], msgs[k])
  BY DEF Chunked
<1> HIDE DEF n, l
<1>5. 0 \in K
  <2>1. j + 0 = j
    BY <1>1
  <2> QED
    BY <1>3, <2>1 DEF l
<1>6. ASSUME NEW k \in Nat, k \in K PROVE k + 1 \in K
  <2> SUFFICES ASSUME j + (k + 1) <= n
               PROVE  l <= Len(f[j+(k+1)]) /\ \A i \in 1..l - 1 : f[j+(k+1)][i] = f[j][i]
    OBVIOUS
  <2>1. /\ j + (k + 1) \in 0..n /\ j + (k + 1) # 0 /\ (j + (k + 1)) - 1 = j + k
        /\ j + k \in 0..n /\ j + k <= n /\ j + (k + 1) \in 1..n
    BY <1>1
  <2>2. f[j+(k+1)] = Add(f[j+k], msgs[j+(k+1)])
    BY <1>4, <2>1
  <2>3. l <= Len(f[j+k]) /\ \A i \in 1..l - 1 : f[j+k][i] = f[j][i]
    BY <1>6, <2>1
  <2>4. f[j+k] \in Seq(Seq(M)) /\ Len(f[j+k]) \in Nat /\ Len(f[j+(k+1)]) \in Nat
    BY <1>2, <2>1
  <2>5. /\ Len(f[j+k]) <= Len(f[j+(k+1)])
        /\ \A i \in 1..Len(f[j+k]) - 1 : f[j+(k+1)][i] = f[j+k][i]
    BY <1>1, <2>1, <2>2, <2>4, AddKeeps
  <2>6. \A i \in 1..l - 1 : i \in 1..Len(f[j+k]) - 1
    BY <1>3, <2>3, <2>4
  <2> QED
    BY <1>3, <2>3, <2>4, <2>5, <2>6
<1>7. Nat \subseteq K
  <2> HIDE DEF K
  <2> QED
    BY <1>5, <1>6, SetInduction
<1>8. n - j \in K
  <2> HIDE DEF K
  <2> QED
    BY <1>1, <1>7
<1>9. j + (n - j) = n /\ n \in 0..n
  BY <1>1
<1> QED
  BY <1>2, <1>3, <1>8, <1>9 DEF n, l

LEMMA PrefixIs ==
  ASSUME NEW D, NEW s \in Seq(D), NEW t \in Seq(D), Len(s) <= Len(t),
         \A i \in 1..Len(s) : t[i] = s[i]
  PROVE  IsPrefix(s, t)
<1> DEFINE n == Len(s)
<1>1. n \in Nat /\ Len(t) \in Nat /\ \A i \in 1..n : s[i] \in D /\ t[i] \in D
  OBVIOUS
<1>2. /\ SubSeq(s, 1, n) \in Seq(D) /\ Len(SubSeq(s, 1, n)) = n
      /\ \A i \in 1..n : SubSeq(s, 1, n)[i] = s[i]
  BY <1>1, SubSeqProperties
<1>3. /\ SubSeq(t, 1, n) \in Seq(D) /\ Len(SubSeq(t, 1, n)) = n
      /\ \A i \in 1..n : SubSeq(t, 1, n)[i] = t[i]
  BY <1>1, SubSeqProperties
<1>4. SubSeq(s, 1, n) = SubSeq(t, 1, n)
  <2> HIDE DEF n
  <2>1. \A i \in 1..n : SubSeq(s, 1, n)[i] = SubSeq(t, 1, n)[i]
    BY <1>2, <1>3 DEF n
  <2> QED
    BY <1>2, <1>3, <2>1, SeqEqual
<1> QED
  BY <1>4 DEF IsPrefix

\* What counts as complete at a moment before the next message is final.
LEMMA CompleteAreFinal ==
  ASSUME NEW msgs \in Seq(PostRecords), NEW k \in 1..Len(msgs)-1,
         NEW moment \in msgs[k].at..msgs[k+1].at-1
  PROVE  IsPrefix(CompleteChunks(ChunkMessages(SubSeq(msgs, 1, k)), moment),
                  ChunkMessages(msgs))
<1> DEFINE M == PostRecords
           D == Seq(M)
           n == Len(msgs)
           p == SubSeq(msgs, 1, k)
<1>1. n \in Nat /\ k \in 0..n /\ k + 1 \in 0..n /\ k + 1 \in 1..n /\ k \in 1..n
      /\ (k + 1) - 1 = k /\ k \in Nat /\ k # 0
  OBVIOUS
<1>2. msgs[k].at \in Nat /\ msgs[k+1].at \in Nat /\ moment \in Int /\ msgs[k+1] \in M
      /\ msgs[k].at <= moment /\ moment < msgs[k+1].at
  <2>1. msgs[k] \in M /\ msgs[k+1] \in M
    BY <1>1
  <2> QED
    BY <2>1 DEF PostRecords
<1>3. PICK f : Chunked(f, n, msgs) /\ ChunkMessages(msgs) = f[n]
  BY ChunkMessagesIs
<1>4. /\ p \in Seq(M) /\ Len(p) = k /\ \A i \in 1..k : p[i] = msgs[i]
      /\ ChunkMessages(p) = f[k]
  BY <1>1, <1>3, FirstChunks
<1> HIDE DEF M, p
<1> DEFINE cs == f[k]
           l == Len(cs)
           ds == f[n]
<1>5. cs \in Seq(D) /\ cs # <<>> /\ Last(Last(cs)) = msgs[k]
  <2>1. k \in 1..k
    BY <1>1
  <2> QED
    BY <1>1, <1>4, <2>1, ChunksEnd
<1>6. ds \in Seq(D)
  BY <1>3, ChunksAreCuts DEF M
<1>7. f[k+1] = Add(cs, msgs[k+1])
  BY <1>1, <1>3 DEF Chunked
<1>8. l \in Nat /\ l # 0 /\ Len(ds) \in Nat
  BY <1>5, <1>6
<1>9. ChunkGap \in Nat
  BY ChunkAssumption
<1> HIDE DEF D
<1>10. CASE msgs[k].at > moment - ChunkGap
  <2>1. CompleteChunks(cs, moment) = Front(cs)
    BY <1>5, <1>10 DEF CompleteChunks
  <2>2. l <= Len(ds) /\ \A i \in 1..l - 1 : ds[i] = cs[i]
    BY <1>1, <1>3, ChunksGrow DEF M
  <2> HIDE DEF cs, ds, n
  <2>3. Front(cs) \in Seq(D) /\ Len(Front(cs)) = l - 1
        /\ \A i \in 1..l - 1 : Front(cs)[i] = cs[i]
    <3>1. \A i \in 1..l - 1 : cs[i] \in D
      BY <1>5, <1>8
    <3>2. 1 \in Int /\ l - 1 \in Int /\ (l - 1) - 1 + 1 = l - 1 /\ \A i \in 1..l-1 : 1 + i - 1 = i
      BY <1>8
    <3>3. /\ SubSeq(cs, 1, l-1) \in Seq(D)
          /\ Len(SubSeq(cs, 1, l-1)) = IF 1 <= l-1 THEN (l-1)-1+1 ELSE 0
          /\ \A i \in 1..(l-1)-1+1 : SubSeq(cs, 1, l-1)[i] = cs[1+i-1]
      BY <3>1, <3>2, SubSeqProperties
    <3>4. Len(SubSeq(cs, 1, l-1)) = l - 1
      <4> HIDE DEF l
      <4> QED
        BY <1>8, <3>3
    <3>5. \A i \in 1..l-1 : SubSeq(cs, 1, l-1)[i] = cs[i]
      BY <3>2, <3>3
    <3> QED
      BY <3>3, <3>4, <3>5 DEF Front
  <2>4. IsPrefix(Front(cs), ds)
    <3> HIDE DEF l
    <3>1. Len(Front(cs)) <= Len(ds)
      BY <1>8, <2>2, <2>3
    <3>2. \A i \in 1..Len(Front(cs)) : ds[i] = Front(cs)[i]
      BY <2>2, <2>3
    <3> QED
      BY <1>6, <2>3, <3>1, <3>2, PrefixIs
  <2> QED
    BY <1>3, <1>4, <2>1, <2>4 DEF cs, ds, p
<1>11. CASE ~(msgs[k].at > moment - ChunkGap)
  <2>1. CompleteChunks(cs, moment) = cs
    BY <1>5, <1>11 DEF CompleteChunks
  <2>2. msgs[k+1].at - msgs[k].at > ChunkGap
    BY <1>2, <1>9, <1>11
  <2>3. StartsNew(Last(cs), msgs[k+1])
    BY <1>5, <2>2 DEF StartsNew
  <2>4. Len(f[k+1]) = l + 1 /\ \A i \in 1..l : f[k+1][i] = cs[i]
    <3> USE DEF D
    <3> HIDE DEF cs
    <3> QED
      BY <1>2, <1>5, <1>7, <2>3, AddKeeps
  <2>5. Len(f[k+1]) <= Len(ds) /\ \A i \in 1..Len(f[k+1]) - 1 : ds[i] = f[k+1][i]
    BY <1>1, <1>3, ChunksGrow DEF M
  <2> HIDE DEF cs, ds, n, l
  <2>6. (l + 1) - 1 = l
    BY <1>8
  <2>7. l <= Len(ds) /\ \A i \in 1..l : ds[i] = cs[i]
    BY <1>8, <2>4, <2>5, <2>6
  <2>8. IsPrefix(cs, ds)
    BY <1>5, <1>6, <2>7, PrefixIs DEF l
  <2> QED
    BY <1>3, <1>4, <2>1, <2>8 DEF cs, ds, p
<1> QED
  BY <1>10, <1>11

\* A channel's messages, in the order of their times.
PostedInv ==
  /\ posted \in Seq(PostRecords)
  /\ \A i \in 1..Len(posted)-1 : posted[i].at <= posted[i+1].at

\* What a greedy cut makes of a chunk and of its neighbour.
LEMMA ChunkIsRight ==
  ASSUME NEW cs \in Seq(Seq(PostRecords)), Greedy(cs), NEW k \in 1..Len(cs)
  PROVE  /\ cs[k] # <<>> /\ Len(cs[k]) <= ChunkMaxMsgs
         /\ Chars(cs[k]) <= ChunkMaxChars \/ Len(cs[k]) = 1
         /\ \A i \in 1..Len(cs[k])-1 : cs[k][i+1].at - cs[k][i].at <= ChunkGap
         /\ k + 1 <= Len(cs) =>
              \/ cs[k+1][1].at - Last(cs[k]).at > ChunkGap
              \/ Len(cs[k]) = ChunkMaxMsgs
              \/ Chars(cs[k]) + cs[k+1][1].chars > ChunkMaxChars
<1> DEFINE c == cs[k]
           l == Len(c)
<1>1. /\ ChunkGap \in Nat \ {0} /\ ChunkMaxMsgs \in Nat \ {0} /\ ChunkMaxChars \in Nat \ {0}
  BY ChunkAssumption
<1>2. c \in Seq(PostRecords) /\ k \in DOMAIN cs
  OBVIOUS
<1>3. /\ c # <<>> /\ \A j \in 1..l-1 : ~StartsNew(Upto(c, j), c[j+1])
      /\ k + 1 \in DOMAIN cs => StartsNew(c, cs[k+1][1])
  BY <1>2 DEF Greedy
<1> HIDE DEF c
<1>4. l \in Nat \ {0} /\ \A i \in 1..l : c[i] \in PostRecords
  BY <1>2, <1>3
<1> HIDE DEF l
<1>5. ASSUME NEW j \in 1..l-1
      PROVE  /\ c[j+1].at - c[j].at <= ChunkGap /\ j < ChunkMaxMsgs
             /\ Chars(Upto(c, j)) + c[j+1].chars <= ChunkMaxChars
             /\ Upto(c, j) \in Seq(PostRecords)
  <2>1. j \in 0..Len(c) /\ j \in 1..l /\ j + 1 \in 1..l /\ j \in 1..j /\ j \in Nat
    BY <1>4 DEF l
  <2>2. Upto(c, j) \in Seq(PostRecords) /\ Len(Upto(c, j)) = j /\ Upto(c, j)[j] = c[j]
    BY <1>2, <2>1, UptoIs
  <2>3. Last(Upto(c, j)) = c[j]
    BY <2>2 DEF Last
  <2>4. ~(c[j+1].at - c[j].at > ChunkGap) /\ ~(j >= ChunkMaxMsgs)
        /\ ~(Chars(Upto(c, j)) + c[j+1].chars > ChunkMaxChars)
    BY <1>3, <2>2, <2>3 DEF StartsNew
  <2>5. c[j] \in PostRecords /\ c[j+1] \in PostRecords
    BY <1>4, <2>1
  <2>6. c[j].at \in Int /\ c[j+1].at \in Int /\ c[j+1].chars \in Int
    BY <2>5 DEF PostRecords
  <2>7. Chars(Upto(c, j)) \in Int
    BY <2>2, <2>5, CharsAppend
  <2>8. c[j+1].at - c[j].at <= ChunkGap
    BY <1>1, <2>4, <2>6
  <2>9. j < ChunkMaxMsgs
    BY <1>1, <2>1, <2>4
  <2>10. Chars(Upto(c, j)) + c[j+1].chars <= ChunkMaxChars
    BY <1>1, <2>4, <2>6, <2>7
  <2> QED
    BY <2>2, <2>8, <2>9, <2>10
<1>6. l <= ChunkMaxMsgs
  <2>1. CASE l = 1
    BY <1>1, <2>1
  <2>2. CASE l # 1
    <3>1. l - 1 \in 1..l-1
      BY <1>4, <2>2
    <3>2. l - 1 < ChunkMaxMsgs
      BY <1>5, <3>1
    <3> QED
      BY <1>1, <1>4, <3>2
  <2> QED
    BY <2>1, <2>2
<1>7. Chars(c) <= ChunkMaxChars \/ l = 1
  <2>0. SUFFICES ASSUME l # 1 PROVE Chars(c) <= ChunkMaxChars
    OBVIOUS
  <2> DEFINE s == Upto(c, l - 1)
  <2> HIDE DEF s
  <2>1. l - 1 \in 1..l-1 /\ (l - 1) + 1 = l /\ l - 1 \in 0..Len(c) /\ l \in 1..l
    <3>1. l - 1 \in 1..l-1 /\ (l - 1) + 1 = l /\ l - 1 \in 0..l /\ l \in 1..l
      BY <1>4, <2>0
    <3> QED
      BY <3>1 DEF l
  <2>2. Chars(s) + c[l].chars <= ChunkMaxChars /\ s \in Seq(PostRecords)
    BY <1>5, <2>1 DEF s
  <2>3. Len(s) = l - 1 /\ \A i \in 1..l-1 : s[i] = c[i]
    BY <1>2, <2>1, UptoIs DEF s
  <2>4. c[l] \in PostRecords
    BY <1>4, <2>1
  <2>5. Append(s, c[l]) = c
    <3>1. Append(s, c[l]) \in Seq(PostRecords) /\ Len(Append(s, c[l])) = l
          /\ Append(s, c[l])[l] = c[l]
          /\ \A i \in 1..l-1 : Append(s, c[l])[i] = s[i]
      <4>1. PICK e \in PostRecords : e = c[l]
        BY <2>4
      <4>2. /\ Append(s, e) \in Seq(PostRecords) /\ Len(Append(s, e)) = Len(s) + 1
            /\ Append(s, e)[Len(s) + 1] = e
            /\ \A i \in 1..Len(s) : Append(s, e)[i] = s[i]
        BY <2>2, AppendProperties
      <4> QED
        BY <2>1, <2>3, <4>1, <4>2
    <3>2. \A i \in 1..l : Append(s, c[l])[i] = c[i]
      <4>1. \A i \in 1..l : i = l \/ i \in 1..l-1
        BY <1>4
      <4> QED
        BY <2>3, <3>1, <4>1
    <3> QED
      BY <1>2, <3>1, <3>2, SeqEqual DEF l
  <2>6. Chars(Append(s, c[l])) = Chars(s) + c[l].chars
    BY <2>2, <2>4, CharsAppend
  <2> QED
    BY <2>2, <2>5, <2>6
<1>8. ASSUME k + 1 <= Len(cs)
      PROVE  \/ cs[k+1][1].at - Last(c).at > ChunkGap
             \/ l = ChunkMaxMsgs
             \/ Chars(c) + cs[k+1][1].chars > ChunkMaxChars
  <2>1. k + 1 \in DOMAIN cs
    BY <1>8
  <2>2. StartsNew(c, cs[k+1][1])
    BY <1>3, <2>1
  <2>3. l >= ChunkMaxMsgs => l = ChunkMaxMsgs
    BY <1>1, <1>4, <1>6
  <2> QED
    BY <2>2, <2>3 DEF StartsNew, l
<1> QED
  BY <1>3, <1>5, <1>6, <1>7, <1>8 DEF c, l

\* The chunks of any channel (ChunkMessages): its messages, each once and in
\* order; none larger than it may be, and none smaller than it has to; and what
\* counts as complete is final.
THEOREM ChannelsAreCutRight == CutsSpec => []CutsAreRight
<1>1. CutsInit => PostedInv
  BY DEF CutsInit, PostedInv
<1>2. PostedInv /\ [NextMessage]_posted => PostedInv'
  <2> SUFFICES ASSUME PostedInv, NextMessage PROVE PostedInv'
    BY DEF PostedInv
  <2>1. PICK pause \in Nat, chars \in Nat :
          posted' = Append(posted,
            [at |-> (IF posted = <<>> THEN 0 ELSE Last(posted).at) + pause, chars |-> chars])
    BY CutsAssumption DEF NextMessage
  <2> DEFINE n == Len(posted)
             last == IF posted = <<>> THEN 0 ELSE Last(posted).at
             post == [at |-> last + pause, chars |-> chars]
  <2>2. n \in Nat /\ posted \in Seq(PostRecords) /\ \A i \in 1..n : posted[i].at \in Nat
    <3>1. posted \in Seq(PostRecords)
      BY DEF PostedInv
    <3>2. n \in Nat /\ \A i \in 1..n : posted[i] \in PostRecords
      BY <3>1
    <3> QED
      BY <3>1, <3>2 DEF PostRecords
  <2>3. last \in Nat /\ (n # 0 => last = posted[n].at)
    <3>1. CASE n = 0
      BY <2>2, <3>1
    <3>2. CASE n # 0
      <4>1. n \in 1..n /\ posted # <<>>
        BY <2>2, <3>2
      <4> QED
        BY <2>2, <4>1 DEF Last
    <3> QED
      BY <3>1, <3>2
  <2> HIDE DEF last, n
  <2>4. post \in PostRecords /\ post.at >= last /\ post.at \in Nat
    BY <2>3 DEF PostRecords
  <2> HIDE DEF post
  <2>5. /\ posted' \in Seq(PostRecords) /\ Len(posted') = n + 1 /\ posted'[n+1] = post
        /\ \A i \in 1..n : posted'[i] = posted[i]
    BY <2>1, <2>2, <2>4, AppendProperties DEF post, last, n
  <2>6. ASSUME NEW i \in 1..Len(posted')-1 PROVE posted'[i].at <= posted'[i+1].at
    <3>1. i \in 1..n
      BY <2>2, <2>5
    <3>2. CASE i = n
      BY <2>2, <2>3, <2>4, <2>5, <3>1, <3>2
    <3>3. CASE i # n
      <4>1. i \in 1..n-1 /\ i + 1 \in 1..n
        BY <2>2, <3>1, <3>3
      <4> QED
        BY <2>5, <3>1, <4>1 DEF PostedInv, n
    <3> QED
      BY <3>2, <3>3
  <2> QED
    BY <2>5, <2>6 DEF PostedInv
<1>3. PostedInv => CutsAreRight
  <2> SUFFICES ASSUME PostedInv PROVE CutsAreRight
    OBVIOUS
  <2> DEFINE cs == ChunkMessages(posted)
  <2>1. posted \in Seq(PostRecords)
    BY DEF PostedInv
  <2>2. cs \in Seq(Seq(PostRecords)) /\ Greedy(cs) /\ \E b : Cuts(cs, b, Len(posted), posted)
    BY <2>1, ChunksAreGreedy, ChunksAreCuts
  <2>3. FlattenSeq(cs) = posted
    BY <2>1, <2>2, FlattenCuts
  <2>4. CompleteIsFinal
    BY <2>1, CompleteAreFinal DEF CompleteIsFinal
  <2> HIDE DEF cs
  <2>5. DOMAIN cs = 1..Len(cs) /\ \A k \in 1..Len(cs)-1 : k \in 1..Len(cs) /\ k + 1 <= Len(cs)
    <3>1. PICK n \in Nat : n = Len(cs) /\ DOMAIN cs = 1..n
      BY <2>2
    <3>2. \A k \in 1..n-1 : k \in 1..n /\ k + 1 <= n
      OBVIOUS
    <3> QED
      BY <3>1, <3>2
  <2>6. \A k \in 1..Len(cs) :
          /\ cs[k] # <<>> /\ Len(cs[k]) <= ChunkMaxMsgs
          /\ Chars(cs[k]) <= ChunkMaxChars \/ Len(cs[k]) = 1
          /\ \A i \in 1..Len(cs[k])-1 : cs[k][i+1].at - cs[k][i].at <= ChunkGap
    BY <2>2, ChunkIsRight
  <2>7. \A k \in 1..Len(cs)-1 :
          \/ cs[k+1][1].at - Last(cs[k]).at > ChunkGap
          \/ Len(cs[k]) = ChunkMaxMsgs
          \/ Chars(cs[k]) + cs[k+1][1].chars > ChunkMaxChars
    BY <2>2, <2>5, ChunkIsRight
  <2> QED
    BY <2>3, <2>4, <2>5, <2>6, <2>7 DEF CutsAreRight, cs
<1> QED
  BY <1>1, <1>2, <1>3, PTL DEF CutsSpec
=============================================================================
