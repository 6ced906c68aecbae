-------------------------- MODULE WindowSeamProofs --------------------------
(***************************************************************************)
(* The seam of the live path and a repair, for every number of workers and *)
(* bars and every size of the window, the queue and the archive's buffer:  *)
(* the window stays newest first, and a repair that ran to its end without *)
(* an error leaves its range in it.                                        *)
(***************************************************************************)
EXTENDS WindowSeam, FiniteSetTheorems, SequenceTheorems, TLAPS

LEMMA Sizes ==
  /\ K \in RawKey
  /\ MaxBar \in Nat \ {0} /\ WindowSize \in Nat \ {0}
  /\ QueueSize \in Nat \ {0} /\ BufferSize \in Nat \ {0}
BY SeamAssumption DEF SeamAssumption

LEMMA BarsFinite == \A S \in SUBSET Bars : IsFiniteSet(S) /\ S \subseteq Int
<1>1. IsFiniteSet(Bars) /\ Bars \subseteq Int
  BY Sizes, FS_Interval DEF Bars
<1> QED
  BY <1>1, FS_Subset

-----------------------------------------------------------------------------
(* Ranks: how many elements of a set of bars are newer than one of them.   *)

above(S, b) == {c \in S : c > b}
rank(S, b)  == Cardinality(above(S, b))

LEMMA RankInRange ==
  ASSUME NEW S \in SUBSET Bars, NEW b \in S
  PROVE  rank(S, b) \in 0..(Cardinality(S) - 1)
<1>1. IsFiniteSet(S) /\ S \subseteq Int
  BY BarsFinite
<1>2. above(S, b) \in SUBSET S /\ b \notin above(S, b)
  BY <1>1 DEF above
<1>3. /\ IsFiniteSet(above(S, b)) /\ Cardinality(above(S, b)) <= Cardinality(S)
      /\ (Cardinality(S) = Cardinality(above(S, b)) => S = above(S, b))
  BY <1>1, <1>2, FS_Subset
<1>4. Cardinality(S) \in Nat /\ Cardinality(above(S, b)) \in Nat
  BY <1>1, <1>3, FS_CardinalityType
<1>5. Cardinality(S) # Cardinality(above(S, b))
  BY <1>2, <1>3
<1> QED
  BY <1>3, <1>4, <1>5 DEF rank

LEMMA RankDecreases ==
  ASSUME NEW S \in SUBSET Bars, NEW b \in S, NEW c \in S, b < c
  PROVE  rank(S, c) < rank(S, b)
<1>1. IsFiniteSet(S) /\ S \subseteq Int
  BY BarsFinite
<1>2. above(S, b) \in SUBSET S /\ above(S, c) \in SUBSET above(S, b)
  <2>1. \A x \in S : x > c => x > b
    BY <1>1
  <2> QED
    BY <2>1 DEF above
<1>3. c \in above(S, b) /\ c \notin above(S, c)
  BY <1>1 DEF above
<1>4. IsFiniteSet(above(S, b))
  BY <1>1, <1>2, FS_Subset
<1>5. /\ IsFiniteSet(above(S, c)) /\ Cardinality(above(S, c)) <= Cardinality(above(S, b))
      /\ (Cardinality(above(S, b)) = Cardinality(above(S, c)) => above(S, b) = above(S, c))
  BY <1>2, <1>4, FS_Subset
<1>6. Cardinality(above(S, b)) \in Nat /\ Cardinality(above(S, c)) \in Nat
  BY <1>4, <1>5, FS_CardinalityType
<1>7. Cardinality(above(S, b)) # Cardinality(above(S, c))
  BY <1>3, <1>5
<1> QED
  BY <1>5, <1>6, <1>7 DEF rank

LEMMA RankInjective ==
  ASSUME NEW S \in SUBSET Bars, NEW b \in S, NEW c \in S, rank(S, b) = rank(S, c)
  PROVE  b = c
<1>1. b \in Int /\ c \in Int
  BY BarsFinite
<1>2. rank(S, b) \in Int /\ rank(S, c) \in Int
  BY RankInRange, BarsFinite, FS_CardinalityType
<1>3. ~(b < c) /\ ~(c < b)
  BY <1>2, RankDecreases
<1> QED
  BY <1>1, <1>3

LEMMA RankOnto ==
  ASSUME NEW S \in SUBSET Bars, NEW k \in 0..(Cardinality(S) - 1)
  PROVE  \E b \in S : rank(S, b) = k
<1> DEFINE T == 0..(Cardinality(S) - 1)
           f == [b \in S |-> rank(S, b)]
<1>1. IsFiniteSet(S) /\ Cardinality(S) \in Nat
  BY BarsFinite, FS_CardinalityType
<1>2. IsFiniteSet(T) /\ Cardinality(T) = Cardinality(S)
  BY <1>1, FS_Interval
<1>3. f \in [S -> T]
  BY RankInRange
<1>4. \A b, c \in S : f[b] = f[c] => b = c
  BY RankInjective
<1> HIDE DEF T
<1>5. f \in Injection(S, T)
  BY <1>3, <1>4 DEF Injection, IsInjective
<1>6. f \in Surjection(S, T)
  <2> HIDE DEF f
  <2> QED
    BY <1>2, <1>5, FS_Injection
<1>7. k \in T
  BY DEF T
<1> QED
  BY <1>6, <1>7 DEF Surjection

LEMMA MaxIsIn ==
  ASSUME NEW S \in SUBSET Bars, S # {}
  PROVE  MaxOf(S) \in S /\ MaxOf(S) \in Bars
<1>1. IsFiniteSet(S) /\ S \subseteq Int
  BY BarsFinite
<1>2. Cardinality(S) \in Nat /\ Cardinality(S) # 0
  BY <1>1, FS_CardinalityType, FS_EmptySet
<1>3. PICK b \in S : rank(S, b) = 0
  BY <1>2, RankOnto
<1>4. above(S, b) = {}
  <2>1. IsFiniteSet(above(S, b))
    BY <1>1, FS_Subset DEF above
  <2> QED
    BY <1>3, <2>1, FS_EmptySet DEF rank
<1>5. \A c \in S : c <= b
  BY <1>1, <1>4 DEF above
<1> QED
  BY <1>5 DEF MaxOf

-----------------------------------------------------------------------------
(* What LastBars reads back. *)

Descending(s) == \A i, j \in DOMAIN s : i < j => s[i] > s[j]

\* s shows bar b: it has it, or is full of newer ones (Shown, of any list).
Shows(s, b) ==
  \/ b \in Elements(s)
  \/ Len(s) = WindowSize /\ \A c \in Elements(s) : c > b

kept(S) == {b \in S : rank(S, b) < WindowSize}

LEMMA NewestIsRanked ==
  ASSUME NEW S
  PROVE  Newest(S) = [i \in 1..Cardinality(kept(S)) |->
                        CHOOSE b \in kept(S) : rank(kept(S), b) = i - 1]
BY DEF Newest, kept, rank, above

LEMMA KeptIsNewest ==
  ASSUME NEW S \in SUBSET Bars
  PROVE  /\ kept(S) \in SUBSET Bars /\ Cardinality(kept(S)) \in 0..WindowSize
         /\ \A b \in S \ kept(S) :
              Cardinality(kept(S)) = WindowSize /\ \A c \in kept(S) : c > b
<1> DEFINE N == kept(S)
           T == 0..(WindowSize - 1)
           f == [b \in N |-> rank(S, b)]
<1>1. N \in SUBSET Bars /\ N \subseteq S /\ IsFiniteSet(N) /\ Cardinality(N) \in Nat
  BY BarsFinite, FS_CardinalityType DEF kept
<1>2. IsFiniteSet(T) /\ Cardinality(T) = WindowSize
  BY Sizes, FS_Interval
<1>3. \A b \in S : rank(S, b) \in Nat
  BY RankInRange, BarsFinite, FS_CardinalityType
<1>4. f \in [N -> T]
  BY <1>1, <1>3, Sizes DEF kept
<1>5. \A b, c \in N : f[b] = f[c] => b = c
  BY <1>1, RankInjective
<1>6. f \in Injection(N, T)
  <2> HIDE DEF T, N
  <2> QED
    BY <1>4, <1>5 DEF Injection, IsInjective
<1>7. Cardinality(N) <= WindowSize /\ (f \in Surjection(N, T) => Cardinality(N) = WindowSize)
  <2> HIDE DEF T, N, f
  <2> QED
    BY <1>2, <1>6, FS_Injection
<1>8. ASSUME NEW b \in S \ N
      PROVE  Cardinality(N) = WindowSize /\ \A c \in N : c > b
  <2>1. rank(S, b) \in Nat /\ rank(S, b) >= WindowSize
    BY <1>3, <1>8, Sizes DEF kept
  <2>2. Cardinality(S) \in Nat /\ rank(S, b) < Cardinality(S)
    BY RankInRange, BarsFinite, FS_CardinalityType
  <2>3. ASSUME NEW k \in T PROVE \E c \in N : rank(S, c) = k
    <3>1. k \in 0..(Cardinality(S) - 1) /\ k < WindowSize
      BY <2>1, <2>2, <2>3, Sizes
    <3> QED
      BY <3>1, RankOnto DEF kept
  <2>4. f \in Surjection(N, T)
    BY <1>4, <2>3 DEF Surjection
  <2>5. ASSUME NEW c \in N PROVE c > b
    <3>1. c \in S /\ c \in Int /\ b \in Int /\ rank(S, c) < WindowSize /\ rank(S, c) \in Nat
      BY <1>1, <1>3, <2>5, BarsFinite DEF kept
    <3>2. c # b
      BY <1>8, <2>5
    <3>3. ~(c < b)
      BY <2>1, <3>1, Sizes, RankDecreases
    <3> QED
      BY <3>1, <3>2, <3>3
  <2> QED
    BY <1>7, <2>4, <2>5
<1> QED
  BY <1>1, <1>7, <1>8, Sizes

LEMMA NewestDescends ==
  ASSUME NEW S \in SUBSET Bars
  PROVE  /\ Newest(S) \in Seq(Bars) /\ Len(Newest(S)) <= WindowSize
         /\ Descending(Newest(S))
         /\ \A b \in S : Shows(Newest(S), b)
<1> DEFINE N == kept(S)
           n == Cardinality(N)
           w == Newest(S)
<1>1. N \in SUBSET Bars /\ n \in 0..WindowSize /\ N \subseteq Int
  BY KeptIsNewest, BarsFinite
<1>2. w = [i \in 1..n |-> CHOOSE b \in N : rank(N, b) = i - 1]
  BY NewestIsRanked
<1>3. ASSUME NEW i \in 1..n PROVE w[i] \in N /\ rank(N, w[i]) = i - 1
  <2>1. i - 1 \in 0..(n - 1)
    BY <1>1, Sizes
  <2>2. \E b \in N : rank(N, b) = i - 1
    BY <1>1, <2>1, RankOnto
  <2> QED
    BY <1>2, <2>2
<1> HIDE DEF w
<1>4. w \in Seq(Bars) /\ Len(w) = n /\ DOMAIN w = 1..n
  <2>1. w \in [1..n -> Bars]
    BY <1>1, <1>2, <1>3
  <2>2. n \in Nat
    BY <1>1, Sizes
  <2> HIDE DEF n
  <2> QED
    BY <2>1, <2>2
<1>5. Elements(w) = N
  <2>1. ASSUME NEW b \in N PROVE b \in Elements(w)
    <3>1. rank(N, b) \in 0..(n - 1)
      BY <1>1, RankInRange
    <3>2. rank(N, b) + 1 \in 1..n /\ (rank(N, b) + 1) - 1 = rank(N, b)
      BY <1>1, <3>1, Sizes
    <3>3. w[rank(N, b) + 1] = b
      BY <1>1, <1>3, <3>2, RankInjective
    <3> QED
      BY <1>4, <3>2, <3>3 DEF Elements
  <2> QED
    BY <1>3, <1>4, <2>1 DEF Elements
<1>6. ASSUME NEW i \in 1..n, NEW j \in 1..n, i < j PROVE w[i] > w[j]
  <2>1. /\ w[i] \in N /\ w[j] \in N /\ w[i] \in Int /\ w[j] \in Int
        /\ rank(N, w[i]) = i - 1 /\ rank(N, w[j]) = j - 1
    BY <1>1, <1>3, <1>6
  <2>2. i \in Int /\ j \in Int /\ i - 1 < j - 1
    BY <1>6
  <2>3. w[i] # w[j]
    BY <2>1, <2>2
  <2>4. ~(w[i] < w[j])
    BY <1>1, <2>1, <2>2, RankDecreases
  <2> QED
    BY <2>1, <2>3, <2>4
<1>7. ASSUME NEW b \in S PROVE Shows(w, b)
  BY <1>4, <1>5, <1>7, KeptIsNewest DEF Shows
<1> QED
  BY <1>1, <1>4, <1>6, <1>7, Sizes DEF Descending, w

-----------------------------------------------------------------------------
(* What the push of a bar does to the list. *)

LEMMA PushDescends ==
  ASSUME window \in Seq(Bars), Len(window) <= WindowSize, Descending(window), NEW b \in Bars
  PROVE  /\ Pushed(b) \in Seq(Bars) /\ Len(Pushed(b)) <= WindowSize
         /\ Descending(Pushed(b))
         /\ \A c \in Int : Shows(window, c) => Shows(Pushed(b), c)
<1> DEFINE L == Len(window)
           longer == <<b>> \o window
<1>1. Bars \subseteq Int /\ b \in Int /\ L \in Nat /\ L <= WindowSize /\ WindowSize \in Nat \ {0}
  BY Sizes DEF Bars
<1>2. /\ longer \in Seq(Bars) /\ Len(longer) = L + 1 /\ longer[1] = b
      /\ \A i \in 1..L : longer[i + 1] = window[i] /\ window[i] \in Bars
      /\ DOMAIN window = 1..L
  OBVIOUS
<1>3. ASSUME NEW i \in 1..L PROVE i \in Int /\ i >= 1 /\ window[i] \in Int
  <2>1. window[i] \in Bars
    BY <1>2
  <2>2. window[i] \in Int
    BY <2>1, Sizes DEF Bars
  <2>3. i \in Int /\ i >= 1
    OBVIOUS
  <2> QED
    BY <2>2, <2>3
<1>4. CASE window # <<>> /\ b <= Head(window)
  BY <1>4 DEF Pushed
<1>5. CASE ~(window # <<>> /\ b <= Head(window))
  <2>1. \A i \in 1..L : b > window[i]
    <3>1. ASSUME NEW i \in 1..L PROVE b > window[i]
      <4>1. window # <<>> /\ Head(window) = window[1] /\ 1 \in 1..L /\ window[1] \in Int
        <5>1. 1 \in 1..L
          BY <1>1, <3>1
        <5>2. window # <<>>
          BY <3>1
        <5>3. Head(window) = window[1]
          BY <5>2
        <5> QED
          BY <1>2, <1>3, <5>1, <5>2, <5>3
      <4>2. b > window[1]
        BY <1>1, <1>5, <4>1
      <4>3. window[i] <= window[1] /\ window[i] \in Int
        <5>1. CASE i = 1
          BY <4>1, <5>1
        <5>2. CASE i # 1
          <6>1. 1 < i /\ window[i] \in Int
            BY <1>3, <3>1, <5>2
          <6>2. window[1] > window[i]
            BY <1>2, <3>1, <4>1, <6>1 DEF Descending
          <6> QED
            BY <4>1, <6>1, <6>2
        <5> QED
          BY <5>1, <5>2
      <4> QED
        BY <1>1, <4>1, <4>2, <4>3
    <3> QED
      BY <3>1
  <2> DEFINE p == Pushed(b)
             m == IF L + 1 > WindowSize THEN WindowSize ELSE L + 1
  <2>2. p = IF L + 1 > WindowSize THEN SubSeq(longer, 1, WindowSize) ELSE longer
    BY <1>2, <1>5 DEF Pushed
  <2>3. m \in 1..(L + 1) /\ m <= WindowSize /\ m \in Nat
    BY <1>1
  <2> HIDE DEF longer
  <2>4. /\ p \in Seq(Bars) /\ Len(p) = m /\ DOMAIN p = 1..m
        /\ \A i \in 1..m : p[i] = longer[i]
    <3>1. CASE L + 1 > WindowSize
      <4>1. p = SubSeq(longer, 1, WindowSize) /\ m = WindowSize
        BY <2>2, <3>1
      <4>2. WindowSize \in 1..Len(longer)
        BY <1>1, <1>2, <3>1
      <4> HIDE DEF p, m
      <4> QED
        BY <1>1, <1>2, <4>1, <4>2
    <3>2. CASE ~(L + 1 > WindowSize)
      BY <1>1, <1>2, <2>2, <3>2
    <3> QED
      BY <3>1, <3>2
  <2> HIDE DEF p, m
  <2>5. ASSUME NEW i \in 1..m, i # 1
        PROVE  i - 1 \in 1..L /\ p[i] = window[i - 1]
    <3>1. i - 1 \in 1..L /\ (i - 1) + 1 = i
      BY <1>1, <2>3, <2>5
    <3> QED
      BY <1>2, <2>4, <3>1
  <2>6. p[1] = b /\ 1 \in 1..m
    BY <1>2, <2>3, <2>4
  <2>7. Descending(p)
    <3> SUFFICES ASSUME NEW i \in 1..m, NEW j \in 1..m, i < j PROVE p[i] > p[j]
      BY <2>4 DEF Descending
    <3>1. j # 1 /\ j - 1 \in 1..L /\ p[j] = window[j - 1]
      BY <2>3, <2>5
    <3>2. CASE i = 1
      BY <2>1, <2>6, <3>1, <3>2
    <3>3. CASE i # 1
      <4>1. i - 1 \in 1..L /\ p[i] = window[i - 1] /\ i - 1 < j - 1
        BY <2>3, <2>5, <3>3
      <4> QED
        BY <1>2, <3>1, <4>1 DEF Descending
    <3> QED
      BY <3>2, <3>3
  <2>8. ASSUME NEW c \in Int, Shows(window, c) PROVE Shows(p, c)
    <3>1. CASE L + 1 <= WindowSize
      <4>1. PICK i \in 1..L : c = window[i]
        <5>1. L # WindowSize
          BY <1>1, <3>1
        <5> QED
          BY <1>2, <2>8, <5>1 DEF Shows, Elements
      <4>2. i + 1 \in 1..m /\ p[i + 1] = c
        BY <1>1, <1>2, <2>4, <3>1, <4>1 DEF m
      <4> QED
        BY <2>4, <4>2 DEF Shows, Elements
    <3>2. CASE L + 1 > WindowSize
      <4>1. L = WindowSize /\ m = WindowSize
        BY <1>1, <3>2 DEF m
      <4>2. CASE \A x \in Elements(window) : x > c
        <5>1. ASSUME NEW i \in 1..m PROVE p[i] > c
          <6>1. \A j \in 1..L : window[j] > c
            BY <1>2, <4>2 DEF Elements
          <6>2. CASE i = 1
            <7>1. 1 \in 1..L /\ window[1] \in Int /\ c \in Int
              BY <1>1, <1>3, <4>1
            <7>2. b > window[1] /\ window[1] > c
              BY <2>1, <6>1, <7>1
            <7> QED
              BY <1>1, <2>6, <6>2, <7>1, <7>2
          <6>3. CASE i # 1
            BY <2>5, <6>1, <6>3
          <6> QED
            BY <6>2, <6>3
        <5> QED
          BY <2>4, <4>1, <5>1 DEF Shows, Elements
      <4>3. CASE \E i \in 1..L : c = window[i]
        <5>1. PICK i \in 1..L : c = window[i]
          BY <4>3
        <5>2. CASE i < L
          <6>1. i + 1 \in 1..m /\ p[i + 1] = c
            BY <1>1, <1>2, <2>4, <4>1, <5>1, <5>2
          <6> QED
            BY <2>4, <6>1 DEF Shows, Elements
        <5>3. CASE i = L
          <6>1. ASSUME NEW k \in 1..m PROVE p[k] > c
            <7>1. CASE k = 1
              BY <2>1, <2>6, <5>1, <7>1
            <7>2. CASE k # 1
              <8>1. k - 1 \in 1..L /\ p[k] = window[k - 1] /\ k - 1 < L
                BY <1>1, <2>5, <4>1, <7>2
              <8> QED
                BY <1>2, <5>1, <5>3, <8>1 DEF Descending
            <7> QED
              BY <7>1, <7>2
          <6> QED
            BY <2>4, <4>1, <6>1 DEF Shows, Elements
        <5> QED
          BY <1>1, <5>1, <5>2, <5>3
      <4> QED
        BY <1>2, <2>8, <4>2, <4>3 DEF Shows, Elements
    <3> QED
      BY <1>1, <3>1, <3>2
  <2> QED
    BY <2>3, <2>4, <2>7, <2>8 DEF p
<1> QED
  BY <1>4, <1>5

-----------------------------------------------------------------------------
(* Rows in the archive writer's buffer. *)

LEMMA Buffered ==
  ASSUME NEW s \in Seq(Bars), NEW b \in Bars
  PROVE  /\ Append(s, b) \in Seq(Bars) /\ Len(Append(s, b)) = Len(s) + 1
         /\ Elements(Append(s, b)) = Elements(s) \cup {b}
<1> DEFINE t == Append(s, b)
<1>1. /\ t \in Seq(Bars) /\ Len(t) = Len(s) + 1 /\ Len(s) \in Nat
      /\ DOMAIN t = 1..(Len(s) + 1) /\ DOMAIN s = 1..Len(s)
      /\ t[Len(s) + 1] = b /\ \A i \in 1..Len(s) : t[i] = s[i]
  OBVIOUS
<1> HIDE DEF t
<1>2. ASSUME NEW i \in DOMAIN t PROVE t[i] \in Elements(s) \cup {b}
  <2>1. i \in 1..Len(s) \/ i = Len(s) + 1
    BY <1>1
  <2> QED
    BY <1>1, <2>1 DEF Elements
<1>3. ASSUME NEW i \in DOMAIN s PROVE s[i] \in Elements(t)
  <2>1. i \in DOMAIN t /\ t[i] = s[i]
    BY <1>1
  <2> QED
    BY <2>1 DEF Elements
<1>4. b \in Elements(t)
  <2>1. Len(s) + 1 \in DOMAIN t
    BY <1>1
  <2> QED
    BY <1>1, <2>1 DEF Elements
<1>5. Elements(t) = Elements(s) \cup {b}
  BY <1>2, <1>3, <1>4 DEF Elements
<1> QED
  BY <1>1, <1>5 DEF t

LEMMA Split ==
  ASSUME NEW s \in Seq(Bars), NEW n \in 1..Len(s)
  PROVE  /\ SubSeq(s, n + 1, Len(s)) \in Seq(Bars)
         /\ Len(SubSeq(s, n + 1, Len(s))) <= Len(s)
         /\ Elements(s) = Elements(SubSeq(s, 1, n)) \cup Elements(SubSeq(s, n + 1, Len(s)))
<1> DEFINE u == SubSeq(s, 1, n)
           v == SubSeq(s, n + 1, Len(s))
<1>1. Len(s) \in Nat /\ n \in Nat /\ n <= Len(s) /\ 1 <= n /\ DOMAIN s = 1..Len(s)
  OBVIOUS
<1>2. u \in Seq(Bars) /\ Len(u) = n /\ DOMAIN u = 1..n /\ \A i \in 1..n : u[i] = s[i]
  BY <1>1
<1>3. /\ v \in Seq(Bars) /\ Len(v) = Len(s) - n /\ DOMAIN v = 1..(Len(s) - n)
      /\ \A i \in 1..(Len(s) - n) : v[i] = s[n + i]
  <2> DEFINE m == n + 1
             l == Len(s)
  <2>1. m \in Int /\ l \in Int /\ m = n + 1 /\ l = Len(s) /\ (\A i \in m..l : s[i] \in Bars)
    BY <1>1
  <2>2. /\ v \in Seq(Bars) /\ Len(v) = IF m <= l THEN l - m + 1 ELSE 0
        /\ \A i \in 1..(l - m + 1) : v[i] = s[m + i - 1]
    <3> HIDE DEF m, l
    <3> QED
      BY <2>1, SubSeqProperties DEF m, l
  <2> HIDE DEF v
  <2>3. Len(v) = Len(s) - n /\ DOMAIN v = 1..(Len(s) - n)
    <3>1. Len(v) = Len(s) - n
      <4>1. Len(v) = IF n + 1 <= Len(s) THEN Len(s) - (n + 1) + 1 ELSE 0
        BY <2>2
      <4> DEFINE k == Len(s)
      <4>2. k \in Nat /\ n \in Nat /\ n <= k
        BY <1>1
      <4> HIDE DEF k
      <4>3. (IF n + 1 <= k THEN k - (n + 1) + 1 ELSE 0) = k - n
        BY <4>2
      <4> QED
        BY <4>1, <4>3 DEF k
    <3>2. DOMAIN v = 1..Len(v)
      BY <2>2
    <3> QED
      BY <3>1, <3>2
  <2>4. ASSUME NEW i \in 1..(Len(s) - n) PROVE v[i] = s[n + i]
    <3>1. i \in 1..(l - m + 1) /\ m + i - 1 = n + i
      BY <1>1, <2>4
    <3> QED
      BY <2>2, <3>1
  <2> QED
    BY <2>2, <2>3, <2>4
<1> HIDE DEF u, v
<1>4. ASSUME NEW i \in DOMAIN s PROVE s[i] \in Elements(u) \cup Elements(v)
  <2>1. CASE i <= n
    <3>1. i \in DOMAIN u /\ u[i] = s[i]
      BY <1>1, <1>2, <2>1
    <3> QED
      BY <3>1 DEF Elements
  <2>2. CASE i > n
    <3>1. i - n \in DOMAIN v /\ v[i - n] = s[i]
      BY <1>1, <1>3, <2>2
    <3> QED
      BY <3>1 DEF Elements
  <2> QED
    BY <1>1, <2>1, <2>2
<1>5. ASSUME NEW i \in DOMAIN u PROVE u[i] \in Elements(s)
  <2>1. i \in DOMAIN s /\ u[i] = s[i]
    BY <1>1, <1>2
  <2> QED
    BY <2>1 DEF Elements
<1>6. ASSUME NEW i \in DOMAIN v PROVE v[i] \in Elements(s)
  <2>1. n + i \in DOMAIN s /\ v[i] = s[n + i]
    BY <1>1, <1>3
  <2> QED
    BY <2>1 DEF Elements
<1>7. Elements(s) = Elements(u) \cup Elements(v)
  BY <1>4, <1>5, <1>6 DEF Elements
<1>8. Len(v) <= Len(s)
  BY <1>1, <1>3
<1> QED
  BY <1>3, <1>7, <1>8 DEF u, v

LEMMA ElementsTyped == ASSUME NEW s \in Seq(Bars) PROVE Elements(s) \subseteq Bars
BY DEF Elements

LEMMA NoElements ==
  /\ <<>> \in Seq(Bars) /\ Len(<<>>) = 0 /\ Elements(<<>>) = {} /\ Descending(<<>>)
BY DEF Elements, Descending

-----------------------------------------------------------------------------
(* The invariant. *)

WorkerShape == \A w \in Workers : wpc[w] # "idle" => wbar[w] \in Bars

RangeShape ==
  /\ pc \in Stages \cup {"release"} => until # OpenEnd
  /\ pc = "fetch" => 1 <= next /\ next <= until

ListShape == Descending(window) /\ Descending(tail)

\* Where the bars of the repair's range are, stage by stage, as long as
\* nothing has failed.
RepairShape ==
  complete =>
    /\ pc = "fetch"   => \A b \in since..(next - 1) : b \in archive \cup dropped \cup Elements(buf)
    /\ pc = "flush"   => \A b \in since..until : b \in archive \cup dropped \cup Elements(buf)
    /\ pc = "read"    => \A b \in since..until : b \in archive \cup dropped
    /\ pc = "rebuild" => \A b \in since..until : b \in dropped \/ Shows(tail, b)
    /\ pc = "release" => \A b \in since..until : b \in dropped \/ Shows(window, b)

IInv == TypeOK /\ WorkerShape /\ RangeShape /\ ListShape /\ RepairShape

-----------------------------------------------------------------------------

\* The gate counts the one key of the seam, and its methods keep the types.
LEMMA GateStep == IInv /\ [Next]_vars => GateTypeOK'
<1> SUFFICES ASSUME IInv, [Next]_vars PROVE GateTypeOK'
  OBVIOUS
<1> DEFINE k == norm(K)
<1>k. GateTypeOK /\ k \in Key /\ k[2] \in Intervals
  BY Sizes, GateAssumption DEF IInv, TypeOK, RawKey, Key, Symbols, norm
<1>1. CASE UNCHANGED gateVars
  BY <1>k, <1>1 DEF gateVars, GateTypeOK
<1>2. CASE Hold(K)
  BY <1>k, <1>2 DEF Hold, GateTypeOK
<1>3. CASE Release(K)
  BY <1>k, <1>3 DEF Release, gateVars, GateTypeOK
<1>4. CASE ReportGap
  BY <1>1, <1>2, <1>4 DEF ReportGap, Submit
<1>5. CASE SubmitColdStart
  BY <1>1, <1>2, <1>5 DEF SubmitColdStart, Submit
<1>6. CASE ReleaseKey
  BY <1>3, <1>6 DEF ReleaseKey
<1>7. CASE BarCloses \/ Disconnect \/ Connect \/ DebounceElapse
  BY <1>1, <1>7 DEF BarCloses, Disconnect, Connect, DebounceElapse
<1>8. ASSUME NEW w \in Workers, HandleClosed(w) PROVE GateTypeOK'
  BY <1>1, <1>8 DEF HandleClosed, TakeJob, CheckWindow, PushWindow, PushArchive, CheckReady, Announce
<1>9. CASE WriteBatch \/ UNCHANGED vars
  BY <1>1, <1>9 DEF WriteBatch, vars
<1>10. CASE BeginProcess \/ Resume \/ FetchBar \/ FetchEnds
  BY <1>1, <1>10 DEF BeginProcess, Resume, FetchBar, FetchEnds
<1>11. CASE Flush \/ ReadTail \/ Rebuild \/ GiveUp
  BY <1>1, <1>11 DEF Flush, ReadTail, Rebuild, GiveUp
<1> QED
  BY <1>4, <1>5, <1>6, <1>7, <1>8, <1>9, <1>10, <1>11 DEF Next, Exchange, Process

LEMMA LiveStep == IInv /\ [Next]_vars => LiveOK' /\ WorkerShape'
<1> SUFFICES ASSUME IInv, [Next]_vars PROVE LiveOK' /\ WorkerShape'
  OBVIOUS
<1>1. LiveOK /\ WorkerShape
  BY DEF IInv, TypeOK
<1>2. CASE UNCHANGED <<exVars, liveVars>>
  BY <1>1, <1>2 DEF exVars, liveVars, LiveOK, WorkerShape
<1>3. CASE UNCHANGED <<now, liveVars>> /\ {connected', seenUp', gapOwed', recentGap'} \subseteq BOOLEAN
  BY <1>1, <1>3 DEF liveVars, LiveOK, WorkerShape
<1>4. CASE BarCloses
  <2>1. now + 1 \in Bars /\ now' = now + 1 /\ now' \in 0..MaxBar
    BY <1>1, <1>4, Sizes DEF BarCloses, LiveOK, Bars
  <2>2. queue' \in Seq(Bars) /\ Len(queue') <= QueueSize
    <3>1. CASE connected /\ Len(queue) < QueueSize
      BY <1>1, <1>4, <2>1, <3>1, Buffered, Sizes DEF BarCloses, LiveOK
    <3>2. CASE ~(connected /\ Len(queue) < QueueSize)
      BY <1>1, <1>4, <3>2 DEF BarCloses, LiveOK
    <3> QED
      BY <3>1, <3>2
  <2> QED
    BY <1>1, <1>4, <2>1, <2>2 DEF BarCloses, LiveOK, WorkerShape
<1>5. CASE Disconnect \/ Connect \/ DebounceElapse
  BY <1>1, <1>3, <1>5 DEF Disconnect, Connect, DebounceElapse, LiveOK
<1>6. CASE ReportGap
  BY <1>1, <1>3, <1>6 DEF ReportGap, LiveOK
<1>7. ASSUME NEW w \in Workers, TakeJob(w) PROVE LiveOK' /\ WorkerShape'
  <2>1. /\ queue \in Seq(Bars) /\ queue # <<>> /\ queue' = Tail(queue)
        /\ wbar' = [wbar EXCEPT ![w] = Head(queue)] /\ wpc' = [wpc EXCEPT ![w] = "check"]
        /\ UNCHANGED <<exVars, swallowed>>
    BY <1>1, <1>7 DEF TakeJob, Worker, LiveOK
  <2>2. /\ Head(queue) \in Bars /\ Tail(queue) \in Seq(Bars)
        /\ Len(Tail(queue)) = Len(queue) - 1 /\ Len(queue) \in Nat
    BY <2>1, HeadTailProperties
  <2>3. Bars \subseteq 0..MaxBar
    BY Sizes DEF Bars
  <2>4. Len(queue') <= QueueSize
    BY <1>1, <2>1, <2>2, Sizes DEF LiveOK
  <2>5. wbar' \in [Workers -> 0..MaxBar]
    BY <1>1, <2>1, <2>2, <2>3 DEF LiveOK
  <2>6. LiveOK'
    BY <1>1, <2>1, <2>2, <2>4, <2>5 DEF LiveOK, exVars
  <2> QED
    BY <1>1, <2>1, <2>2, <2>6 DEF LiveOK, WorkerShape
<1>8. ASSUME NEW w \in Workers, NEW to \in {"push", "archive", "ready", "announce"},
             wpc[w] # "idle", wpc' = [wpc EXCEPT ![w] = to], UNCHANGED <<exVars, queue, wbar>>,
             swallowed' \subseteq swallowed \cup {wbar[w]}
      PROVE  LiveOK' /\ WorkerShape'
  BY <1>1, <1>8 DEF exVars, LiveOK, WorkerShape
<1>9. ASSUME NEW w \in Workers, wpc' = [wpc EXCEPT ![w] = "idle"],
             wbar' = [wbar EXCEPT ![w] = 0], UNCHANGED <<exVars, queue, swallowed>>
      PROVE  LiveOK' /\ WorkerShape'
  BY <1>1, <1>9, Sizes DEF exVars, LiveOK, WorkerShape
<1>10. ASSUME NEW w \in Workers, HandleClosed(w) PROVE LiveOK' /\ WorkerShape'
  BY <1>7, <1>8, <1>9, <1>10 DEF HandleClosed, CheckWindow, PushWindow, PushArchive, CheckReady,
     Announce, Worker
<1>11. CASE SubmitColdStart \/ WriteBatch \/ UNCHANGED vars
  BY <1>2, <1>11 DEF SubmitColdStart, WriteBatch, vars
<1>12. CASE BeginProcess \/ Resume \/ FetchBar \/ FetchEnds
  BY <1>2, <1>12 DEF BeginProcess, Resume, FetchBar, FetchEnds
<1>13. CASE Flush \/ ReadTail \/ Rebuild \/ GiveUp \/ ReleaseKey
  BY <1>2, <1>13 DEF Flush, ReadTail, Rebuild, GiveUp, ReleaseKey
<1> QED
  BY <1>4, <1>5, <1>6, <1>10, <1>11, <1>12, <1>13 DEF Next, Exchange, Process

LEMMA StoreStep == IInv /\ [Next]_vars => StoreOK' /\ Descending(window)'
<1> SUFFICES ASSUME IInv, [Next]_vars PROVE StoreOK' /\ Descending(window)'
  OBVIOUS
<1>1. StoreOK /\ Descending(window)
  BY DEF IInv, TypeOK, ListShape
<1>2. CASE UNCHANGED <<buf, archive, dropped, window>>
  BY <1>1, <1>2 DEF StoreOK, Descending
<1>3. ASSUME NEW w \in Workers, PushWindow(w) PROVE StoreOK' /\ Descending(window)'
  <2>1. wbar[w] \in Bars /\ UNCHANGED <<buf, archive, dropped>>
    BY <1>3 DEF PushWindow, Worker, IInv, WorkerShape
  <2>2. CASE window' = Pushed(wbar[w])
    <3>1. window' \in Seq(Bars) /\ Len(window') <= WindowSize /\ Descending(window')
      BY <1>1, <2>1, <2>2, PushDescends DEF StoreOK
    <3> QED
      BY <1>1, <2>1, <3>1 DEF StoreOK, Descending
  <2>3. CASE UNCHANGED window
    BY <1>2, <2>1, <2>3
  <2> QED
    BY <1>3, <2>2, <2>3 DEF PushWindow
<1>4. ASSUME NEW b \in Bars, Len(buf) < BufferSize, buf' = Append(buf, b),
             UNCHANGED <<archive, dropped, window>>
      PROVE  StoreOK' /\ Descending(window)'
  <2>1. buf' \in Seq(Bars) /\ Len(buf') <= BufferSize
    BY <1>1, <1>4, Buffered, Sizes DEF StoreOK
  <2> QED
    BY <1>1, <1>4, <2>1 DEF StoreOK, Descending
<1>5. ASSUME NEW w \in Workers, PushArchive(w) PROVE StoreOK' /\ Descending(window)'
  <2>1. wbar[w] \in Bars
    BY <1>5 DEF PushArchive, Worker, IInv, WorkerShape
  <2> QED
    BY <1>2, <1>4, <1>5, <2>1 DEF PushArchive
<1>6. ASSUME NEW w \in Workers, HandleClosed(w) PROVE StoreOK' /\ Descending(window)'
  BY <1>2, <1>3, <1>5, <1>6 DEF HandleClosed, TakeJob, CheckWindow, CheckReady, Announce
<1>7. CASE WriteBatch
  <2>1. PICK n \in 1..Len(buf) :
          /\ buf' = SubSeq(buf, n + 1, Len(buf))
          /\ archive' = archive \cup Elements(SubSeq(buf, 1, n)) \/ UNCHANGED archive
          /\ dropped' = dropped \cup Elements(SubSeq(buf, 1, n)) \/ UNCHANGED dropped
          /\ UNCHANGED window
    BY <1>7 DEF WriteBatch
  <2>2. /\ buf' \in Seq(Bars) /\ Len(buf') <= Len(buf)
        /\ Elements(SubSeq(buf, 1, n)) \subseteq Bars
    BY <1>1, <2>1, Split, ElementsTyped DEF StoreOK
  <2>3. Len(buf') <= BufferSize
    BY <1>1, <2>2, Sizes DEF StoreOK
  <2> QED
    BY <1>1, <2>1, <2>2, <2>3 DEF StoreOK, Descending
<1>8. CASE FetchBar
  <2>1. pc = "fetch" /\ Len(buf) < BufferSize /\ buf' = Append(buf, next)
        /\ UNCHANGED <<archive, dropped, window>>
    BY <1>8 DEF FetchBar, Stage
  <2>2. next \in Bars
    BY <2>1, Sizes DEF IInv, TypeOK, RequestOK, RangeShape, Stages, OpenEnd, Bars
  <2> QED
    BY <1>4, <2>1, <2>2
<1>9. CASE Flush
  <2>1. /\ buf' = <<>> /\ UNCHANGED window
        /\ archive' = archive \cup Elements(buf) \/ UNCHANGED archive
        /\ dropped' = dropped \cup Elements(buf) \/ UNCHANGED dropped
    BY <1>9 DEF Flush
  <2>2. Elements(buf) \subseteq Bars /\ <<>> \in Seq(Bars) /\ Len(<<>>) <= BufferSize
    BY <1>1, ElementsTyped, NoElements, Sizes DEF StoreOK
  <2> QED
    BY <1>1, <2>1, <2>2 DEF StoreOK, Descending
<1>10. CASE Rebuild
  <2>1. window' = tail /\ UNCHANGED <<buf, archive, dropped>>
    BY <1>10 DEF Rebuild
  <2>2. tail \in Seq(Bars) /\ Len(tail) <= WindowSize /\ Descending(tail)
    BY DEF IInv, TypeOK, RequestOK, ListShape
  <2> QED
    BY <1>1, <2>1, <2>2 DEF StoreOK, Descending
<1>11. CASE Exchange \/ SubmitColdStart \/ UNCHANGED vars
  BY <1>2, <1>11 DEF Exchange, BarCloses, Disconnect, Connect, ReportGap, DebounceElapse,
     SubmitColdStart, vars
<1>12. CASE BeginProcess \/ Resume \/ FetchEnds \/ ReadTail \/ GiveUp \/ ReleaseKey
  BY <1>2, <1>12 DEF BeginProcess, Resume, FetchEnds, ReadTail, GiveUp, ReleaseKey
<1> QED
  BY <1>6, <1>7, <1>8, <1>9, <1>10, <1>11, <1>12 DEF Next, Process

LEMMA RequestStep == IInv /\ [Next]_vars => RequestOK' /\ RangeShape' /\ Descending(tail)'
<1> SUFFICES ASSUME IInv, [Next]_vars PROVE RequestOK' /\ RangeShape' /\ Descending(tail)'
  OBVIOUS
<1>1. RequestOK /\ RangeShape /\ Descending(tail) /\ now \in 0..MaxBar /\ archive \in SUBSET Bars
  BY DEF IInv, TypeOK, LiveOK, StoreOK, ListShape
<1>2. CASE UNCHANGED reqVars
  BY <1>1, <1>2 DEF reqVars, RequestOK, RangeShape, Descending
<1>3. ASSUME NEW end \in Bars \cup {0, OpenEnd}, Submit(end), coldStart' \in BOOLEAN,
             UNCHANGED <<since, next, tail, complete>>
      PROVE  RequestOK' /\ RangeShape' /\ Descending(tail)'
  BY <1>1, <1>3 DEF Submit, RequestOK, RangeShape, Stages, Descending
<1>4. now \in Bars \cup {0, OpenEnd}
  BY <1>1, Sizes DEF Bars
<1>5. CASE ReportGap
  <2>1. coldStart' \in BOOLEAN /\ UNCHANGED <<coldStart, since, next, tail, complete>>
    BY <1>1, <1>5 DEF ReportGap, RequestOK
  <2> QED
    BY <1>2, <1>3, <1>4, <1>5, <2>1 DEF ReportGap, reqVars
<1>6. CASE SubmitColdStart
  BY <1>3, <1>6 DEF SubmitColdStart
<1>7. CASE BeginProcess
  BY <1>1, <1>4, <1>7, Sizes DEF BeginProcess, Stage, RequestOK, RangeShape, Stages, Descending,
     OpenEnd
<1>8. CASE Resume
  <2>1. PICK s \in {IF archive = {} THEN 1 ELSE MaxOf(archive) + 1} \cup {1} :
          /\ pc = "resume" /\ pc' = IF s > until THEN "flush" ELSE "fetch"
          /\ since' = s /\ next' = s
          /\ UNCHANGED <<coldStart, until, tail, complete>>
    BY <1>8 DEF Resume, Stage
  <2>2. s \in 1..(MaxBar + 1)
    <3>1. CASE archive = {}
      BY <2>1, <3>1, Sizes
    <3>2. CASE archive # {}
      <4>1. MaxOf(archive) \in 1..MaxBar
        BY <1>1, <3>2, MaxIsIn DEF Bars
      <4> QED
        BY <2>1, <3>2, <4>1, Sizes
    <3> QED
      BY <3>1, <3>2
  <2>3. until \in Int
    BY <1>1, Sizes DEF RequestOK, Bars, OpenEnd
  <2> QED
    BY <1>1, <2>1, <2>2, <2>3, Sizes DEF RequestOK, RangeShape, Stages, Descending
<1>9. CASE FetchBar
  <2>1. /\ pc = "fetch" /\ pc' = IF next = until THEN "flush" ELSE "fetch"
        /\ next' = next + 1 /\ UNCHANGED <<coldStart, until, since, tail, complete>>
    BY <1>9 DEF FetchBar, Stage
  <2>2. until \in 0..MaxBar /\ 1 <= next /\ next <= until /\ next \in Int
    BY <1>1, <2>1, Sizes DEF RequestOK, RangeShape, Stages, OpenEnd, Bars
  <2>3. next + 1 \in 0..(MaxBar + 1) /\ (next # until => next + 1 <= until /\ 1 <= next + 1)
    BY <2>2, Sizes
  <2> QED
    BY <1>1, <2>1, <2>3 DEF RequestOK, RangeShape, Stages, Descending
<1>10. CASE FetchEnds \/ Flush \/ Rebuild \/ GiveUp
  BY <1>1, <1>10 DEF FetchEnds, Flush, Rebuild, GiveUp, Stage, RequestOK, RangeShape, Stages,
     Descending
<1>11. CASE ReadTail
  <2>1. tail' \in Seq(Bars) /\ Len(tail') <= WindowSize /\ Descending(tail')
    BY <1>1, <1>11, NewestDescends DEF ReadTail
  <2> QED
    BY <1>1, <1>11, <2>1 DEF ReadTail, Stage, RequestOK, RangeShape, Stages, Descending
<1>12. CASE ReleaseKey
  <2>1. tail' = <<>> /\ until' = 0 /\ since' = 0 /\ next' = 0 /\ complete' = FALSE /\ pc' = "none"
        /\ UNCHANGED coldStart
    BY <1>12 DEF ReleaseKey, Stage
  <2>2. <<>> \in Seq(Bars) /\ Len(<<>>) <= WindowSize /\ Descending(<<>>)
    BY NoElements, Sizes
  <2>3. 0 \in 0..(MaxBar + 1) /\ coldStart \in BOOLEAN
    BY <1>1, Sizes DEF RequestOK
  <2>4. RequestOK'
    BY <2>1, <2>2, <2>3 DEF RequestOK
  <2>5. RangeShape' /\ Descending(tail)'
    BY <2>1, <2>2 DEF RangeShape, Stages, Descending
  <2> QED
    BY <2>4, <2>5
<1>13. CASE BarCloses \/ Disconnect \/ Connect \/ DebounceElapse \/ WriteBatch \/ UNCHANGED vars
  BY <1>2, <1>13 DEF BarCloses, Disconnect, Connect, DebounceElapse, WriteBatch, vars
<1>14. ASSUME NEW w \in Workers, HandleClosed(w)
       PROVE  RequestOK' /\ RangeShape' /\ Descending(tail)'
  BY <1>2, <1>14 DEF HandleClosed, TakeJob, CheckWindow, PushWindow, PushArchive, CheckReady,
     Announce
<1> QED
  BY <1>5, <1>6, <1>7, <1>8, <1>9, <1>10, <1>11, <1>12, <1>13, <1>14 DEF Next, Exchange, Process

\* A step of the live path or of the archive writer leaves a repair what it
\* has: rows only move on, and a window that shows a bar goes on showing it.
LEMMA RepairMonotone ==
  ASSUME IInv, UNCHANGED reqVars,
         archive \cup dropped \cup Elements(buf)
           \subseteq archive' \cup dropped' \cup Elements(buf'),
         archive \cup dropped \subseteq archive' \cup dropped',
         dropped \subseteq dropped',
         \A c \in Int : Shows(window, c) => Shows(window', c)
  PROVE  RepairShape'
<1>1. UNCHANGED <<pc, until, since, next, tail, complete>>
  BY DEF reqVars
<1>2. \A b \in since..until : b \in Int
  OBVIOUS
<1>3. RepairShape
  BY DEF IInv
<1>4. \A b : Shows(tail, b)' <=> Shows(tail, b)
  BY <1>1 DEF Shows, Elements
<1>5. \A b : Shows(window, b)' <=> Shows(window', b)
  BY DEF Shows, Elements
<1>6. \A b : b \in (archive \cup dropped \cup Elements(buf))' <=>
             b \in archive' \cup dropped' \cup Elements(buf')
  BY DEF Elements
<1> QED
  BY <1>1, <1>2, <1>3, <1>4, <1>5, <1>6 DEF RepairShape

LEMMA RepairStep == IInv /\ [Next]_vars => RepairShape'
<1> SUFFICES ASSUME IInv, [Next]_vars PROVE RepairShape'
  OBVIOUS
<1>1. /\ RepairShape /\ RangeShape /\ buf \in Seq(Bars) /\ archive \in SUBSET Bars
      /\ {until, since, next} \subseteq Int
  BY Sizes DEF IInv, TypeOK, StoreOK, RequestOK, Bars, OpenEnd
<1>2. CASE UNCHANGED <<buf, archive, dropped, window, reqVars>>
  BY <1>2, RepairMonotone
<1>3. ASSUME NEW w \in Workers, PushWindow(w) PROVE RepairShape'
  <2>1. wbar[w] \in Bars /\ UNCHANGED <<buf, archive, dropped, reqVars>>
    BY <1>3 DEF PushWindow, Worker, IInv, WorkerShape
  <2>2. CASE window' = Pushed(wbar[w])
    <3>1. \A c \in Int : Shows(window, c) => Shows(window', c)
      BY <2>1, <2>2, PushDescends DEF IInv, TypeOK, StoreOK, ListShape
    <3> QED
      BY <2>1, <3>1, RepairMonotone
  <2>3. CASE UNCHANGED window
    BY <1>2, <2>1, <2>3
  <2> QED
    BY <1>3, <2>2, <2>3 DEF PushWindow
<1>4. ASSUME NEW w \in Workers, PushArchive(w) PROVE RepairShape'
  <2>1. wbar[w] \in Bars /\ UNCHANGED <<archive, dropped, window, reqVars>>
    BY <1>4 DEF PushArchive, Worker, IInv, WorkerShape
  <2>2. Elements(buf) \subseteq Elements(buf')
    BY <1>1, <1>4, <2>1, Buffered DEF PushArchive
  <2> QED
    BY <2>1, <2>2, RepairMonotone
<1>5. ASSUME NEW w \in Workers, HandleClosed(w) PROVE RepairShape'
  BY <1>2, <1>3, <1>4, <1>5 DEF HandleClosed, TakeJob, CheckWindow, CheckReady, Announce
<1>6. CASE WriteBatch
  <2>1. PICK n \in 1..Len(buf) :
          /\ buf' = SubSeq(buf, n + 1, Len(buf))
          /\ \/ archive' = archive \cup Elements(SubSeq(buf, 1, n)) /\ UNCHANGED dropped
             \/ dropped' = dropped \cup Elements(SubSeq(buf, 1, n)) /\ UNCHANGED archive
          /\ UNCHANGED <<window, reqVars>>
    BY <1>6 DEF WriteBatch
  <2>2. Elements(buf) = Elements(SubSeq(buf, 1, n)) \cup Elements(buf')
    BY <1>1, <2>1, Split
  <2> QED
    BY <2>1, <2>2, RepairMonotone
<1>7. ASSUME NEW end, Submit(end), UNCHANGED <<buf, archive, dropped, window, since, next, tail, complete>>
      PROVE  RepairShape'
  <2>1. CASE pc' = "queued"
    BY <2>1 DEF RepairShape
  <2>2. CASE UNCHANGED <<pc, until>>
    BY <1>1, <1>7, <2>2 DEF RepairShape, Shows, Elements
  <2> QED
    BY <1>7, <2>1, <2>2 DEF Submit
<1>8. CASE ReportGap
  <2>1. UNCHANGED <<buf, archive, dropped, window, coldStart, since, next, tail, complete>>
    BY <1>8 DEF ReportGap
  <2> QED
    BY <1>2, <1>7, <1>8, <2>1 DEF ReportGap, reqVars
<1>9. CASE SubmitColdStart
  BY <1>7, <1>9 DEF SubmitColdStart
<1>10. CASE BeginProcess
  BY <1>10 DEF BeginProcess, Stage, RepairShape
<1>11. CASE Resume
  <2>1. PICK s : /\ pc' = IF s > until THEN "flush" ELSE "fetch"
                 /\ since' = s /\ next' = s /\ until' = until /\ s \in Int
    <3>1. archive # {} => MaxOf(archive) \in Int
      BY <1>1, MaxIsIn, Sizes DEF Bars
    <3> QED
      BY <1>11, <3>1 DEF Resume, Stage
  <2>2. (pc' = "fetch" => since'..(next' - 1) = {}) /\ (pc' = "flush" => since'..until' = {})
    BY <1>1, <2>1
  <2>3. pc' \notin {"read", "rebuild", "release"}
    BY <2>1
  <2> QED
    BY <2>2, <2>3 DEF RepairShape
<1>12. CASE FetchBar
  <2>1. /\ pc = "fetch" /\ pc' = IF next = until THEN "flush" ELSE "fetch"
        /\ buf' = Append(buf, next) /\ next' = next + 1
        /\ UNCHANGED <<archive, dropped, until, since, complete>>
    BY <1>12 DEF FetchBar, Stage
  <2>2. next \in Bars
    BY <1>1, <2>1, Sizes DEF IInv, TypeOK, RequestOK, RangeShape, Stages, OpenEnd, Bars
  <2>3. Elements(buf') = Elements(buf) \cup {next}
    BY <1>1, <2>1, <2>2, Buffered
  <2>4. \A b \in since..next : b \in since..(next - 1) \/ b = next
    BY <1>1
  <2>5. complete => \A b \in since..next : b \in archive' \cup dropped' \cup Elements(buf')
    BY <1>1, <2>1, <2>3, <2>4 DEF RepairShape
  <2>6. (next + 1) - 1 = next /\ (next = until => since..until = since..next)
    BY <1>1
  <2> QED
    BY <2>1, <2>5, <2>6 DEF RepairShape, Elements
<1>13. CASE complete' = FALSE
  BY <1>13 DEF RepairShape
<1>14. CASE Flush
  <2>1. CASE Stage("flush", "read") /\ archive' = archive \cup Elements(buf) /\ UNCHANGED <<dropped, complete>>
    <3>1. UNCHANGED <<until, since>>
      BY <1>14 DEF Flush
    <3> QED
      BY <1>1, <2>1, <3>1 DEF Stage, RepairShape
  <2> QED
    BY <1>13, <1>14, <2>1 DEF Flush
<1>15. CASE ReadTail
  <2>1. /\ pc = "read" /\ pc' = "rebuild" /\ tail' = Newest(archive)
        /\ UNCHANGED <<archive, dropped, until, since, complete>>
    BY <1>15 DEF ReadTail, Stage
  <2>2. \A b \in archive : Shows(tail', b)
    BY <1>1, <2>1, NewestDescends
  <2>3. complete => \A b \in since..until : b \in dropped \/ Shows(tail', b)
    BY <1>1, <2>1, <2>2 DEF RepairShape
  <2> QED
    BY <2>1, <2>3 DEF RepairShape, Shows, Elements
<1>16. CASE Rebuild
  <2>1. /\ pc = "rebuild" /\ pc' = "release" /\ window' = tail
        /\ UNCHANGED <<dropped, until, since, complete>>
    BY <1>16 DEF Rebuild, Stage
  <2>2. complete => \A b \in since..until : b \in dropped \/ Shows(window', b)
    BY <1>1, <2>1 DEF RepairShape
  <2> QED
    BY <2>1, <2>2 DEF RepairShape, Shows, Elements
<1>17. CASE FetchEnds \/ GiveUp \/ ReleaseKey
  BY <1>13, <1>17 DEF FetchEnds, GiveUp, ReleaseKey
<1>18. CASE BarCloses \/ Disconnect \/ Connect \/ DebounceElapse \/ UNCHANGED vars
  BY <1>2, <1>18 DEF BarCloses, Disconnect, Connect, DebounceElapse, vars
<1> QED
  BY <1>5, <1>6, <1>8, <1>9, <1>10, <1>11, <1>12, <1>14, <1>15, <1>16, <1>17, <1>18
  DEF Next, Exchange, Process

-----------------------------------------------------------------------------
(* The theorems. *)

LEMMA Initially == Init => IInv
<1> SUFFICES ASSUME Init PROVE IInv
  OBVIOUS
<1>1. GateTypeOK
  BY DEF Init, GateInit, GateTypeOK
<1>2. <<>> \in Seq(Bars) /\ Len(<<>>) = 0 /\ Descending(<<>>)
  BY NoElements
<1>3. archive \in SUBSET Bars
  BY Sizes DEF Init, Bars
<1>4. window \in Seq(Bars) /\ Len(window) <= WindowSize /\ Descending(window)
  <2>1. Len(<<>>) <= WindowSize
    BY <1>2, Sizes
  <2>2. CASE window = <<>>
    BY <1>2, <2>1, <2>2
  <2>3. CASE window = Newest(archive)
    BY <1>3, <2>3, NewestDescends
  <2> QED
    BY <2>2, <2>3 DEF Init
<1>5. LiveOK /\ WorkerShape
  <2>1. now \in 0..MaxBar /\ Len(<<>>) <= QueueSize /\ 0 \in 0..MaxBar
    BY <1>2, Sizes DEF Init
  <2> QED
    BY <1>2, <2>1 DEF Init, LiveOK, WorkerShape
<1>6. StoreOK
  BY <1>2, <1>3, <1>4, Sizes DEF Init, StoreOK
<1>7. RequestOK
  <2>1. 0 \in 0..(MaxBar + 1) /\ Len(<<>>) <= WindowSize
    BY <1>2, Sizes
  <2> QED
    BY <1>2, <2>1 DEF Init, RequestOK
<1>8. RangeShape /\ ListShape /\ RepairShape
  BY <1>2, <1>4 DEF Init, RangeShape, ListShape, RepairShape, Stages
<1> QED
  BY <1>1, <1>5, <1>6, <1>7, <1>8 DEF IInv, TypeOK

LEMMA Step == IInv /\ [Next]_vars => IInv'
BY GateStep, LiveStep, StoreStep, RequestStep, RepairStep DEF IInv, TypeOK, ListShape

LEMMA Invariance == Spec => []IInv
<1> QED
  BY Initially, Step, PTL DEF Spec

(* Whatever pushes and rebuilds come in whatever order, the window is      *)
(* newest first and within its size (monotonicPushScript, LastBars).       *)
THEOREM SeamInOrder == Spec => []WindowNewestFirst
<1>1. IInv => WindowNewestFirst
  BY DEF IInv, ListShape, Descending, WindowNewestFirst
<1> QED
  BY <1>1, Invariance, PTL

(* A repair that has run to its end without an error leaves each bar of    *)
(* its range in the window, or the window full of newer ones, but for the  *)
(* rows the archive writer gave up (processInterval).                      *)
THEOREM RepairVisible == Spec => []RepairShows
<1>1. IInv => RepairShows
  BY DEF IInv, RepairShape, RepairShows, Shows, Shown
<1> QED
  BY <1>1, Invariance, PTL
=============================================================================
