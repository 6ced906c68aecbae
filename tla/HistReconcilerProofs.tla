------------------------ MODULE HistReconcilerProofs ------------------------
(***************************************************************************)
(* The progress of the history reconcilers does not run ahead of the       *)
(* table, over failed pages, lost batches, crashes and restarts, for any   *)
(* symbols, clocks, page sizes and windows.                                *)
(***************************************************************************)
EXTENDS HistReconciler, FiniteSetTheorems, SequenceTheorems, TLAPS

-----------------------------------------------------------------------------
(* Finite sets of integers: ranks, the least and the greatest element.     *)

IntSet(S) == S \subseteq Int /\ IsFiniteSet(S)

below(S, b) == {c \in S : c < b}
rank(S, b)  == Cardinality(below(S, b))

\* Bars, and None with them, are finite sets of integers.
LEMMA BarsFinite ==
  ASSUME NEW S \in SUBSET (Bars \cup {None})
  PROVE  IntSet(S)
<1>1. Bars \cup {None} \subseteq -1..(MaxClock - 1)
  BY HistAssumption DEF Bars, None
<1>2. IsFiniteSet(-1..(MaxClock - 1))
  BY HistAssumption, FS_Interval
<1>3. S \in SUBSET (-1..(MaxClock - 1))
  BY <1>1
<1>4. IsFiniteSet(S)
  BY <1>2, <1>3, FS_Subset
<1> QED
  BY <1>3, <1>4 DEF IntSet

\* The rank of a member is the number of those below it.
LEMMA RankInRange ==
  ASSUME NEW S, IntSet(S), NEW b \in S
  PROVE  rank(S, b) \in 0..(Cardinality(S) - 1)
<1>1. below(S, b) \in SUBSET S /\ b \notin below(S, b) /\ b \in Int
  BY DEF below, IntSet
<1>2. /\ IsFiniteSet(below(S, b)) /\ Cardinality(below(S, b)) <= Cardinality(S)
      /\ (Cardinality(S) = Cardinality(below(S, b)) => S = below(S, b))
  BY <1>1, FS_Subset DEF IntSet
<1>3. Cardinality(S) \in Nat /\ Cardinality(below(S, b)) \in Nat
  BY <1>2, FS_CardinalityType DEF IntSet
<1>4. Cardinality(S) # Cardinality(below(S, b))
  BY <1>1, <1>2
<1> QED
  BY <1>2, <1>3, <1>4 DEF rank

\* A greater member has a higher rank ...
LEMMA RankIncreases ==
  ASSUME NEW S, IntSet(S), NEW b \in S, NEW c \in S, b < c
  PROVE  rank(S, b) < rank(S, c)
<1>1. below(S, c) \in SUBSET S /\ below(S, b) \in SUBSET below(S, c)
  <2>1. \A x \in S : x < b => x < c
    BY DEF IntSet
  <2> QED
    BY <2>1 DEF below
<1>2. b \in below(S, c) /\ b \notin below(S, b)
  BY DEF below, IntSet
<1>3. IsFiniteSet(below(S, c))
  BY <1>1, FS_Subset DEF IntSet
<1>4. /\ IsFiniteSet(below(S, b)) /\ Cardinality(below(S, b)) <= Cardinality(below(S, c))
      /\ (Cardinality(below(S, c)) = Cardinality(below(S, b)) => below(S, c) = below(S, b))
  BY <1>1, <1>3, FS_Subset
<1>5. Cardinality(below(S, b)) \in Nat /\ Cardinality(below(S, c)) \in Nat
  BY <1>3, <1>4, FS_CardinalityType
<1>6. Cardinality(below(S, b)) # Cardinality(below(S, c))
  BY <1>2, <1>4
<1> QED
  BY <1>4, <1>5, <1>6 DEF rank

\* ... so no two have the same ...
LEMMA RankInjective ==
  ASSUME NEW S, IntSet(S), NEW b \in S, NEW c \in S, rank(S, b) = rank(S, c)
  PROVE  b = c
<1>1. b \in Int /\ c \in Int
  BY DEF IntSet
<1>2. rank(S, b) \in Int /\ rank(S, c) \in Int
  <2>1. rank(S, b) \in 0..(Cardinality(S) - 1) /\ rank(S, c) \in 0..(Cardinality(S) - 1)
    BY RankInRange
  <2> QED BY <2>1
<1>3. ~(b < c) /\ ~(c < b)
  BY <1>2, RankIncreases
<1> QED
  BY <1>1, <1>3

\* ... and every rank is taken.
LEMMA RankOnto ==
  ASSUME NEW S, IntSet(S), NEW k \in 0..(Cardinality(S) - 1)
  PROVE  \E b \in S : rank(S, b) = k
<1> DEFINE T == 0..(Cardinality(S) - 1)
           f == [b \in S |-> rank(S, b)]
<1>1. IsFiniteSet(S) /\ Cardinality(S) \in Nat
  BY FS_CardinalityType DEF IntSet
<1>2. IsFiniteSet(T) /\ Cardinality(T) = Cardinality(S)
  BY <1>1, FS_Interval
<1>3. f \in [S -> T]
  BY RankInRange
<1>4. \A b, c \in S : f[b] = f[c] => b = c
  BY RankInjective
<1> HIDE DEF T
<1>5. f \in Injection(S, T)
  BY <1>3, <1>4 DEF Injection, IsInjective
<1>6. f \in Surjection(S, T)
  <2> HIDE DEF f
  <2> QED
    BY <1>1, <1>2, <1>5, FS_Injection
<1>7. k \in T
  BY DEF T
<1> QED
  BY <1>6, <1>7 DEF Surjection

\* Min and Max, which choose, choose the least and the greatest.
LEMMA MinIsLeast ==
  ASSUME NEW S, IntSet(S), S # {}
  PROVE  Min(S) \in S /\ \A c \in S : Min(S) <= c
<1>1. Cardinality(S) \in Nat /\ Cardinality(S) # 0
  BY FS_CardinalityType, FS_EmptySet DEF IntSet
<1>2. PICK b \in S : rank(S, b) = 0
  BY <1>1, RankOnto
<1>3. \A c \in S : b <= c
  <2>1. \A c \in S : rank(S, c) \in 0..(Cardinality(S) - 1) /\ c \in Int
    <3>1. \A c \in S : rank(S, c) \in 0..(Cardinality(S) - 1)
      BY RankInRange
    <3> QED BY <3>1 DEF IntSet
  <2>2. ASSUME NEW c \in S PROVE ~(c < b)
    BY <1>2, <2>1, RankIncreases
  <2> QED
    BY <2>1, <2>2
<1> QED
  BY <1>3 DEF Min

\* The same of Max.
LEMMA MaxIsGreatest ==
  ASSUME NEW S, IntSet(S), S # {}
  PROVE  Max(S) \in S /\ \A c \in S : c <= Max(S)
<1>1. Cardinality(S) \in Nat /\ Cardinality(S) # 0
  BY FS_CardinalityType, FS_EmptySet DEF IntSet
<1>2. PICK b \in S : rank(S, b) = Cardinality(S) - 1
  BY <1>1, RankOnto
<1>3. \A c \in S : b >= c
  <2>1. \A c \in S : rank(S, c) \in 0..(Cardinality(S) - 1) /\ c \in Int
    <3>1. \A c \in S : rank(S, c) \in 0..(Cardinality(S) - 1)
      BY RankInRange
    <3> QED BY <3>1 DEF IntSet
  <2>2. ASSUME NEW c \in S PROVE ~(b < c)
    BY <1>1, <1>2, <2>1, RankIncreases
  <2> QED
    BY <2>1, <2>2
<1>4. Max(S) \in S /\ \A c \in S : Max(S) >= c
  BY <1>3 DEF Max
<1> QED
  BY <1>4 DEF IntSet

\* The newest of some bars and a bar (or None): last and newest advance by it.
LEMMA NewestOf ==
  ASSUME NEW B \in SUBSET Bars, NEW n \in Bars \cup {None}
  PROVE  LET m == MaxOr(B \cup {n}, None) IN
           /\ m \in B \cup {n} /\ m \in Bars \cup {None}
           /\ \A c \in B \cup {n} : c <= m
<1>1. B \cup {n} \in SUBSET (Bars \cup {None}) /\ B \cup {n} # {}
  OBVIOUS
<1>2. IntSet(B \cup {n})
  BY <1>1, BarsFinite
<1> DEFINE S == B \cup {n}
<1>3. MaxOr(S, None) = Max(S)
  BY DEF MaxOr
<1>4. Max(S) \in S /\ \A c \in S : c <= Max(S)
  <2> HIDE DEF S
  <2> QED BY <1>1, <1>2, MaxIsGreatest DEF S
<1> QED
  BY <1>1, <1>3, <1>4

-----------------------------------------------------------------------------
(* The rows of a set of bars, and what a queue holds.                      *)

\* RowsOf lists the bars, each of them, and the older ones first.
LEMMA RowsOfBars ==
  ASSUME NEW s \in Symbols, NEW B \in SUBSET Bars
  PROVE  /\ RowsOf(s, B) \in Seq(Rows)
         /\ \A i \in 1..Len(RowsOf(s, B)) : \E b \in B : RowsOf(s, B)[i] = <<s, b>>
         /\ \A b \in B : \E i \in 1..Len(RowsOf(s, B)) : RowsOf(s, B)[i] = <<s, b>>
         /\ \A i, j \in 1..Len(RowsOf(s, B)) : \A b, c \in B :
              RowsOf(s, B)[i] = <<s, b>> /\ RowsOf(s, B)[j] = <<s, c>> /\ c < b => j < i
<1> DEFINE n == Cardinality(B)
           at(i) == CHOOSE b \in B : rank(B, b) = i - 1
           R == [i \in 1..n |-> <<s, at(i)>>]
<1>1. IntSet(B) /\ n \in Nat
  BY BarsFinite, FS_CardinalityType DEF IntSet
<1>2. RowsOf(s, B) = R
  BY DEF RowsOf, rank, below
<1>3. ASSUME NEW i \in 1..n
      PROVE  at(i) \in B /\ rank(B, at(i)) = i - 1
  <2>1. i - 1 \in 0..(Cardinality(B) - 1)
    BY <1>1
  <2> QED
    BY <1>1, <2>1, RankOnto
<1> HIDE DEF at
<1>4. R \in Seq(Rows) /\ Len(R) = n
  BY <1>1, <1>3 DEF Rows
<1>5. ASSUME NEW b \in B
      PROVE  \E i \in 1..n : at(i) = b
  <2>1. rank(B, b) \in 0..(n - 1)
    BY <1>1, RankInRange
  <2> DEFINE i == rank(B, b) + 1
  <2>2. i \in 1..n /\ i - 1 = rank(B, b)
    BY <1>1, <2>1
  <2>3. at(i) \in B /\ rank(B, at(i)) = rank(B, b)
    BY <1>3, <2>2
  <2> QED
    BY <1>1, <2>2, <2>3, RankInjective
<1>6. ASSUME NEW i \in 1..n, NEW j \in 1..n, at(j) < at(i)
      PROVE  j < i
  <2>1. rank(B, at(j)) < rank(B, at(i))
    BY <1>1, <1>3, <1>6, RankIncreases
  <2> QED
    BY <1>3, <2>1
<1>7. \A i \in 1..n : R[i] = <<s, at(i)>>
  OBVIOUS
<1>8. /\ \A i \in 1..n : \E b \in B : R[i] = <<s, b>>
      /\ \A b \in B : \E i \in 1..n : R[i] = <<s, b>>
      /\ \A i, j \in 1..n : \A b, c \in B :
           R[i] = <<s, b>> /\ R[j] = <<s, c>> /\ c < b => j < i
  <2> HIDE DEF R
  <2> QED BY <1>3, <1>5, <1>6, <1>7
<1> HIDE DEF R, n
<1> QED
  BY <1>2, <1>4, <1>8

\* What the concatenation of two sequences holds, and where.
LEMMA ElementsOfTwo ==
  ASSUME NEW S, NEW u \in Seq(S), NEW v \in Seq(S)
  PROVE  /\ u \o v \in Seq(S) /\ Len(u \o v) = Len(u) + Len(v)
         /\ ToSet(u \o v) = ToSet(u) \cup ToSet(v)
         /\ \A i \in 1..Len(u) : (u \o v)[i] = u[i]
         /\ \A i \in 1..Len(v) : (u \o v)[Len(u) + i] = v[i]
<1>1. u \o v \in Seq(S) /\ Len(u \o v) = Len(u) + Len(v) /\ Len(u) \in Nat /\ Len(v) \in Nat
  BY ConcatProperties, LenProperties
<1>2. /\ \A i \in 1..Len(u) : (u \o v)[i] = u[i]
      /\ \A i \in 1..Len(v) : (u \o v)[Len(u) + i] = v[i]
  BY <1>1
<1>3. ASSUME NEW i \in 1..(Len(u) + Len(v))
      PROVE  (u \o v)[i] \in ToSet(u) \cup ToSet(v)
  <2>1. CASE i <= Len(u)
    BY <1>1, <1>2, <2>1 DEF ToSet
  <2>2. CASE i > Len(u)
    <3>1. i - Len(u) \in 1..Len(v) /\ i = Len(u) + (i - Len(u))
      BY <1>1, <2>2
    <3> QED
      BY <1>1, <1>2, <3>1 DEF ToSet
  <2> QED
    BY <1>1, <2>1, <2>2
<1>4. /\ \A i \in 1..Len(u) : i \in 1..(Len(u) + Len(v))
      /\ \A i \in 1..Len(v) : Len(u) + i \in 1..(Len(u) + Len(v))
  BY <1>1
<1>5. DOMAIN u = 1..Len(u) /\ DOMAIN v = 1..Len(v) /\ DOMAIN (u \o v) = 1..(Len(u) + Len(v))
  BY <1>1, LenProperties
<1>6. ToSet(u) \cup ToSet(v) \subseteq ToSet(u \o v)
  BY <1>1, <1>2, <1>4, <1>5 DEF ToSet
<1>7. ToSet(u \o v) \subseteq ToSet(u) \cup ToSet(v)
  BY <1>3, <1>5 DEF ToSet
<1> QED
  BY <1>1, <1>2, <1>6, <1>7

\* What is left of a queue when its head has been taken.
LEMMA ElementsOfParts ==
  ASSUME NEW S, NEW q \in Seq(S), NEW n \in 0..Len(q)
  PROVE  /\ SubSeq(q, n + 1, Len(q)) \in Seq(S)
         /\ Len(SubSeq(q, n + 1, Len(q))) = Len(q) - n
         /\ \A i \in 1..(Len(q) - n) : SubSeq(q, n + 1, Len(q))[i] = q[n + i]
         /\ ToSet(SubSeq(q, 1, n)) = {q[i] : i \in 1..n}
         /\ ToSet(SubSeq(q, n + 1, Len(q))) = {q[i] : i \in (n + 1)..Len(q)}
         /\ ToSet(q) = ToSet(SubSeq(q, 1, n)) \cup ToSet(SubSeq(q, n + 1, Len(q)))
         /\ ToSet(q) \subseteq S
<1> DEFINE u == SubSeq(q, 1, n)
           v == SubSeq(q, n + 1, Len(q))
<1>1. Len(q) \in Nat /\ n \in Nat /\ DOMAIN q = 1..Len(q) /\ \A i \in 1..Len(q) : q[i] \in S
  BY LenProperties
<1>2. u \in Seq(S) /\ Len(u) = n /\ \A i \in 1..n : u[i] = q[i]
  BY <1>1, SubSeqProperties
<1>3. v \in Seq(S) /\ Len(v) = Len(q) - n /\ \A i \in 1..(Len(q) - n) : v[i] = q[n + i]
  <2>1. v \in Seq(S) /\ Len(v) = IF n + 1 <= Len(q) THEN Len(q) - (n + 1) + 1 ELSE 0
    BY <1>1, SubSeqProperties
  <2>3. \A i \in 1..(Len(q) - (n + 1) + 1) : v[i] = q[n + 1 + i - 1]
    BY <1>1, SubSeqProperties
  <2> HIDE DEF v
  <2>2. Len(v) = Len(q) - n
    <3>1. CASE n + 1 <= Len(q)
      BY <1>1, <2>1, <3>1
    <3>2. CASE n = Len(q)
      BY <1>1, <2>1, <3>2
    <3> DEFINE l == Len(q)
    <3>3. l \in Nat /\ n \in 0..l
      BY <1>1
    <3>4. n + 1 <= l \/ n = l
      <4> HIDE DEF l
      <4> QED BY <3>3
    <3> QED BY <3>1, <3>2, <3>4
  <2>4. \A i \in 1..(Len(q) - n) : n + 1 + i - 1 = n + i /\ i \in 1..(Len(q) - (n + 1) + 1)
    BY <1>1
  <2> QED BY <2>1, <2>2, <2>3, <2>4
<1>4. ToSet(u) = {q[i] : i \in 1..n}
  <2>1. DOMAIN u = 1..n
    BY <1>2, LenProperties
  <2> QED BY <1>2, <2>1 DEF ToSet
<1>5. ToSet(v) = {q[i] : i \in (n + 1)..Len(q)}
  <2>1. DOMAIN v = 1..(Len(q) - n)
    BY <1>1, <1>3, LenProperties
  <2>2. \A i \in 1..(Len(q) - n) : n + i \in (n + 1)..Len(q)
    BY <1>1
  <2>3. \A i \in (n + 1)..Len(q) : i - n \in 1..(Len(q) - n) /\ n + (i - n) = i
    BY <1>1
  <2>4. ToSet(v) \subseteq {q[i] : i \in (n + 1)..Len(q)}
    BY <1>3, <2>1, <2>2 DEF ToSet
  <2>5. ASSUME NEW i \in (n + 1)..Len(q)
        PROVE  q[i] \in ToSet(v)
    <3>1. v[i - n] = q[i] /\ i - n \in DOMAIN v
      BY <1>3, <2>1, <2>3
    <3> QED BY <3>1 DEF ToSet
  <2> QED BY <2>4, <2>5
<1>6. ToSet(q) = {q[i] : i \in 1..Len(q)}
  BY <1>1 DEF ToSet
<1>7. 1..Len(q) = 1..n \cup (n + 1)..Len(q)
  BY <1>1
<1> HIDE DEF u, v
<1>8. ToSet(q) = ToSet(u) \cup ToSet(v)
  BY <1>4, <1>5, <1>6, <1>7
<1> QED
  BY <1>1, <1>2, <1>3, <1>4, <1>5, <1>6, <1>8 DEF u, v

-----------------------------------------------------------------------------
(* A page: the newest points of what the exchange serves of a range. *)

served(s) == {b \in since[s]..(upto[s] - 1) : b < published[s]}
above(S, b) == {c \in S : c > b}

\* A page is the upper end of what is served, all of it if it is short.
LEMMA PageIsNewest ==
  ASSUME TypeOK, NEW s \in Symbols, limit[s] >= 1
  PROVE  /\ PageOf(s) \in SUBSET Bars /\ served(s) \in SUBSET Bars
         /\ PageOf(s) \subseteq served(s)
         /\ \A b \in PageOf(s), c \in served(s) : b <= c => c \in PageOf(s)
         /\ served(s) # {} => PageOf(s) # {}
         /\ Cardinality(PageOf(s)) < limit[s] => PageOf(s) = served(s)
<1> DEFINE S == served(s)
           P == PageOf(s)
<1>1. /\ since[s] \in 0..MaxClock /\ upto[s] \in 0..MaxClock /\ published[s] \in 0..MaxClock
      /\ limit[s] \in Nat
  BY HistAssumption DEF TypeOK, JobsOK, WorldOK
<1>2. S \in SUBSET Bars
  BY <1>1, HistAssumption DEF served, Bars
<1>3. P = {b \in S : Cardinality(above(S, b)) < limit[s]}
  BY DEF PageOf, served, above
<1>4. IntSet(S)
  BY <1>2, BarsFinite
<1> HIDE DEF S, P
<1>5. ASSUME NEW T \in SUBSET S
      PROVE  IsFiniteSet(T) /\ Cardinality(T) \in Nat
  BY <1>4, FS_Subset, FS_CardinalityType DEF IntSet
<1>6. ASSUME NEW b \in P, NEW c \in S, b <= c
      PROVE  c \in P
  <2>1. above(S, c) \in SUBSET above(S, b) /\ above(S, b) \in SUBSET S
    <3>1. \A x \in S : x > c => x > b
      BY <1>3, <1>4, <1>6 DEF IntSet
    <3> QED BY <3>1 DEF above
  <2>2. Cardinality(above(S, c)) <= Cardinality(above(S, b))
    BY <1>5, <2>1, FS_Subset
  <2>3. Cardinality(above(S, c)) \in Nat /\ Cardinality(above(S, b)) \in Nat
    BY <1>5, <2>1
  <2> QED
    BY <1>1, <1>3, <2>2, <2>3
<1>7. ASSUME S # {} PROVE P # {}
  <2>1. Max(S) \in S /\ \A c \in S : c <= Max(S)
    BY <1>4, <1>7, MaxIsGreatest
  <2>2. above(S, Max(S)) = {}
    <3>1. \A c \in S : c \in Int /\ Max(S) \in Int
      BY <1>4, <2>1 DEF IntSet
    <3>2. \A c \in S : ~(c > Max(S))
      BY <2>1, <3>1
    <3> QED BY <3>2 DEF above
  <2>3. Cardinality(above(S, Max(S))) = 0
    BY <2>2, FS_EmptySet
  <2> QED
    BY <1>1, <1>3, <2>1, <2>3
<1>8. ASSUME Cardinality(P) < limit[s] PROVE P = S
  <2> SUFFICES ASSUME P # S PROVE FALSE
    OBVIOUS
  <2> DEFINE M == S \ P
  <2>1. M # {} /\ M \in SUBSET S /\ P \in SUBSET S
    BY <1>3
  <2>2. IntSet(M)
    BY <1>4, <1>5, <2>1 DEF IntSet
  <2> HIDE DEF M
  <2>3. Max(M) \in M /\ \A c \in M : c <= Max(M)
    BY <2>1, <2>2, MaxIsGreatest
  <2>4. above(S, Max(M)) \in SUBSET P
    <3>1. \A c \in S : c \in Int
      BY <1>4 DEF IntSet
    <3>2. Max(M) \in Int /\ \A c \in M : ~(c > Max(M))
      BY <2>1, <2>3, <3>1
    <3> QED BY <3>2 DEF above, M
  <2>5. Cardinality(above(S, Max(M))) <= Cardinality(P)
    BY <1>5, <2>1, <2>4, FS_Subset
  <2>6. Cardinality(above(S, Max(M))) \in Nat /\ Cardinality(P) \in Nat
    BY <1>5, <2>1, <2>4
  <2>7. Max(M) \in P
    BY <1>1, <1>3, <1>8, <2>1, <2>3, <2>5, <2>6
  <2> QED
    BY <2>3, <2>7 DEF M
<1>9. P \subseteq S
  BY <1>3
<1> QED
  BY <1>2, <1>6, <1>7, <1>8, <1>9 DEF S, P

-----------------------------------------------------------------------------
(* The invariant. *)

\* Rows written or on their way to the table.
Written == stored \cup ToSet(queue)

Up == phase \notin {"down", "load"}

\* Outside a life and before its progress is known, nothing is under way.
PhaseShape ==
  /\ ~Up => queue = <<>> /\ open = {}
  /\ phase \notin {"pass", "retry"} => \A s \in Symbols : jpc[s] = "none"
  /\ phase \in {"pass", "retry"} => ~full

\* A row is of a bar that has closed and that the exchange served, and one
\* that is queued belongs to a symbol that is not committed.
RowShape ==
  /\ \A r \in Written : r[2] < clock /\ r[2] < published[r[1]]
  /\ \A r \in ToSet(queue) : r[1] \in open

\* The promise itself, and for the ratios over a stop.
Kept(s) == s \notin torn \/ (buffered /\ ~lossy)
NoHoles == \A s \in Symbols : Kept(s) => NoHole(s)

\* What LoadState will find of a symbol with nothing in flight has no hole.
Closed ==
  \A s \in Symbols \ (torn \cup open) : \A b, c \in Bars :
    <<s, b>> \in stored /\ base[s] <= c /\ c <= b => <<s, c>> \in stored

\* It is progress already, or older than any pass of this life will look.
Behind ==
  Up => \A s \in Symbols \ (torn \cup open) : \A b \in Bars :
    <<s, b>> \in stored => b <= last[s] \/ (~full /\ b < Since(s))

\* A job fetches again from the progress on, or moves the base.
JobShape ==
  \A s \in Symbols : jpc[s] # "none" =>
    /\ base[s] = since[s] \/ since[s] <= last[s]
    /\ since[s] <= Since(s) /\ needed[s] >= 1

\* No page of the job has had a point yet.
Untouched(s) == newest[s] = None /\ pages[s] = {}

\* The bars from upto to the newest have been fetched.
FetchOf(s) ==
  /\ limit[s] >= 1 /\ upto[s] <= clock
  /\ Untouched(s) => \A b \in Bars : <<s, b>> \in Written => b < upto[s]
  /\ ~Untouched(s) => upto[s] <= published[s] /\ since[s] < upto[s]
  /\ buffered =>
       /\ newest[s] = None
       /\ \A c \in pages[s] : since[s] <= c /\ c < clock /\ c < published[s]
       /\ \A c \in pages[s], b \in Bars : upto[s] <= b /\ b <= c => b \in pages[s]
       /\ ~Untouched(s) => \A b \in Bars : <<s, b>> \in Written => \E c \in pages[s] : b <= c
  /\ ~buffered =>
       /\ pages[s] = {}
       /\ ~dropped => \A b \in Bars : upto[s] <= b /\ b <= newest[s] => <<s, b>> \in Written
       /\ ~Untouched(s) => \A b \in Bars : <<s, b>> \in Written => b <= newest[s]

FetchShape == \A s \in Symbols : jpc[s] = "fetch" => FetchOf(s)

\* The range of a job that is done has been fetched to its end.
DoneOf(s) ==
  /\ ~dropped => \A b \in Bars : since[s] <= b /\ b <= newest[s] => <<s, b>> \in Written
  /\ \A b \in Bars : <<s, b>> \in Written =>
       b <= newest[s] \/ (newest[s] = None /\ b < since[s])

DoneShape == \A s \in Symbols : jpc[s] = "done" => DoneOf(s)

\* Bars below a row that must be written before it.
Due(s, c) == base[s] <= c \/ (Up /\ last[s] < c /\ Since(s) <= c)

\* The ratios: a bar is stored, or queued, after those below it.
OrderOf(s, b, c) ==
  /\ <<s, b>> \in stored => <<s, c>> \in stored
  /\ \A i \in 1..Len(queue) : queue[i] = <<s, b>> =>
       <<s, c>> \in stored \/ \E j \in 1..Len(queue) : j < i /\ queue[j] = <<s, c>>

Ordered ==
  buffered /\ ~lossy =>
    \A s \in Symbols, b, c \in Bars : c < b /\ Due(s, c) => OrderOf(s, b, c)

IInv == /\ TypeOK /\ PhaseShape /\ RowShape
        /\ NoHoles /\ Closed /\ Behind /\ Ordered
        /\ JobShape /\ FetchShape /\ DoneShape

-----------------------------------------------------------------------------
(* Types. *)

\* Since, of the clock, the progress and the kind of pass.
SinceOf(c, l, f) ==
  LET from == IF l = None THEN c - ColdStart ELSE l
      page == c - (MaxLimit - LimitMargin)
  IN AtLeast(AtLeast(IF f THEN AtMost(from, page) ELSE from, c - MaxBackfill), 0)

\* The oldest bar to fetch is a bar.
LEMMA SinceOfInRange ==
  ASSUME NEW c \in 0..MaxClock, NEW l \in Bars \cup {None}, NEW f \in BOOLEAN
  PROVE  SinceOf(c, l, f) \in 0..MaxClock
<1>1. /\ MaxClock \in Nat /\ MaxLimit \in Nat /\ LimitMargin \in Nat /\ ColdStart \in Nat
      /\ MaxBackfill \in Nat
  BY HistAssumption
<1>2. l = None \/ l \in 0..(MaxClock - 1)
  BY <1>1 DEF Bars
<1> DEFINE from == IF l = None THEN c - ColdStart ELSE l
           look == IF f THEN AtMost(from, c - (MaxLimit - LimitMargin)) ELSE from
<1>3. from \in Int /\ from <= MaxClock
  BY <1>1, <1>2
<1> HIDE DEF from
<1>4. look \in Int /\ look <= MaxClock
  <2>1. AtMost(from, c - (MaxLimit - LimitMargin)) \in Int
    BY <1>1, <1>3 DEF AtMost
  <2>2. AtMost(from, c - (MaxLimit - LimitMargin)) <= from
    BY <1>1, <1>3 DEF AtMost
  <2> QED
    BY <1>1, <1>3, <2>1, <2>2
<1>5. SinceOf(c, l, f) = AtLeast(AtLeast(look, c - MaxBackfill), 0)
  BY DEF SinceOf, from
<1> HIDE DEF look
<1>6. AtLeast(look, c - MaxBackfill) \in Int /\ AtLeast(look, c - MaxBackfill) <= MaxClock
  BY <1>1, <1>4 DEF AtLeast
<1> QED
  BY <1>1, <1>5, <1>6 DEF AtLeast

\* So it is in both states of a step.
LEMMA SinceInRange ==
  ASSUME NEW s \in Symbols
  PROVE  /\ TypeOK => Since(s) \in 0..MaxClock
         /\ TypeOK' => Since(s)' \in 0..MaxClock
<1>1. /\ Since(s) = SinceOf(clock, last[s], full)
      /\ Since(s)' = SinceOf(clock', last'[s], full')
  BY DEF Since, SinceOf
<1>2. TypeOK => clock \in 0..MaxClock /\ last[s] \in Bars \cup {None} /\ full \in BOOLEAN
  BY DEF TypeOK, WorldOK, MemoryOK
<1>3. TypeOK' => clock' \in 0..MaxClock /\ last'[s] \in Bars \cup {None} /\ full' \in BOOLEAN
  BY DEF TypeOK, WorldOK, MemoryOK
<1> QED
  BY <1>1, <1>2, <1>3, SinceOfInRange

\* AtLeast is monotonic.
LEMMA AtLeastGrows ==
  ASSUME NEW x \in Int, NEW y \in Int, NEW v \in Int, NEW w \in Int, x <= y, v <= w
  PROVE  /\ AtLeast(x, v) <= AtLeast(y, w)
         /\ AtLeast(x, v) \in Int /\ AtLeast(y, w) \in Int
BY DEF AtLeast

\* The oldest bar to fetch moves on with the clock.
LEMMA SinceOfGrows ==
  ASSUME NEW c \in Int, NEW d \in Int, c <= d, NEW l \in Bars \cup {None},
         NEW f \in BOOLEAN, NEW g \in BOOLEAN, g => f
  PROVE  SinceOf(c, l, f) <= SinceOf(d, l, g)
<1> DEFINE from(x) == IF l = None THEN x - ColdStart ELSE l
           page(x) == x - (MaxLimit - LimitMargin)
           look(x, h) == IF h THEN AtMost(from(x), page(x)) ELSE from(x)
<1>1. /\ MaxClock \in Nat /\ MaxLimit \in Nat /\ LimitMargin \in Nat /\ ColdStart \in Nat
      /\ MaxBackfill \in Nat
  BY HistAssumption
<1>2. l = None \/ l \in Int
  BY <1>1 DEF Bars
<1>3. from(c) \in Int /\ from(d) \in Int /\ from(c) <= from(d)
  BY <1>1, <1>2
<1>4. page(c) \in Int /\ page(d) \in Int /\ page(c) <= page(d)
  BY <1>1
<1> HIDE DEF from, page
<1>5. look(c, f) \in Int /\ look(d, g) \in Int /\ look(c, f) <= look(d, g)
  <2>1. AtMost(from(c), page(c)) \in Int /\ AtMost(from(d), page(d)) \in Int
    BY <1>3, <1>4 DEF AtMost
  <2>2. /\ AtMost(from(c), page(c)) <= AtMost(from(d), page(d))
        /\ AtMost(from(c), page(c)) <= from(d)
    BY <1>3, <1>4 DEF AtMost
  <2>3. CASE f = TRUE /\ g = TRUE
    BY <2>1, <2>2, <2>3
  <2>4. CASE f = TRUE /\ g = FALSE
    BY <1>3, <2>1, <2>2, <2>4
  <2>5. CASE f = FALSE /\ g = FALSE
    BY <1>3, <2>5
  <2> QED
    BY <2>3, <2>4, <2>5
<1>6. /\ SinceOf(c, l, f) = AtLeast(AtLeast(look(c, f), c - MaxBackfill), 0)
      /\ SinceOf(d, l, g) = AtLeast(AtLeast(look(d, g), d - MaxBackfill), 0)
  BY DEF SinceOf, from, page
<1> HIDE DEF look
<1>7. c - MaxBackfill \in Int /\ d - MaxBackfill \in Int /\ c - MaxBackfill <= d - MaxBackfill
  BY <1>1
<1>8. /\ AtLeast(look(c, f), c - MaxBackfill) <= AtLeast(look(d, g), d - MaxBackfill)
      /\ AtLeast(look(c, f), c - MaxBackfill) \in Int
      /\ AtLeast(look(d, g), d - MaxBackfill) \in Int
  BY <1>5, <1>7, AtLeastGrows
<1> QED
  BY <1>6, <1>8, AtLeastGrows

\* Since moves up with the clock and at the end of the start-up pass.
LEMMA SinceGrows ==
  ASSUME TypeOK, TypeOK', last' = last, clock <= clock', full' \in {full, FALSE},
         NEW s \in Symbols
  PROVE  Since(s) <= Since(s)'
<1>1. /\ clock \in Int /\ clock' \in Int /\ last[s] \in Bars \cup {None} /\ full \in BOOLEAN
  BY HistAssumption DEF TypeOK, WorldOK, MemoryOK
<1>2. /\ Since(s) = SinceOf(clock, last[s], full)
      /\ Since(s)' = SinceOf(clock', last[s], full')
  BY DEF Since, SinceOf
<1>3. CASE full' = full
  <2>1. Since(s)' = SinceOf(clock', last[s], full)
    BY <1>2, <1>3
  <2> QED BY <1>1, <1>2, <2>1, SinceOfGrows
<1>4. CASE full' = FALSE
  <2>1. Since(s)' = SinceOf(clock', last[s], FALSE)
    BY <1>2, <1>4
  <2>2. FALSE \in BOOLEAN /\ (FALSE => full)
    OBVIOUS
  <2>3. SinceOf(clock, last[s], full) <= SinceOf(clock', last[s], FALSE)
    BY <1>1, <2>2, SinceOfGrows
  <2> QED BY <1>2, <2>1, <2>3
<1> QED
  BY <1>3, <1>4

\* It depends on the clock, the progress and the kind of pass only.
LEMMA SinceSame ==
  ASSUME clock' = clock, full' = full, NEW s, last'[s] = last[s]
  PROVE  Since(s)' = Since(s)
BY DEF Since

\* Types of the initial states.
LEMMA TypeInit == Init => TypeOK
<1> SUFFICES ASSUME Init PROVE TypeOK
  OBVIOUS
<1>1. /\ FirstClock \in 0..MaxClock /\ 0 \in 0..MaxClock /\ 0 \in 0..MaxLives /\ 0 \in 0..MaxLimit
  BY HistAssumption
<1>2. WorldOK
  BY <1>1 DEF Init, WorldOK
<1>3. TableOK
  BY EmptySeq DEF Init, TableOK
<1>4. MemoryOK
  BY <1>1 DEF Init, MemoryOK
<1>5. JobsOK
  BY <1>1 DEF Init, NoJobs, JobsOK
<1> QED
  BY <1>2, <1>3, <1>4, <1>5 DEF TypeOK

\* Forgotten jobs are well typed.
LEMMA NoJobsOK == ForgetJobs => JobsOK'
<1>1. 0 \in 0..MaxClock /\ 0 \in 0..MaxLimit
  BY HistAssumption
<1> QED
  BY <1>1 DEF ForgetJobs, JobsOK

\* Both parts of the queue are of rows.
LEMMA QueueParts ==
  ASSUME TypeOK, NEW n \in 0..Len(queue)
  PROVE  /\ ToSet(SubSeq(queue, 1, n)) \subseteq Rows
         /\ SubSeq(queue, n + 1, Len(queue)) \in Seq(Rows)
         /\ ToSet(queue) \subseteq Rows
<1>1. queue \in Seq(Rows)
  BY DEF TypeOK, TableOK
<1> HIDE DEF Rows
<1>2. /\ SubSeq(queue, n + 1, Len(queue)) \in Seq(Rows)
      /\ ToSet(queue) = ToSet(SubSeq(queue, 1, n)) \cup ToSet(SubSeq(queue, n + 1, Len(queue)))
      /\ ToSet(queue) \subseteq Rows
  BY <1>1, ElementsOfParts
<1> QED
  BY <1>2

\* A push keeps the types.
LEMMA TypePush ==
  ASSUME TypeOK, NEW s \in Symbols, NEW B \in SUBSET Bars, Push(s, B)
  PROVE  /\ queue' \in Seq(Rows)
         /\ newest' \in [Symbols -> Bars \cup {None}]
         /\ open' \in SUBSET Symbols
<1>1. queue \in Seq(Rows) /\ newest \in [Symbols -> Bars \cup {None}] /\ open \in SUBSET Symbols
  BY DEF TypeOK, TableOK, JobsOK, MemoryOK
<1>2. RowsOf(s, B) \in Seq(Rows)
  BY RowsOfBars
<1>3. queue' \in Seq(Rows)
  <2> HIDE DEF Rows
  <2> QED BY <1>1, <1>2, ElementsOfTwo DEF Push
<1>4. MaxOr(B \cup {newest[s]}, None) \in Bars \cup {None}
  BY <1>1, NewestOf
<1>5. newest' = [newest EXCEPT ![s] = MaxOr(B \cup {newest[s]}, None)] /\ open' = open \cup {s}
  BY DEF Push
<1> QED
  BY <1>1, <1>3, <1>4, <1>5

\* A page keeps the types.
LEMMA TypeFetchPage ==
  ASSUME TypeOK, NEW s \in Symbols, FetchPage(s)
  PROVE  TypeOK'
<1> DEFINE page == PageOf(s)
           low  == IF page = {} THEN 0 ELSE Min(page)
           ends == Cardinality(page) < limit[s] \/ low <= since[s]
<1>1. /\ since[s] \in 0..MaxClock /\ upto[s] \in 0..MaxClock /\ published[s] \in 0..MaxClock
      /\ pages[s] \in SUBSET Bars /\ MaxClock \in Nat
      /\ MaxLimit \in Nat /\ LimitMargin \in Nat
  BY HistAssumption DEF TypeOK, JobsOK, WorldOK
<1>2. page \in SUBSET Bars
  BY <1>1 DEF PageOf, Bars
<1>3. low \in 0..MaxClock
  <2>1. CASE page = {}
    BY <1>1, <2>1
  <2>2. CASE page # {}
    <3>1. Min(page) \in page
      <4>1. IntSet(page)
        BY <1>2, BarsFinite
      <4> QED BY <2>2, <4>1, MinIsLeast
    <3> QED BY <1>1, <1>2, <2>2, <3>1 DEF Bars
  <2> QED BY <2>1, <2>2
<1>4. IF ends
      THEN jpc' = [jpc EXCEPT ![s] = "done"] /\ upto' = upto /\ limit' = limit
      ELSE /\ upto' = [upto EXCEPT ![s] = low]
           /\ limit' = [limit EXCEPT ![s] = AtMost(low - since[s] + 1 + LimitMargin, MaxLimit)]
           /\ jpc' = jpc
  BY DEF FetchPage
<1>5. \/ queue' = queue /\ newest' = newest /\ open' = open /\ pages' = pages
      \/ Emit(s, page, ends)
  BY DEF FetchPage
<1>6. UNCHANGED <<buffered, clock, settled, published, healthy, stored, dropped, lossy, lives,
                  phase, full, last, since, needed, base, torn>>
  BY DEF FetchPage, envVars, memVars
<1> HIDE DEF page, low
<1>7. /\ jpc' \in [Symbols -> {"none", "todo", "fetch", "done", "failed"}]
      /\ upto' \in [Symbols -> 0..MaxClock] /\ limit' \in [Symbols -> 0..MaxLimit]
  <2>1. /\ jpc \in [Symbols -> {"none", "todo", "fetch", "done", "failed"}]
        /\ upto \in [Symbols -> 0..MaxClock] /\ limit \in [Symbols -> 0..MaxLimit]
    BY DEF TypeOK, JobsOK
  <2>2. ~ends => AtMost(low - since[s] + 1 + LimitMargin, MaxLimit) \in 0..MaxLimit
    BY <1>1, <1>3 DEF AtMost
  <2> HIDE DEF ends
  <2> QED BY <1>3, <1>4, <2>1, <2>2
<1>8. /\ queue' \in Seq(Rows) /\ newest' \in [Symbols -> Bars \cup {None}]
      /\ open' \in SUBSET Symbols /\ pages' \in [Symbols -> SUBSET Bars]
  <2>1. /\ queue \in Seq(Rows) /\ newest \in [Symbols -> Bars \cup {None}]
        /\ open \in SUBSET Symbols /\ pages \in [Symbols -> SUBSET Bars]
    BY DEF TypeOK, JobsOK, TableOK, MemoryOK
  <2> HIDE DEF ends
  <2>2. CASE Push(s, page) /\ pages' = pages
    BY <1>2, <2>1, <2>2, TypePush
  <2>3. CASE pages' = [pages EXCEPT ![s] = @ \cup page] /\ UNCHANGED <<queue, newest, open>>
    BY <1>2, <2>1, <2>3
  <2>4. CASE Push(s, pages[s] \cup page) /\ pages' = [pages EXCEPT ![s] = {}]
    BY <1>1, <1>2, <2>1, <2>4, TypePush
  <2>5. CASE queue' = queue /\ newest' = newest /\ open' = open /\ pages' = pages
    BY <2>1, <2>5
  <2> QED
    BY <1>5, <2>2, <2>3, <2>4, <2>5 DEF Emit
<1> QED
  BY <1>6, <1>7, <1>8 DEF TypeOK, WorldOK, TableOK, MemoryOK, JobsOK

\* Every step keeps the types.
LEMMA TypeNext == TypeOK /\ [Next]_vars => TypeOK'
<1> SUFFICES ASSUME TypeOK, [Next]_vars PROVE TypeOK'
  OBVIOUS
<1> USE HistAssumption
<1>1. CASE Tick
  <2>1. clock' \in 0..MaxClock
    BY <1>1 DEF Tick, TypeOK, WorldOK
  <2>2. WorldOK'
    BY <1>1, <2>1 DEF Tick, TypeOK, WorldOK, writerVars
  <2> QED
    BY <1>1, <2>2 DEF Tick, TypeOK, TableOK, MemoryOK, JobsOK, writerVars, memVars, jobVars, histVars
<1>2. CASE Settle
  BY <1>2 DEF Settle, TypeOK, WorldOK, TableOK, MemoryOK, JobsOK, writerVars, memVars, jobVars, histVars
<1>3. CASE Heal
  BY <1>3 DEF Heal, TypeOK, WorldOK, TableOK, MemoryOK, JobsOK, writerVars, memVars, jobVars, histVars
<1>4. ASSUME NEW s \in Symbols, PublishBar(s) PROVE TypeOK'
  <2>1. WorldOK'
    <3>1. published \in [Symbols -> 0..MaxClock] /\ clock \in 0..MaxClock
      BY DEF TypeOK, WorldOK
    <3>2. published[s] + 1 \in 0..MaxClock
      BY <1>4, <3>1 DEF PublishBar
    <3> QED BY <1>4, <3>1, <3>2 DEF PublishBar, TypeOK, WorldOK
  <2> QED
    BY <1>4, <2>1 DEF PublishBar, TypeOK, TableOK, MemoryOK, JobsOK, writerVars, memVars, jobVars,
                      histVars
<1>5. CASE WriteBatch
  <2>1. PICK n \in 1..Len(queue) :
          /\ \/ /\ stored' = stored \cup ToSet(SubSeq(queue, 1, n))
                /\ UNCHANGED <<dropped, lossy>>
             \/ GaveUp(ToSet(SubSeq(queue, 1, n))) /\ dropped' = TRUE
          /\ queue' = SubSeq(queue, n + 1, Len(queue))
    BY <1>5 DEF WriteBatch
  <2>2. UNCHANGED <<buffered, envVars, lives, memVars, jobVars, histVars>>
    BY <1>5 DEF WriteBatch
  <2>3. n \in 0..Len(queue)
    OBVIOUS
  <2>4. queue' \in Seq(Rows) /\ ToSet(SubSeq(queue, 1, n)) \subseteq Rows
    BY <2>1, <2>3, QueueParts
  <2>5. TableOK'
    BY <2>1, <2>4 DEF GaveUp, TypeOK, TableOK
  <2> QED
    BY <2>2, <2>5 DEF TypeOK, WorldOK, MemoryOK, JobsOK, envVars, memVars, jobVars, histVars
<1>6. CASE LiveBatchDropped
  BY <1>6 DEF LiveBatchDropped, TypeOK, WorldOK, TableOK, MemoryOK, JobsOK, envVars, memVars, jobVars,
              histVars
<1>7. CASE Start
  BY <1>7 DEF Start, TypeOK, WorldOK, TableOK, MemoryOK, JobsOK, envVars, writerVars, jobVars, histVars
<1>8. CASE LoadState
  <2>1. ASSUME NEW s \in Symbols
        PROVE  MaxOr(BarsOf(s, stored), None) \in Bars \cup {None}
    <3>1. BarsOf(s, stored) \in SUBSET Bars
      BY DEF BarsOf, TypeOK, TableOK, Rows
    <3>2. IntSet(BarsOf(s, stored))
      BY <3>1, BarsFinite
    <3> QED BY <3>1, <3>2, MaxIsGreatest DEF MaxOr
  <2> QED
    BY <1>8, <2>1 DEF LoadState, TypeOK, WorldOK, TableOK, MemoryOK, JobsOK, envVars, writerVars,
                      jobVars, histVars
<1>9. CASE Plan
  <2>1. \A s \in Symbols : Since(s) \in 0..MaxClock
    BY SinceInRange
  <2>2. \A s \in Planned : clock - Since(s) \in 0..MaxClock
    BY <2>1 DEF Planned, TypeOK, WorldOK
  <2> HIDE DEF Since, Planned
  <2>3. 0 \in 0..MaxClock
    OBVIOUS
  <2>4. /\ since' = [s \in Symbols |-> IF s \in Planned THEN Since(s) ELSE 0]
        /\ needed' = [s \in Symbols |-> IF s \in Planned THEN clock - Since(s) ELSE 0]
        /\ jpc' = [s \in Symbols |-> IF s \in Planned THEN "todo" ELSE "none"]
        /\ newest' = [s \in Symbols |-> None]
        /\ UNCHANGED <<upto, limit, pages>>
    BY <1>9 DEF Plan
  <2>5. JobsOK'
    BY <2>1, <2>2, <2>3, <2>4 DEF TypeOK, JobsOK
  <2>6. MemoryOK'
    BY <1>9, <2>1 DEF Plan, TypeOK, MemoryOK
  <2> QED
    BY <1>9, <2>5, <2>6 DEF Plan, TypeOK, WorldOK, TableOK, envVars, writerVars
<1>10. ASSUME NEW s \in Symbols, BeginFetch(s) PROVE TypeOK'
  <2>1. AtMost(needed[s] + LimitMargin, MaxLimit) \in 0..MaxLimit
    BY DEF AtMost, TypeOK, JobsOK
  <2>2. JobsOK'
    BY <1>10, <2>1 DEF BeginFetch, TypeOK, JobsOK, WorldOK
  <2> QED
    BY <1>10, <2>2 DEF BeginFetch, TypeOK, WorldOK, TableOK, MemoryOK, envVars, writerVars, memVars,
                       histVars
<1>11. ASSUME NEW s \in Symbols, FetchPage(s) PROVE TypeOK'
  BY <1>11, TypeFetchPage
<1>12. ASSUME NEW s \in Symbols, FetchFails(s) PROVE TypeOK'
  BY <1>12 DEF FetchFails, TypeOK, WorldOK, TableOK, MemoryOK, JobsOK, envVars, writerVars, memVars,
               histVars
<1>13. CASE Retry
  BY <1>13 DEF Retry, TypeOK, WorldOK, TableOK, MemoryOK, JobsOK, envVars, writerVars, histVars
<1>14. CASE EndPass
  <2>1. PICK ok \in BOOLEAN : Barrier(ok) /\ Commit(ok)
    BY <1>14 DEF EndPass
  <2>2. ToSet(queue) \subseteq Rows
    <3>1. 0 \in 0..Len(queue)
      BY LenProperties DEF TypeOK, TableOK
    <3> QED BY <3>1, QueueParts
  <2>3. TableOK'
    BY <2>1, <2>2, EmptySeq DEF Barrier, GaveUp, TypeOK, TableOK
  <2>4. ASSUME NEW s \in Symbols
        PROVE  MaxOr({last[s], newest[s]}, None) \in Bars \cup {None}
    <3>1. last[s] \in Bars \cup {None} /\ newest[s] \in Bars \cup {None}
      BY DEF TypeOK, MemoryOK, JobsOK
    <3>2. IntSet({last[s], newest[s]})
      BY <3>1, BarsFinite
    <3> QED BY <3>1, <3>2, MaxIsGreatest DEF MaxOr
  <2>5. MemoryOK'
    BY <1>14, <2>1, <2>4 DEF EndPass, Commit, TypeOK, MemoryOK
  <2> QED
    BY <1>14, <2>3, <2>5, NoJobsOK DEF EndPass, TypeOK, WorldOK, envVars
<1>15. CASE Down
  <2>1. PICK n \in 0..Len(queue) : stored' = stored \cup ToSet(SubSeq(queue, 1, n))
    BY <1>15 DEF Down
  <2>2. TableOK'
    BY <1>15, <2>1, QueueParts, EmptySeq DEF Down, TypeOK, TableOK
  <2> QED
    BY <1>15, <2>2, NoJobsOK DEF Down, TypeOK, WorldOK, MemoryOK, envVars
<1>16. CASE UNCHANGED vars
  BY <1>16 DEF vars, TypeOK, WorldOK, TableOK, MemoryOK, JobsOK, envVars, writerVars, memVars, jobVars,
               histVars
<1> QED
  BY <1>1, <1>2, <1>3, <1>4, <1>5, <1>6, <1>7, <1>8, <1>9, <1>10, <1>11, <1>12, <1>13, <1>14, <1>15,
     <1>16 DEF Next, Reconcile

-----------------------------------------------------------------------------
(* The steps of the exchange, and the simple steps of the reconciler. *)

\* The types of the single values.
LEMMA TypedState ==
  ASSUME TypeOK
  PROVE  /\ clock \in 0..MaxClock /\ MaxClock \in Nat
         /\ stored \subseteq Rows /\ ToSet(queue) \subseteq Rows /\ Written \subseteq Rows
         /\ \A s \in Symbols :
              /\ published[s] \in 0..MaxClock
              /\ last[s] \in Bars \cup {None} /\ newest[s] \in Bars \cup {None}
              /\ base[s] \in 0..MaxClock /\ since[s] \in 0..MaxClock
              /\ needed[s] \in 0..MaxClock /\ upto[s] \in 0..MaxClock
              /\ pages[s] \in SUBSET Bars
              /\ Since(s) \in 0..MaxClock
         /\ \A b \in Bars : b \in Int /\ b >= 0 /\ b < MaxClock
<1>1. ToSet(queue) \subseteq Rows
  <2>1. 0 \in 0..Len(queue)
    BY LenProperties DEF TypeOK, TableOK
  <2> QED BY <2>1, QueueParts
<1>2. stored \subseteq Rows
  BY DEF TypeOK, TableOK
<1>3. clock \in 0..MaxClock /\ MaxClock \in Nat
  BY HistAssumption DEF TypeOK, WorldOK
<1>4. \A b \in Bars : b \in Int /\ b >= 0 /\ b < MaxClock
  BY HistAssumption DEF Bars
<1>5. ASSUME NEW s \in Symbols
      PROVE  /\ published[s] \in 0..MaxClock
             /\ last[s] \in Bars \cup {None} /\ newest[s] \in Bars \cup {None}
             /\ base[s] \in 0..MaxClock /\ since[s] \in 0..MaxClock
             /\ needed[s] \in 0..MaxClock /\ upto[s] \in 0..MaxClock
             /\ pages[s] \in SUBSET Bars
  BY DEF TypeOK, WorldOK, MemoryOK, JobsOK
<1> QED
  BY <1>1, <1>2, <1>3, <1>4, <1>5, SinceInRange DEF Written

\* Time passes, bars are served, outages end, a batch of others is lost.
LEMMA EnvKeeps ==
  ASSUME IInv, TypeOK', clock <= clock', \A s \in Symbols : published[s] <= published'[s],
         dropped' \in {dropped, TRUE},
         UNCHANGED <<buffered, stored, queue, lossy, phase, full, last, jpc, since, needed, upto,
                     limit, pages, newest, base, open, torn>>
  PROVE  IInv'
<1>1. TypeOK
  BY DEF IInv
<1>2. /\ clock \in Int /\ clock' \in Int
      /\ \A s \in Symbols : published[s] \in Int /\ published'[s] \in Int
  BY <1>1, HistAssumption DEF TypeOK, WorldOK
<1>3. Written' = Written /\ Written \subseteq Rows /\ ToSet(queue) \subseteq Rows
  BY <1>1, TypedState DEF Written
<1>4. \A b \in Bars : b \in Int
  BY <1>1, TypedState
<1>5. \A s \in Symbols : Since(s) <= Since(s)' /\ Since(s) \in Int /\ Since(s)' \in Int
  <2>1. \A s \in Symbols : Since(s) <= Since(s)'
    BY <1>1, SinceGrows
  <2>2. \A s \in Symbols : Since(s) \in Int
    BY <1>1, TypedState
  <2>3. \A s \in Symbols : Since(s)' \in 0..MaxClock
    BY SinceInRange
  <2> QED BY <2>1, <2>2, <2>3, HistAssumption
<1>6. PhaseShape'
  BY DEF IInv, PhaseShape, Up
<1>7. RowShape'
  BY <1>2, <1>3, <1>4 DEF IInv, RowShape, Rows
<1>8. NoHoles'
  BY DEF IInv, NoHoles, NoHole, Kept
<1>9. Closed'
  BY DEF IInv, Closed
<1>10. Behind'
  <2> SUFFICES ASSUME Up, NEW s \in Symbols \ (torn \cup open), NEW b \in Bars, <<s, b>> \in stored
               PROVE  b <= last[s] \/ (~full /\ b < Since(s)')
    BY DEF Behind, Up
  <2>1. b <= last[s] \/ (~full /\ b < Since(s))
    BY DEF IInv, Behind
  <2> QED
    BY <1>4, <1>5, <2>1
<1>11. JobShape'
  <2> SUFFICES ASSUME NEW s \in Symbols, jpc[s] # "none"
               PROVE  /\ base[s] = since[s] \/ since[s] <= last[s]
                      /\ since[s] <= Since(s)' /\ needed[s] >= 1
    BY DEF JobShape
  <2>1. /\ base[s] = since[s] \/ since[s] <= last[s]
        /\ since[s] <= Since(s) /\ needed[s] >= 1
    BY DEF IInv, JobShape
  <2>2. since[s] \in Int
    BY <1>1, TypedState
  <2> QED
    BY <1>5, <2>1, <2>2
<1>12. DoneShape'
  <2>1. ~dropped' => ~dropped
    OBVIOUS
  <2> QED BY <1>3, <2>1 DEF IInv, DoneShape, DoneOf
<1>13. FetchShape'
  <2> SUFFICES ASSUME NEW s \in Symbols, jpc[s] = "fetch"
               PROVE  FetchOf(s)'
    BY DEF FetchShape
  <2>1. FetchOf(s)
    BY DEF IInv, FetchShape
  <2>2. upto[s] \in Int /\ pages[s] \subseteq Int
    BY <1>1, <1>4, TypedState
  <2>3. upto[s] <= clock' /\ (~Untouched(s) => upto[s] <= published'[s] /\ since[s] < upto[s])
    BY <1>2, <2>1, <2>2 DEF FetchOf
  <2>4. buffered => \A c \in pages[s] : c < clock' /\ c < published'[s]
    BY <1>2, <2>1, <2>2 DEF FetchOf
  <2> QED
    BY <1>3, <2>1, <2>3, <2>4 DEF FetchOf, Untouched
<1>14. Ordered'
  <2> SUFFICES ASSUME buffered, ~lossy, NEW s \in Symbols, NEW b \in Bars, NEW c \in Bars,
                      c < b, Due(s, c)'
               PROVE  OrderOf(s, b, c)
    BY DEF Ordered, OrderOf
  <2>1. Due(s, c)
    BY <1>4, <1>5 DEF Due, Up
  <2> QED
    BY <2>1 DEF IInv, Ordered
<1> QED
  BY <1>6, <1>7, <1>8, <1>9, <1>10, <1>11, <1>12, <1>13, <1>14 DEF IInv

\* A life begins.
LEMMA StartKeeps == IInv /\ TypeOK' /\ Start => IInv'
<1> SUFFICES ASSUME IInv, TypeOK', Start PROVE IInv'
  OBVIOUS
<1>1. /\ phase = "down" /\ phase' = "load" /\ full' = TRUE
      /\ UNCHANGED <<buffered, clock, settled, published, healthy, stored, queue, dropped, lossy,
                     last, jpc, since, needed, upto, limit, pages, newest, base, open, torn>>
  BY DEF Start, envVars, writerVars, jobVars, histVars
<1>2. PhaseShape' /\ JobShape' /\ FetchShape' /\ DoneShape'
  <2>1. \A s \in Symbols : jpc[s] = "none"
    BY <1>1 DEF IInv, PhaseShape
  <2> QED
    BY <1>1, <2>1 DEF IInv, PhaseShape, Up, JobShape, FetchShape, DoneShape
<1>3. RowShape'
  BY <1>1 DEF IInv, RowShape, Written
<1>4. NoHoles' /\ Closed' /\ Behind'
  BY <1>1 DEF IInv, NoHoles, NoHole, Kept, Closed, Behind, Up
<1>5. Ordered'
  BY <1>1 DEF IInv, Ordered, OrderOf, Due, Up
<1> QED
  BY <1>2, <1>3, <1>4, <1>5 DEF IInv

\* The progress is read from the table: Closed says that it has no hole.
LEMMA LoadStateKeeps == IInv /\ TypeOK' /\ LoadState => IInv'
<1> SUFFICES ASSUME IInv, TypeOK', LoadState PROVE IInv'
  OBVIOUS
<1>1. /\ phase = "load" /\ phase' = "idle"
      /\ last' = [s \in Symbols |-> MaxOr(BarsOf(s, stored), None)]
      /\ UNCHANGED <<buffered, clock, settled, published, healthy, stored, queue, dropped, lossy,
                     full, jpc, since, needed, upto, limit, pages, newest, base, open, torn>>
  BY DEF LoadState, envVars, writerVars, jobVars, histVars
<1>2. queue = <<>> /\ open = {} /\ \A s \in Symbols : jpc[s] = "none"
  BY <1>1 DEF IInv, PhaseShape, Up
<1>3. /\ \A b \in Bars : b \in Int /\ b >= 0
      /\ \A s \in Symbols : base[s] \in Int
  BY TypedState, HistAssumption DEF IInv
<1>4. ASSUME NEW s \in Symbols
      PROVE  /\ \A b \in Bars : <<s, b>> \in stored => b <= last'[s]
             /\ last'[s] # None => last'[s] \in Bars /\ <<s, last'[s]>> \in stored
  <2> DEFINE B == BarsOf(s, stored)
  <2>1. stored \subseteq Rows
    BY TypedState DEF IInv
  <2>2. B \in SUBSET Bars /\ \A b \in Bars : b \in B <=> <<s, b>> \in stored
    BY <2>1 DEF BarsOf, Rows
  <2>3. IntSet(B)
    BY <2>2, BarsFinite
  <2>4. last'[s] = MaxOr(B, None)
    BY <1>1
  <2> HIDE DEF B
  <2>5. CASE B = {}
    BY <2>2, <2>4, <2>5 DEF MaxOr
  <2>6. CASE B # {}
    <3>1. last'[s] \in B /\ \A b \in B : b <= last'[s]
      BY <2>3, <2>4, <2>6, MaxIsGreatest DEF MaxOr
    <3> QED BY <2>2, <3>1
  <2> QED
    BY <2>5, <2>6
<1>5. PhaseShape' /\ JobShape' /\ FetchShape' /\ DoneShape'
  BY <1>1, <1>2 DEF PhaseShape, Up, JobShape, FetchShape, DoneShape
<1>6. RowShape'
  BY <1>1 DEF IInv, RowShape, Written
<1>7. NoHoles'
  <2> SUFFICES ASSUME NEW s \in Symbols, Kept(s), last'[s] # None, NEW b \in base[s]..last'[s]
               PROVE  <<s, b>> \in stored
    BY <1>1 DEF NoHoles, NoHole, Kept
  <2>1. last'[s] \in Bars /\ <<s, last'[s]>> \in stored
    BY <1>4
  <2>2. b \in Bars /\ base[s] <= b /\ b <= last'[s]
    <3>1. base[s] \in 0..MaxClock
      BY TypedState DEF IInv
    <3> QED BY <2>1, <3>1, HistAssumption DEF Bars
  <2>3. CASE s \notin torn
    BY <1>2, <2>1, <2>2, <2>3 DEF IInv, Closed
  <2>4. CASE buffered /\ ~lossy /\ b < last'[s]
    <3>1. Due(s, b)
      BY <2>2 DEF Due
    <3>2. OrderOf(s, last'[s], b)
      BY <2>1, <2>2, <2>4, <3>1 DEF IInv, Ordered
    <3> QED
      BY <2>1, <3>2 DEF OrderOf
  <2>5. b = last'[s] \/ b < last'[s]
    <3>1. PICK m \in Bars : m = last'[s]
      BY <2>1
    <3>2. b \in Int /\ m \in Int /\ b <= m
      BY <1>3, <2>2, <3>1
    <3> QED BY <3>1, <3>2
  <2> QED
    BY <2>1, <2>3, <2>4, <2>5 DEF Kept
<1>8. Closed'
  BY <1>1 DEF IInv, Closed
<1>9. Behind'
  BY <1>1, <1>4 DEF Behind
<1>10. Ordered'
  <2> SUFFICES ASSUME buffered, ~lossy, NEW s \in Symbols, NEW b \in Bars, NEW c \in Bars,
                      c < b, Due(s, c)', <<s, b>> \in stored
               PROVE  <<s, c>> \in stored
    <3>1. Len(queue) = 0
      BY <1>2, EmptySeq
    <3> QED BY <1>1, <3>1 DEF Ordered, OrderOf
  <2>1. b <= last'[s] /\ last'[s] \in Int
    <3>1. last'[s] \in Bars \cup {None}
      BY DEF TypeOK, MemoryOK
    <3>2. last'[s] \in Int
      BY <1>3, <3>1 DEF None
    <3> QED BY <1>4, <3>2
  <2>2. ~(last'[s] < c)
    BY <1>3, <2>1
  <2>3. Due(s, c)
    BY <1>1, <2>2 DEF Due
  <2> QED
    BY <2>3 DEF IInv, Ordered, OrderOf
<1> QED
  BY <1>5, <1>6, <1>7, <1>8, <1>9, <1>10 DEF IInv

\* A pass is planned: Behind says that a base that moves leaves nothing above it.
LEMMA PlanKeeps == IInv /\ TypeOK' /\ Plan => IInv'
<1> SUFFICES ASSUME IInv, TypeOK', Plan PROVE IInv'
  OBVIOUS
<1>1. /\ phase = "idle" /\ phase' = "pass" /\ full' = FALSE
      /\ UNCHANGED <<buffered, clock, settled, published, healthy, stored, queue, dropped, lossy,
                     last, open, torn>>
  BY DEF Plan, envVars, writerVars
<1>2. ASSUME NEW s \in Symbols
      PROVE  /\ jpc'[s] = IF s \in Planned THEN "todo" ELSE "none"
             /\ s \in Planned => since'[s] = Since(s) /\ needed'[s] = clock - Since(s)
             /\ base'[s] = IF s \in Planned /\ Since(s) > last[s] THEN Since(s) ELSE base[s]
             /\ s \in Planned => clock - Since(s) >= 1
  BY DEF Plan, Planned
<1>3. TypeOK
  BY DEF IInv
<1>4. /\ \A b \in Bars : b \in Int /\ b >= 0
      /\ \A s \in Symbols : base[s] \in Int /\ last[s] \in Int /\ Since(s) \in Int
  <2>1. \A s \in Symbols : last[s] \in Bars \cup {None}
    BY <1>3, TypedState
  <2> QED BY <1>3, <2>1, TypedState, HistAssumption DEF None
<1>5. \A s \in Symbols : Since(s) <= Since(s)' /\ Since(s)' \in Int
  <2>1. clock <= clock' /\ full' \in {full, FALSE}
    <3>1. clock \in Int
      BY <1>3, HistAssumption DEF TypeOK, WorldOK
    <3>2. clock <= clock'
      BY <1>1, <3>1
    <3> QED BY <1>1, <3>2
  <2>2. \A s \in Symbols : Since(s) <= Since(s)'
    BY <1>1, <1>3, <2>1, SinceGrows
  <2>3. \A s \in Symbols : Since(s)' \in 0..MaxClock
    BY SinceInRange
  <2> QED BY <2>2, <2>3, HistAssumption
<1> HIDE DEF Since, Planned
<1>6. PhaseShape' /\ FetchShape' /\ DoneShape'
  BY <1>1, <1>2 DEF PhaseShape, Up, FetchShape, DoneShape
<1>7. RowShape'
  BY <1>1 DEF IInv, RowShape, Written
<1>8. ASSUME NEW s \in Symbols, base'[s] # base[s]
      PROVE  base'[s] = Since(s) /\ last[s] < Since(s)
  BY <1>2, <1>4, <1>8
<1>9. NoHoles'
  <2> SUFFICES ASSUME NEW s \in Symbols, Kept(s), last[s] # None, NEW b \in base'[s]..last[s]
               PROVE  <<s, b>> \in stored
    BY <1>1 DEF NoHoles, NoHole, Kept
  <2>1. base'[s] = base[s]
    BY <1>4, <1>8
  <2> QED
    BY <2>1 DEF IInv, NoHoles, NoHole
<1>10. Closed'
  <2> SUFFICES ASSUME NEW s \in Symbols \ (torn \cup open), NEW b \in Bars, NEW c \in Bars,
                      <<s, b>> \in stored, base'[s] <= c, c <= b
               PROVE  <<s, c>> \in stored
    BY <1>1 DEF Closed
  <2>1. CASE base'[s] = base[s]
    BY <2>1 DEF IInv, Closed
  <2>2. CASE base'[s] # base[s]
    <3>1. b <= last[s] \/ b < Since(s)
      BY <1>1 DEF IInv, Behind, Up
    <3> QED
      BY <1>4, <1>8, <2>2, <3>1
  <2> QED
    BY <2>1, <2>2
<1>11. Behind'
  <2> SUFFICES ASSUME NEW s \in Symbols \ (torn \cup open), NEW b \in Bars, <<s, b>> \in stored
               PROVE  b <= last[s] \/ b < Since(s)'
    BY <1>1 DEF Behind
  <2>1. b <= last[s] \/ b < Since(s)
    BY <1>1 DEF IInv, Behind, Up
  <2> QED
    BY <1>4, <1>5, <2>1
<1>12. JobShape'
  <2> SUFFICES ASSUME NEW s \in Symbols, jpc'[s] # "none"
               PROVE  /\ base'[s] = since'[s] \/ since'[s] <= last[s]
                      /\ since'[s] <= Since(s)' /\ needed'[s] >= 1
    BY <1>1 DEF JobShape
  <2>1. s \in Planned
    BY <1>2
  <2> QED
    BY <1>2, <1>4, <1>5, <2>1
<1>13. Ordered'
  <2> SUFFICES ASSUME buffered, ~lossy, NEW s \in Symbols, NEW b \in Bars, NEW c \in Bars,
                      c < b, Due(s, c)'
               PROVE  OrderOf(s, b, c)
    BY <1>1 DEF Ordered, OrderOf
  <2>1. base'[s] <= c \/ (last[s] < c /\ Since(s)' <= c)
    BY <1>1 DEF Due
  <2>2. Due(s, c)
    <3>1. CASE base'[s] = base[s] /\ base'[s] <= c
      BY <3>1 DEF Due
    <3>2. CASE base'[s] # base[s] /\ base'[s] <= c
      <4>1. Up /\ last[s] < c /\ Since(s) <= c
        BY <1>1, <1>4, <1>8, <3>2 DEF Up
      <4> QED BY <4>1 DEF Due
    <3>3. CASE last[s] < c /\ Since(s)' <= c
      <4>1. Up /\ last[s] < c /\ Since(s) <= c
        BY <1>1, <1>4, <1>5, <3>3 DEF Up
      <4> QED BY <4>1 DEF Due
    <3> QED BY <2>1, <3>1, <3>2, <3>3
  <2> QED
    BY <2>2 DEF IInv, Ordered
<1> QED
  BY <1>6, <1>7, <1>9, <1>10, <1>11, <1>12, <1>13 DEF IInv

\* A fetch begins with no page read.
LEMMA BeginFetchKeeps ==
  ASSUME IInv, TypeOK', NEW s \in Symbols, BeginFetch(s)
  PROVE  IInv'
<1>1. /\ phase \in {"pass", "retry"} /\ jpc[s] = "todo"
      /\ jpc' = [jpc EXCEPT ![s] = "fetch"]
      /\ upto' = [upto EXCEPT ![s] = clock]
      /\ limit' = [limit EXCEPT ![s] = AtMost(needed[s] + LimitMargin, MaxLimit)]
      /\ pages' = [pages EXCEPT ![s] = {}] /\ newest' = [newest EXCEPT ![s] = None]
      /\ UNCHANGED <<buffered, clock, settled, published, healthy, stored, queue, dropped, lossy,
                     phase, full, last, since, needed, base, open, torn>>
  BY DEF BeginFetch, envVars, writerVars, memVars, histVars
<1>2. TypeOK
  BY DEF IInv
<1>3. /\ s \in DOMAIN jpc /\ s \in DOMAIN upto /\ s \in DOMAIN limit /\ s \in DOMAIN pages
      /\ s \in DOMAIN newest
  BY <1>2 DEF TypeOK, JobsOK
<1>4. PhaseShape'
  BY <1>1, <1>3 DEF IInv, PhaseShape, Up
<1>5. RowShape' /\ NoHoles' /\ Closed' /\ Behind'
  BY <1>1, SinceSame DEF IInv, RowShape, Written, NoHoles, NoHole, Kept, Closed, Behind, Up
<1>6. \A r \in Symbols : Since(r)' = Since(r)
  BY <1>1 DEF Since
<1>7. JobShape'
  BY <1>1, <1>3, <1>6 DEF IInv, JobShape
<1>8. ASSUME NEW r \in Symbols, r # s
      PROVE  /\ jpc'[r] = jpc[r] /\ upto'[r] = upto[r] /\ limit'[r] = limit[r]
             /\ pages'[r] = pages[r] /\ newest'[r] = newest[r]
  BY <1>1, <1>8 DEF TypeOK, JobsOK
<1>9. DoneShape'
  BY <1>1, <1>3, <1>8 DEF IInv, DoneShape, DoneOf, Written
<1>10. FetchOf(s)'
  <2>1. /\ upto'[s] = clock /\ pages'[s] = {} /\ newest'[s] = None
        /\ limit'[s] = AtMost(needed[s] + LimitMargin, MaxLimit)
    BY <1>1, <1>3
  <2>2. limit'[s] >= 1
    <3>1. needed[s] >= 1
      BY <1>1 DEF IInv, JobShape
    <3> QED
      BY <1>2, <2>1, <3>1, TypedState, HistAssumption DEF AtMost
  <2>3. clock <= clock' /\ clock \in Int
    BY <1>1, <1>2, TypedState
  <2>4. Written' = Written /\ \A b \in Bars : <<s, b>> \in Written => b < clock
    BY <1>1 DEF IInv, RowShape, Written
  <2>5. \A b \in Bars : ~(b <= None)
    BY <1>2, TypedState DEF None
  <2> QED
    BY <1>1, <2>1, <2>2, <2>3, <2>4, <2>5 DEF FetchOf, Untouched
<1>11. FetchShape'
  BY <1>1, <1>8, <1>10 DEF IInv, FetchShape, FetchOf, Untouched, Written
<1>12. Ordered'
  <2>1. \A r \in Symbols, b, c \in Bars : Due(r, c)' = Due(r, c) /\ OrderOf(r, b, c)' = OrderOf(r, b, c)
    BY <1>1, <1>6 DEF OrderOf, Due, Up
  <2> QED
    BY <1>1, <2>1 DEF IInv, Ordered
<1> QED
  BY <1>4, <1>5, <1>7, <1>9, <1>11, <1>12 DEF IInv

\* A fetch fails: its rows stay, its symbol stays open.
LEMMA FetchFailsKeeps ==
  ASSUME IInv, TypeOK', NEW s \in Symbols, FetchFails(s)
  PROVE  IInv'
<1>1. /\ jpc[s] = "fetch"
      /\ jpc' = [jpc EXCEPT ![s] = "failed"]
      /\ pages' = [pages EXCEPT ![s] = {}]
      /\ UNCHANGED <<buffered, clock, settled, published, healthy, stored, queue, dropped, lossy,
                     phase, full, last, since, needed, upto, limit, newest, base, open, torn>>
  BY DEF FetchFails, envVars, writerVars, memVars, histVars
<1>2. s \in DOMAIN jpc /\ s \in DOMAIN pages
  BY DEF IInv, TypeOK, JobsOK
<1>3. PhaseShape'
  BY <1>1, <1>2 DEF IInv, PhaseShape, Up
<1>4. RowShape' /\ NoHoles' /\ Closed' /\ Behind'
  BY <1>1, SinceSame DEF IInv, RowShape, Written, NoHoles, NoHole, Kept, Closed, Behind, Up
<1>5. \A r \in Symbols : Since(r)' = Since(r)
  BY <1>1 DEF Since
<1>6. JobShape'
  BY <1>1, <1>2, <1>5 DEF IInv, JobShape
<1>7. DoneShape'
  BY <1>1, <1>2 DEF IInv, DoneShape, DoneOf, Written
<1>8. FetchShape'
  BY <1>1, <1>2 DEF IInv, FetchShape, FetchOf, Untouched, Written
<1>9. Ordered'
  <2>1. \A r \in Symbols, b, c \in Bars : Due(r, c)' = Due(r, c) /\ OrderOf(r, b, c)' = OrderOf(r, b, c)
    BY <1>1, <1>5 DEF OrderOf, Due, Up
  <2> QED
    BY <1>1, <2>1 DEF IInv, Ordered
<1> QED
  BY <1>3, <1>4, <1>6, <1>7, <1>8, <1>9 DEF IInv

\* The failed symbols are tried again.
LEMMA RetryKeeps == IInv /\ TypeOK' /\ Retry => IInv'
<1> SUFFICES ASSUME IInv, TypeOK', Retry PROVE IInv'
  OBVIOUS
<1>1. /\ phase = "pass" /\ JobsOver /\ phase' = "retry"
      /\ jpc' = [s \in Symbols |-> IF jpc[s] = "failed" THEN "todo" ELSE jpc[s]]
      /\ UNCHANGED <<buffered, clock, settled, published, healthy, stored, queue, dropped, lossy,
                     full, last, since, needed, upto, limit, pages, newest, base, open, torn>>
  BY DEF Retry, envVars, writerVars, histVars
<1>2. PhaseShape'
  BY <1>1 DEF IInv, PhaseShape, Up
<1>3. RowShape' /\ NoHoles' /\ Closed'
  BY <1>1 DEF IInv, RowShape, Written, NoHoles, NoHole, Kept, Closed
<1>4. \A r \in Symbols : Since(r)' = Since(r)
  BY <1>1 DEF Since
<1>5. Behind' /\ Ordered'
  <2>1. Up' = Up
    BY <1>1 DEF Up
  <2>2. \A r \in Symbols, b, c \in Bars : Due(r, c)' = Due(r, c) /\ OrderOf(r, b, c)' = OrderOf(r, b, c)
    BY <1>1, <1>4, <2>1 DEF OrderOf, Due
  <2>3. Ordered'
    BY <1>1, <2>2 DEF IInv, Ordered
  <2>4. Behind'
    BY <1>1, <1>4, <2>1 DEF IInv, Behind
  <2> QED
    BY <2>3, <2>4
<1>6. JobShape'
  BY <1>1, <1>4 DEF IInv, JobShape
<1>7. DoneShape'
  BY <1>1 DEF IInv, DoneShape, DoneOf, Written
<1>8. FetchShape'
  BY <1>1 DEF FetchShape, JobsOver
<1> QED
  BY <1>2, <1>3, <1>5, <1>6, <1>7, <1>8 DEF IInv

-----------------------------------------------------------------------------
(* The writer, the end of a pass and the end of a life. *)

\* What a batch of the first n rows does, written or given up.
LEMMA BatchMoves ==
  ASSUME IInv, NEW n \in 0..Len(queue),
         stored \subseteq stored', stored' \subseteq stored \cup ToSet(SubSeq(queue, 1, n))
  PROVE  /\ stored' \subseteq Written
         /\ \A s \in Symbols \ open : \A b \in Bars : <<s, b>> \in stored' <=> <<s, b>> \in stored
<1>1. queue \in Seq(Rows)
  BY DEF IInv, TypeOK, TableOK
<1>2. ToSet(SubSeq(queue, 1, n)) \subseteq ToSet(queue)
  <2> HIDE DEF Rows
  <2> QED BY <1>1, ElementsOfParts
<1>3. \A r \in ToSet(queue) : r[1] \in open
  BY DEF IInv, RowShape
<1>4. \A s \in Symbols \ open : \A b \in Bars : <<s, b>> \notin ToSet(queue)
  <2> SUFFICES ASSUME NEW s \in Symbols \ open, NEW b \in Bars, <<s, b>> \in ToSet(queue)
               PROVE  FALSE
    OBVIOUS
  <2>1. <<s, b>>[1] \in open
    BY <1>3
  <2> QED
    BY <2>1
<1> QED
  BY <1>2, <1>4 DEF Written

\* The head of the queue written, in order.
LEMMA HeadWritten ==
  ASSUME IInv, NEW n \in 0..Len(queue),
         stored' = stored \cup ToSet(SubSeq(queue, 1, n)),
         buffered, ~lossy, NEW s \in Symbols, NEW b \in Bars, NEW c \in Bars, c < b, Due(s, c)
  PROVE  /\ <<s, b>> \in stored' => <<s, c>> \in stored'
         /\ \A i \in 1..(Len(queue) - n) : queue[n + i] = <<s, b>> =>
              <<s, c>> \in stored' \/ \E j \in 1..(Len(queue) - n) : j < i /\ queue[n + j] = <<s, c>>
<1>1. queue \in Seq(Rows) /\ Len(queue) \in Nat /\ n \in Nat
  BY LenProperties DEF IInv, TypeOK, TableOK
<1>2. ToSet(SubSeq(queue, 1, n)) = {queue[i] : i \in 1..n}
  <2> HIDE DEF Rows
  <2> QED BY <1>1, ElementsOfParts
<1>3. OrderOf(s, b, c)
  BY DEF IInv, Ordered
<1>4. \A i \in 1..Len(queue) : queue[i] = <<s, b>> =>
        <<s, c>> \in stored \/ \E j \in 1..Len(queue) : j < i /\ queue[j] = <<s, c>>
  BY <1>3 DEF OrderOf
<1>5. ASSUME NEW i \in 1..n, queue[i] = <<s, b>>
      PROVE  <<s, c>> \in stored'
  <2>1. i \in 1..Len(queue) /\ i <= n /\ i \in Int
    BY <1>1
  <2>2. CASE <<s, c>> \in stored
    BY <2>2
  <2>3. ASSUME NEW j \in 1..Len(queue), j < i, queue[j] = <<s, c>>
        PROVE  <<s, c>> \in stored'
    <3>1. j \in 1..n
      BY <1>1, <2>1, <2>3
    <3> QED BY <1>2, <2>3, <3>1
  <2> QED
    BY <1>4, <1>5, <2>1, <2>2, <2>3
<1>6. ASSUME NEW i \in 1..(Len(queue) - n), queue[n + i] = <<s, b>>
      PROVE  <<s, c>> \in stored' \/ \E j \in 1..(Len(queue) - n) : j < i /\ queue[n + j] = <<s, c>>
  <2>1. n + i \in 1..Len(queue) /\ i \in Int
    BY <1>1
  <2>2. CASE <<s, c>> \in stored
    BY <2>2
  <2>3. ASSUME NEW j \in 1..Len(queue), j < n + i, queue[j] = <<s, c>>
        PROVE  <<s, c>> \in stored' \/ \E k \in 1..(Len(queue) - n) : k < i /\ queue[n + k] = <<s, c>>
    <3>1. CASE j <= n
      <4>1. j \in 1..n
        BY <1>1, <3>1
      <4> QED BY <1>2, <2>3, <4>1
    <3>2. CASE j > n
      <4>1. j - n \in 1..(Len(queue) - n) /\ j - n < i /\ n + (j - n) = j
        BY <1>1, <2>1, <2>3, <3>2
      <4> QED BY <2>3, <4>1
    <3> QED
      BY <1>1, <3>1, <3>2
  <2> QED
    BY <1>4, <1>6, <2>1, <2>2, <2>3
<1> QED
  BY <1>2, <1>3, <1>5, <1>6 DEF OrderOf

\* A batch is written or given up.
LEMMA WriteBatchKeeps == IInv /\ TypeOK' /\ WriteBatch => IInv'
<1> SUFFICES ASSUME IInv, TypeOK', WriteBatch PROVE IInv'
  OBVIOUS
<1>1. PICK n \in 1..Len(queue) :
        /\ phase # "down"
        /\ \/ stored' = stored \cup ToSet(SubSeq(queue, 1, n)) /\ UNCHANGED <<dropped, lossy>>
           \/ GaveUp(ToSet(SubSeq(queue, 1, n))) /\ dropped' = TRUE
        /\ queue' = SubSeq(queue, n + 1, Len(queue))
  BY DEF WriteBatch
<1>2. /\ UNCHANGED <<buffered, clock, settled, published, healthy, phase, full, last, jpc, since,
                     needed, upto, limit, pages, newest, base, open, torn>>
  BY DEF WriteBatch, envVars, memVars, jobVars, histVars
<1>3. queue \in Seq(Rows) /\ Len(queue) \in Nat /\ n \in 0..Len(queue)
  BY LenProperties DEF IInv, TypeOK, TableOK
<1> DEFINE out == ToSet(SubSeq(queue, 1, n))
<1>4. /\ ToSet(queue) = out \cup ToSet(queue')
      /\ Len(queue') = Len(queue) - n
      /\ \A i \in 1..(Len(queue) - n) : queue'[i] = queue[n + i]
  <2> HIDE DEF Rows
  <2> QED BY <1>1, <1>3, ElementsOfParts
<1> HIDE DEF out
<1>5. stored \subseteq stored' /\ stored' \subseteq stored \cup out
  BY <1>1 DEF GaveUp, out
<1>6. Written' \subseteq Written
  BY <1>4, <1>5 DEF Written
<1>7. ~lossy' => ~lossy /\ stored' = stored \cup out
  BY <1>1 DEF GaveUp, out
<1>8. ~dropped' => ~dropped /\ Written' = Written
  <2>1. ~dropped' => ~dropped /\ stored' = stored \cup out
    BY <1>1 DEF out
  <2> QED
    BY <1>4, <2>1 DEF Written
<1>9. \A s \in Symbols \ open : \A b \in Bars : <<s, b>> \in stored' <=> <<s, b>> \in stored
  BY <1>3, <1>5, BatchMoves DEF out
<1>10. \A s \in Symbols : Since(s)' = Since(s)
  BY <1>2 DEF Since
<1>11. PhaseShape'
  <2>1. Up
    <3>1. queue # <<>>
      BY <1>1, <1>3, EmptySeq
    <3> QED BY <3>1 DEF IInv, PhaseShape
  <2> QED
    BY <1>2, <2>1 DEF IInv, PhaseShape, Up
<1>12. RowShape'
  BY <1>2, <1>4, <1>6 DEF IInv, RowShape
<1>13. NoHoles'
  BY <1>2, <1>5, <1>7 DEF IInv, NoHoles, NoHole, Kept
<1>14. Closed' /\ Behind'
  BY <1>2, <1>9, <1>10 DEF IInv, Closed, Behind, Up
<1>15. JobShape'
  BY <1>2, <1>10 DEF IInv, JobShape
<1>16. DoneShape'
  BY <1>2, <1>6, <1>8 DEF IInv, DoneShape, DoneOf
<1>17. FetchShape'
  BY <1>2, <1>6, <1>8 DEF IInv, FetchShape, FetchOf, Untouched
<1>18. Ordered'
  <2> SUFFICES ASSUME buffered, ~lossy', NEW s \in Symbols, NEW b \in Bars, NEW c \in Bars,
                      c < b, Due(s, c)'
               PROVE  OrderOf(s, b, c)'
    BY <1>2 DEF Ordered
  <2>1. Due(s, c)
    BY <1>2, <1>10 DEF Due, Up
  <2>2. ~lossy /\ stored' = stored \cup ToSet(SubSeq(queue, 1, n))
    BY <1>7 DEF out
  <2>3. /\ <<s, b>> \in stored' => <<s, c>> \in stored'
        /\ \A i \in 1..(Len(queue) - n) : queue[n + i] = <<s, b>> =>
             <<s, c>> \in stored' \/ \E j \in 1..(Len(queue) - n) : j < i /\ queue[n + j] = <<s, c>>
    BY <1>3, <2>1, <2>2, HeadWritten
  <2> QED
    BY <1>4, <2>3 DEF OrderOf
<1> QED
  BY <1>11, <1>12, <1>13, <1>14, <1>15, <1>16, <1>17, <1>18 DEF IInv

\* A life ends: what is open is torn, and of the ratios a head of the queue is written.
LEMMA DownKeeps == IInv /\ TypeOK' /\ Down => IInv'
<1> SUFFICES ASSUME IInv, TypeOK', Down PROVE IInv'
  OBVIOUS
<1>1. PICK n \in 0..Len(queue) : stored' = stored \cup ToSet(SubSeq(queue, 1, n))
  BY DEF Down
<1>2. /\ queue' = <<>> /\ dropped' = FALSE /\ phase' = "down" /\ full' = TRUE
      /\ last' = [s \in Symbols |-> None] /\ jpc' = [s \in Symbols |-> "none"]
      /\ torn' = torn \cup open /\ open' = {}
      /\ UNCHANGED <<buffered, clock, settled, published, healthy, base, lossy>>
  BY DEF Down, ForgetJobs, envVars
<1>3. ToSet(<<>>) = {}
  BY DEF ToSet
<1>4. Written' \subseteq Written
  <2>1. stored' \subseteq Written
    BY <1>1, BatchMoves
  <2> QED BY <1>2, <1>3, <2>1 DEF Written
<1>5. PhaseShape' /\ Behind' /\ JobShape' /\ FetchShape' /\ DoneShape'
  BY <1>2 DEF PhaseShape, Up, Behind, JobShape, FetchShape, DoneShape
<1>6. RowShape'
  BY <1>2, <1>3, <1>4 DEF IInv, RowShape
<1>7. NoHoles'
  BY <1>2 DEF NoHoles, NoHole
<1>8. Closed'
  <2>1. \A s \in Symbols \ open : \A b \in Bars : <<s, b>> \in stored' <=> <<s, b>> \in stored
    BY <1>1, BatchMoves
  <2> QED
    BY <1>2, <2>1 DEF IInv, Closed
<1>9. Ordered'
  <2> SUFFICES ASSUME buffered, ~lossy, NEW s \in Symbols, NEW b \in Bars, NEW c \in Bars,
                      c < b, Due(s, c)', <<s, b>> \in stored'
               PROVE  <<s, c>> \in stored'
    <3>1. Len(queue') = 0
      BY <1>2, EmptySeq
    <3> QED BY <1>2, <3>1 DEF Ordered, OrderOf
  <2>1. Due(s, c)
    BY <1>2 DEF Due, Up
  <2> QED
    BY <1>1, <2>1, HeadWritten
<1> QED
  BY <1>5, <1>6, <1>7, <1>8, <1>9 DEF IInv

\* The progress of a symbol whose job is done moves to its newest row.
LEMMA CommitMoves ==
  ASSUME IInv, NEW ok \in BOOLEAN, Commit(ok), NEW s \in Symbols
  PROVE  /\ last[s] <= last'[s] /\ last[s] \in Int /\ last'[s] \in Int
         /\ ~(ok /\ jpc[s] = "done") => last'[s] = last[s] /\ (s \in open' <=> s \in open)
         /\ ok /\ jpc[s] = "done" =>
              /\ s \notin open' /\ newest[s] <= last'[s] /\ newest[s] \in Int
              /\ last'[s] = last[s] \/ last'[s] = newest[s]
<1>1. /\ last[s] \in Bars \cup {None} /\ newest[s] \in Bars \cup {None}
      /\ \A b \in Bars : b \in Int
  BY TypedState DEF IInv
<1>2. last[s] \in Int /\ newest[s] \in Int
  BY <1>1 DEF None
<1> DEFINE m == MaxOr({last[s], newest[s]}, None)
<1>3. m \in {last[s], newest[s]} /\ last[s] <= m /\ newest[s] <= m
  <2>1. IntSet({last[s], newest[s]})
    BY <1>1, BarsFinite
  <2> QED BY <2>1, MaxIsGreatest DEF MaxOr
<1>4. last'[s] = IF ok /\ jpc[s] = "done" THEN m ELSE last[s]
  BY DEF Commit
<1> HIDE DEF m
<1>5. s \in open' <=> s \in open /\ ~(ok /\ jpc[s] = "done")
  BY DEF Commit
<1> QED
  BY <1>2, <1>3, <1>4, <1>5

\* The barrier answers and the progress moves on.
LEMMA EndPassKeeps == IInv /\ TypeOK' /\ EndPass => IInv'
<1> SUFFICES ASSUME IInv, TypeOK', EndPass PROVE IInv'
  OBVIOUS
<1>1. PICK ok \in BOOLEAN : Barrier(ok) /\ Commit(ok)
  BY DEF EndPass
<1>2. /\ phase \in {"pass", "retry"} /\ phase' = "idle" /\ JobsOver
      /\ jpc' = [s \in Symbols |-> "none"]
      /\ UNCHANGED <<buffered, clock, settled, published, healthy, full, base, torn>>
  BY DEF EndPass, ForgetJobs, envVars
<1>3. queue' = <<>> /\ dropped' = FALSE
  BY <1>1 DEF Barrier
<1>4. Up /\ ~full
  BY <1>2 DEF IInv, PhaseShape, Up
<1>5. /\ stored \subseteq stored' /\ stored' \subseteq Written
      /\ ok => ~dropped
      /\ ok \/ ~lossy' => stored' = Written /\ lossy' = lossy
      /\ ~lossy' => ~lossy
  BY <1>1 DEF Barrier, GaveUp, Written
<1>6. /\ \A b \in Bars : b \in Int /\ b >= 0
      /\ \A s \in Symbols : since[s] \in Int /\ base[s] \in Int /\ Since(s) \in Int
  BY TypedState, HistAssumption DEF IInv
<1>7. \A s \in Symbols : last'[s] = last[s] => Since(s)' = Since(s)
  BY <1>2, SinceSame
<1>8. Written' = stored'
  <2>1. ToSet(<<>>) = {}
    BY DEF ToSet
  <2> QED BY <1>3, <2>1 DEF Written
<1>9. \A s \in Symbols \ open : \A b \in Bars : <<s, b>> \in stored' <=> <<s, b>> \in stored
  <2>1. queue \in Seq(Rows) /\ Len(queue) \in Nat
    BY LenProperties DEF IInv, TypeOK, TableOK
  <2>2. PICK n \in 0..Len(queue) : n = Len(queue)
    BY <2>1
  <2>3. ToSet(SubSeq(queue, 1, n)) = ToSet(queue)
    <3>1. ToSet(SubSeq(queue, 1, n)) = {queue[i] : i \in 1..n}
      <4> HIDE DEF Rows
      <4> QED BY <2>1, ElementsOfParts
    <3>2. DOMAIN queue = 1..n
      BY <2>1, <2>2, LenProperties
    <3> QED BY <3>1, <3>2 DEF ToSet
  <2>4. stored' \subseteq stored \cup ToSet(SubSeq(queue, 1, n))
    BY <1>5, <2>3 DEF Written
  <2> QED BY <1>5, <2>4, BatchMoves
<1> DEFINE Done(s) == ok /\ jpc[s] = "done"
<1>10. ASSUME NEW s \in Symbols, Done(s)
       PROVE  /\ \A b \in Bars : since[s] <= b /\ b <= newest[s] => <<s, b>> \in stored'
              /\ \A b \in Bars : <<s, b>> \in stored' =>
                   b <= newest[s] \/ (newest[s] = None /\ b < since[s])
  BY <1>5, <1>10 DEF IInv, DoneShape, DoneOf
<1>11. \A s \in Symbols :
         /\ last[s] <= last'[s] /\ last[s] \in Int /\ last'[s] \in Int
         /\ ~Done(s) => last'[s] = last[s] /\ (s \in open' <=> s \in open)
         /\ Done(s) => /\ s \notin open' /\ newest[s] <= last'[s] /\ newest[s] \in Int
                       /\ last'[s] = last[s] \/ last'[s] = newest[s]
  BY <1>1, CommitMoves
<1> HIDE DEF Done
<1>12. \A s \in Symbols : Done(s) => base[s] = since[s] \/ since[s] <= last[s]
  BY DEF Done, IInv, JobShape
<1>13. ASSUME NEW s \in Symbols, Done(s)
       PROVE  since[s] <= Since(s)
  BY <1>13 DEF Done, IInv, JobShape
<1>14. PhaseShape' /\ JobShape' /\ FetchShape' /\ DoneShape'
  BY <1>2, <1>3 DEF PhaseShape, Up, JobShape, FetchShape, DoneShape
<1>15. RowShape'
  <2>1. ToSet(queue') = {}
    BY <1>3 DEF ToSet
  <2> QED
    BY <1>2, <1>5, <1>8, <2>1 DEF IInv, RowShape
<1>16. ASSUME NEW s \in Symbols, Kept(s)', last'[s] # None, NEW b \in Bars,
              base[s] <= b, b <= last'[s]
       PROVE  <<s, b>> \in stored'
  <2>1. Kept(s)
    BY <1>2, <1>5, <1>16 DEF Kept
  <2>2. CASE b <= last[s]
    <3>1. b \in base[s]..last[s] /\ last[s] # None
      BY <1>6, <1>11, <1>16, <2>2 DEF None
    <3>2. NoHole(s)
      BY <2>1 DEF IInv, NoHoles
    <3> QED
      BY <1>5, <3>1, <3>2 DEF NoHole
  <2>3. CASE last[s] < b
    <3>1. Done(s) /\ last'[s] = newest[s]
      BY <1>6, <1>11, <1>16, <2>3
    <3>2. since[s] <= b
      BY <1>6, <1>11, <1>12, <1>16, <2>3, <3>1
    <3> QED
      BY <1>10, <1>16, <3>1, <3>2
  <2> QED
    BY <1>6, <1>11, <2>2, <2>3
<1>17. NoHoles'
  <2> SUFFICES ASSUME NEW s \in Symbols, Kept(s)', last'[s] # None, NEW b \in base[s]..last'[s]
               PROVE  <<s, b>> \in stored'
    BY <1>2 DEF NoHoles, NoHole
  <2>1. b \in Bars /\ base[s] <= b /\ b <= last'[s]
    <3>1. base[s] \in 0..MaxClock
      BY TypedState DEF IInv
    <3>2. PICK m \in Bars : m = last'[s]
      BY DEF TypeOK, MemoryOK
    <3> QED BY <3>1, <3>2, HistAssumption DEF Bars
  <2> QED
    BY <1>16, <2>1
<1>18. Closed'
  <2> SUFFICES ASSUME NEW s \in Symbols, s \notin torn, s \notin open', NEW b \in Bars, NEW c \in Bars,
                      <<s, b>> \in stored', base[s] <= c, c <= b
               PROVE  <<s, c>> \in stored'
    BY <1>2 DEF Closed
  <2>1. CASE ~Done(s)
    <3>1. s \notin open /\ <<s, b>> \in stored
      BY <1>9, <1>11, <2>1
    <3> QED
      BY <1>5, <3>1 DEF IInv, Closed
  <2>2. CASE Done(s) /\ b <= newest[s]
    <3>1. Kept(s)' /\ c <= last'[s] /\ last'[s] # None
      BY <1>2, <1>6, <1>11, <2>2 DEF Kept, None
    <3> QED
      BY <1>16, <3>1
  <2>3. CASE Done(s) /\ newest[s] = None /\ b < since[s]
    <3>1. since[s] <= last[s]
      BY <1>6, <1>12, <2>3
    <3>2. Kept(s)' /\ c <= last'[s] /\ last'[s] # None
      BY <1>2, <1>6, <1>11, <2>3, <3>1 DEF Kept, None
    <3> QED
      BY <1>16, <3>2
  <2> QED
    BY <1>10, <2>1, <2>2, <2>3
<1>19. Behind'
  <2> SUFFICES ASSUME NEW s \in Symbols, s \notin torn, s \notin open', NEW b \in Bars,
                      <<s, b>> \in stored'
               PROVE  b <= last'[s] \/ b < Since(s)'
    BY <1>2, <1>4 DEF Behind
  <2>1. CASE ~Done(s)
    <3>1. s \notin open /\ <<s, b>> \in stored /\ last'[s] = last[s]
      BY <1>9, <1>11, <2>1
    <3>2. b <= last[s] \/ b < Since(s)
      BY <1>4, <3>1 DEF IInv, Behind
    <3> QED
      BY <1>7, <3>1, <3>2
  <2>2. CASE Done(s) /\ b <= newest[s]
    BY <1>6, <1>11, <2>2
  <2>3. CASE Done(s) /\ newest[s] = None /\ b < since[s]
    <3>1. last'[s] = last[s]
      <4>1. last[s] \in Bars \cup {None}
        BY TypedState DEF IInv
      <4>2. last[s] >= newest[s]
        BY <1>6, <2>3, <4>1 DEF None
      <4> QED BY <1>11, <2>3, <4>2
    <3>2. b < Since(s)
      BY <1>6, <1>13, <2>3
    <3> QED
      BY <1>7, <3>1, <3>2
  <2> QED
    BY <1>10, <2>1, <2>2, <2>3
<1>20. Ordered'
  <2> SUFFICES ASSUME buffered, ~lossy', NEW s \in Symbols, NEW b \in Bars, NEW c \in Bars,
                      c < b, Due(s, c)', <<s, b>> \in stored'
               PROVE  <<s, c>> \in stored'
    <3>1. Len(queue') = 0
      BY <1>3, EmptySeq
    <3> QED BY <1>2, <3>1 DEF Ordered, OrderOf
  <2>1. stored' = Written /\ ~lossy
    BY <1>5
  <2>2. ASSUME Due(s, c)
        PROVE  <<s, c>> \in stored'
    <3>1. OrderOf(s, b, c)
      BY <2>1, <2>2 DEF IInv, Ordered
    <3>2. DOMAIN queue = 1..Len(queue)
      BY LenProperties DEF IInv, TypeOK, TableOK
    <3> QED
      BY <2>1, <3>1, <3>2 DEF OrderOf, Written, ToSet
  <2>3. base[s] <= c \/ (last'[s] < c /\ Since(s)' <= c)
    BY <1>2 DEF Due
  <2>4. CASE base[s] <= c
    BY <2>2, <2>4 DEF Due
  <2>5. CASE last'[s] = last[s] /\ last'[s] < c /\ Since(s)' <= c
    <3>1. Due(s, c)
      BY <1>4, <1>7, <2>5 DEF Due
    <3> QED BY <2>2, <3>1
  <2>6. CASE last'[s] # last[s] /\ last'[s] < c
    <3>1. Done(s) /\ last'[s] = newest[s]
      BY <1>11, <2>6
    <3>2. newest[s] # None
      <4>1. last[s] \in Bars \cup {None}
        BY TypedState DEF IInv
      <4> QED BY <1>6, <1>11, <2>6, <3>1, <4>1 DEF None
    <3>3. b <= newest[s]
      BY <1>10, <3>1, <3>2
    <3> QED
      BY <1>6, <1>11, <2>6, <3>1, <3>3
  <2> QED
    BY <2>3, <2>4, <2>5, <2>6
<1> QED
  BY <1>14, <1>15, <1>17, <1>18, <1>19, <1>20 DEF IInv

-----------------------------------------------------------------------------
(* A page of a fetch. *)

lowOf(s)   == IF PageOf(s) = {} THEN 0 ELSE Min(PageOf(s))
endsAt(s)  == Cardinality(PageOf(s)) < limit[s] \/ lowOf(s) <= since[s]

\* From here on the range has been fetched when the page is there.
floorOf(s) == IF endsAt(s) THEN since[s] ELSE lowOf(s)

\* What a page says of the range it was asked for.
LEMMA PageCovers ==
  ASSUME IInv, NEW s \in Symbols, jpc[s] = "fetch"
  PROVE  /\ PageOf(s) \in SUBSET Bars
         /\ \A b \in PageOf(s) : since[s] <= b /\ b < upto[s] /\ b < published[s] /\ b < clock
         /\ PageOf(s) = {} => Untouched(s) /\ endsAt(s)
                              /\ \A b \in Bars : <<s, b>> \in Written => b < since[s]
         /\ ~endsAt(s) => lowOf(s) \in PageOf(s) /\ since[s] < lowOf(s)
         /\ \A b \in Bars : /\ floorOf(s) <= b /\ b < upto[s]
                            /\ ~Untouched(s) \/ \E c \in PageOf(s) : b <= c
                            => b \in PageOf(s)
         /\ Untouched(s) /\ PageOf(s) # {} =>
              \A b \in Bars : <<s, b>> \in Written => \E c \in PageOf(s) : b <= c
<1>1. TypeOK /\ FetchOf(s)
  BY DEF IInv, FetchShape
<1>2. /\ since[s] \in Int /\ since[s] >= 0 /\ upto[s] \in Int /\ published[s] \in Int /\ clock \in Int
      /\ upto[s] <= clock /\ upto[s] <= MaxClock /\ MaxClock \in Int
      /\ \A b \in Bars : b \in Int /\ b >= 0
  BY <1>1, TypedState DEF FetchOf
<1>3. limit[s] >= 1 /\ limit[s] \in Int
  BY <1>1, HistAssumption DEF FetchOf, TypeOK, JobsOK
<1> DEFINE P == PageOf(s)
           S == served(s)
<1>4. /\ P \in SUBSET Bars /\ S \in SUBSET Bars /\ P \subseteq S
      /\ \A b \in P, c \in S : b <= c => c \in P
      /\ S # {} => P # {}
      /\ Cardinality(P) < limit[s] => P = S
  BY <1>1, <1>3, PageIsNewest
<1>5. \A b \in Bars : b \in S <=> since[s] <= b /\ b < upto[s] /\ b < published[s]
  BY <1>2 DEF served
<1> HIDE DEF P, S
<1>6. ~Untouched(s) => S # {} /\ upto[s] <= published[s]
  <2> SUFFICES ASSUME ~Untouched(s) PROVE S # {} /\ upto[s] <= published[s]
    OBVIOUS
  <2>1. upto[s] <= published[s] /\ since[s] < upto[s]
    BY <1>1 DEF FetchOf
  <2>2. upto[s] - 1 \in Bars
    BY <1>2, <2>1 DEF Bars
  <2>3. upto[s] - 1 \in S
    BY <1>2, <1>5, <2>1, <2>2
  <2> QED
    BY <2>1, <2>3
<1>7. \A b \in P : since[s] <= b /\ b < upto[s] /\ b < published[s] /\ b < clock
  BY <1>2, <1>4, <1>5
<1>8. P # {} => lowOf(s) \in P /\ \A b \in P : lowOf(s) <= b
  <2> SUFFICES ASSUME P # {} PROVE lowOf(s) \in P /\ \A b \in P : lowOf(s) <= b
    OBVIOUS
  <2>1. lowOf(s) = Min(P)
    BY DEF lowOf, P
  <2>2. IntSet(P)
    BY <1>4, BarsFinite
  <2> QED
    BY <2>1, <2>2, MinIsLeast
<1>9. P = {} => endsAt(s)
  <2>1. P = {} => Cardinality(P) = 0
    BY FS_EmptySet
  <2> QED
    BY <1>3, <2>1 DEF endsAt, P
<1>10. Untouched(s) => \A b \in Bars : <<s, b>> \in Written /\ since[s] <= b => b \in S
  <2> SUFFICES ASSUME Untouched(s), NEW b \in Bars, <<s, b>> \in Written, since[s] <= b
               PROVE  b \in S
    OBVIOUS
  <2>1. b < upto[s]
    BY <1>1 DEF FetchOf
  <2>2. b < published[s]
    <3>1. <<s, b>>[2] < published[<<s, b>>[1]]
      BY DEF IInv, RowShape
    <3> QED BY <3>1
  <2> QED
    BY <1>5, <2>1, <2>2
<1>11. P = {} => Untouched(s) /\ \A b \in Bars : <<s, b>> \in Written => b < since[s]
  BY <1>2, <1>4, <1>6, <1>10
<1>12. ~endsAt(s) => lowOf(s) \in P /\ since[s] < lowOf(s)
  <2>1. ~endsAt(s) => P # {} /\ ~(lowOf(s) <= since[s])
    BY <1>9 DEF endsAt
  <2> QED
    BY <1>2, <1>4, <1>8, <2>1
<1>13. ASSUME NEW b \in Bars, floorOf(s) <= b, b < upto[s],
              ~Untouched(s) \/ \E c \in P : b <= c
       PROVE  b \in P
  <2>1. P # {}
    BY <1>4, <1>6, <1>13
  <2>2. since[s] <= b
    BY <1>2, <1>4, <1>8, <1>12, <1>13 DEF floorOf
  <2>3. b < published[s]
    <3>1. CASE ~Untouched(s)
      BY <1>2, <1>6, <1>13, <3>1
    <3>2. ASSUME NEW c \in P, b <= c PROVE b < published[s]
      BY <1>2, <1>4, <1>7, <3>2
    <3> QED BY <1>13, <3>1, <3>2
  <2>4. b \in S
    BY <1>5, <1>13, <2>2, <2>3
  <2>5. CASE Cardinality(P) < limit[s]
    BY <1>4, <2>4, <2>5
  <2>6. CASE lowOf(s) <= b
    BY <1>4, <1>8, <2>1, <2>4, <2>6
  <2>7. Cardinality(P) < limit[s] \/ lowOf(s) <= b
    <3>1. CASE ~endsAt(s)
      BY <1>13, <3>1 DEF floorOf
    <3>2. CASE lowOf(s) <= since[s]
      BY <1>2, <1>4, <1>8, <2>1, <2>2, <3>2
    <3> QED BY <3>1, <3>2 DEF endsAt, P
  <2> QED
    BY <2>5, <2>6, <2>7
<1>14. ASSUME Untouched(s), P # {}, NEW b \in Bars, <<s, b>> \in Written
       PROVE  \E c \in P : b <= c
  <2>1. CASE since[s] <= b
    <3>1. b \in S
      BY <1>10, <1>14, <2>1
    <3>2. PICK c \in P : TRUE
      BY <1>14
    <3>3. CASE b <= c
      BY <3>2, <3>3
    <3>4. CASE c <= b
      <4>1. b \in P
        BY <1>4, <3>1, <3>2, <3>4
      <4> QED BY <1>2, <4>1
    <3> QED BY <1>2, <1>4, <3>2, <3>3, <3>4
  <2>2. CASE b < since[s]
    <3>1. PICK c \in P : TRUE
      BY <1>14
    <3>2. since[s] <= c /\ c \in Int
      BY <1>2, <1>4, <1>7, <3>1
    <3> QED BY <1>2, <2>2, <3>1, <3>2
  <2> QED
    BY <1>2, <2>1, <2>2
<1> QED
  BY <1>4, <1>7, <1>9, <1>11, <1>12, <1>13, <1>14 DEF P

\* What a push of the rows of B adds.
LEMMA PushMoves ==
  ASSUME TypeOK, NEW s \in Symbols, NEW B \in SUBSET Bars, B # {}, Push(s, B), stored' = stored
  PROVE  /\ \A r \in Symbols, b \in Bars :
              <<r, b>> \in Written' <=> <<r, b>> \in Written \/ (r = s /\ b \in B)
         /\ ToSet(queue') = ToSet(queue) \cup {<<s, b>> : b \in B}
         /\ newest'[s] \in B \cup {newest[s]} /\ newest'[s] # None
         /\ \A b \in B \cup {newest[s]} : b <= newest'[s]
         /\ \A r \in Symbols : r # s => newest'[r] = newest[r]
         /\ open' = open \cup {s}
<1>1. queue \in Seq(Rows) /\ newest \in [Symbols -> Bars \cup {None}]
  BY DEF TypeOK, TableOK, JobsOK
<1> DEFINE R == RowsOf(s, B)
<1>2. /\ R \in Seq(Rows)
      /\ \A i \in 1..Len(R) : \E b \in B : R[i] = <<s, b>>
      /\ \A b \in B : \E i \in 1..Len(R) : R[i] = <<s, b>>
  BY RowsOfBars
<1>3. queue' = queue \o R
  BY DEF Push
<1> HIDE DEF R
<1>4. ToSet(R) = {<<s, b>> : b \in B}
  <2>1. DOMAIN R = 1..Len(R)
    BY <1>2, LenProperties
  <2> QED BY <1>2, <2>1 DEF ToSet
<1>5. ToSet(queue') = ToSet(queue) \cup ToSet(R)
  <2> HIDE DEF Rows
  <2> QED BY <1>1, <1>2, <1>3, ElementsOfTwo
<1>6. \A r \in Symbols, b \in Bars : <<r, b>> \in ToSet(R) <=> r = s /\ b \in B
  BY <1>4
<1>7. Written' = Written \cup ToSet(R)
  BY <1>5 DEF Written
<1> DEFINE m == MaxOr(B \cup {newest[s]}, None)
<1>8. m \in B \cup {newest[s]} /\ \A b \in B \cup {newest[s]} : b <= m
  BY <1>1, NewestOf
<1>9. newest' = [newest EXCEPT ![s] = m] /\ open' = open \cup {s}
  BY DEF Push
<1> HIDE DEF m
<1>10. newest'[s] = m /\ \A r \in Symbols : r # s => newest'[r] = newest[r]
  BY <1>1, <1>9
<1>11. m # None
  <2>1. PICK b \in B : TRUE
    OBVIOUS
  <2>2. b \in Int /\ b >= 0 /\ b <= m
    BY <1>8, <2>1, TypedState
  <2> QED BY <2>2 DEF None
<1> QED
  BY <1>4, <1>5, <1>6, <1>7, <1>8, <1>9, <1>10, <1>11

\* What every page leaves to the other symbols, and to this one.
PageLeft(s) ==
  /\ stored' = stored /\ open \subseteq open'
  /\ \A r \in Symbols : r # s => newest'[r] = newest[r] /\ pages'[r] = pages[r]
  /\ \A r \in Symbols, b \in Bars :
       /\ <<r, b>> \in Written => <<r, b>> \in Written'
       /\ r # s /\ <<r, b>> \in Written' => <<r, b>> \in Written
  /\ RowShape' /\ Ordered'
  /\ IF endsAt(s) THEN DoneOf(s)' ELSE FetchOf(s)'

\* What a page does, by the way it is emitted.
LEMMA FetchPageSteps ==
  ASSUME IInv, NEW s \in Symbols, FetchPage(s)
  PROVE  /\ jpc[s] = "fetch"
         /\ UNCHANGED <<buffered, clock, published, stored, dropped, lossy, phase, full, last, since,
                        needed, base, torn>>
         /\ \A r \in Symbols : r # s => jpc'[r] = jpc[r] /\ upto'[r] = upto[r] /\ limit'[r] = limit[r]
         /\ endsAt(s) => jpc'[s] = "done"
         /\ ~endsAt(s) => jpc'[s] = "fetch" /\ upto'[s] = lowOf(s) /\ limit'[s] >= 1
         /\ \/ PageOf(s) = {} /\ pages[s] = {} /\ UNCHANGED <<queue, newest, open, pages>>
            \/ ~buffered /\ PageOf(s) # {} /\ Push(s, PageOf(s)) /\ pages' = pages
            \/ /\ buffered /\ ~endsAt(s) /\ PageOf(s) # {}
               /\ pages' = [pages EXCEPT ![s] = @ \cup PageOf(s)] /\ UNCHANGED <<queue, newest, open>>
            \/ /\ buffered /\ endsAt(s) /\ PageOf(s) # {} /\ Push(s, pages[s] \cup PageOf(s))
               /\ pages' = [pages EXCEPT ![s] = {}]
<1>1. jpc[s] = "fetch"
  BY DEF FetchPage
<1>2. UNCHANGED <<buffered, clock, published, stored, dropped, lossy, phase, full, last, since, needed,
                  base, torn>>
  BY DEF FetchPage, envVars, memVars
<1>3. IF endsAt(s)
      THEN jpc' = [jpc EXCEPT ![s] = "done"] /\ upto' = upto /\ limit' = limit
      ELSE /\ upto' = [upto EXCEPT ![s] = lowOf(s)]
           /\ limit' = [limit EXCEPT ![s] = AtMost(lowOf(s) - since[s] + 1 + LimitMargin, MaxLimit)]
           /\ jpc' = jpc
  BY DEF FetchPage, endsAt, lowOf
<1>4. \/ PageOf(s) = {} /\ pages[s] = {} /\ UNCHANGED <<queue, newest, open, pages>>
      \/ PageOf(s) \cup pages[s] # {} /\ Emit(s, PageOf(s), endsAt(s))
  BY DEF FetchPage, endsAt, lowOf
<1>5. s \in DOMAIN jpc /\ s \in DOMAIN upto /\ s \in DOMAIN limit /\ s \in DOMAIN pages
  BY DEF IInv, TypeOK, JobsOK
<1>6. ~endsAt(s) => AtMost(lowOf(s) - since[s] + 1 + LimitMargin, MaxLimit) >= 1
  <2> SUFFICES ASSUME ~endsAt(s)
               PROVE  AtMost(lowOf(s) - since[s] + 1 + LimitMargin, MaxLimit) >= 1
    OBVIOUS
  <2>1. PICK m \in Bars : m = lowOf(s) /\ since[s] < m
    BY <1>1, PageCovers
  <2>2. m \in Int /\ since[s] \in Int
    BY TypedState, HistAssumption DEF IInv
  <2> QED
    BY <2>1, <2>2, HistAssumption DEF AtMost
<1>7. PageOf(s) = {} => endsAt(s) /\ pages[s] = {}
  BY <1>1, PageCovers DEF Untouched
<1>8. ~buffered => pages[s] = {}
  BY <1>1 DEF IInv, FetchShape, FetchOf
<1> HIDE DEF endsAt, lowOf
<1>9. \/ PageOf(s) = {} /\ pages[s] = {} /\ UNCHANGED <<queue, newest, open, pages>>
      \/ ~buffered /\ PageOf(s) # {} /\ Push(s, PageOf(s)) /\ pages' = pages
      \/ /\ buffered /\ ~endsAt(s) /\ PageOf(s) # {}
         /\ pages' = [pages EXCEPT ![s] = @ \cup PageOf(s)] /\ UNCHANGED <<queue, newest, open>>
      \/ /\ buffered /\ endsAt(s) /\ PageOf(s) # {} /\ Push(s, pages[s] \cup PageOf(s))
         /\ pages' = [pages EXCEPT ![s] = {}]
  BY <1>4, <1>7, <1>8 DEF Emit
<1>10. \A r \in Symbols : r # s => jpc'[r] = jpc[r] /\ upto'[r] = upto[r] /\ limit'[r] = limit[r]
  BY <1>3 DEF IInv, TypeOK, JobsOK
<1>11. endsAt(s) => jpc'[s] = "done"
  BY <1>3, <1>5
<1>12. ~endsAt(s) => jpc'[s] = "fetch" /\ upto'[s] = lowOf(s) /\ limit'[s] >= 1
  BY <1>1, <1>3, <1>5, <1>6
<1> QED
  BY <1>1, <1>2, <1>9, <1>10, <1>11, <1>12

\* A page without points, of a symbol that has none at all.
LEMMA EmptyPage ==
  ASSUME IInv, NEW s \in Symbols, FetchPage(s), PageOf(s) = {}
  PROVE  PageLeft(s)
<1>1. /\ jpc[s] = "fetch" /\ UNCHANGED <<queue, newest, open, pages>>
      /\ UNCHANGED <<buffered, clock, published, stored, dropped, lossy, phase, full, last, since,
                     base, torn>>
  BY FetchPageSteps
<1>2. Untouched(s) /\ endsAt(s) /\ \A b \in Bars : <<s, b>> \in Written => b < since[s]
  BY <1>1, PageCovers
<1>3. Written' = Written
  BY <1>1 DEF Written
<1>4. RowShape'
  BY <1>1, <1>3 DEF IInv, RowShape
<1>5. Ordered'
  <2>1. \A r \in Symbols, b, c \in Bars : Due(r, c)' = Due(r, c) /\ OrderOf(r, b, c)' = OrderOf(r, b, c)
    BY <1>1, SinceSame DEF OrderOf, Due, Up
  <2> QED
    BY <1>1, <2>1 DEF IInv, Ordered
<1>6. DoneOf(s)'
  <2>1. \A b \in Bars : ~(b <= None)
    BY TypedState DEF None, IInv
  <2> QED
    BY <1>1, <1>2, <1>3, <2>1 DEF DoneOf, Untouched
<1> QED
  BY <1>1, <1>2, <1>3, <1>4, <1>5, <1>6 DEF PageLeft

\* A row pushed is of a bar that has closed and is served.
LEMMA PushedRows ==
  ASSUME IInv, NEW s \in Symbols, NEW B \in SUBSET Bars, B # {}, Push(s, B),
         UNCHANGED <<clock, published, stored>>,
         \A b \in B : b < clock /\ b < published[s]
  PROVE  RowShape'
<1>1. TypeOK
  BY DEF IInv
<1>2. /\ \A r \in Symbols, b \in Bars :
           <<r, b>> \in Written' <=> <<r, b>> \in Written \/ (r = s /\ b \in B)
      /\ ToSet(queue') = ToSet(queue) \cup {<<s, b>> : b \in B}
      /\ open' = open \cup {s}
  BY <1>1, PushMoves
<1>3. Written' = Written \cup {<<s, b>> : b \in B}
  BY <1>2 DEF Written
<1>4. ASSUME NEW r \in Written'
      PROVE  r[2] < clock' /\ r[2] < published'[r[1]]
  BY <1>3 DEF IInv, RowShape
<1>5. ASSUME NEW r \in ToSet(queue')
      PROVE  r[1] \in open'
  BY <1>2 DEF IInv, RowShape
<1> QED
  BY <1>4, <1>5 DEF RowShape

\* Open interest: the page is written at once.
LEMMA PageWrittenAtOnce ==
  ASSUME IInv, TypeOK', NEW s \in Symbols, FetchPage(s), ~buffered, PageOf(s) # {}
  PROVE  PageLeft(s)
<1> DEFINE P == PageOf(s)
<1>1. /\ jpc[s] = "fetch" /\ Push(s, P) /\ pages' = pages
      /\ UNCHANGED <<buffered, clock, published, stored, dropped, lossy, phase, full, last, since,
                     base, torn>>
      /\ ~endsAt(s) => upto'[s] = lowOf(s) /\ limit'[s] >= 1
  BY FetchPageSteps
<1>2. /\ P \in SUBSET Bars
      /\ \A b \in P : since[s] <= b /\ b < upto[s] /\ b < published[s] /\ b < clock
      /\ ~endsAt(s) => lowOf(s) \in P /\ since[s] < lowOf(s)
      /\ \A b \in Bars : /\ floorOf(s) <= b /\ b < upto[s]
                         /\ ~Untouched(s) \/ \E c \in P : b <= c
                         => b \in P
      /\ Untouched(s) => \A b \in Bars : <<s, b>> \in Written => \E c \in P : b <= c
  BY <1>1, PageCovers
<1>3. TypeOK /\ FetchOf(s)
  BY <1>1 DEF IInv, FetchShape
<1>4. /\ since[s] \in Int /\ upto[s] \in Int /\ published[s] \in Int /\ clock \in Int
      /\ newest[s] \in Bars \cup {None}
      /\ \A b \in Bars : b \in Int /\ b >= 0
  BY <1>3, TypedState, HistAssumption
<1> HIDE DEF P
<1>5. /\ \A r \in Symbols, b \in Bars :
           <<r, b>> \in Written' <=> <<r, b>> \in Written \/ (r = s /\ b \in P)
      /\ newest'[s] \in P \cup {newest[s]} /\ newest'[s] # None
      /\ \A b \in P \cup {newest[s]} : b <= newest'[s]
      /\ \A r \in Symbols : r # s => newest'[r] = newest[r]
      /\ open' = open \cup {s}
  BY <1>1, <1>2, <1>3, PushMoves DEF P
<1>6. RowShape'
  BY <1>1, <1>2, PushedRows DEF P
<1>7. Ordered'
  BY <1>1 DEF Ordered
<1>8. pages[s] = {} /\ (Untouched(s) <=> newest[s] = None)
  BY <1>3 DEF FetchOf, Untouched
<1>9. PICK m \in Bars : m = newest'[s]
  BY <1>2, <1>4, <1>5
<1>10. ASSUME ~dropped, NEW b \in Bars, floorOf(s) <= b, b <= m
       PROVE  <<s, b>> \in Written'
  <2>1. CASE b < upto[s]
    <3>1. ~Untouched(s) \/ \E c \in P : b <= c
      BY <1>5, <1>8, <1>9, <1>10
    <3> QED
      BY <1>2, <1>5, <1>10, <2>1, <3>1
  <2>2. CASE upto[s] <= b
    <3>1. m \notin P
      BY <1>2, <1>4, <1>9, <1>10, <2>2
    <3>2. m = newest[s]
      BY <1>5, <1>9, <3>1
    <3>3. <<s, b>> \in Written
      BY <1>3, <1>10, <2>2, <3>2 DEF FetchOf
    <3> QED BY <1>5, <3>3
  <2> QED
    BY <1>4, <2>1, <2>2
<1>11. ASSUME NEW b \in Bars, <<s, b>> \in Written'
       PROVE  b <= m
  <2>1. CASE b \in P
    BY <1>5, <1>9, <2>1
  <2>2. CASE <<s, b>> \in Written /\ Untouched(s)
    <3>1. PICK c \in P : b <= c
      BY <1>2, <2>2
    <3>2. c \in Int /\ c <= m /\ b \in Int /\ m \in Int
      BY <1>2, <1>4, <1>5, <1>9, <3>1
    <3> QED BY <3>1, <3>2
  <2>3. CASE <<s, b>> \in Written /\ ~Untouched(s)
    <3>1. b <= newest[s] /\ newest[s] <= m /\ newest[s] \in Int
      BY <1>3, <1>4, <1>5, <1>9, <2>3 DEF FetchOf, None
    <3> QED BY <1>4, <3>1
  <2> QED
    BY <1>5, <1>11, <2>1, <2>2, <2>3
<1>12. CASE endsAt(s)
  <2>1. DoneOf(s)'
    BY <1>1, <1>9, <1>10, <1>11, <1>12 DEF DoneOf, floorOf
  <2> QED
    BY <1>1, <1>5, <1>6, <1>7, <1>12, <2>1 DEF PageLeft
<1>13. CASE ~endsAt(s)
  <2>1. PICK l \in Bars : l = lowOf(s) /\ l \in P /\ since[s] < l
    BY <1>2, <1>13
  <2>2. l < upto[s] /\ upto[s] <= clock /\ l < published[s]
    BY <1>2, <1>3, <2>1 DEF FetchOf
  <2>3. l <= clock /\ l <= published[s]
    BY <1>4, <2>2
  <2>4. ~Untouched(s)'
    BY <1>5 DEF Untouched
  <2>5. floorOf(s) = l
    BY <1>13, <2>1 DEF floorOf
  <2>6. FetchOf(s)'
    BY <1>1, <1>8, <1>9, <1>10, <1>11, <1>13, <2>1, <2>3, <2>4, <2>5 DEF FetchOf
  <2> QED
    BY <1>1, <1>5, <1>6, <1>7, <1>13, <2>6 DEF PageLeft
<1> QED
  BY <1>12, <1>13

\* The ratios: a page that is not the last one is kept.
LEMMA PageKept ==
  ASSUME IInv, TypeOK', NEW s \in Symbols, FetchPage(s), buffered, ~endsAt(s), PageOf(s) # {},
         pages' = [pages EXCEPT ![s] = @ \cup PageOf(s)], UNCHANGED <<queue, newest, open>>
  PROVE  PageLeft(s)
<1> DEFINE P == PageOf(s)
<1>1. /\ jpc[s] = "fetch"
      /\ UNCHANGED <<buffered, clock, published, stored, dropped, lossy, phase, full, last, since,
                     base, torn>>
      /\ upto'[s] = lowOf(s) /\ limit'[s] >= 1
  BY FetchPageSteps
<1>2. /\ P \in SUBSET Bars
      /\ \A b \in P : since[s] <= b /\ b < upto[s] /\ b < published[s] /\ b < clock
      /\ lowOf(s) \in P /\ since[s] < lowOf(s)
      /\ \A b \in Bars : /\ lowOf(s) <= b /\ b < upto[s]
                         /\ ~Untouched(s) \/ \E c \in P : b <= c
                         => b \in P
      /\ Untouched(s) => \A b \in Bars : <<s, b>> \in Written => \E c \in P : b <= c
  BY <1>1, PageCovers DEF floorOf
<1>3. TypeOK /\ FetchOf(s)
  BY <1>1 DEF IInv, FetchShape
<1>4. /\ since[s] \in Int /\ upto[s] \in Int /\ published[s] \in Int /\ clock \in Int
      /\ pages[s] \in SUBSET Bars
      /\ \A b \in Bars : b \in Int /\ b >= 0
  BY <1>3, TypedState, HistAssumption
<1>5. /\ \A r \in Symbols : r # s => pages'[r] = pages[r]
      /\ pages'[s] = pages[s] \cup P
  BY <1>3 DEF TypeOK, JobsOK
<1> HIDE DEF P
<1>6. Written' = Written
  BY <1>1 DEF Written
<1>7. RowShape'
  BY <1>1, <1>6 DEF IInv, RowShape
<1>8. Ordered'
  <2>1. \A r \in Symbols, b, c \in Bars : Due(r, c)' = Due(r, c) /\ OrderOf(r, b, c)' = OrderOf(r, b, c)
    BY <1>1, SinceSame DEF OrderOf, Due, Up
  <2> QED
    BY <1>1, <2>1 DEF IInv, Ordered
<1>9. /\ newest[s] = None
      /\ \A c \in pages[s] : since[s] <= c /\ c < clock /\ c < published[s]
      /\ \A c \in pages[s], b \in Bars : upto[s] <= b /\ b <= c => b \in pages[s]
      /\ ~Untouched(s) => \A b \in Bars : <<s, b>> \in Written => \E c \in pages[s] : b <= c
  BY <1>3 DEF FetchOf
<1>10. PICK l \in Bars : l = lowOf(s) /\ l \in P /\ since[s] < l
  BY <1>2
<1>11. l <= clock /\ l <= published[s]
  BY <1>2, <1>4, <1>10
<1>12. ~Untouched(s)'
  BY <1>5, <1>10 DEF Untouched
<1>13. \A c \in pages'[s] : since[s] <= c /\ c < clock /\ c < published[s]
  BY <1>2, <1>5, <1>9
<1>14. ASSUME NEW c \in pages'[s], NEW b \in Bars, l <= b, b <= c
       PROVE  b \in pages'[s]
  <2>1. CASE b < upto[s]
    <3>1. ~Untouched(s) \/ c \in P
      BY <1>5, <1>14 DEF Untouched
    <3>2. b \in P
      BY <1>2, <1>10, <1>14, <2>1, <3>1
    <3> QED BY <1>5, <3>2
  <2>2. CASE upto[s] <= b
    <3>1. c \notin P
      BY <1>2, <1>4, <1>14, <2>2
    <3>2. c \in pages[s]
      BY <1>5, <1>14, <3>1
    <3> QED BY <1>5, <1>9, <1>14, <2>2, <3>2
  <2> QED
    BY <1>4, <2>1, <2>2
<1>15. \A b \in Bars : <<s, b>> \in Written => \E c \in pages'[s] : b <= c
  BY <1>2, <1>5, <1>9
<1>16. FetchOf(s)'
  <2>1. upto'[s] = l
    BY <1>1, <1>10
  <2>2. newest'[s] = None
    BY <1>9
  <2>3. limit'[s] >= 1 /\ upto'[s] <= clock' /\ upto'[s] <= published'[s] /\ since'[s] < upto'[s]
    BY <1>1, <1>10, <1>11, <2>1
  <2>4. \A c \in pages'[s], b \in Bars : upto'[s] <= b /\ b <= c => b \in pages'[s]
    BY <1>14, <2>1
  <2>5. \A c \in pages'[s] : since'[s] <= c /\ c < clock' /\ c < published'[s]
    BY <1>1, <1>13
  <2>6. \A b \in Bars : <<s, b>> \in Written' => \E c \in pages'[s] : b <= c
    BY <1>6, <1>15
  <2> QED
    BY <1>1, <1>12, <2>2, <2>3, <2>4, <2>5, <2>6 DEF FetchOf
<1> QED
  BY <1>1, <1>5, <1>6, <1>7, <1>8, <1>16 DEF PageLeft

\* The ratios: with the last page all of them are written.
LEMMA PagesWritten ==
  ASSUME IInv, TypeOK', NEW s \in Symbols, FetchPage(s), buffered, endsAt(s), PageOf(s) # {},
         Push(s, pages[s] \cup PageOf(s)), pages' = [pages EXCEPT ![s] = {}]
  PROVE  PageLeft(s)
<1> DEFINE P == PageOf(s)
           B == pages[s] \cup P
<1>1. /\ jpc[s] = "fetch"
      /\ UNCHANGED <<buffered, clock, published, stored, dropped, lossy, phase, full, last, since,
                     base, torn>>
  BY FetchPageSteps
<1>2. /\ P \in SUBSET Bars /\ P # {}
      /\ \A b \in P : since[s] <= b /\ b < upto[s] /\ b < published[s] /\ b < clock
      /\ \A b \in Bars : /\ since[s] <= b /\ b < upto[s]
                         /\ ~Untouched(s) \/ \E c \in P : b <= c
                         => b \in P
      /\ Untouched(s) => \A b \in Bars : <<s, b>> \in Written => \E c \in P : b <= c
  BY <1>1, PageCovers DEF floorOf
<1>3. TypeOK /\ FetchOf(s)
  BY <1>1 DEF IInv, FetchShape
<1>4. /\ since[s] \in Int /\ upto[s] \in Int /\ published[s] \in Int /\ clock \in Int
      /\ pages[s] \in SUBSET Bars
      /\ \A b \in Bars : b \in Int /\ b >= 0
  BY <1>3, TypedState, HistAssumption
<1>5. \A r \in Symbols : r # s => pages'[r] = pages[r]
  BY <1>3 DEF TypeOK, JobsOK
<1>6. /\ newest[s] = None
      /\ \A c \in pages[s] : since[s] <= c /\ c < clock /\ c < published[s]
      /\ \A c \in pages[s], b \in Bars : upto[s] <= b /\ b <= c => b \in pages[s]
      /\ ~Untouched(s) => \A b \in Bars : <<s, b>> \in Written => \E c \in pages[s] : b <= c
  BY <1>3 DEF FetchOf
<1> HIDE DEF P
<1>7. B \in SUBSET Bars /\ B # {} /\ Push(s, B) /\ stored' = stored
  BY <1>1, <1>2, <1>4 DEF P
<1>8. \A b \in B : b < clock /\ b < published[s]
  BY <1>2, <1>6
<1> HIDE DEF B
<1>9. /\ \A r \in Symbols, b \in Bars :
           <<r, b>> \in Written' <=> <<r, b>> \in Written \/ (r = s /\ b \in B)
      /\ newest'[s] \in B \cup {newest[s]} /\ newest'[s] # None
      /\ \A b \in B \cup {newest[s]} : b <= newest'[s]
      /\ \A r \in Symbols : r # s => newest'[r] = newest[r]
      /\ open' = open \cup {s}
  BY <1>3, <1>7, PushMoves
<1>10. RowShape'
  BY <1>1, <1>7, <1>8, PushedRows
<1>11. PICK m \in Bars : m = newest'[s]
  BY <1>6, <1>7, <1>9
<1>12. m \in B /\ \A b \in B : b <= m
  BY <1>6, <1>9, <1>11
<1>13. ASSUME NEW b \in Bars, since[s] <= b, b <= m
       PROVE  b \in B
  <2>1. CASE b < upto[s]
    <3>1. ~Untouched(s) \/ m \in P
      BY <1>12 DEF Untouched, B
    <3>2. b \in P
      BY <1>2, <1>13, <2>1, <3>1
    <3> QED BY <3>2 DEF B
  <2>2. CASE upto[s] <= b
    <3>1. m \notin P
      BY <1>2, <1>4, <1>13, <2>2
    <3>2. m \in pages[s]
      BY <1>12, <3>1 DEF B
    <3> QED BY <1>6, <1>13, <2>2, <3>2 DEF B
  <2> QED
    BY <1>4, <2>1, <2>2
<1>14. ASSUME NEW b \in Bars, <<s, b>> \in Written'
       PROVE  b <= m
  <2>1. \E c \in B : b <= c
    <3>1. CASE b \in B
      BY <1>4, <3>1
    <3>2. CASE <<s, b>> \in Written
      BY <1>2, <1>6, <3>2 DEF B
    <3> QED BY <1>9, <1>14, <3>1, <3>2
  <2>2. PICK c \in B : b <= c
    BY <2>1
  <2>3. c \in Int /\ b \in Int /\ m \in Int /\ c <= m
    BY <1>4, <1>7, <1>12, <2>2
  <2> QED BY <2>2, <2>3
<1>15. DoneOf(s)'
  BY <1>1, <1>9, <1>11, <1>13, <1>14 DEF DoneOf
<1>16. ASSUME ~lossy, NEW b \in B, NEW c \in Bars, c < b, Due(s, c)
       PROVE  <<s, c>> \in stored \/ c \in B
  <2>1. b \in Int /\ b <= m /\ c \in Int /\ m \in Int
    BY <1>4, <1>7, <1>12, <1>16
  <2>2. CASE since[s] <= c
    <3>1. c <= m
      BY <1>16, <2>1
    <3> QED BY <1>13, <2>2, <3>1
  <2>3. CASE c < since[s]
    <3>1. /\ base[s] = since[s] \/ since[s] <= last[s]
          /\ since[s] <= Since(s)
      BY <1>1 DEF IInv, JobShape
    <3>2. Since(s) \in Int /\ base[s] \in Int /\ last[s] \in Int /\ since[s] >= 0
      BY <1>3, <1>4, TypedState, HistAssumption DEF None
    <3>3. base[s] <= c /\ c < last[s]
      BY <1>4, <1>16, <2>1, <2>3, <3>1, <3>2 DEF Due
    <3>4. NoHole(s)
      BY <1>16 DEF IInv, NoHoles, Kept
    <3>5. last[s] # None
      BY <1>4, <2>1, <3>2, <3>3 DEF None
    <3>6. c \in base[s]..last[s]
      BY <2>1, <3>2, <3>3
    <3> QED BY <3>4, <3>5, <3>6 DEF NoHole
  <2> QED
    BY <1>4, <2>1, <2>2, <2>3
<1> DEFINE R == RowsOf(s, B)
           l == Len(queue)
<1>17. /\ R \in Seq(Rows) /\ queue \in Seq(Rows) /\ queue' = queue \o R
       /\ \A i \in 1..Len(R) : \E b \in B : R[i] = <<s, b>>
       /\ \A b \in B : \E i \in 1..Len(R) : R[i] = <<s, b>>
       /\ \A i, j \in 1..Len(R) : \A b, c \in B :
            R[i] = <<s, b>> /\ R[j] = <<s, c>> /\ c < b => j < i
  BY <1>3, <1>7, RowsOfBars DEF Push, TypeOK, TableOK
<1> HIDE DEF R
<1>18. /\ Len(queue') = l + Len(R) /\ l \in Nat /\ Len(R) \in Nat
       /\ \A i \in 1..l : queue'[i] = queue[i]
       /\ \A i \in 1..Len(R) : queue'[l + i] = R[i]
  <2> HIDE DEF Rows
  <2> QED BY <1>17, ElementsOfTwo, LenProperties
<1> HIDE DEF l
<1>19. ASSUME ~lossy, NEW r \in Symbols, NEW b \in Bars, NEW c \in Bars, c < b, Due(r, c),
              NEW i \in 1..(l + Len(R)), queue'[i] = <<r, b>>
       PROVE  <<r, c>> \in stored \/ \E j \in 1..(l + Len(R)) : j < i /\ queue'[j] = <<r, c>>
  <2>1. CASE i \in 1..l
    <3>1. queue[i] = <<r, b>>
      BY <1>18, <1>19, <2>1
    <3>2. OrderOf(r, b, c)
      BY <1>19 DEF IInv, Ordered
    <3>3. <<r, c>> \in stored \/ \E j \in 1..l : j < i /\ queue[j] = <<r, c>>
      BY <2>1, <3>1, <3>2 DEF OrderOf, l
    <3>4. ASSUME NEW j \in 1..l, j < i, queue[j] = <<r, c>>
          PROVE  \E k \in 1..(l + Len(R)) : k < i /\ queue'[k] = <<r, c>>
      <4>1. j \in 1..(l + Len(R)) /\ queue'[j] = <<r, c>>
        BY <1>18, <3>4
      <4> QED BY <3>4, <4>1
    <3> QED BY <3>3, <3>4
  <2>2. CASE i > l
    <3>1. PICK k \in 1..Len(R) : i = l + k
      <4>1. i - l \in 1..Len(R) /\ i = l + (i - l)
        BY <1>18, <2>2
      <4> QED BY <4>1
    <3>2. R[k] = <<r, b>>
      BY <1>18, <1>19, <3>1
    <3>3. r = s /\ b \in B
      BY <1>17, <3>1, <3>2
    <3>4. <<s, c>> \in stored \/ c \in B
      BY <1>16, <1>19, <3>3
    <3>5. ASSUME c \in B
          PROVE  \E j \in 1..(l + Len(R)) : j < i /\ queue'[j] = <<s, c>>
      <4>1. PICK n \in 1..Len(R) : R[n] = <<s, c>>
        BY <1>17, <3>5
      <4>2. n < k
        BY <1>17, <1>19, <3>1, <3>2, <3>3, <3>5, <4>1
      <4>3. l + n \in 1..(l + Len(R)) /\ l + n < i
        BY <1>18, <3>1, <4>1, <4>2
      <4>4. queue'[l + n] = <<s, c>>
        BY <1>18, <4>1
      <4> QED BY <4>3, <4>4
    <3> QED BY <3>3, <3>4, <3>5
  <2> QED
    BY <1>18, <2>1, <2>2
<1>20. Ordered'
  <2> SUFFICES ASSUME ~lossy, NEW r \in Symbols, NEW b \in Bars, NEW c \in Bars, c < b, Due(r, c)'
               PROVE  OrderOf(r, b, c)'
    BY <1>1 DEF Ordered
  <2>1. Due(r, c)
    BY <1>1, SinceSame DEF Due, Up
  <2>2. <<r, b>> \in stored => <<r, c>> \in stored
    BY <1>1, <2>1 DEF IInv, Ordered, OrderOf
  <2>3. \A i \in 1..Len(queue') : queue'[i] = <<r, b>> =>
          <<r, c>> \in stored \/ \E j \in 1..Len(queue') : j < i /\ queue'[j] = <<r, c>>
    <3>1. Len(queue') = l + Len(R)
      BY <1>18
    <3> QED BY <1>19, <2>1, <3>1
  <2>4. stored' = stored
    BY <1>1
  <2> QED
    BY <2>2, <2>3, <2>4 DEF OrderOf
<1> QED
  BY <1>1, <1>5, <1>9, <1>10, <1>15, <1>20 DEF PageLeft

\* A page is fetched.
LEMMA FetchPageKeeps ==
  ASSUME IInv, TypeOK', NEW s \in Symbols, FetchPage(s)
  PROVE  IInv'
<1>1. /\ jpc[s] = "fetch"
      /\ UNCHANGED <<buffered, clock, published, stored, dropped, lossy, phase, full, last, since,
                     needed, base, torn>>
      /\ \A r \in Symbols : r # s => jpc'[r] = jpc[r] /\ upto'[r] = upto[r] /\ limit'[r] = limit[r]
      /\ endsAt(s) => jpc'[s] = "done"
      /\ ~endsAt(s) => jpc'[s] = "fetch"
  BY FetchPageSteps
<1>2. PageLeft(s)
  <2>1. CASE PageOf(s) = {}
    BY <2>1, EmptyPage
  <2>2. CASE ~buffered /\ PageOf(s) # {}
    BY <2>2, PageWrittenAtOnce
  <2>3. CASE /\ buffered /\ ~endsAt(s) /\ PageOf(s) # {}
             /\ pages' = [pages EXCEPT ![s] = @ \cup PageOf(s)] /\ UNCHANGED <<queue, newest, open>>
    BY <2>3, PageKept
  <2>4. CASE /\ buffered /\ endsAt(s) /\ PageOf(s) # {} /\ Push(s, pages[s] \cup PageOf(s))
             /\ pages' = [pages EXCEPT ![s] = {}]
    BY <2>4, PagesWritten
  <2> QED
    BY <2>1, <2>2, <2>3, <2>4, FetchPageSteps
<1>3. /\ stored' = stored /\ open \subseteq open'
      /\ \A r \in Symbols : r # s => newest'[r] = newest[r] /\ pages'[r] = pages[r]
      /\ \A r \in Symbols, b \in Bars :
           r # s => (<<r, b>> \in Written' <=> <<r, b>> \in Written)
      /\ RowShape' /\ Ordered'
      /\ IF endsAt(s) THEN DoneOf(s)' ELSE FetchOf(s)'
  BY <1>2 DEF PageLeft
<1> HIDE DEF endsAt
<1>4. PhaseShape'
  <2>1. phase \in {"pass", "retry"} /\ ~full
    BY <1>1 DEF IInv, PhaseShape
  <2> QED
    BY <1>1, <2>1 DEF PhaseShape, Up
<1>5. \A r \in Symbols : Since(r)' = Since(r)
  BY <1>1, SinceSame
<1>6. NoHoles'
  BY <1>1 DEF IInv, NoHoles, NoHole, Kept
<1>7. Closed'
  BY <1>1, <1>3 DEF IInv, Closed
<1>8. Behind'
  BY <1>1, <1>3, <1>5 DEF IInv, Behind, Up
<1>9. JobShape'
  <2>1. \A r \in Symbols : jpc'[r] # "none" => jpc[r] # "none"
    BY <1>1
  <2> QED
    BY <1>1, <1>5, <2>1 DEF IInv, JobShape
<1>10. FetchShape'
  <2> SUFFICES ASSUME NEW r \in Symbols, jpc'[r] = "fetch"
               PROVE  FetchOf(r)'
    BY DEF FetchShape
  <2>1. CASE r = s
    BY <1>1, <1>3, <2>1
  <2>2. CASE r # s
    <3>1. FetchOf(r)
      BY <1>1, <2>2 DEF IInv, FetchShape
    <3>2. /\ UNCHANGED <<limit[r], upto[r], since[r], newest[r], pages[r]>>
          /\ UNCHANGED <<buffered, dropped, clock, published>>
          /\ \A b \in Bars : <<r, b>> \in Written' <=> <<r, b>> \in Written
      BY <1>1, <1>3, <2>2
    <3> QED
      BY <3>1, <3>2 DEF FetchOf, Untouched
  <2> QED
    BY <2>1, <2>2
<1>11. DoneShape'
  <2> SUFFICES ASSUME NEW r \in Symbols, jpc'[r] = "done"
               PROVE  DoneOf(r)'
    BY DEF DoneShape
  <2>1. CASE r = s
    BY <1>1, <1>3, <2>1
  <2>2. CASE r # s
    <3>1. DoneOf(r)
      BY <1>1, <2>2 DEF IInv, DoneShape
    <3>2. /\ UNCHANGED <<since[r], newest[r], dropped>>
          /\ \A b \in Bars : <<r, b>> \in Written' <=> <<r, b>> \in Written
      BY <1>1, <1>3, <2>2
    <3> QED
      BY <3>1, <3>2 DEF DoneOf
  <2> QED
    BY <2>1, <2>2
<1> QED
  BY <1>3, <1>4, <1>6, <1>7, <1>8, <1>9, <1>10, <1>11 DEF IInv

-----------------------------------------------------------------------------
(* The theorems. *)

\* It holds at first.
LEMMA IInvInit == Init => IInv
<1> SUFFICES ASSUME Init PROVE IInv
  OBVIOUS
<1>1. TypeOK
  BY TypeInit
<1>2. /\ clock = FirstClock /\ published = [s \in Symbols |-> FirstClock]
      /\ queue = <<>> /\ phase = "down" /\ full = TRUE
      /\ last = [s \in Symbols |-> None] /\ jpc = [s \in Symbols |-> "none"]
      /\ base = [s \in Symbols |-> 0] /\ open = {} /\ torn = {}
  BY DEF Init, NoJobs
<1>3. PICK n \in [Symbols -> 0..FirstClock] : stored = {r \in Rows : r[2] < n[r[1]]}
  BY DEF Init
<1>4. ToSet(queue) = {} /\ Written = stored
  BY <1>2 DEF ToSet, Written
<1>5. \A s \in Symbols, b \in Bars : <<s, b>> \in stored <=> b < n[s]
  BY <1>3 DEF Rows
<1>6. /\ \A s \in Symbols : n[s] \in Int /\ n[s] <= FirstClock
      /\ FirstClock \in Int /\ \A b \in Bars : b \in Int
  BY <1>1, <1>3, TypedState, HistAssumption
<1>7. PhaseShape /\ JobShape /\ FetchShape /\ DoneShape /\ Behind /\ NoHoles
  BY <1>2 DEF PhaseShape, JobShape, FetchShape, DoneShape, Behind, Up, NoHoles, NoHole
<1>8. RowShape
  <2> SUFFICES ASSUME NEW r \in stored PROVE r[2] < clock /\ r[2] < published[r[1]]
    BY <1>4 DEF RowShape
  <2>1. r[1] \in Symbols /\ r[2] \in Bars /\ r[2] < n[r[1]]
    BY <1>3 DEF Rows
  <2> QED BY <1>2, <1>6, <2>1
<1>9. \A s \in Symbols, b, c \in Bars : c <= b /\ <<s, b>> \in stored => <<s, c>> \in stored
  BY <1>5, <1>6
<1>10. Closed
  BY <1>9 DEF Closed
<1>11. Ordered
  <2>1. \A b, c \in Bars : c < b => c <= b
    BY <1>6
  <2>2. \A i \in 1..Len(queue) : FALSE
    BY <1>2
  <2> QED BY <1>9, <2>1, <2>2 DEF Ordered, OrderOf
<1> QED
  BY <1>1, <1>7, <1>8, <1>10, <1>11 DEF IInv

\* Every step keeps it.
LEMMA StepKeeps == IInv /\ [Next]_vars => IInv'
<1> SUFFICES ASSUME IInv, [Next]_vars PROVE IInv'
  OBVIOUS
<1>1. TypeOK'
  BY TypeNext DEF IInv
<1>2. clock \in Int /\ \A s \in Symbols : published[s] \in Int
  BY TypedState, HistAssumption DEF IInv
<1>3. clock <= clock /\ \A s \in Symbols : published[s] <= published[s]
  BY <1>2
<1>4. CASE Tick
  <2>1. clock <= clock'
    BY <1>2, <1>4 DEF Tick
  <2> QED
    BY <1>1, <1>3, <1>4, <2>1, EnvKeeps DEF Tick, writerVars, memVars, jobVars, histVars
<1>5. CASE Settle
  BY <1>1, <1>3, <1>5, EnvKeeps DEF Settle, writerVars, memVars, jobVars, histVars
<1>6. CASE Heal
  BY <1>1, <1>3, <1>6, EnvKeeps DEF Heal, writerVars, memVars, jobVars, histVars
<1>7. ASSUME NEW s \in Symbols, PublishBar(s)
      PROVE  IInv'
  <2>1. \A r \in Symbols : published[r] <= published'[r]
    <3>1. published' = [published EXCEPT ![s] = published[s] + 1] /\ published \in [Symbols -> 0..MaxClock]
      BY <1>7 DEF PublishBar, IInv, TypeOK, WorldOK
    <3> QED BY <1>2, <3>1
  <2> QED
    BY <1>1, <1>3, <1>7, <2>1, EnvKeeps DEF PublishBar, writerVars, memVars, jobVars, histVars
<1>8. CASE LiveBatchDropped
  BY <1>1, <1>3, <1>8, EnvKeeps DEF LiveBatchDropped, envVars, memVars, jobVars, histVars
<1>9. CASE WriteBatch
  BY <1>1, <1>9, WriteBatchKeeps
<1>10. CASE Start
  BY <1>1, <1>10, StartKeeps
<1>11. CASE Reconcile
  BY <1>1, <1>11, LoadStateKeeps, PlanKeeps, RetryKeeps, EndPassKeeps, BeginFetchKeeps,
     FetchPageKeeps, FetchFailsKeeps DEF Reconcile
<1>12. CASE Down
  BY <1>1, <1>12, DownKeeps
<1>13. CASE UNCHANGED vars
  BY <1>1, <1>3, <1>13, EnvKeeps DEF vars, envVars, writerVars, memVars, jobVars, histVars
<1> QED
  BY <1>4, <1>5, <1>6, <1>7, <1>8, <1>9, <1>10, <1>11, <1>12, <1>13 DEF Next

\* The invariant holds throughout: the table, the queue, the jobs and the
\* progress of the reconcilers agree in every reachable state.
THEOREM InvariantKept == Spec => []IInv
BY IInvInit, StepKeeps, PTL DEF Spec

\* What last says of a symbol whose rows never went uncommitted into the end of
\* a life is in the table, down to the oldest bar the passes had to cover: for
\* any page size, any number of symbols, batches given up in the background,
\* failed pages, retries and restarts (Reconciler.pass, hist.go:301-364).
THEOREM ProgressKept == Spec => []ProgressOfCommittedIsStored
<1>1. IInv => ProgressOfCommittedIsStored
  BY DEF IInv, NoHoles, Kept, ProgressOfCommittedIsStored
<1> QED
  BY <1>1, InvariantKept, PTL

\* The ratios keep it over a stop at any moment, as no bar overtakes an older
\* one on its way into the table.
THEOREM OldestFirstKept == Spec => []OldestFirstSurvivesCrash
<1>1. IInv => OldestFirstSurvivesCrash
  BY DEF IInv, NoHoles, Kept, OldestFirstSurvivesCrash
<1> QED
  BY <1>1, InvariantKept, PTL
=============================================================================
