-------------------------- MODULE BatchWriterProofs --------------------------
(***************************************************************************)
(* The batch writer keeps every accepted row in exactly one place and in   *)
(* order, and implements the barrier writer, for every number of rows,     *)
(* callers and retries and every size of the channel and of the batch.     *)
(***************************************************************************)
EXTENDS BatchWriter, TLAPS

-----------------------------------------------------------------------------
(* Rows in sequences. *)

Increasing(s) == \A i, j \in 1..Len(s) : i < j => s[i] < s[j]
Below(S, T)   == \A m \in S, n \in T : m < n

Row == 1..MaxRows

LEMMA RowIsInt == Row \subseteq Int
BY DEF Row

LEMMA RowsTyped ==
  ASSUME NEW s \in Seq(Row)
  PROVE  RowsOf(s) \subseteq Row /\ (s = <<>> <=> RowsOf(s) = {})
<1>1. \A i \in 1..Len(s) : s[i] \in Row
  OBVIOUS
<1>2. s # <<>> => 1 \in 1..Len(s)
  OBVIOUS
<1>3. s = <<>> => 1..Len(s) = {}
  OBVIOUS
<1> QED
  BY <1>1, <1>2, <1>3 DEF RowsOf

LEMMA RowsOfConcat ==
  ASSUME NEW s \in Seq(Row), NEW t \in Seq(Row)
  PROVE  s \o t \in Seq(Row) /\ RowsOf(s \o t) = RowsOf(s) \cup RowsOf(t)
<1> DEFINE u == s \o t
<1>1. /\ u \in Seq(Row) /\ Len(u) = Len(s) + Len(t) /\ Len(s) \in Nat /\ Len(t) \in Nat
      /\ \A i \in 1..Len(s) : u[i] = s[i]
      /\ \A i \in 1..Len(t) : u[Len(s) + i] = t[i]
  OBVIOUS
<1> HIDE DEF u
<1>2. ASSUME NEW i \in 1..Len(u) PROVE u[i] \in RowsOf(s) \cup RowsOf(t)
  <2>1. CASE i <= Len(s)
    BY <1>1, <2>1 DEF RowsOf
  <2>2. CASE i > Len(s)
    <3>1. i - Len(s) \in 1..Len(t) /\ i = Len(s) + (i - Len(s))
      BY <1>1, <2>2
    <3> QED
      BY <1>1, <3>1 DEF RowsOf
  <2> QED
    BY <1>1, <2>1, <2>2
<1>3. ASSUME NEW i \in 1..Len(s) PROVE s[i] \in RowsOf(u)
  BY <1>1 DEF RowsOf
<1>4. ASSUME NEW i \in 1..Len(t) PROVE t[i] \in RowsOf(u)
  <2>1. Len(s) + i \in 1..Len(u)
    BY <1>1
  <2> QED
    BY <1>1, <2>1 DEF RowsOf
<1>5. RowsOf(u) = RowsOf(s) \cup RowsOf(t)
  BY <1>2, <1>3, <1>4 DEF RowsOf
<1> QED
  BY <1>1, <1>5 DEF u

LEMMA IncreasingConcat ==
  ASSUME NEW s \in Seq(Row), NEW t \in Seq(Row),
         Increasing(s), Increasing(t), Below(RowsOf(s), RowsOf(t))
  PROVE  Increasing(s \o t)
<1> DEFINE u == s \o t
<1>1. /\ Len(u) = Len(s) + Len(t) /\ Len(s) \in Nat /\ Len(t) \in Nat
      /\ \A i \in 1..Len(s) : u[i] = s[i]
      /\ \A i \in 1..Len(t) : u[Len(s) + i] = t[i]
  OBVIOUS
<1> HIDE DEF u
<1> SUFFICES ASSUME NEW i \in 1..Len(u), NEW j \in 1..Len(u), i < j PROVE u[i] < u[j]
  BY DEF Increasing, u
<1>2. CASE j <= Len(s)
  <2>1. i \in 1..Len(s) /\ j \in 1..Len(s)
    BY <1>1, <1>2
  <2> QED
    BY <1>1, <2>1 DEF Increasing
<1>3. CASE i <= Len(s) /\ j > Len(s)
  <2>1. i \in 1..Len(s) /\ j - Len(s) \in 1..Len(t) /\ j = Len(s) + (j - Len(s))
    BY <1>1, <1>3
  <2>2. u[i] = s[i] /\ u[j] = t[j - Len(s)]
    BY <1>1, <2>1
  <2>3. s[i] \in RowsOf(s) /\ t[j - Len(s)] \in RowsOf(t)
    BY <2>1 DEF RowsOf
  <2> QED
    BY <2>2, <2>3 DEF Below
<1>4. CASE i > Len(s)
  <2>1. /\ i - Len(s) \in 1..Len(t) /\ i = Len(s) + (i - Len(s))
        /\ j - Len(s) \in 1..Len(t) /\ j = Len(s) + (j - Len(s))
        /\ i - Len(s) < j - Len(s)
    BY <1>1, <1>4
  <2>2. u[i] = t[i - Len(s)] /\ u[j] = t[j - Len(s)]
    BY <1>1, <2>1
  <2> QED
    BY <2>1, <2>2 DEF Increasing
<1> QED
  BY <1>1, <1>2, <1>3, <1>4

LEMMA IncreasingOne == ASSUME NEW n \in Row PROVE Increasing(<<n>>) /\ RowsOf(<<n>>) = {n}
BY DEF Increasing, RowsOf

\* A row that goes behind all others.
LEMMA Appended ==
  ASSUME NEW s \in Seq(Row), NEW n \in Row
  PROVE  /\ Append(s, n) \in Seq(Row) /\ Len(Append(s, n)) = Len(s) + 1
         /\ RowsOf(Append(s, n)) = RowsOf(s) \cup {n}
         /\ Increasing(s) /\ Below(RowsOf(s), {n}) => Increasing(Append(s, n))
<1> DEFINE t == <<n>>
<1>1. t \in Seq(Row) /\ Append(s, n) = s \o t /\ Len(Append(s, n)) = Len(s) + 1
  OBVIOUS
<1>2. Increasing(t) /\ RowsOf(t) = {n}
  BY IncreasingOne
<1> HIDE DEF t
<1>3. s \o t \in Seq(Row) /\ RowsOf(s \o t) = RowsOf(s) \cup {n}
  BY <1>1, <1>2, RowsOfConcat
<1>4. Increasing(s) /\ Below(RowsOf(s), {n}) => Increasing(s \o t)
  BY <1>1, <1>2, IncreasingConcat
<1> QED
  BY <1>1, <1>3, <1>4

\* The row loop takes from the channel.
LEMMA Taken ==
  ASSUME NEW s \in Seq(Row), s # <<>>
  PROVE  /\ Head(s) \in Row /\ Tail(s) \in Seq(Row) /\ Len(Tail(s)) = Len(s) - 1
         /\ RowsOf(s) = RowsOf(Tail(s)) \cup {Head(s)}
         /\ Increasing(s) => Increasing(Tail(s)) /\ Below({Head(s)}, RowsOf(Tail(s)))
<1> DEFINE t == Tail(s)
<1>1. /\ Head(s) = s[1] /\ s[1] \in Row /\ 1 \in 1..Len(s) /\ Len(s) \in Nat
      /\ t \in Seq(Row) /\ Len(t) = Len(s) - 1
      /\ \A i \in 1..Len(t) : i + 1 \in 1..Len(s) /\ t[i] = s[i + 1]
  OBVIOUS
<1> HIDE DEF t
<1>2. ASSUME NEW i \in 1..Len(s) PROVE s[i] \in RowsOf(t) \cup {s[1]}
  <2>1. CASE i # 1
    <3>1. i - 1 \in 1..Len(t) /\ (i - 1) + 1 = i
      BY <1>1, <2>1
    <3> QED
      BY <1>1, <3>1 DEF RowsOf
  <2> QED
    BY <2>1
<1>3. RowsOf(s) = RowsOf(t) \cup {s[1]}
  BY <1>1, <1>2 DEF RowsOf
<1>4. ASSUME Increasing(s) PROVE Increasing(t) /\ Below({s[1]}, RowsOf(t))
  <2>1. ASSUME NEW i \in 1..Len(t), NEW j \in 1..Len(t), i < j PROVE t[i] < t[j]
    <3>1. i + 1 \in 1..Len(s) /\ j + 1 \in 1..Len(s) /\ i + 1 < j + 1
      BY <1>1, <2>1
    <3> QED
      BY <1>1, <1>4, <3>1 DEF Increasing
  <2>2. ASSUME NEW i \in 1..Len(t) PROVE s[1] < t[i]
    <3>1. i + 1 \in 1..Len(s) /\ 1 < i + 1
      BY <1>1
    <3> QED
      BY <1>1, <1>4, <3>1 DEF Increasing
  <2> QED
    BY <2>1, <2>2 DEF Increasing, Below, RowsOf
<1> QED
  BY <1>1, <1>3, <1>4 DEF t

-----------------------------------------------------------------------------
(* The invariant. *)

\* Rows are in the order in which they were accepted, within each place and
\* from one place to the next.
InOrder ==
  /\ Increasing(stored) /\ Increasing(batch) /\ Increasing(input)
  /\ Below(RowsOf(stored), RowsOf(batch)) /\ Below(RowsOf(batch), RowsOf(input))
  /\ Below(RowsOf(stored), RowsOf(input))

Accounted ==
  /\ RowsOf(stored) \cup RowsOf(batch) \cup RowsOf(input) \cup dropped = 1..accepted
  /\ (RowsOf(stored) \cup RowsOf(batch) \cup RowsOf(input)) \cap dropped = {}

\* loop serves a call of Flush.
Serving == lpc \in {"barrier", "reply"} \/ (lpc = "flush" /\ fl.why = "manual")

LoopShape ==
  /\ lpc \in {"select", "barrier", "drain"} => Len(batch) < BatchSize
  /\ lpc \in {"reply", "done"} => batch = <<>>
  /\ lpc = "flush" => batch # <<>> /\ (fl.why = "manual" <=> fl.back \in {"barrier", "reply"})
  /\ barrier # None <=> Serving

\* lastErr is about the call loop serves; a call that was not served yet has
\* lost nothing.
ErrShape ==
  /\ barrier # None => fpc[barrier] \in {"wait", "done"} /\ (barrier \in lossy <=> lastErr)
  /\ \A f \in Flushers : fpc[f] \in {"idle", "send"} => f \notin lossy

\* Once the barrier has found the channel empty, the rows in it are younger
\* than the call it serves.
Emptied == lpc = "reply" \/ (lpc = "flush" /\ fl.back = "reply")

MarkShape ==
  /\ \A f \in Flushers : fmark[f] <= accepted
  /\ Emptied => \A n \in RowsOf(input) : fmark[barrier] < n

\* What a failed attempt may have applied has not left the batch otherwise.
UnsureShape == unsure \subseteq RowsOf(batch) \cup dropped

IInv == /\ TypeOK /\ InOrder /\ Accounted /\ UnsureShape
        /\ LoopShape /\ ErrShape /\ MarkShape

\* The types of what holds rows.
LEMMA SeqsTyped ==
  ASSUME TypeOK
  PROVE  /\ input \in Seq(Row) /\ batch \in Seq(Row) /\ stored \in Seq(Row)
         /\ Len(input) \in Nat /\ Len(batch) \in Nat
         /\ accepted \in Nat /\ MaxRows \in Nat /\ BatchSize \in Nat /\ dropped \subseteq Row
BY BatchWriterAssumption DEF TypeOK, RowsOK, Row, BatchWriterAssumption

\* What taking a row does to the batch and the channel (the three receives).
LEMMA TakeRowRows ==
  ASSUME IInv, NEW why, NEW back, TakeRow(why, back)
  PROVE  /\ input # <<>> /\ batch' \in Seq(Row) /\ input' \in Seq(Row)
         /\ Len(batch') = Len(batch) + 1 /\ Len(input') = Len(input) - 1
         /\ RowsOf(batch') \cup RowsOf(input') = RowsOf(batch) \cup RowsOf(input)
         /\ RowsOf(input') \subseteq RowsOf(input)
         /\ InOrder' /\ Accounted'
<1> DEFINE h == Head(input)
           t == Tail(input)
<1>1. /\ input # <<>> /\ batch' = Append(batch, h) /\ input' = t
      /\ UNCHANGED <<stored, dropped, accepted>>
  BY DEF TakeRow
<1>2. /\ input \in Seq(Row) /\ batch \in Seq(Row) /\ stored \in Seq(Row)
      /\ Increasing(input) /\ Increasing(batch) /\ Below(RowsOf(batch), RowsOf(input))
      /\ Below(RowsOf(stored), RowsOf(input)) /\ Below(RowsOf(stored), RowsOf(batch))
      /\ Increasing(stored)
  BY SeqsTyped DEF IInv, InOrder
<1>3. /\ h \in Row /\ t \in Seq(Row) /\ Len(t) = Len(input) - 1
      /\ RowsOf(input) = RowsOf(t) \cup {h}
      /\ Increasing(t) /\ Below({h}, RowsOf(t))
  BY <1>1, <1>2, Taken
<1> HIDE DEF h, t
<1>4. Below(RowsOf(batch), {h})
  BY <1>2, <1>3 DEF Below
<1>5. /\ batch' \in Seq(Row) /\ Len(batch') = Len(batch) + 1
      /\ RowsOf(batch') = RowsOf(batch) \cup {h} /\ Increasing(batch')
  BY <1>1, <1>2, <1>3, <1>4, Appended
<1>6. Below(RowsOf(batch'), RowsOf(t)) /\ Below(RowsOf(stored), RowsOf(batch'))
      /\ Below(RowsOf(stored), RowsOf(t))
  BY <1>2, <1>3, <1>5 DEF Below
<1>7. InOrder'
  BY <1>1, <1>2, <1>3, <1>5, <1>6 DEF InOrder
<1>8. RowsOf(batch') \cup RowsOf(input') = RowsOf(batch) \cup RowsOf(input)
  BY <1>1, <1>3, <1>5
<1>9. Accounted'
  <2>1. RowsOf(stored') = RowsOf(stored) /\ dropped' = dropped /\ accepted' = accepted
    BY <1>1 DEF RowsOf
  <2> QED
    BY <1>8, <2>1 DEF IInv, Accounted
<1> QED
  BY <1>1, <1>3, <1>5, <1>7, <1>8, <1>9

\* Acceptance of a row.
LEMMA AcceptRows ==
  ASSUME IInv, Accept
  PROVE  /\ input' \in Seq(Row) /\ Len(input') = Len(input) + 1
         /\ RowsOf(input') = RowsOf(input) \cup {accepted + 1}
         /\ InOrder' /\ Accounted'
<1> DEFINE n == accepted + 1
<1>1. /\ input' = Append(input, n) /\ accepted' = n /\ accepted < MaxRows
      /\ UNCHANGED <<batch, stored, dropped>>
  BY DEF Accept
<1>2. /\ input \in Seq(Row) /\ n \in Row /\ accepted \in Nat /\ dropped \subseteq Row
      /\ InOrder /\ Accounted
  BY <1>1, SeqsTyped DEF IInv, Row
<1>3. Below(RowsOf(stored), {n}) /\ Below(RowsOf(batch), {n}) /\ Below(RowsOf(input), {n})
      /\ n \notin dropped /\ 1..n = 1..accepted \cup {n}
  BY <1>2 DEF Accounted, Below
<1> HIDE DEF n
<1>4. /\ input' \in Seq(Row) /\ Len(input') = Len(input) + 1
      /\ RowsOf(input') = RowsOf(input) \cup {n} /\ Increasing(input')
  BY <1>1, <1>2, <1>3, Appended DEF InOrder
<1>5. InOrder'
  BY <1>1, <1>2, <1>3, <1>4 DEF InOrder, Below
<1>6. n \notin RowsOf(stored) \cup RowsOf(batch) \cup RowsOf(input)
  BY <1>2 DEF Accounted, n
<1>7. RowsOf(stored') = RowsOf(stored) /\ RowsOf(batch') = RowsOf(batch)
  BY <1>1 DEF RowsOf
<1>8. Accounted'
  BY <1>1, <1>2, <1>3, <1>4, <1>6, <1>7 DEF Accounted
<1> QED
  BY <1>4, <1>5, <1>8 DEF n

LEMMA NoRows == <<>> \in Seq(Row) /\ RowsOf(<<>>) = {} /\ Increasing(<<>>)
BY DEF RowsOf, Increasing

\* A batch that is written.
LEMMA FlushOKRows ==
  ASSUME IInv, FlushOK
  PROVE  /\ stored' \in Seq(Row) /\ batch' = <<>> /\ UNCHANGED <<input, dropped, accepted>>
         /\ RowsOf(stored') = RowsOf(stored) \cup RowsOf(batch)
         /\ InOrder' /\ Accounted'
<1>1. /\ stored' = stored \o batch /\ batch' = <<>>
      /\ UNCHANGED <<input, dropped, accepted>>
  BY DEF FlushOK, EndFlush
<1>2. stored \in Seq(Row) /\ batch \in Seq(Row) /\ InOrder /\ Accounted
  BY SeqsTyped DEF IInv
<1>3. /\ stored' \in Seq(Row) /\ RowsOf(stored') = RowsOf(stored) \cup RowsOf(batch)
      /\ Increasing(stored')
  BY <1>1, <1>2, RowsOfConcat, IncreasingConcat DEF InOrder
<1>4. RowsOf(batch') = {} /\ Increasing(batch') /\ RowsOf(input') = RowsOf(input)
      /\ Increasing(input')
  BY <1>1, <1>2, NoRows DEF InOrder
<1>5. InOrder'
  BY <1>2, <1>3, <1>4 DEF InOrder, Below
<1>6. Accounted'
  BY <1>1, <1>2, <1>3, <1>4 DEF Accounted
<1> QED
  BY <1>1, <1>3, <1>5, <1>6

\* A batch that is given up.
LEMMA DropRows ==
  ASSUME IInv, Drop, UNCHANGED <<input, stored, accepted>>
  PROVE  /\ batch' = <<>> /\ dropped' = dropped \cup RowsOf(batch)
         /\ InOrder' /\ Accounted'
<1>1. batch' = <<>> /\ dropped' = dropped \cup RowsOf(batch)
  BY DEF Drop, EndFlush
<1>2. stored \in Seq(Row) /\ batch \in Seq(Row) /\ InOrder /\ Accounted
  BY SeqsTyped DEF IInv
<1>3. RowsOf(batch') = {} /\ Increasing(batch')
  BY <1>1, NoRows
<1>4. RowsOf(input') = RowsOf(input) /\ RowsOf(stored') = RowsOf(stored)
  BY DEF RowsOf
<1>5. InOrder'
  BY <1>2, <1>3, <1>4 DEF InOrder, Below
<1>6. RowsOf(batch) \cap RowsOf(input) = {} /\ RowsOf(batch) \cap RowsOf(stored) = {}
  <2> SUFFICES ASSUME NEW n \in RowsOf(batch)
               PROVE  n \notin RowsOf(input) /\ n \notin RowsOf(stored)
    OBVIOUS
  <2>1. n \in Int
    BY <1>2, RowsTyped, RowIsInt
  <2>2. (n \in RowsOf(input) => n < n) /\ (n \in RowsOf(stored) => n < n)
    BY <1>2 DEF InOrder, Below
  <2> QED
    BY <2>1, <2>2
<1>7. Accounted'
  BY <1>1, <1>2, <1>3, <1>4, <1>6 DEF Accounted
<1> QED
  BY <1>1, <1>5, <1>7

\* The order and the account of the rows: only five kinds of step touch them.
LEMMA RowStep == IInv /\ [Next]_vars => InOrder' /\ Accounted'
<1> SUFFICES ASSUME IInv, [Next]_vars PROVE InOrder' /\ Accounted'
  OBVIOUS
<1>1. CASE UNCHANGED rowVars
  BY <1>1 DEF rowVars, IInv, InOrder, Accounted, RowsOf, Increasing
<1>2. CASE Accept
  BY <1>2, AcceptRows
<1>3. CASE SelectRow \/ BarrierRow \/ DrainRow
  BY <1>3, TakeRowRows DEF SelectRow, BarrierRow, DrainRow
<1>4. CASE FlushOK
  BY <1>4, FlushOKRows
<1>5. CASE FlushFailed
  BY <1>1, <1>5, DropRows DEF FlushFailed, rowVars
<1>6. CASE BackoffEnd
  BY <1>1, <1>6, DropRows DEF BackoffEnd, rowVars
<1>7. CASE BeginPush \/ Refuse \/ CloseStore \/ CloseSignal \/ CancelContext
  BY <1>1, <1>7 DEF BeginPush, Refuse, CloseStore, CloseSignal, CancelContext
<1>8. ASSUME NEW f \in Flushers,
             BeginFlush(f) \/ CancelFlush(f) \/ LeaveFlush(f) \/ SelectFlush(f)
      PROVE  InOrder' /\ Accounted'
  BY <1>1, <1>8 DEF BeginFlush, CancelFlush, LeaveFlush, SelectFlush
<1>9. CASE SelectTick \/ SelectStop \/ BarrierEmpty \/ Reply \/ DrainEmpty
  BY <1>1, <1>9 DEF SelectTick, SelectStop, BarrierEmpty, Reply, DrainEmpty
<1> QED
  BY <1>1, <1>2, <1>3, <1>4, <1>5, <1>6, <1>7, <1>8, <1>9 DEF Next, LoopStep, vars

-----------------------------------------------------------------------------
(* Types. *)

LEMMA Numbers ==
  /\ MaxRows \in Nat /\ MaxCalls \in Nat /\ MaxRetries \in Nat
  /\ ChannelSize \in Nat \ {0} /\ BatchSize \in Nat \ {0}
BY BatchWriterAssumption DEF BatchWriterAssumption

\* Only a failed attempt adds to what is unsure, and no row leaves the batch
\* but for the table or for the count of what was dropped.
LEMMA UnsureStep == IInv /\ [Next]_vars => UnsureShape'
<1> SUFFICES ASSUME IInv, [Next]_vars PROVE UnsureShape'
  OBVIOUS
<1>0. UnsureShape
  BY DEF IInv
<1>1. CASE UNCHANGED <<batch, dropped, unsure>>
  BY <1>0, <1>1 DEF UnsureShape, RowsOf
<1>2. CASE SelectRow \/ BarrierRow \/ DrainRow
  <2>1. PICK why, back : TakeRow(why, back)
    BY <1>2 DEF SelectRow, BarrierRow, DrainRow
  <2>2. UNCHANGED <<dropped, unsure>> /\ batch' = Append(batch, Head(input)) /\ input # <<>>
    BY <2>1 DEF TakeRow, histVars
  <2>3. batch \in Seq(Row) /\ input \in Seq(Row)
    BY SeqsTyped DEF IInv
  <2>4. Head(input) \in Row
    BY <2>2, <2>3, Taken
  <2>5. RowsOf(batch) \subseteq RowsOf(batch')
    BY <2>2, <2>3, <2>4, Appended
  <2> QED
    BY <1>0, <2>2, <2>5 DEF UnsureShape
<1>3. CASE FlushOK
  <2>1. unsure' = unsure \ RowsOf(batch) /\ UNCHANGED dropped
    BY <1>3 DEF FlushOK
  <2> QED
    BY <1>0, <2>1 DEF UnsureShape
<1>4. ASSUME Drop, unsure' \in {unsure, unsure \cup RowsOf(batch)} PROVE UnsureShape'
  <2>1. dropped' = dropped \cup RowsOf(batch)
    BY <1>4 DEF Drop
  <2> QED
    BY <1>0, <1>4, <2>1 DEF UnsureShape
<1>5. CASE FlushFailed
  <2>1. unsure' \in {unsure, unsure \cup RowsOf(batch)}
    BY <1>5 DEF FlushFailed
  <2>2. CASE UNCHANGED <<batch, dropped>>
    <3>1. RowsOf(batch') = RowsOf(batch)
      BY <2>2
    <3> QED
      BY <1>0, <2>1, <2>2, <3>1 DEF UnsureShape
  <2> QED
    BY <1>4, <1>5, <2>1, <2>2 DEF FlushFailed
<1>6. CASE BackoffEnd
  BY <1>1, <1>4, <1>6 DEF BackoffEnd
<1>7. CASE Accept \/ BeginPush \/ Refuse \/ CloseStore \/ CloseSignal \/ CancelContext
  BY <1>1, <1>7 DEF Accept, BeginPush, Refuse, CloseStore, CloseSignal, CancelContext, rowVars, histVars
<1>8. ASSUME NEW f \in Flushers,
             BeginFlush(f) \/ CancelFlush(f) \/ LeaveFlush(f) \/ SelectFlush(f)
      PROVE  UnsureShape'
  BY <1>1, <1>8 DEF BeginFlush, CancelFlush, LeaveFlush, SelectFlush, rowVars, histVars
<1>9. CASE SelectTick \/ SelectStop \/ BarrierEmpty \/ Reply \/ DrainEmpty
  BY <1>1, <1>9 DEF SelectTick, SelectStop, BarrierEmpty, Reply, DrainEmpty, rowVars, histVars
<1>10. CASE UNCHANGED vars
  BY <1>1, <1>10 DEF vars, rowVars, histVars
<1> QED
  BY <1>2, <1>3, <1>5, <1>6, <1>7, <1>8, <1>9, <1>10 DEF Next, LoopStep

LEMMA RowsTypeStep == IInv /\ [Next]_vars => RowsOK'
<1> SUFFICES ASSUME IInv, [Next]_vars PROVE RowsOK'
  OBVIOUS
<1>1. RowsOK /\ LoopShape
  BY DEF IInv, TypeOK
<1>2. CASE UNCHANGED <<rowVars, cmark>>
  BY <1>1, <1>2 DEF rowVars, RowsOK
<1>3. CASE Accept
  <2>1. input' \in Seq(Row) /\ Len(input') = Len(input) + 1 /\ Len(input) \in Nat
    BY <1>3, AcceptRows, SeqsTyped DEF IInv
  <2>2. Len(input) < ChannelSize /\ accepted' = accepted + 1 /\ accepted < MaxRows
    BY <1>3 DEF Accept
  <2>3. UNCHANGED <<batch, stored, dropped, cmark>>
    BY <1>3 DEF Accept, histVars
  <2> QED
    BY <1>1, <2>1, <2>2, <2>3, Numbers DEF RowsOK, Row
<1>4. ASSUME NEW why, NEW back \in {"select", "barrier", "drain"},
             lpc = back, TakeRow(why, back)
      PROVE  RowsOK'
  <2>1. /\ batch' \in Seq(Row) /\ input' \in Seq(Row) /\ Len(batch) < BatchSize
        /\ Len(batch') = Len(batch) + 1 /\ Len(input') = Len(input) - 1
        /\ Len(batch) \in Nat /\ Len(input) \in Nat
    BY <1>1, <1>4, TakeRowRows, SeqsTyped DEF LoopShape, IInv
  <2>2. Len(batch') <= BatchSize /\ Len(input') <= ChannelSize
    BY <1>1, <2>1, Numbers DEF RowsOK
  <2>3. UNCHANGED <<stored, dropped, accepted, cmark>>
    BY <1>4 DEF TakeRow, histVars
  <2> QED
    BY <1>1, <2>1, <2>2, <2>3 DEF RowsOK, Row
<1>5. CASE SelectRow \/ BarrierRow \/ DrainRow
  BY <1>4, <1>5 DEF SelectRow, BarrierRow, DrainRow
<1>6. <<>> \in Seq(Row) /\ Len(<<>>) <= BatchSize
  BY NoRows, Numbers
<1>7. CASE FlushOK
  <2>1. UNCHANGED <<input, dropped, accepted, cmark>>
    BY <1>7 DEF FlushOK, histVars
  <2> QED
    BY <1>1, <1>6, <1>7, <2>1, FlushOKRows DEF RowsOK, Row
<1>8. ASSUME Drop, UNCHANGED <<input, stored, accepted, cmark>> PROVE RowsOK'
  <2>1. batch' = <<>> /\ dropped' = dropped \cup RowsOf(batch)
    BY <1>8 DEF Drop, EndFlush
  <2>2. dropped' \subseteq Row
    BY <2>1, SeqsTyped, RowsTyped DEF IInv
  <2> QED
    BY <1>1, <1>6, <1>8, <2>1, <2>2 DEF RowsOK, Row
<1>9. CASE FlushFailed
  BY <1>2, <1>8, <1>9 DEF FlushFailed, rowVars
<1>10. CASE BackoffEnd
  BY <1>2, <1>8, <1>10 DEF BackoffEnd, rowVars
<1>11. CASE SelectStop \/ CloseStore
  BY <1>1, <1>11 DEF SelectStop, CloseStore, rowVars, RowsOK
<1>12. CASE BeginPush \/ Refuse \/ CloseSignal \/ CancelContext
  BY <1>2, <1>12 DEF BeginPush, Refuse, CloseSignal, CancelContext, histVars
<1>13. ASSUME NEW f \in Flushers,
              BeginFlush(f) \/ CancelFlush(f) \/ LeaveFlush(f) \/ SelectFlush(f)
       PROVE  RowsOK'
  BY <1>2, <1>13 DEF BeginFlush, CancelFlush, LeaveFlush, SelectFlush, histVars
<1>14. CASE SelectTick \/ BarrierEmpty \/ Reply \/ DrainEmpty
  BY <1>2, <1>14 DEF SelectTick, BarrierEmpty, Reply, DrainEmpty, histVars
<1>15. CASE UNCHANGED vars
  BY <1>2, <1>15 DEF vars, histVars
<1> QED
  BY <1>3, <1>5, <1>7, <1>9, <1>10, <1>11, <1>12, <1>13, <1>14, <1>15 DEF Next, LoopStep

LEMMA CallsTypeStep == IInv /\ [Next]_vars => CallsOK'
<1> SUFFICES ASSUME IInv, [Next]_vars PROVE CallsOK'
  OBVIOUS
<1>1. CallsOK /\ accepted \in 0..MaxRows /\ LoopShape
  BY DEF IInv, TypeOK, RowsOK
<1>2. CASE UNCHANGED <<calls, flushVars, fmark>>
  BY <1>1, <1>2 DEF flushVars, CallsOK
<1>3. CASE BeginPush
  BY <1>1, <1>3, Numbers DEF BeginPush, flushVars, histVars, CallsOK
<1>4. CASE Accept
  BY <1>1, <1>4, Numbers DEF Accept, flushVars, histVars, CallsOK
<1>5. CASE Refuse
  BY <1>1, <1>5, Numbers DEF Refuse, flushVars, histVars, CallsOK
<1>6. ASSUME NEW f \in Flushers, BeginFlush(f) PROVE CallsOK'
  BY <1>1, <1>6 DEF BeginFlush, CallsOK
<1>7. ASSUME NEW f \in Flushers, CancelFlush(f) PROVE CallsOK'
  BY <1>1, <1>7 DEF CancelFlush, histVars, CallsOK
<1>8. ASSUME NEW f \in Flushers, LeaveFlush(f) PROVE CallsOK'
  BY <1>1, <1>8 DEF LeaveFlush, histVars, CallsOK
<1>9. ASSUME NEW f \in Flushers, SelectFlush(f) PROVE CallsOK'
  BY <1>1, <1>9 DEF SelectFlush, histVars, CallsOK
<1>10. CASE Reply
  <2>1. barrier \in Flushers
    BY <1>1, <1>10 DEF Reply, LoopShape, Serving, IInv, TypeOK, LoopOK
  <2> QED
    BY <1>1, <1>10, <2>1 DEF Reply, histVars, CallsOK
<1>11. CASE SelectRow \/ BarrierRow \/ DrainRow
  BY <1>2, <1>11 DEF SelectRow, BarrierRow, DrainRow, TakeRow, histVars
<1>12. CASE FlushOK \/ FlushFailed \/ BackoffEnd
  BY <1>2, <1>12 DEF FlushOK, FlushFailed, BackoffEnd, histVars
<1>13. CASE SelectTick \/ BarrierEmpty \/ DrainEmpty \/ SelectStop
  BY <1>2, <1>13 DEF SelectTick, BarrierEmpty, DrainEmpty, SelectStop, histVars
<1>14. CASE CloseStore \/ CloseSignal \/ CancelContext \/ UNCHANGED vars
  BY <1>2, <1>14 DEF CloseStore, CloseSignal, CancelContext, vars, histVars
<1> QED
  BY <1>3, <1>4, <1>5, <1>6, <1>7, <1>8, <1>9, <1>10, <1>11, <1>12, <1>13, <1>14
  DEF Next, LoopStep

\* Each way a flush begins, goes on and ends keeps fl a flush.
LEMMA FlushTyped ==
  ASSUME LoopOK
  PROVE  /\ NoFlush \in Flushes
         /\ \A why \in {"root", "manual", "shutdown"},
               back \in {"select", "barrier", "reply", "drain", "done"} :
              [why |-> why, attempt |-> 0, backoff |-> FALSE, back |-> back] \in Flushes
         /\ fl.attempt < MaxRetries =>
              [fl EXCEPT !.attempt = @ + 1, !.backoff = TRUE] \in Flushes
         /\ [fl EXCEPT !.backoff = FALSE] \in Flushes
         /\ fl.back \in {"select", "barrier", "reply", "drain", "done"}
<1>1. fl \in Flushes
  BY DEF LoopOK
<1>2. NoFlush \in Flushes
  BY Numbers DEF Flushes, NoFlush
<1>3. \A why \in {"root", "manual", "shutdown"},
         back \in {"select", "barrier", "reply", "drain", "done"} :
        [why |-> why, attempt |-> 0, backoff |-> FALSE, back |-> back] \in Flushes
  BY Numbers DEF Flushes
<1>4. ASSUME fl.attempt < MaxRetries
      PROVE  [fl EXCEPT !.attempt = @ + 1, !.backoff = TRUE] \in Flushes
  <2> DEFINE n == fl.attempt + 1
  <2>1. n \in 0..MaxRetries
    BY <1>1, <1>4, Numbers DEF Flushes
  <2> HIDE DEF n
  <2>2. [fl EXCEPT !.attempt = n, !.backoff = TRUE] \in Flushes
    BY <1>1, <2>1 DEF Flushes
  <2> QED
    BY <2>2 DEF n
<1>5. [fl EXCEPT !.backoff = FALSE] \in Flushes
  BY <1>1 DEF Flushes
<1>6. fl.back \in {"select", "barrier", "reply", "drain", "done"}
  BY <1>1 DEF Flushes
<1> QED
  BY <1>2, <1>3, <1>4, <1>5, <1>6

LEMMA LoopTypeStep == IInv /\ [Next]_vars => LoopOK'
<1> SUFFICES ASSUME IInv, [Next]_vars PROVE LoopOK'
  OBVIOUS
<1>1. LoopOK /\ LoopShape
  BY DEF IInv, TypeOK
<1>2. CASE UNCHANGED <<lpc, fl, barrier, lastErr, lossy, stopVars>>
  BY <1>1, <1>2 DEF stopVars, LoopOK
<1>3. ASSUME NEW why \in {"root", "manual", "shutdown"},
             NEW back \in {"select", "barrier", "reply", "drain", "done"},
             StartFlush(why, back) \/ UNCHANGED <<lpc, fl>>,
             UNCHANGED <<barrier, lastErr, lossy, stopVars>>
      PROVE  LoopOK'
  BY <1>1, <1>3, FlushTyped DEF StartFlush, stopVars, LoopOK
<1>4. CASE SelectRow \/ BarrierRow \/ DrainRow
  BY <1>3, <1>4 DEF SelectRow, BarrierRow, DrainRow, TakeRow, histVars
<1>5. CASE SelectTick
  BY <1>3, <1>5 DEF SelectTick, histVars
<1>6. CASE BarrierEmpty
  <2>1. CASE StartFlush("manual", "reply")
    BY <1>3, <1>6, <2>1 DEF BarrierEmpty, histVars
  <2>2. CASE lpc' = "reply" /\ UNCHANGED fl
    BY <1>1, <1>6, <2>2 DEF BarrierEmpty, stopVars, histVars, LoopOK
  <2> QED
    BY <1>6, <2>1, <2>2 DEF BarrierEmpty
<1>7. CASE DrainEmpty
  <2>1. CASE StartFlush("shutdown", "done")
    BY <1>3, <1>7, <2>1 DEF DrainEmpty, histVars
  <2>2. CASE lpc' = "done" /\ UNCHANGED fl
    BY <1>1, <1>7, <2>2 DEF DrainEmpty, stopVars, histVars, LoopOK
  <2> QED
    BY <1>7, <2>1, <2>2 DEF DrainEmpty
<1>8. CASE FlushOK
  BY <1>1, <1>8, FlushTyped DEF FlushOK, EndFlush, stopVars, histVars, LoopOK
<1>9. ASSUME Drop, lpc = "flush", UNCHANGED <<barrier, stopVars>> PROVE LoopOK'
  <2>1. lossy' \subseteq Flushers
    BY <1>1, <1>9 DEF Drop, LoopOK, LoopShape, Serving
  <2>2. lpc' = fl.back /\ fl' = NoFlush /\ lastErr' \in BOOLEAN
    BY <1>9 DEF Drop, EndFlush
  <2> QED
    BY <1>1, <1>9, <2>1, <2>2, FlushTyped DEF stopVars, LoopOK
<1>10. ASSUME fl' \in Flushes, UNCHANGED <<lpc, barrier, lastErr, lossy, stopVars>> PROVE LoopOK'
  BY <1>1, <1>10 DEF stopVars, LoopOK
<1>11. CASE FlushFailed
  BY <1>1, <1>9, <1>10, <1>11, FlushTyped DEF FlushFailed
<1>12. CASE BackoffEnd
  BY <1>1, <1>9, <1>10, <1>12, FlushTyped DEF BackoffEnd
<1>13. CASE SelectStop \/ CloseStore \/ CloseSignal \/ CancelContext
  BY <1>1, <1>13 DEF SelectStop, CloseStore, CloseSignal, CancelContext, stopVars, histVars, LoopOK
<1>14. ASSUME NEW f \in Flushers, SelectFlush(f) PROVE LoopOK'
  BY <1>1, <1>14 DEF SelectFlush, stopVars, histVars, LoopOK
<1>15. CASE Reply
  BY <1>1, <1>15 DEF Reply, stopVars, histVars, LoopOK
<1>16. CASE BeginPush \/ Accept \/ Refuse \/ UNCHANGED vars
  BY <1>2, <1>16 DEF BeginPush, Accept, Refuse, vars, histVars
<1>17. ASSUME NEW f \in Flushers, BeginFlush(f) \/ CancelFlush(f) \/ LeaveFlush(f)
       PROVE  LoopOK'
  BY <1>2, <1>17 DEF BeginFlush, CancelFlush, LeaveFlush, histVars
<1> QED
  BY <1>4, <1>5, <1>6, <1>7, <1>8, <1>11, <1>12, <1>13, <1>14, <1>15, <1>16, <1>17
  DEF Next, LoopStep

LEMMA TypeStep == IInv /\ [Next]_vars => TypeOK'
<1> SUFFICES ASSUME IInv, [Next]_vars PROVE TypeOK'
  OBVIOUS
<1>1. RowsOK' /\ LoopOK' /\ CallsOK'
  BY RowsTypeStep, LoopTypeStep, CallsTypeStep
<1>2. batch' \in Seq(Row) /\ dropped' \subseteq Row
  BY <1>1 DEF RowsOK, Row
<1>3. RowsOf(batch') \subseteq Row
  BY <1>2, RowsTyped
<1>4. unsure' \subseteq Row
  BY <1>2, <1>3, UnsureStep DEF UnsureShape
<1> QED
  BY <1>1, <1>4 DEF TypeOK, Row

-----------------------------------------------------------------------------
(* What loop is about. *)

LEMMA ShapeStep == IInv /\ [Next]_vars => LoopShape'
<1> SUFFICES ASSUME IInv, [Next]_vars PROVE LoopShape'
  OBVIOUS
<1>1. LoopShape /\ RowsOK /\ LoopOK
  BY DEF IInv, TypeOK
<1>2. CASE UNCHANGED <<batch, lpc, fl, barrier>>
  BY <1>1, <1>2 DEF LoopShape, Serving
<1>3. ASSUME NEW why \in {"root", "manual", "shutdown"},
             NEW back \in {"select", "barrier", "drain"},
             why = "manual" <=> back = "barrier",
             lpc = back, TakeRow(why, back)
      PROVE  LoopShape'
  <2>1. /\ Len(batch') = Len(batch) + 1 /\ Len(batch) \in Nat /\ batch' \in Seq(Row)
        /\ UNCHANGED barrier
    BY <1>1, <1>3, TakeRowRows, SeqsTyped DEF IInv, TakeRow
  <2>2. batch' # <<>>
    BY <2>1
  <2>3. CASE Len(batch) + 1 < BatchSize /\ UNCHANGED <<lpc, fl>>
    BY <1>1, <1>3, <2>1, <2>3 DEF LoopShape, Serving
  <2>4. CASE StartFlush(why, back)
    <3>1. lpc' = "flush" /\ fl'.why = why /\ fl'.back = back
      BY <2>4 DEF StartFlush
    <3> QED
      BY <1>1, <1>3, <2>1, <2>2, <3>1 DEF LoopShape, Serving
  <2> QED
    BY <1>3, <2>3, <2>4 DEF TakeRow
<1>4. CASE SelectRow \/ BarrierRow \/ DrainRow
  BY <1>3, <1>4 DEF SelectRow, BarrierRow, DrainRow
<1>5. Len(<<>>) < BatchSize
  BY Numbers
<1>6. ASSUME lpc = "flush", EndFlush, UNCHANGED barrier PROVE LoopShape'
  <2>1. batch' = <<>> /\ lpc' = fl.back
    BY <1>6 DEF EndFlush
  <2>2. fl.back \in {"select", "barrier", "reply", "drain", "done"}
    BY <1>1, FlushTyped
  <2> QED
    BY <1>1, <1>5, <1>6, <2>1, <2>2 DEF LoopShape, Serving
<1>7. CASE FlushOK
  BY <1>6, <1>7 DEF FlushOK
<1>8. ASSUME fl'.why = fl.why, fl'.back = fl.back, UNCHANGED <<batch, lpc, barrier>>
      PROVE  LoopShape'
  BY <1>1, <1>8 DEF LoopShape, Serving
<1>9. fl \in Flushes
  BY <1>1 DEF LoopOK
<1>10. CASE FlushFailed
  <2>1. CASE Drop
    BY <1>6, <1>10, <2>1 DEF FlushFailed, Drop
  <2>2. CASE fl' = [fl EXCEPT !.attempt = @ + 1, !.backoff = TRUE] /\ UNCHANGED <<batch, lpc>>
    <3>1. fl'.why = fl.why /\ fl'.back = fl.back
      BY <1>9, <2>2 DEF Flushes
    <3> QED
      BY <1>8, <1>10, <2>2, <3>1 DEF FlushFailed
  <2> QED
    BY <1>10, <2>1, <2>2 DEF FlushFailed
<1>11. CASE BackoffEnd
  <2>1. CASE Drop
    BY <1>6, <1>11, <2>1 DEF BackoffEnd, Drop
  <2>2. CASE fl' = [fl EXCEPT !.backoff = FALSE] /\ UNCHANGED <<batch, lpc>>
    <3>1. fl'.why = fl.why /\ fl'.back = fl.back
      BY <1>9, <2>2 DEF Flushes
    <3> QED
      BY <1>8, <1>11, <2>2, <3>1 DEF BackoffEnd
  <2> QED
    BY <1>11, <2>1, <2>2 DEF BackoffEnd
<1>12. ASSUME NEW why \in {"root", "manual", "shutdown"},
              NEW back \in {"select", "reply", "done"},
              why = "manual" <=> back = "reply",
              lpc = "barrier" <=> back = "reply",
              lpc \in {"select", "barrier", "drain"},
              batch # <<>>, StartFlush(why, back), UNCHANGED <<batch, barrier>>
       PROVE  LoopShape'
  <2>1. lpc' = "flush" /\ fl'.why = why /\ fl'.back = back
    BY <1>12 DEF StartFlush
  <2> QED
    BY <1>1, <1>12, <2>1 DEF LoopShape, Serving
<1>13. CASE SelectTick
  BY <1>12, <1>13 DEF SelectTick, rowVars
<1>14. CASE BarrierEmpty
  <2>1. CASE StartFlush("manual", "reply") /\ batch # <<>>
    BY <1>12, <1>14, <2>1 DEF BarrierEmpty, rowVars
  <2>2. CASE batch = <<>> /\ lpc' = "reply"
    BY <1>1, <1>14, <2>2 DEF BarrierEmpty, rowVars, LoopShape, Serving
  <2> QED
    BY <1>14, <2>1, <2>2 DEF BarrierEmpty
<1>15. CASE DrainEmpty
  <2>1. CASE StartFlush("shutdown", "done") /\ batch # <<>>
    BY <1>12, <1>15, <2>1 DEF DrainEmpty, rowVars
  <2>2. CASE batch = <<>> /\ lpc' = "done"
    BY <1>1, <1>15, <2>2 DEF DrainEmpty, rowVars, LoopShape, Serving
  <2> QED
    BY <1>15, <2>1, <2>2 DEF DrainEmpty
<1>16. ASSUME NEW f \in Flushers, SelectFlush(f) PROVE LoopShape'
  BY <1>1, <1>16, BatchWriterAssumption DEF BatchWriterAssumption, SelectFlush, rowVars, LoopShape,
     Serving
<1>17. CASE Reply
  BY <1>1, <1>5, <1>17 DEF Reply, rowVars, LoopShape, Serving
<1>18. CASE SelectStop
  BY <1>1, <1>18 DEF SelectStop, rowVars, LoopShape, Serving
<1>19. CASE BeginPush \/ Accept \/ Refuse \/ CloseStore \/ CloseSignal \/ CancelContext
            \/ UNCHANGED vars
  BY <1>2, <1>19 DEF BeginPush, Accept, Refuse, CloseStore, CloseSignal, CancelContext, vars,
     rowVars
<1>20. ASSUME NEW f \in Flushers, BeginFlush(f) \/ CancelFlush(f) \/ LeaveFlush(f)
       PROVE  LoopShape'
  BY <1>2, <1>20 DEF BeginFlush, CancelFlush, LeaveFlush, rowVars
<1> QED
  BY <1>4, <1>7, <1>10, <1>11, <1>13, <1>14, <1>15, <1>16, <1>17, <1>18, <1>19, <1>20
  DEF Next, LoopStep

LEMMA ErrStep == IInv /\ [Next]_vars => ErrShape'
<1> SUFFICES ASSUME IInv, [Next]_vars PROVE ErrShape'
  OBVIOUS
<1>1. ErrShape /\ LoopShape /\ LoopOK /\ CallsOK /\ None \notin Flushers
  BY BatchWriterAssumption DEF IInv, TypeOK, BatchWriterAssumption
<1>2. CASE UNCHANGED <<fpc, barrier, lastErr, lossy>>
  BY <1>1, <1>2 DEF ErrShape
<1>3. ASSUME NEW f \in Flushers, BeginFlush(f) \/ LeaveFlush(f) PROVE ErrShape'
  BY <1>1, <1>3 DEF BeginFlush, LeaveFlush, histVars, ErrShape, LoopOK, CallsOK
<1>4. ASSUME NEW f \in Flushers, SelectFlush(f) PROVE ErrShape'
  BY <1>1, <1>4 DEF SelectFlush, histVars, ErrShape, CallsOK
<1>5. CASE Reply
  BY <1>1, <1>5 DEF Reply, histVars, ErrShape, CallsOK
<1>6. ASSUME Drop, lpc = "flush", UNCHANGED <<fpc, barrier>> PROVE ErrShape'
  <2>1. CASE fl.why = "manual"
    <3>1. barrier \in Flushers /\ barrier # None /\ lossy' = lossy \cup {barrier} /\ lastErr' = TRUE
      BY <1>1, <1>6, <2>1 DEF Drop, LoopShape, Serving, LoopOK
    <3> QED
      BY <1>1, <1>6, <3>1 DEF ErrShape
  <2>2. CASE fl.why # "manual"
    <3>1. barrier = None /\ UNCHANGED lossy
      BY <1>1, <1>6, <2>2 DEF Drop, LoopShape, Serving
    <3> QED
      BY <1>1, <1>6, <3>1 DEF ErrShape
  <2> QED
    BY <2>1, <2>2
<1>7. CASE FlushFailed
  BY <1>2, <1>6, <1>7 DEF FlushFailed, flushVars
<1>8. CASE BackoffEnd
  BY <1>2, <1>6, <1>8 DEF BackoffEnd, flushVars
<1>9. CASE FlushOK \/ SelectRow \/ BarrierRow \/ DrainRow
  BY <1>2, <1>9 DEF FlushOK, SelectRow, BarrierRow, DrainRow, TakeRow, flushVars, histVars
<1>10. CASE SelectTick \/ BarrierEmpty \/ DrainEmpty \/ SelectStop
  BY <1>2, <1>10 DEF SelectTick, BarrierEmpty, DrainEmpty, SelectStop, flushVars, histVars
<1>11. CASE BeginPush \/ Accept \/ Refuse \/ CloseStore \/ CloseSignal \/ CancelContext
            \/ UNCHANGED vars
  BY <1>2, <1>11 DEF BeginPush, Accept, Refuse, CloseStore, CloseSignal, CancelContext, vars,
     flushVars, histVars
<1>12. ASSUME NEW f \in Flushers, CancelFlush(f) PROVE ErrShape'
  BY <1>2, <1>12 DEF CancelFlush, histVars
<1> QED
  BY <1>3, <1>4, <1>5, <1>7, <1>8, <1>9, <1>10, <1>11, <1>12 DEF Next, LoopStep

LEMMA MarkStep == IInv /\ [Next]_vars => MarkShape'
<1> SUFFICES ASSUME IInv, [Next]_vars PROVE MarkShape'
  OBVIOUS
<1>1. MarkShape /\ ErrShape /\ LoopShape /\ LoopOK /\ CallsOK
  BY DEF IInv, TypeOK
<1>2. accepted \in Nat /\ \A f \in Flushers : fmark[f] \in Int
  BY <1>1, SeqsTyped, Numbers DEF IInv, CallsOK
<1>3. Emptied => barrier \in Flushers /\ barrier # None
  BY <1>1 DEF Emptied, LoopShape, Serving, LoopOK
<1>4. ASSUME UNCHANGED <<accepted, fmark, barrier>>, RowsOf(input') \subseteq RowsOf(input),
             Emptied' => Emptied
      PROVE  MarkShape'
  BY <1>1, <1>4 DEF MarkShape
<1>5. CASE UNCHANGED <<accepted, fmark, barrier, input, lpc, fl>>
  BY <1>4, <1>5 DEF Emptied, RowsOf
<1>6. CASE Accept
  <2>1. RowsOf(input') = RowsOf(input) \cup {accepted + 1}
    BY <1>6, AcceptRows
  <2>2. accepted' = accepted + 1 /\ UNCHANGED <<fmark, barrier, lpc, fl>>
    BY <1>6 DEF Accept, histVars
  <2>3. \A f \in Flushers : fmark'[f] <= accepted'
    BY <1>1, <1>2, <2>2 DEF MarkShape
  <2>4. ASSUME Emptied', NEW n \in RowsOf(input') PROVE fmark'[barrier'] < n
    <3>1. Emptied
      BY <2>2, <2>4 DEF Emptied
    <3> QED
      BY <1>1, <1>2, <1>3, <2>1, <2>2, <2>4, <3>1 DEF MarkShape
  <2> QED
    BY <2>3, <2>4 DEF MarkShape
<1>7. ASSUME NEW f \in Flushers, BeginFlush(f) PROVE MarkShape'
  <2>1. /\ fmark' = [fmark EXCEPT ![f] = accepted] /\ fpc[f] = "idle"
        /\ UNCHANGED <<accepted, barrier, input, lpc, fl>>
    BY <1>7 DEF BeginFlush, rowVars
  <2>2. \A g \in Flushers : fmark'[g] = IF g = f THEN accepted ELSE fmark[g]
    BY <1>1, <2>1 DEF CallsOK
  <2>3. \A g \in Flushers : fmark'[g] <= accepted'
    BY <1>1, <1>2, <2>1, <2>2 DEF MarkShape
  <2>4. Emptied' => Emptied /\ fmark'[barrier'] = fmark[barrier] /\ RowsOf(input') = RowsOf(input)
    BY <1>1, <1>3, <2>1, <2>2 DEF Emptied, ErrShape, RowsOf
  <2> QED
    BY <1>1, <2>3, <2>4 DEF MarkShape
<1>8. ASSUME NEW why, NEW back \in {"select", "barrier", "drain"}, lpc = back, TakeRow(why, back)
      PROVE  MarkShape'
  <2>1. ~Emptied' /\ UNCHANGED <<accepted, fmark, barrier>>
    BY <1>8 DEF TakeRow, StartFlush, Emptied, histVars
  <2>2. RowsOf(input') \subseteq RowsOf(input)
    BY <1>8, TakeRowRows
  <2> QED
    BY <1>4, <2>1, <2>2
<1>9. CASE SelectRow \/ BarrierRow \/ DrainRow
  BY <1>8, <1>9 DEF SelectRow, BarrierRow, DrainRow
<1>10. ASSUME lpc = "flush", EndFlush, UNCHANGED <<input, accepted, barrier, fmark>>
       PROVE  MarkShape'
  <2>1. lpc' = fl.back /\ RowsOf(input') = RowsOf(input)
    BY <1>10 DEF EndFlush, RowsOf
  <2>2. fl.back # "flush"
    BY <1>1, FlushTyped
  <2>3. Emptied' => Emptied
    BY <1>10, <2>1, <2>2 DEF Emptied
  <2> QED
    BY <1>4, <1>10, <2>1, <2>3
<1>11. CASE FlushOK
  BY <1>10, <1>11 DEF FlushOK, histVars
<1>12. ASSUME fl'.back = fl.back, UNCHANGED <<input, accepted, barrier, fmark, lpc>>
       PROVE  MarkShape'
  BY <1>4, <1>12 DEF Emptied, RowsOf
<1>13. fl \in Flushes
  BY <1>1 DEF LoopOK
<1>14. CASE FlushFailed
  <2>1. CASE Drop
    BY <1>10, <1>14, <2>1 DEF FlushFailed, Drop
  <2>2. CASE fl' = [fl EXCEPT !.attempt = @ + 1, !.backoff = TRUE] /\ UNCHANGED lpc
    <3>1. fl'.back = fl.back
      BY <1>13, <2>2 DEF Flushes
    <3> QED
      BY <1>12, <1>14, <2>2, <3>1 DEF FlushFailed
  <2> QED
    BY <1>14, <2>1, <2>2 DEF FlushFailed
<1>15. CASE BackoffEnd
  <2>1. CASE Drop
    BY <1>10, <1>15, <2>1 DEF BackoffEnd, Drop
  <2>2. CASE fl' = [fl EXCEPT !.backoff = FALSE] /\ UNCHANGED lpc
    <3>1. fl'.back = fl.back
      BY <1>13, <2>2 DEF Flushes
    <3> QED
      BY <1>12, <1>15, <2>2, <3>1 DEF BackoffEnd
  <2> QED
    BY <1>15, <2>1, <2>2 DEF BackoffEnd
<1>16. CASE BarrierEmpty
  <2>1. RowsOf(input') = {} /\ UNCHANGED <<accepted, fmark>>
    BY <1>16, NoRows DEF BarrierEmpty, rowVars, histVars
  <2> QED
    BY <1>1, <2>1 DEF MarkShape
<1>17. ASSUME ~Emptied', UNCHANGED <<accepted, fmark>> PROVE MarkShape'
  BY <1>1, <1>17 DEF MarkShape
<1>18. CASE SelectTick \/ DrainEmpty \/ SelectStop \/ Reply
  BY <1>17, <1>18 DEF SelectTick, DrainEmpty, SelectStop, Reply, StartFlush, Emptied, rowVars,
     histVars
<1>19. ASSUME NEW f \in Flushers, SelectFlush(f) PROVE MarkShape'
  BY <1>17, <1>19 DEF SelectFlush, Emptied, rowVars, histVars
<1>20. CASE BeginPush \/ Refuse \/ CloseStore \/ CloseSignal \/ CancelContext
            \/ UNCHANGED vars
  BY <1>5, <1>20 DEF BeginPush, Refuse, CloseStore, CloseSignal, CancelContext, vars, rowVars,
     histVars
<1>21. ASSUME NEW f \in Flushers, CancelFlush(f) \/ LeaveFlush(f) PROVE MarkShape'
  BY <1>5, <1>21 DEF CancelFlush, LeaveFlush, rowVars, histVars
<1> QED
  BY <1>6, <1>7, <1>9, <1>11, <1>14, <1>15, <1>16, <1>18, <1>19, <1>20, <1>21 DEF Next, LoopStep

-----------------------------------------------------------------------------
(* The theorems. *)

LEMMA Initially == Init => IInv
<1> SUFFICES ASSUME Init PROVE IInv
  OBVIOUS
<1>1. RowsOf(<<>>) = {} /\ Increasing(<<>>) /\ <<>> \in Seq(Row) /\ Len(<<>>) = 0
  BY NoRows
<1>2. TypeOK
  <2>1. RowsOK
    BY <1>1, Numbers DEF Init, RowsOK, Row
  <2>2. LoopOK
    <3>1. NoFlush \in Flushes
      BY Numbers DEF Flushes, NoFlush
    <3> QED
      BY <3>1 DEF Init, LoopOK
  <2>3. CallsOK
    BY Numbers DEF Init, CallsOK
  <2> QED
    BY <2>1, <2>2, <2>3 DEF Init, TypeOK
<1>3. InOrder /\ Accounted /\ UnsureShape
  BY <1>1 DEF Init, InOrder, Accounted, UnsureShape, Below
<1>4. LoopShape
  BY <1>1, Numbers DEF Init, LoopShape, Serving
<1>5. ErrShape /\ MarkShape
  BY <1>1 DEF Init, ErrShape, MarkShape, Emptied
<1> QED
  BY <1>2, <1>3, <1>4, <1>5 DEF IInv

LEMMA Step == IInv /\ [Next]_vars => IInv'
BY TypeStep, RowStep, UnsureStep, ShapeStep, ErrStep, MarkStep DEF IInv

LEMMA Invariance == Spec => []IInv
<1> QED
  BY Initially, Step, PTL DEF Spec

\* The rows of the whole pipeline, from the three facts about its places.
LEMMA Accounts == IInv => RowsAccountedOnce
<1> SUFFICES ASSUME IInv PROVE RowsAccountedOnce
  OBVIOUS
<1>1. /\ stored \in Seq(Row) /\ batch \in Seq(Row) /\ input \in Seq(Row)
      /\ InOrder /\ Accounted /\ UnsureShape /\ TypeOK
  BY SeqsTyped DEF IInv
<1> DEFINE front == stored \o batch
<1>2. /\ front \in Seq(Row) /\ RowsOf(front) = RowsOf(stored) \cup RowsOf(batch)
      /\ Increasing(front)
  BY <1>1, RowsOfConcat, IncreasingConcat DEF InOrder
<1> HIDE DEF front
<1>3. Below(RowsOf(front), RowsOf(input))
  BY <1>1, <1>2 DEF InOrder, Below
<1>4. /\ RowsOf(front \o input) = RowsOf(front) \cup RowsOf(input)
      /\ Increasing(front \o input)
  BY <1>1, <1>2, <1>3, RowsOfConcat, IncreasingConcat DEF InOrder
<1>5. Pipeline = front \o input
  BY DEF Pipeline, front
<1>6. Increasing(Pipeline) /\ RowsOf(Pipeline) = RowsOf(stored) \cup RowsOf(batch) \cup RowsOf(input)
  BY <1>2, <1>4, <1>5
<1> QED
  BY <1>1, <1>6 DEF RowsAccountedOnce, Accounted, UnsureShape, Increasing

(* Every accepted row is exactly once in the table, the batch, the channel *)
(* or the count of dropped rows, in the order of acceptance: Push, loop,   *)
(* the retries, the barrier and the drain together keep the account.       *)
THEOREM RowsAccounted == Spec => []RowsAccountedOnce
BY Invariance, Accounts, PTL

-----------------------------------------------------------------------------
(* The end of loop. *)

\* loop has begun its shutdown, and has found the channel empty in it.
Ending == lpc \in {"drain", "done"} \/ (lpc = "flush" /\ fl.back \in {"drain", "done"})
Drained == lpc = "done" \/ (lpc = "flush" /\ fl.back = "done")

\* Rows that come after the drain were accepted after closed was set.
StopShape ==
  /\ closed => cmark <= accepted
  /\ Ending => closed
  /\ Drained => \A n \in RowsOf(input) : cmark < n

LEMMA StopStep ==
  ASSUME IInv, StopShape, [Next]_vars
  PROVE  StopShape'
<1>1. LoopShape /\ LoopOK
  BY DEF IInv, TypeOK
<1>2. accepted \in Nat /\ cmark \in Nat
  BY SeqsTyped, Numbers DEF IInv, TypeOK, RowsOK
<1>3. ASSUME UNCHANGED <<accepted, cmark, closed>>, RowsOf(input') \subseteq RowsOf(input),
             Ending' => Ending, Drained' => Drained
      PROVE  StopShape'
  BY <1>3 DEF StopShape
<1>4. CASE UNCHANGED <<accepted, cmark, closed, input, lpc, fl>>
  BY <1>3, <1>4 DEF Ending, Drained, RowsOf
<1>5. CASE Accept
  <2>1. RowsOf(input') = RowsOf(input) \cup {accepted + 1}
    BY <1>5, AcceptRows
  <2>2. accepted' = accepted + 1 /\ UNCHANGED <<cmark, closed, lpc, fl>>
    BY <1>5 DEF Accept, stopVars, histVars
  <2>3. (Ending' <=> Ending) /\ (Drained' <=> Drained) /\ (Drained => Ending)
    BY <2>2 DEF Ending, Drained
  <2>4. closed' => cmark' <= accepted'
    BY <1>2, <2>2 DEF StopShape
  <2>5. ASSUME Drained', NEW n \in RowsOf(input') PROVE cmark' < n
    <3>1. Drained /\ cmark <= accepted
      BY <2>3, <2>5 DEF StopShape
    <3>2. n \in RowsOf(input) \/ n = accepted + 1
      BY <2>1, <2>5
    <3> QED
      BY <1>2, <2>2, <3>1, <3>2 DEF StopShape
  <2>6. Ending' => closed'
    BY <2>2, <2>3 DEF StopShape
  <2> QED
    BY <2>4, <2>5, <2>6 DEF StopShape
<1>6. ASSUME NEW why, NEW back \in {"select", "barrier", "drain"}, lpc = back, TakeRow(why, back)
      PROVE  StopShape'
  <2>1. ~Drained' /\ UNCHANGED <<accepted, cmark, closed>>
    BY <1>6 DEF TakeRow, StartFlush, Drained, stopVars, histVars
  <2>2. Ending' => Ending
    BY <1>6 DEF TakeRow, StartFlush, Ending
  <2>3. RowsOf(input') \subseteq RowsOf(input)
    BY <1>6, TakeRowRows
  <2> QED
    BY <1>3, <2>1, <2>2, <2>3
<1>7. CASE SelectRow \/ BarrierRow \/ DrainRow
  BY <1>6, <1>7 DEF SelectRow, BarrierRow, DrainRow
<1>8. ASSUME lpc = "flush", EndFlush, UNCHANGED <<input, accepted, cmark, closed>>
      PROVE  StopShape'
  <2>1. lpc' = fl.back /\ RowsOf(input') = RowsOf(input)
    BY <1>8 DEF EndFlush, RowsOf
  <2>2. fl.back # "flush"
    BY <1>1, FlushTyped
  <2>3. (Ending' => Ending) /\ (Drained' => Drained)
    BY <1>8, <2>1, <2>2 DEF Ending, Drained
  <2> QED
    BY <1>3, <1>8, <2>1, <2>3
<1>9. CASE FlushOK
  BY <1>8, <1>9 DEF FlushOK, stopVars, histVars
<1>10. ASSUME fl'.back = fl.back, UNCHANGED <<input, accepted, cmark, closed, lpc>>
       PROVE  StopShape'
  BY <1>3, <1>10 DEF Ending, Drained, RowsOf
<1>11. fl \in Flushes
  BY <1>1 DEF LoopOK
<1>12. CASE FlushFailed
  <2>1. CASE Drop
    BY <1>8, <1>12, <2>1 DEF FlushFailed, Drop, stopVars
  <2>2. CASE fl' = [fl EXCEPT !.attempt = @ + 1, !.backoff = TRUE] /\ UNCHANGED lpc
    <3>1. fl'.back = fl.back
      BY <1>11, <2>2 DEF Flushes
    <3> QED
      BY <1>10, <1>12, <2>2, <3>1 DEF FlushFailed, stopVars
  <2> QED
    BY <1>12, <2>1, <2>2 DEF FlushFailed
<1>13. CASE BackoffEnd
  <2>1. CASE Drop
    BY <1>8, <1>13, <2>1 DEF BackoffEnd, Drop, stopVars
  <2>2. CASE fl' = [fl EXCEPT !.backoff = FALSE] /\ UNCHANGED lpc
    <3>1. fl'.back = fl.back
      BY <1>11, <2>2 DEF Flushes
    <3> QED
      BY <1>10, <1>13, <2>2, <3>1 DEF BackoffEnd, stopVars
  <2> QED
    BY <1>13, <2>1, <2>2 DEF BackoffEnd
<1>14. CASE DrainEmpty
  <2>1. RowsOf(input') = {} /\ UNCHANGED <<accepted, cmark, closed>>
    BY <1>14, NoRows DEF DrainEmpty, rowVars, stopVars, histVars
  <2>2. closed
    BY <1>14 DEF DrainEmpty, StopShape, Ending
  <2> QED
    BY <2>1, <2>2 DEF StopShape
<1>15. ASSUME ~Ending', ~Drained', UNCHANGED <<accepted, cmark, closed>> PROVE StopShape'
  BY <1>15 DEF StopShape
<1>16. CASE SelectTick \/ BarrierEmpty \/ Reply
  BY <1>15, <1>16
    DEF SelectTick, BarrierEmpty, Reply, StartFlush, Ending, Drained, rowVars, stopVars, histVars
<1>17. ASSUME NEW f \in Flushers, SelectFlush(f) PROVE StopShape'
  BY <1>15, <1>17 DEF SelectFlush, Ending, Drained, rowVars, stopVars, histVars
<1>18. CASE SelectStop
  <2>1. /\ lpc' = "drain" /\ closed' /\ cmark' \in {cmark, accepted} /\ UNCHANGED accepted
        /\ ~closed => cmark' = accepted
    BY <1>18 DEF SelectStop, rowVars
  <2>2. cmark' <= accepted'
    BY <1>2, <1>18, <2>1 DEF SelectStop, StopShape
  <2> QED
    BY <2>1, <2>2 DEF StopShape, Drained
<1>19. CASE CloseStore
  <2>1. ~Ending /\ closed' /\ cmark' = accepted /\ UNCHANGED <<accepted, lpc, fl>>
    BY <1>19 DEF CloseStore, StopShape, rowVars
  <2>2. ~Ending' /\ ~Drained'
    BY <2>1 DEF Ending, Drained
  <2> QED
    BY <1>2, <2>1, <2>2 DEF StopShape
<1>20. CASE BeginPush \/ Refuse \/ CloseSignal \/ CancelContext \/ UNCHANGED vars
  BY <1>4, <1>20
    DEF BeginPush, Refuse, CloseSignal, CancelContext, vars, rowVars, stopVars, histVars
<1>21. ASSUME NEW f \in Flushers, BeginFlush(f) \/ CancelFlush(f) \/ LeaveFlush(f)
       PROVE  StopShape'
  BY <1>4, <1>21 DEF BeginFlush, CancelFlush, LeaveFlush, rowVars, stopVars, histVars
<1> QED
  BY <1>5, <1>7, <1>9, <1>12, <1>13, <1>14, <1>16, <1>17, <1>18, <1>19, <1>20, <1>21
    DEF Next, LoopStep

(* loop ends with nothing behind it: what was accepted before Close set    *)
(* closed has an outcome, however the last batches, their retries and the  *)
(* barriers interleave with late pushes (shutdown).                        *)
THEOREM ShutdownFlushes == Spec => []EndedIsFlushed
<1>1. Init => StopShape
  BY DEF Init, StopShape, Ending, Drained
<1>2. IInv /\ StopShape /\ [Next]_vars => StopShape'
  BY StopStep
<1>3. IInv /\ StopShape => EndedIsFlushed
  <2> SUFFICES ASSUME IInv, StopShape, lpc = "done"
               PROVE  batch = <<>> /\ 1..cmark \subseteq RowsOf(stored) \cup dropped
    BY DEF EndedIsFlushed
  <2>1. batch = <<>> /\ RowsOf(batch) = {}
    BY NoRows DEF IInv, LoopShape
  <2>2. cmark <= accepted /\ \A n \in RowsOf(input) : cmark < n
    BY DEF StopShape, Ending, Drained
  <2>3. accepted \in Nat /\ cmark \in Nat
    BY SeqsTyped, Numbers DEF IInv, TypeOK, RowsOK
  <2>4. ASSUME NEW n \in 1..cmark PROVE n \in RowsOf(stored) \cup dropped
    <3>1. n \in 1..accepted /\ ~(cmark < n)
      BY <2>2, <2>3
    <3>2. n \notin RowsOf(input)
      BY <2>2, <3>1
    <3> QED
      BY <2>1, <3>1, <3>2 DEF IInv, Accounted
  <2> QED
    BY <2>1, <2>4
<1> QED
  BY <1>1, <1>2, <1>3, Invariance, PTL DEF Spec

-----------------------------------------------------------------------------
(* The barrier writer. *)

pending == RowsOf(batch) \cup RowsOf(input)
callsOf == [f \in Flushers |-> callOf(f)]

\* A batch is the oldest of what is pending, and is there.
LEMMA BatchIsOldest ==
  ASSUME IInv, lpc = "flush"
  PROVE  /\ RowsOf(batch) # {} /\ RowsOf(batch) \subseteq pending
         /\ pending \ RowsOf(batch) = RowsOf(input)
         /\ \A n \in RowsOf(batch), m \in pending \ RowsOf(batch) : n < m
<1>1. RowsOf(batch) # {} /\ RowsOf(batch) \subseteq Int /\ Below(RowsOf(batch), RowsOf(input))
  BY SeqsTyped, RowsTyped, RowIsInt DEF IInv, LoopShape, InOrder
<1>2. RowsOf(batch) \cap RowsOf(input) = {}
  <2> SUFFICES ASSUME NEW n \in RowsOf(batch), n \in RowsOf(input) PROVE FALSE
    OBVIOUS
  <2>1. n < n /\ n \in Int
    BY <1>1 DEF Below
  <2> QED
    BY <2>1
<1> QED
  BY <1>1, <1>2 DEF pending, Below

LEMMA InitMaps == Init => Barrier!Init
BY NoRows DEF Init, Barrier!Init, callOf

LEMMA AcceptMaps == ASSUME IInv, Accept PROVE Barrier!Take
<1>1. RowsOf(input') = RowsOf(input) \cup {accepted + 1}
  BY AcceptRows
<1>2. /\ accepted < MaxRows /\ accepted' = accepted + 1
      /\ UNCHANGED <<batch, stored, dropped, fpc, fres, fmark, lossy>>
  BY DEF Accept, flushVars, histVars
<1>3. RowsOf(batch') = RowsOf(batch) /\ RowsOf(stored') = RowsOf(stored)
  BY <1>2 DEF RowsOf
<1>4. UNCHANGED callsOf
  BY <1>2 DEF callsOf, callOf
<1> QED
  BY <1>1, <1>2, <1>3, <1>4 DEF Barrier!Take, callsOf

LEMMA FlushOKMaps == ASSUME IInv, FlushOK PROVE Barrier!Write
<1>1. lpc = "flush"
  BY DEF FlushOK
<1>2. /\ RowsOf(stored') = RowsOf(stored) \cup RowsOf(batch) /\ RowsOf(batch') = {}
      /\ UNCHANGED <<input, dropped, accepted>>
  BY FlushOKRows, NoRows
<1>3. UNCHANGED <<fpc, fres, fmark, lossy>>
  BY DEF FlushOK, flushVars, histVars
<1>4. RowsOf(input') = RowsOf(input)
  BY <1>2 DEF RowsOf
<1>5. UNCHANGED callsOf
  BY <1>3 DEF callsOf, callOf
<1>6. Barrier!Oldest(RowsOf(batch))
  BY <1>1, BatchIsOldest DEF Barrier!Oldest, pending
<1>7. pending' = pending \ RowsOf(batch)
  BY <1>1, <1>2, <1>4, BatchIsOldest DEF pending
<1> QED
  BY <1>1, <1>2, <1>3, <1>5, <1>6, <1>7, BatchIsOldest DEF Barrier!Write, pending, callsOf

LEMMA DropMaps ==
  ASSUME IInv, Drop, lpc = "flush",
         UNCHANGED <<input, stored, accepted, fpc, fres, fmark>>
  PROVE  Barrier!GiveUp
<1>1. /\ dropped' = dropped \cup RowsOf(batch) /\ RowsOf(batch') = {}
      /\ RowsOf(input') = RowsOf(input) /\ RowsOf(stored') = RowsOf(stored)
  BY DropRows, NoRows DEF RowsOf
<1>2. lossy' = lossy \/ \E f \in Flushers : lossy' = lossy \cup {f}
  BY DEF Drop, IInv, LoopShape, Serving, TypeOK, LoopOK
<1>3. UNCHANGED callsOf
  BY DEF callsOf, callOf
<1>4. Barrier!Oldest(RowsOf(batch))
  BY BatchIsOldest DEF Barrier!Oldest, pending
<1>5. pending' = pending \ RowsOf(batch)
  BY <1>1, BatchIsOldest DEF pending
<1> QED
  BY <1>1, <1>2, <1>3, <1>4, <1>5, BatchIsOldest DEF Barrier!GiveUp, pending, callsOf

LEMMA BeginMaps == ASSUME IInv, NEW f \in Flushers, BeginFlush(f) PROVE Barrier!Call(f)
<1>1. /\ fpc[f] = "idle" /\ fmark' = [fmark EXCEPT ![f] = accepted]
      /\ UNCHANGED <<input, batch, stored, dropped, accepted, lossy>>
  BY DEF BeginFlush, rowVars
<1>2. PICK state \in {"open", "closed"} : callsOf' = [callsOf EXCEPT ![f] = state]
  <2>1. CASE fpc' = [fpc EXCEPT ![f] = "done"] /\ fres' = [fres EXCEPT ![f] = "closed"]
    BY <2>1 DEF IInv, TypeOK, CallsOK, callsOf, callOf
  <2>2. CASE fpc' = [fpc EXCEPT ![f] = "send"] /\ UNCHANGED fres
    BY <2>2 DEF IInv, TypeOK, CallsOK, callsOf, callOf
  <2> QED
    BY <2>1, <2>2 DEF BeginFlush
<1>3. callsOf[f] = "idle"
  BY <1>1 DEF callsOf, callOf
<1>4. UNCHANGED <<pending, RowsOf(stored)>>
  BY <1>1 DEF pending, RowsOf
<1> QED
  BY <1>1, <1>2, <1>3, <1>4 DEF Barrier!Call, pending, callsOf

LEMMA LeaveMaps == ASSUME IInv, NEW f \in Flushers, LeaveFlush(f) PROVE Barrier!Answer(f)
<1>1. /\ fpc[f] \in {"send", "wait"} /\ fpc' = [fpc EXCEPT ![f] = "done"]
      /\ UNCHANGED <<input, batch, stored, dropped, accepted, fmark, lossy>>
  BY DEF LeaveFlush, rowVars, histVars
<1>2. PICK r \in {"closed", "cancelled"} : fres' = [fres EXCEPT ![f] = r]
  BY DEF LeaveFlush
<1>3. callsOf' = [callsOf EXCEPT ![f] = r] /\ callsOf[f] = "open"
  BY <1>1, <1>2 DEF IInv, TypeOK, CallsOK, callsOf, callOf
<1>4. UNCHANGED <<pending, RowsOf(stored)>>
  BY <1>1 DEF pending, RowsOf
<1> QED
  BY <1>1, <1>2, <1>3, <1>4 DEF Barrier!Answer, pending, callsOf

LEMMA ReplyMaps == ASSUME IInv, Reply PROVE Barrier!Answer(barrier) \/ UNCHANGED Barrier!vars
<1>1. /\ lpc = "reply" /\ barrier \in Flushers /\ barrier # None
      /\ UNCHANGED <<input, batch, stored, dropped, accepted, fmark, lossy>>
  BY DEF Reply, rowVars, histVars, IInv, LoopShape, Serving, TypeOK, LoopOK
<1>2. UNCHANGED <<pending, RowsOf(stored)>>
  BY <1>1 DEF pending, RowsOf
<1>3. CASE UNCHANGED <<fpc, fres>>
  BY <1>1, <1>2, <1>3 DEF Barrier!vars, pending, callOf
<1>4. CASE /\ fpc[barrier] = "wait" /\ fpc' = [fpc EXCEPT ![barrier] = "done"]
           /\ fres' = [fres EXCEPT ![barrier] = IF lastErr THEN "error" ELSE "nil"]
  <2>1. \A n \in pending : n > fmark[barrier]
    <3>1. pending = RowsOf(input)
      BY <1>1, NoRows DEF pending, IInv, LoopShape
    <3>2. RowsOf(input) \subseteq Int /\ fmark[barrier] \in Int
      <4>1. input \in Seq(Row) /\ RowsOf(input) \subseteq Row
        BY SeqsTyped, RowsTyped DEF IInv
      <4>2. fmark[barrier] \in 0..MaxRows
        BY <1>1 DEF IInv, TypeOK, CallsOK
      <4> QED
        <5>1. RowsOf(input) \subseteq Int
          BY <4>1, RowIsInt
        <5>2. fmark[barrier] \in Int
          BY <4>2, Numbers
        <5> QED
          BY <5>1, <5>2
    <3> QED
      BY <1>1, <3>1, <3>2 DEF IInv, MarkShape, Emptied
  <2>2. barrier \in lossy <=> lastErr
    BY <1>1 DEF IInv, ErrShape
  <2>3. /\ callsOf[barrier] = "open"
        /\ callsOf' = [callsOf EXCEPT ![barrier] = IF lastErr THEN "error" ELSE "nil"]
    BY <1>1, <1>4 DEF IInv, TypeOK, CallsOK, callsOf, callOf
  <2>4. CASE lastErr
    BY <1>1, <1>2, <2>1, <2>2, <2>3, <2>4 DEF Barrier!Answer, Barrier!Settled, pending, callsOf
  <2>5. CASE ~lastErr
    BY <1>1, <1>2, <2>1, <2>2, <2>3, <2>5 DEF Barrier!Answer, Barrier!Settled, pending, callsOf
  <2> QED
    BY <2>4, <2>5
<1> QED
  BY <1>3, <1>4 DEF Reply

LEMMA StepMaps == IInv /\ [Next]_vars => [Barrier!Next]_(Barrier!vars)
<1> SUFFICES ASSUME IInv, [Next]_vars PROVE Barrier!Next \/ UNCHANGED Barrier!vars
  OBVIOUS
<1>1. CASE UNCHANGED <<input, batch, stored, dropped, accepted, fpc, fres, fmark, lossy>>
  BY <1>1 DEF Barrier!vars, RowsOf, callOf
<1>2. CASE Accept
  BY <1>2, AcceptMaps DEF Barrier!Next
<1>3. ASSUME NEW why, NEW back, TakeRow(why, back) PROVE UNCHANGED Barrier!vars
  <2>1. RowsOf(batch') \cup RowsOf(input') = RowsOf(batch) \cup RowsOf(input)
    BY <1>3, TakeRowRows
  <2>2. UNCHANGED <<stored, dropped, accepted, fpc, fres, fmark, lossy>>
    BY <1>3 DEF TakeRow, flushVars, histVars
  <2> QED
    BY <2>1, <2>2 DEF Barrier!vars, RowsOf, callOf
<1>4. CASE SelectRow \/ BarrierRow \/ DrainRow
  BY <1>3, <1>4 DEF SelectRow, BarrierRow, DrainRow
<1>5. CASE FlushOK
  BY <1>5, FlushOKMaps DEF Barrier!Next
<1>6. CASE FlushFailed
  BY <1>1, <1>6, DropMaps DEF FlushFailed, flushVars, Barrier!Next
<1>7. CASE BackoffEnd
  BY <1>1, <1>7, DropMaps DEF BackoffEnd, flushVars, Barrier!Next
<1>8. ASSUME NEW f \in Flushers, BeginFlush(f) PROVE Barrier!Next
  BY <1>8, BeginMaps DEF Barrier!Next
<1>9. ASSUME NEW f \in Flushers, LeaveFlush(f) PROVE Barrier!Next
  BY <1>9, LeaveMaps DEF Barrier!Next
<1>10. CASE Reply
  <2>1. barrier \in Flushers
    BY <1>10 DEF Reply, IInv, LoopShape, Serving, TypeOK, LoopOK
  <2> QED
    BY <1>10, <2>1, ReplyMaps DEF Barrier!Next
<1>11. ASSUME NEW f \in Flushers, SelectFlush(f) PROVE UNCHANGED Barrier!vars
  <2>1. /\ fpc[f] = "send" /\ fpc' = [fpc EXCEPT ![f] = "wait"]
        /\ UNCHANGED <<input, batch, stored, dropped, accepted, fres, fmark, lossy>>
    BY <1>11 DEF SelectFlush, rowVars, histVars
  <2>2. UNCHANGED callsOf
    BY <2>1 DEF callsOf, callOf, IInv, TypeOK, CallsOK
  <2>3. UNCHANGED <<RowsOf(batch), RowsOf(input), RowsOf(stored)>>
    BY <2>1 DEF RowsOf
  <2>4. UNCHANGED <<pending, accepted, dropped, fmark, lossy>>
    BY <2>1, <2>3 DEF pending
  <2> QED
    BY <2>2, <2>3, <2>4 DEF Barrier!vars, callsOf, pending
<1>12. ASSUME NEW f \in Flushers, CancelFlush(f)
       PROVE  Barrier!Next \/ UNCHANGED Barrier!vars
  BY <1>1, <1>12 DEF CancelFlush, rowVars, histVars
<1>13. CASE SelectTick \/ BarrierEmpty \/ DrainEmpty \/ SelectStop
  BY <1>1, <1>13 DEF SelectTick, BarrierEmpty, DrainEmpty, SelectStop, rowVars, flushVars, histVars
<1>14. CASE BeginPush \/ Refuse \/ CloseStore \/ CloseSignal \/ CancelContext
            \/ UNCHANGED vars
  BY <1>1, <1>14 DEF BeginPush, Refuse, CloseStore, CloseSignal, CancelContext, vars, rowVars,
     flushVars, histVars
<1> QED
  BY <1>2, <1>4, <1>5, <1>6, <1>7, <1>8, <1>9, <1>10, <1>11, <1>12, <1>13, <1>14
  DEF Next, LoopStep

(* The batch writer implements the barrier writer: whatever its channel,   *)
(* batch, retries and shutdown do, a call of Flush that answers nil leaves *)
(* no row accepted before it without an outcome, and none lost for it.     *)
THEOREM BarrierKept == Spec => ImplementsBarrier
<1> QED
  BY Invariance, InitMaps, StepMaps, PTL DEF Spec, ImplementsBarrier, Barrier!Spec
=============================================================================
