---------------------------- MODULE CollectorProofs ----------------------------
(***************************************************************************)
(* The shards of the collector, for any symbols and intervals, any number  *)
(* of faults, polls and calls of SetSymbols, and clocks without a bound: a *)
(* frame lost on a stream that has been flowing is accounted for, and      *)
(* nothing starts after Close.  Neither is inductive by itself: a loss is  *)
(* passed from the connection to the recorder of the gap and from there to *)
(* the report, and the invariant says of each of them what it still knows. *)
(***************************************************************************)
EXTENDS Collector, FiniteSetTheorems, TLAPS

-----------------------------------------------------------------------------
(* The constants and the types. *)

LEMMA ShardConstants ==
  /\ MaxShards \in Nat /\ MaxSets \in Nat /\ MaxFaults \in Nat
  /\ MaxTime \in Nat /\ MaxTime > 0 /\ GapCap \in Nat /\ GapCap > 0
  /\ IsFiniteSet(Symbols) /\ IsFiniteSet(Intervals)
BY CollectorAssumption

LEMMA IdsFinite ==
  \A T \in SUBSET Ids : IsFiniteSet(T) /\ Cardinality(T) \in Nat
<1> DEFINE P == Intervals \X Symbols
           f == [p \in P |-> <<p[1], Bucket[p[2]]>>]
<1>1. IsFiniteSet(P)
  BY ShardConstants, FS_Product
<1>2. f \in Surjection(P, Ids)
  <2>1. \A p \in P : f[p] \in Ids
    BY DEF Ids
  <2>2. ASSUME NEW id \in Ids
        PROVE  \E p \in P : f[p] = id
    <3>1. PICK iv \in Intervals, s \in Symbols : id = <<iv, Bucket[s]>>
      BY DEF Ids
    <3>2. <<iv, s>> \in P /\ f[<<iv, s>>] = id
      BY <3>1
    <3> QED
      BY <3>2
  <2> HIDE DEF P
  <2>3. f \in [P -> Ids]
    BY <2>1
  <2> HIDE DEF f
  <2> QED
    BY <2>2, <2>3 DEF Surjection
<1>3. IsFiniteSet(Ids)
  BY <1>1, <1>2, FS_Surjection
<1> QED
  BY <1>3, FS_Subset, FS_CardinalityType

\* The gaps on record at a watcher.
GapLists == UNION {[1..n -> Windows] : n \in 0..GapCap}

LEMMA GapListOf ==
  ASSUME NEW h \in Seq(Windows), Len(h) \in 0..GapCap
  PROVE  h \in GapLists
<1>1. h \in [1..Len(h) -> Windows]
  OBVIOUS
<1> QED
  BY <1>1 DEF GapLists

LEMMA GapListParts ==
  ASSUME NEW g \in GapLists
  PROVE  /\ Len(g) \in 0..GapCap /\ g \in Seq(Windows) /\ \A n \in 1..Len(g) : g[n] \in Windows
         /\ g # <<>> => /\ 1 \in 1..Len(g) /\ Head(g) = g[1]
                        /\ Tail(g) \in GapLists /\ Len(Tail(g)) = Len(g) - 1
                        /\ \A n \in 1..Len(g) - 1 : Tail(g)[n] = g[n + 1]
         /\ \A w \in Windows : Len(g) < GapCap =>
              /\ Append(g, w) \in GapLists /\ Len(Append(g, w)) = Len(g) + 1
              /\ Append(g, w)[Len(g) + 1] = w
              /\ \A n \in 1..Len(g) : Append(g, w)[n] = g[n]
<1>1. PICK n \in 0..GapCap : g \in [1..n -> Windows]
  BY DEF GapLists
<1>2. n \in Nat /\ GapCap \in Nat
  BY ShardConstants
<1>3. Len(g) = n /\ g \in Seq(Windows) /\ \A m \in 1..Len(g) : g[m] \in Windows
  BY <1>1, <1>2
<1>4. ASSUME g # <<>>
      PROVE  /\ 1 \in 1..Len(g) /\ Head(g) = g[1]
             /\ Tail(g) \in GapLists /\ Len(Tail(g)) = Len(g) - 1
             /\ \A m \in 1..Len(g) - 1 : Tail(g)[m] = g[m + 1]
  <2>1. Len(g) > 0 /\ Len(g) \in Nat
    BY <1>2, <1>3, <1>4
  <2>2. Tail(g) \in Seq(Windows) /\ Len(Tail(g)) = Len(g) - 1
        /\ \A m \in 1..Len(g) - 1 : Tail(g)[m] = g[m + 1]
    BY <1>3, <1>4, <2>1
  <2>3. Len(Tail(g)) \in 0..GapCap
    BY <1>2, <1>3, <2>1, <2>2
  <2>4. Tail(g) \in GapLists
    BY <2>2, <2>3, GapListOf
  <2> QED
    BY <1>3, <1>4, <2>1, <2>2, <2>4
<1>5. ASSUME NEW w \in Windows, Len(g) < GapCap
      PROVE  /\ Append(g, w) \in GapLists /\ Len(Append(g, w)) = Len(g) + 1
             /\ Append(g, w)[Len(g) + 1] = w
             /\ \A m \in 1..Len(g) : Append(g, w)[m] = g[m]
  <2>1. /\ Append(g, w) \in Seq(Windows) /\ Len(Append(g, w)) = Len(g) + 1
        /\ Append(g, w)[Len(g) + 1] = w
        /\ \A m \in 1..Len(g) : Append(g, w)[m] = g[m]
    BY <1>3
  <2>2. Len(Append(g, w)) \in 0..GapCap
    BY <1>2, <1>3, <1>5, <2>1
  <2>3. Append(g, w) \in GapLists
    BY <2>1, <2>2, GapListOf
  <2> QED
    BY <2>1, <2>3
<1> QED
  BY <1>3, <1>4, <1>5

Conns == [status : {"none", "open", "closing", "gone", "half", "dead"},
          gaps : GapLists, down : BOOLEAN, lastAt : 0..MaxTime]

ShardRecs ==
  [pc : {"none", "delay", "dial", "dialing", "pump", "sleep", "done"},
   desired : SUBSET Streams, version : 0..MaxSets,
   want : SUBSET Streams, ver : 0..MaxSets,
   subscribed : SUBSET Streams, fed : SUBSET Streams,
   downAt : 0..MaxTime, lastMsg : 0..MaxTime, stop : BOOLEAN, conn : Conns]

LEMMA ShardTyped ==
  ASSUME TypeOK
  PROVE  sh \in [Shard -> ShardRecs] /\ now \in 1..MaxTime
BY DEF TypeOK, ShardRecs, Conns, GapLists

\* The types of a step that leaves the calls of SetSymbols alone.
LEMMA ShardTypes ==
  ASSUME TypeOK, sh' \in [Shard -> ShardRecs], now' \in 1..MaxTime,
         UNCHANGED <<created, sets, setting>>,
         shards' \in [Ids -> 0..MaxShards],
         {closed', cancelled'} \subseteq BOOLEAN, closing' \in {"no", "wait", "done"},
         faults' \in 0..MaxFaults,
         owed' \in [Streams -> SUBSET (1..MaxTime)],
         forgone' \in [Streams -> SUBSET (1..MaxTime)]
  PROVE  TypeOK'
<1>1. created' \in 0..MaxShards /\ sets' \in 0..MaxSets
  BY DEF TypeOK
<1>2. setting' \in [on : BOOLEAN, syms : SUBSET Symbols]
  BY DEF TypeOK
<1>3. Shard' = Shard /\ Ids' = Ids /\ Streams' = Streams /\ Windows' = Windows
  BY DEF Shard, Ids, Streams, Windows
<1> QED
  BY <1>1, <1>2, <1>3 DEF TypeOK, ShardRecs, Conns, GapLists

-----------------------------------------------------------------------------
(* The invariant of the shards. *)

IdStreams(id) == {st \in Streams : st[2] = id[1] /\ Bucket[st[1]] = id[2]}

\* A supervisor that has not been told to stop.
Up(r) == r.pc \notin {"none", "done"} /\ ~r.stop

\* What a shard keeps about the streams that flow and about its clocks.
StreamsFine(r) ==
  /\ r.fed # {} => Up(r) /\ ~closed /\ ~cancelled
  /\ r.fed \subseteq r.desired
  /\ r.pc = "dialing" => r.fed \subseteq r.want
  /\ r.pc = "pump" => r.fed \subseteq r.subscribed

TimesFine(r) ==
  /\ r.lastMsg <= now /\ r.downAt <= now
  /\ r.pc = "pump" => 1 <= r.lastMsg
  /\ r.fed # {} /\ r.pc # "pump" => 1 <= r.downAt

ConnFine(r) ==
  /\ r.conn.down => 1 <= r.conn.lastAt /\ r.conn.lastAt <= r.lastMsg
  /\ r.conn.status = "gone" => r.conn.down
  /\ \A n \in 1..Len(r.conn.gaps) : 1 <= r.conn.gaps[n].from

VersionFine(r) == (setting.on => r.version + 1 <= sets) /\ r.version <= sets

ShardFine(r) == StreamsFine(r) /\ TimesFine(r) /\ ConnFine(r) /\ VersionFine(r)

ShardsFine == \A i \in Shard : ShardFine(sh[i])

\* The map of the collector: every supervisor that is up belongs to one id.
MapFine ==
  /\ \A id \in Ids : shards[id] <= created
  /\ \A a, b \in Ids : shards[a] = shards[b] /\ shards[a] # 0 => a = b
  /\ \A id \in Ids : shards[id] # 0 => sh[shards[id]].desired \subseteq IdStreams(id)
  /\ \A i \in Shard : Up(sh[i]) /\ ~closed => \E id \in Ids : shards[id] = i

Missing(syms) == {id \in planStreams(syms) : shards[id] = 0}

SetFine ==
  /\ closing # "no" => closed
  /\ setting.on /\ ~closed => created + Cardinality(Missing(setting.syms)) <= MaxShards

\* A lost frame that is owed and its witness.
Witness(r, s, t) == s \in r.fed /\ t \in Pending(r)

Accounted ==
  \A s \in Streams : \A t \in owed[s] \ forgone[s] : \E i \in Shard : Witness(sh[i], s, t)

CInv == TypeOK /\ ShardsFine /\ MapFine /\ SetFine /\ Accounted /\ NoShardAfterClose

\* A step of one shard.
LEMMA OneShard ==
  ASSUME CInv, NEW i \in Shard, NEW r \in ShardRecs,
         sh' = [sh EXCEPT ![i] = r],
         UNCHANGED <<shards, created, sets, setting, closed, closing, cancelled, now>>,
         faults' = faults \/ Fault,
         \A s \in Streams : owed'[s] \subseteq owed[s] /\ forgone[s] \subseteq forgone'[s],
         owed' \in [Streams -> SUBSET (1..MaxTime)], forgone' \in [Streams -> SUBSET (1..MaxTime)],
         sh[i].pc \notin {"none", "done"},
         r.desired \subseteq sh[i].desired, r.version <= sh[i].version,
         r.stop \/ ~sh[i].stop \/ r.pc \in {"none", "done"},
         StreamsFine(r), TimesFine(r), ConnFine(r),
         \A s \in Streams : \A t \in owed'[s] \ forgone'[s] :
           Witness(sh[i], s, t) => Witness(r, s, t)
  PROVE  CInv'
<1>1. /\ TypeOK /\ ShardsFine /\ MapFine /\ SetFine /\ Accounted /\ NoShardAfterClose
      /\ sh \in [Shard -> ShardRecs] /\ now \in 1..MaxTime
  BY ShardTyped DEF CInv
<1>2. sh' \in [Shard -> ShardRecs] /\ sh'[i] = r /\ \A j \in Shard : j # i => sh'[j] = sh[j]
  BY <1>1
<1>3. TypeOK'
  <2>1. faults' \in 0..MaxFaults
    BY <1>1, ShardConstants DEF TypeOK, Fault
  <2> QED
    BY <1>1, <1>2, <2>1, ShardTypes DEF TypeOK
<1>4. VersionFine(r)
  <2>1. VersionFine(sh[i])
    BY <1>1 DEF ShardsFine, ShardFine
  <2>2. r.version \in Nat /\ sh[i].version \in Nat /\ sets \in Nat
    BY <1>1, ShardConstants DEF ShardRecs, TypeOK
  <2> QED
    BY <2>1, <2>2 DEF VersionFine
<1>5. ShardsFine'
  <2>1. ASSUME NEW j \in Shard
        PROVE  ShardFine(sh[j])'
    <3>1. CASE j = i
      <4>1. sh'[j] = r
        BY <1>2, <3>1
      <4> QED
        BY <1>4, <4>1 DEF ShardFine, StreamsFine, TimesFine, ConnFine, VersionFine, Up
    <3>2. CASE j # i
      <4>1. sh'[j] = sh[j] /\ ShardFine(sh[j])
        BY <1>1, <1>2, <3>2 DEF ShardsFine
      <4> QED
        BY <4>1 DEF ShardFine, StreamsFine, TimesFine, ConnFine, VersionFine, Up
    <3> QED
      BY <3>1, <3>2
  <2> QED
    BY <2>1 DEF ShardsFine, Shard
<1>6. MapFine'
  <2>1. ASSUME NEW id \in Ids, shards[id] # 0
        PROVE  sh'[shards[id]].desired \subseteq IdStreams(id)
    <3>1. shards[id] \in Shard
      <4>1. shards[id] \in 0..MaxShards
        BY <1>1 DEF TypeOK
      <4> QED
        BY <2>1, <4>1, ShardConstants DEF Shard
    <3>2. sh[shards[id]].desired \subseteq IdStreams(id)
      BY <1>1, <2>1 DEF MapFine
    <3> QED
      BY <1>2, <3>1, <3>2
  <2>2. ASSUME NEW j \in Shard, Up(sh'[j]), ~closed
        PROVE  \E id \in Ids : shards[id] = j
    <3>1. Up(sh[j])
      BY <1>2, <2>2 DEF Up
    <3> QED
      BY <1>1, <2>2, <3>1 DEF MapFine
  <2>3. /\ \A id \in Ids : shards[id] <= created
        /\ \A a, b \in Ids : shards[a] = shards[b] /\ shards[a] # 0 => a = b
    BY <1>1 DEF MapFine
  <2> QED
    BY <2>1, <2>2, <2>3 DEF MapFine, IdStreams, Up, Ids, Streams, Shard
<1>7. SetFine'
  BY <1>1 DEF SetFine, Missing, planStreams, streamsOf, Ids
<1>8. Accounted'
  <2>1. ASSUME NEW s \in Streams, NEW t \in owed'[s] \ forgone'[s]
        PROVE  \E j \in Shard : Witness(sh'[j], s, t)
    <3>1. t \in owed[s] \ forgone[s]
      BY <2>1
    <3>2. PICK j \in Shard : Witness(sh[j], s, t)
      BY <1>1, <3>1 DEF Accounted
    <3>3. Witness(sh'[j], s, t)
      BY <1>2, <2>1, <3>2
    <3> QED
      BY <3>3
  <2> QED
    BY <2>1 DEF Accounted, Witness, Pending, Unclaimed, Flows, Streams, Shard
<1>9. NoShardAfterClose'
  BY <1>1 DEF NoShardAfterClose, Shard, Ids
<1> QED
  BY <1>3, <1>5, <1>6, <1>7, <1>8, <1>9 DEF CInv

-----------------------------------------------------------------------------
(* The supervisor. *)

LEMMA NoConnTyped ==
  /\ NoConn \in Conns /\ ~NoConn.down /\ NoConn.status = "none" /\ Len(NoConn.gaps) = 0
  /\ Dialed \in Conns /\ ~Dialed.down /\ Dialed.status = "open" /\ Len(Dialed.gaps) = 0
<1>1. <<>> \in GapLists /\ Len(<<>>) = 0
  <2>1. <<>> \in Seq(Windows) /\ Len(<<>>) = 0
    OBVIOUS
  <2>2. 0 \in 0..GapCap
    BY ShardConstants
  <2> QED
    BY <2>1, <2>2, GapListOf
<1>2. 0 \in 0..MaxTime
  BY ShardConstants
<1>3. NoConn \in Conns /\ ~NoConn.down /\ NoConn.status = "none" /\ NoConn.gaps = <<>>
  BY <1>1, <1>2 DEF NoConn, Conns
<1>4. Dialed \in Conns /\ Dialed.status = "open" /\ Dialed.gaps = <<>>
  BY <1>3 DEF Dialed, Conns
<1>5. ~Dialed.down
  BY <1>3 DEF Dialed, Conns
<1> QED
  BY <1>1, <1>3, <1>4, <1>5

LEMMA ExitedTyped ==
  /\ Exited \in ShardRecs /\ Exited.fed = {} /\ Exited.desired = {}
  /\ Exited.pc = "done" /\ Exited.version = 0 /\ Exited.lastMsg = 0
  /\ Exited.downAt = 0 /\ Exited.conn = NoConn
  /\ NoShard \in ShardRecs /\ NoShard.conn = NoConn
<1>1. 0 \in 0..MaxTime /\ 0 \in 0..MaxSets
  BY ShardConstants
<1>2. NoShard \in ShardRecs /\ NoShard.conn = NoConn
  BY <1>1, NoConnTyped DEF NoShard, ShardRecs
<1>3. Exited = [NoShard EXCEPT !.pc = "done"]
  BY DEF Exited
<1>4. Exited \in ShardRecs /\ Exited.conn = NoConn
  BY <1>2, <1>3 DEF ShardRecs
<1>5. /\ Exited.fed = {} /\ Exited.desired = {}
      /\ Exited.pc = "done" /\ Exited.version = 0 /\ Exited.lastMsg = 0
      /\ Exited.downAt = 0
  BY DEF Exited, NoShard
<1> QED
  BY <1>2, <1>4, <1>5

\* A supervisor that is stopping exits: nothing flows through it.
LEMMA ShardExits ==
  ASSUME CInv, NEW i \in Shard,
         sh' = [sh EXCEPT ![i] = Exited], Stopping(sh[i]), sh[i].pc \notin {"none", "done"},
         UNCHANGED <<shards, created, sets, setting, closed, closing, cancelled, now, owed, forgone>>,
         faults' = faults \/ Fault
  PROVE  CInv'
<1> DEFINE x == Exited
<1>1. /\ x \in ShardRecs /\ x.fed = {} /\ x.desired = {} /\ x.pc = "done" /\ x.version = 0
      /\ x.lastMsg = 0 /\ x.downAt = 0 /\ ~x.conn.down /\ x.conn.status = "none" /\ Len(x.conn.gaps) = 0
  BY ExitedTyped, NoConnTyped
<1>2. /\ sh \in [Shard -> ShardRecs] /\ now \in 1..MaxTime /\ ShardFine(sh[i]) /\ TypeOK
  BY ShardTyped DEF CInv, ShardsFine
<1>3. sh[i].fed = {}
  BY <1>2 DEF ShardFine, StreamsFine, Up, Stopping
<1> HIDE DEF x
<1>4. StreamsFine(x) /\ TimesFine(x) /\ ConnFine(x)
  <2>1. StreamsFine(x)
    BY <1>1 DEF StreamsFine
  <2>2. TimesFine(x)
    BY <1>1, <1>2 DEF TimesFine
  <2>3. ConnFine(x)
    BY <1>1 DEF ConnFine
  <2> QED
    BY <2>1, <2>2, <2>3
<1>5. \A s \in Streams : \A t \in owed'[s] \ forgone'[s] : Witness(sh[i], s, t) => Witness(x, s, t)
  BY <1>3 DEF Witness
<1>6. x.version <= sh[i].version
  BY <1>1, <1>2 DEF ShardRecs
<1>7. owed' \in [Streams -> SUBSET (1..MaxTime)] /\ forgone' \in [Streams -> SUBSET (1..MaxTime)]
  BY <1>2 DEF TypeOK
<1>8. sh' = [sh EXCEPT ![i] = x]
  BY DEF x
<1> QED
  BY <1>1, <1>4, <1>5, <1>6, <1>7, <1>8, OneShard

\* A step that neither loses a frame nor takes one off the account.
LEMMA ShardMoves ==
  ASSUME CInv, NEW i \in Shard, NEW r \in ShardRecs,
         sh' = [sh EXCEPT ![i] = r],
         UNCHANGED <<shards, created, sets, setting, closed, closing, cancelled, now, owed, forgone>>,
         faults' = faults \/ Fault,
         sh[i].pc \notin {"none", "done"},
         r.desired = sh[i].desired, r.version = sh[i].version, r.stop <=> sh[i].stop,
         StreamsFine(r), TimesFine(r), ConnFine(r),
         \A s : \A t \in 1..MaxTime : Witness(sh[i], s, t) => Witness(r, s, t)
  PROVE  CInv'
<1>1. sh \in [Shard -> ShardRecs] /\ TypeOK
  BY ShardTyped DEF CInv
<1>2. r.version <= sh[i].version
  BY <1>1 DEF ShardRecs
<1>3. owed' \in [Streams -> SUBSET (1..MaxTime)] /\ forgone' \in [Streams -> SUBSET (1..MaxTime)]
  BY <1>1 DEF TypeOK
<1>4. \A s \in Streams : owed'[s] \subseteq 1..MaxTime
  BY <1>1 DEF TypeOK
<1> QED
  BY <1>2, <1>3, <1>4, OneShard

\* The backoff ends, or a connection is asked for.
LEMMA ShardSleeps ==
  ASSUME CInv, NEW i \in Shard, Sleep(i)
  PROVE  CInv'
<1>1. /\ UNCHANGED <<shards, created, sets, setting, closed, closing, cancelled, now, faults, owed, forgone>>
      /\ sh[i].pc \in {"delay", "sleep", "dial"}
      /\ \/ sh' = [sh EXCEPT ![i] = [sh[i] EXCEPT !.pc = "dial"]]
         \/ Stopping(sh[i]) /\ sh' = [sh EXCEPT ![i] = Exited]
  BY DEF Sleep, Become, shardRest, setVars, closeVars
<1>2. CASE Stopping(sh[i]) /\ sh' = [sh EXCEPT ![i] = Exited]
  BY <1>1, <1>2, ShardExits
<1>3. CASE sh' = [sh EXCEPT ![i] = [sh[i] EXCEPT !.pc = "dial"]]
  <2> DEFINE r == [sh[i] EXCEPT !.pc = "dial"]
  <2>1. sh[i] \in ShardRecs /\ ShardFine(sh[i]) /\ TypeOK
    BY ShardTyped DEF CInv, ShardsFine
  <2>2. /\ r \in ShardRecs /\ r.pc = "dial" /\ r.desired = sh[i].desired /\ r.version = sh[i].version
        /\ r.fed = sh[i].fed /\ r.downAt = sh[i].downAt /\ r.lastMsg = sh[i].lastMsg /\ r.conn = sh[i].conn
    BY <2>1 DEF ShardRecs
  <2>3. r.stop <=> sh[i].stop
    BY <2>1 DEF ShardRecs
  <2> HIDE DEF r
  <2>4. StreamsFine(r)
    BY <1>1, <2>1, <2>2, <2>3 DEF ShardFine, StreamsFine, Up
  <2>5. TimesFine(r) /\ ConnFine(r)
    BY <1>1, <2>1, <2>2 DEF ShardFine, TimesFine, ConnFine
  <2>6. \A s : \A t \in 1..MaxTime : Witness(sh[i], s, t) => Witness(r, s, t)
    BY <1>1, <2>2 DEF Witness, Pending
  <2>7. sh' = [sh EXCEPT ![i] = r]
    BY <1>3 DEF r
  <2> QED
    BY <1>1, <2>2, <2>3, <2>4, <2>5, <2>6, <2>7, ShardMoves
<1> QED
  BY <1>1, <1>2, <1>3

LEMMA ShardDials ==
  ASSUME CInv, NEW i \in Shard, Dial(i)
  PROVE  CInv'
<1> DEFINE r == [sh[i] EXCEPT !.pc = "dialing", !.want = sh[i].desired, !.ver = sh[i].version]
<1>1. /\ UNCHANGED <<shards, created, sets, setting, closed, closing, cancelled, now, faults, owed, forgone>>
      /\ sh[i].pc = "dial" /\ sh' = [sh EXCEPT ![i] = r]
  BY DEF Dial, Become, shardRest, setVars, closeVars
<1>2. sh[i] \in ShardRecs /\ ShardFine(sh[i])
  BY ShardTyped DEF CInv, ShardsFine
<1>3. /\ r \in ShardRecs /\ r.pc = "dialing" /\ r.desired = sh[i].desired /\ r.version = sh[i].version
      /\ r.want = sh[i].desired /\ r.fed = sh[i].fed /\ r.downAt = sh[i].downAt
      /\ r.lastMsg = sh[i].lastMsg /\ r.conn = sh[i].conn
  BY <1>2 DEF ShardRecs
<1>4. r.stop <=> sh[i].stop
  BY <1>2 DEF ShardRecs
<1> HIDE DEF r
<1>5. StreamsFine(r)
  BY <1>1, <1>2, <1>3, <1>4 DEF ShardFine, StreamsFine, Up
<1>6. TimesFine(r) /\ ConnFine(r)
  BY <1>1, <1>2, <1>3 DEF ShardFine, TimesFine, ConnFine
<1>7. \A s : \A t \in 1..MaxTime : Witness(sh[i], s, t) => Witness(r, s, t)
  BY <1>1, <1>3 DEF Witness, Pending
<1> QED
  BY <1>1, <1>3, <1>4, <1>5, <1>6, <1>7, ShardMoves

\* The drop is carried forward.
LEMMA ConnectFails ==
  ASSUME CInv, NEW i \in Shard, ConnectFailed(i)
  PROVE  CInv'
<1> DEFINE r == [sh[i] EXCEPT !.pc = "sleep", !.want = {}]
<1>1. /\ UNCHANGED <<shards, created, sets, setting, closed, closing, cancelled, now, owed, forgone>>
      /\ sh[i].pc = "dialing" /\ Fault
      /\ sh' = [sh EXCEPT ![i] = IF cancelled THEN Exited ELSE r]
  BY DEF ConnectFailed, Become, shardRest, setVars, closeVars
<1>2. CASE cancelled
  <2>1. sh' = [sh EXCEPT ![i] = Exited] /\ Stopping(sh[i])
    BY <1>1, <1>2 DEF Stopping
  <2> QED
    BY <1>1, <2>1, ShardExits
<1>3. CASE ~cancelled
  <2>1. sh[i] \in ShardRecs /\ ShardFine(sh[i])
    BY ShardTyped DEF CInv, ShardsFine
  <2>2. /\ r \in ShardRecs /\ r.pc = "sleep" /\ r.desired = sh[i].desired /\ r.version = sh[i].version
        /\ r.fed = sh[i].fed /\ r.downAt = sh[i].downAt
        /\ r.lastMsg = sh[i].lastMsg /\ r.conn = sh[i].conn
    BY <2>1 DEF ShardRecs
  <2>3. r.stop <=> sh[i].stop
    BY <2>1 DEF ShardRecs
  <2>4. sh' = [sh EXCEPT ![i] = r]
    BY <1>1, <1>3
  <2> HIDE DEF r
  <2>5. StreamsFine(r)
    BY <1>1, <2>1, <2>2, <2>3 DEF ShardFine, StreamsFine, Up
  <2>6. TimesFine(r) /\ ConnFine(r)
    BY <1>1, <2>1, <2>2 DEF ShardFine, TimesFine, ConnFine
  <2>7. \A s : \A t \in 1..MaxTime : Witness(sh[i], s, t) => Witness(r, s, t)
    BY <1>1, <2>2 DEF Witness, Pending
  <2> QED
    BY <1>1, <2>2, <2>3, <2>4, <2>5, <2>6, <2>7, ShardMoves
<1> QED
  BY <1>2, <1>3

\* A report takes frames off the account and puts none on it.
LEMMA GapsReported ==
  ASSUME TypeOK, NEW T, NEW from \in 0..MaxTime, NEW to \in 0..MaxTime,
         ReportGap(T, from, to)
  PROVE  /\ owed' \in [Streams -> SUBSET (1..MaxTime)]
         /\ \A s \in Streams : owed'[s] \subseteq owed[s]
         /\ \A s \in Streams : \A t \in owed'[s] :
              s \in T /\ from # 0 => ~(from < t /\ t <= to)
<1>1. owed \in [Streams -> SUBSET (1..MaxTime)]
  BY DEF TypeOK
<1>2. owed' = [s \in Streams |-> IF s \in T /\ from # 0 THEN owed[s] \ (from + 1..to) ELSE owed[s]]
  BY DEF ReportGap
<1>3. \A t \in 1..MaxTime : from < t /\ t <= to => t \in from + 1..to
  BY ShardConstants
<1> QED
  BY <1>1, <1>2, <1>3

\* The gap of the outage is reported for the streams of the new connection.
LEMMA ShardConnects ==
  ASSUME CInv, NEW i \in Shard, ConnectOK(i)
  PROVE  CInv'
<1> DEFINE q == sh[i]
           r == [q EXCEPT !.pc = "pump", !.subscribed = q.want, !.want = {}, !.downAt = 0,
                          !.lastMsg = now, !.conn = Dialed, !.fed = Fed(q, q.want)]
<1>1. /\ UNCHANGED <<shards, created, sets, setting, closed, closing, cancelled, now, faults, forgone>>
      /\ q.pc = "dialing" /\ sh' = [sh EXCEPT ![i] = r]
      /\ ReportGap(q.want, q.downAt, now)
  BY DEF ConnectOK, Become, shardRest, setVars, closeVars
<1>2. q \in ShardRecs /\ ShardFine(q) /\ TypeOK /\ now \in 1..MaxTime
  BY ShardTyped DEF CInv, ShardsFine
<1>3. Dialed \in Conns /\ ~Dialed.down /\ Dialed.status = "open" /\ Len(Dialed.gaps) = 0
  BY NoConnTyped
<1>4. Fed(q, q.want) \subseteq q.want /\ Fed(q, q.want) \subseteq q.desired
      /\ (Fed(q, q.want) # {} => ~q.stop /\ ~closed /\ ~cancelled)
      /\ (~q.stop /\ ~closed /\ ~cancelled => Fed(q, q.want) = q.want \cap q.desired)
  BY DEF Fed, Ending
<1>5. /\ r \in ShardRecs /\ r.pc = "pump" /\ r.desired = q.desired /\ r.version = q.version
      /\ r.subscribed = q.want /\ r.fed = Fed(q, q.want) /\ r.downAt = 0
      /\ r.lastMsg = now /\ r.conn = Dialed
  <2>1. 0 \in 0..MaxTime /\ now \in 0..MaxTime /\ Fed(q, q.want) \in SUBSET Streams
    BY <1>2, <1>4, ShardConstants DEF ShardRecs
  <2> QED
    BY <1>2, <1>3, <2>1 DEF ShardRecs
<1>6. r.stop <=> q.stop
  BY <1>2 DEF ShardRecs
<1> HIDE DEF r
<1>7. StreamsFine(r)
  BY <1>4, <1>5, <1>6 DEF StreamsFine, Up
<1>8. TimesFine(r) /\ ConnFine(r)
  BY <1>2, <1>3, <1>5 DEF TimesFine, ConnFine
<1>9. /\ owed' \in [Streams -> SUBSET (1..MaxTime)]
      /\ \A s \in Streams : owed'[s] \subseteq owed[s]
      /\ \A s \in Streams : \A t \in owed'[s] :
           s \in q.want /\ q.downAt # 0 => ~(q.downAt < t /\ t <= now)
  <2>1. q.downAt \in 0..MaxTime /\ now \in 0..MaxTime
    BY <1>2 DEF ShardRecs
  <2> QED
    BY <1>1, <1>2, <2>1, GapsReported
<1>10. \A s \in Streams : \A t \in owed'[s] \ forgone'[s] : ~Witness(q, s, t)
  <2> SUFFICES ASSUME NEW s \in Streams, NEW t \in owed'[s], Witness(q, s, t)
               PROVE  FALSE
    OBVIOUS
  <2>1. s \in q.want /\ q.downAt # 0 /\ t \in q.downAt + 1..now
    BY <1>1, <1>2 DEF Witness, Pending, ShardFine, StreamsFine
  <2>2. q.downAt \in Nat /\ now \in Nat
    BY <1>2 DEF ShardRecs
  <2>3. q.downAt < t /\ t <= now
    BY <2>1, <2>2
  <2> QED
    BY <1>9, <2>1, <2>3
<1>11. r.version <= q.version
  BY <1>2, <1>5 DEF ShardRecs
<1>12. forgone' \in [Streams -> SUBSET (1..MaxTime)]
  BY <1>1, <1>2 DEF TypeOK
<1> QED
  BY <1>1, <1>5, <1>6, <1>7, <1>8, <1>9, <1>10, <1>11, <1>12, OneShard

-----------------------------------------------------------------------------
(* A connection that is up. *)

InGap(c, t) == \E n \in 1..Len(c.gaps) : c.gaps[n].from < t /\ t <= c.gaps[n].to

LEMMA UnclaimedIs ==
  ASSUME NEW c \in Conns, NEW last \in Nat, NEW t \in Nat
  PROVE  t \in Unclaimed(c, last) <=> InGap(c, t) \/ (c.down /\ c.lastAt < t /\ t <= last)
<1>1. \A n \in 1..Len(c.gaps) : c.gaps[n].from \in Nat /\ c.gaps[n].to \in Nat
  <2>1. c.gaps \in GapLists
    BY DEF Conns
  <2>2. \A n \in 1..Len(c.gaps) : c.gaps[n] \in Windows
    BY <2>1, GapListParts
  <2>3. \A w \in Windows : w.from \in Nat /\ w.to \in Nat
    BY ShardConstants DEF Windows
  <2> QED
    BY <2>2, <2>3
<1>2. t \in Queued(c) <=> InGap(c, t)
  <2>1. t \in Queued(c) <=> \E n \in 1..Len(c.gaps) : t \in c.gaps[n].from + 1..c.gaps[n].to
    BY DEF Queued
  <2>2. \A n \in 1..Len(c.gaps) :
          t \in c.gaps[n].from + 1..c.gaps[n].to <=> c.gaps[n].from < t /\ t <= c.gaps[n].to
    BY <1>1
  <2> QED
    BY <2>1, <2>2 DEF InGap
<1>3. t \in Unclaimed(c, last) <=> t \in Queued(c) \/ t \in (IF c.down THEN c.lastAt + 1..last ELSE {})
  BY DEF Unclaimed
<1>4. c.lastAt \in Nat /\ (t \in c.lastAt + 1..last <=> c.lastAt < t /\ t <= last)
  BY ShardConstants DEF Conns
<1> QED
  BY <1>2, <1>3, <1>4

LEMMA PendingIs ==
  ASSUME now \in Nat, NEW r \in ShardRecs, r.pc = "pump", NEW t \in Nat
  PROVE  t \in Pending(r) <=> \/ InGap(r.conn, t)
                              \/ r.conn.down /\ r.conn.lastAt < t /\ t <= now
                              \/ ~Flows(r) /\ r.lastMsg < t /\ t <= now
<1>1. r.conn \in Conns /\ r.lastMsg \in Nat
  BY ShardConstants DEF ShardRecs
<1>2. t \in Pending(r) <=> \/ t \in Unclaimed(r.conn, now)
                           \/ t \in (IF Flows(r) THEN {} ELSE r.lastMsg + 1..now)
  <2>1. Pending(r) = Unclaimed(r.conn, now) \cup (IF Flows(r) THEN {} ELSE r.lastMsg + 1..now)
    BY DEF Pending
  <2> QED
    BY <2>1
<1>3. t \in r.lastMsg + 1..now <=> r.lastMsg < t /\ t <= now
  BY <1>1
<1>4. t \in Unclaimed(r.conn, now) <=>
        InGap(r.conn, t) \/ (r.conn.down /\ r.conn.lastAt < t /\ t <= now)
  BY <1>1, UnclaimedIs
<1> QED
  BY <1>2, <1>3, <1>4

LEMMA ShardStops ==
  ASSUME CInv, NEW i \in Shard, PumpStop(i)
  PROVE  CInv'
<1>1. /\ UNCHANGED <<shards, created, sets, setting, closed, closing, cancelled, now, faults, owed, forgone>>
      /\ sh[i].pc = "pump" /\ Stopping(sh[i]) /\ sh' = [sh EXCEPT ![i] = Exited]
  BY DEF PumpStop, Become, shardRest, setVars, closeVars
<1> QED
  BY <1>1, ShardExits

\* A silent gap is taken from the channel and reported.
LEMMA SilentGapTaken ==
  ASSUME CInv, NEW i \in Shard, PumpGap(i)
  PROVE  CInv'
<1> DEFINE q == sh[i]
           g == Head(q.conn.gaps)
           r == [q EXCEPT !.conn.gaps = Tail(@)]
<1>1. /\ UNCHANGED <<shards, created, sets, setting, closed, closing, cancelled, now, faults, forgone>>
      /\ q.pc = "pump" /\ q.conn.gaps # <<>> /\ sh' = [sh EXCEPT ![i] = r]
      /\ ReportGap(q.subscribed, g.from, g.to)
  BY DEF PumpGap, Become, shardRest, setVars, closeVars
<1>2. q \in ShardRecs /\ ShardFine(q) /\ TypeOK /\ now \in Nat /\ q.conn \in Conns
  BY ShardTyped, ShardConstants DEF CInv, ShardsFine, ShardRecs
<1>3. /\ 1 \in 1..Len(q.conn.gaps) /\ g = q.conn.gaps[1] /\ g \in Windows
      /\ Tail(q.conn.gaps) \in GapLists /\ Len(Tail(q.conn.gaps)) = Len(q.conn.gaps) - 1
      /\ \A n \in 1..Len(q.conn.gaps) - 1 : Tail(q.conn.gaps)[n] = q.conn.gaps[n + 1]
      /\ Len(q.conn.gaps) \in Nat
  <2> DEFINE G == q.conn.gaps
  <2>1. G \in GapLists /\ G # <<>>
    BY <1>1, <1>2 DEF Conns
  <2>2. g = Head(G)
    OBVIOUS
  <2> HIDE DEF g, G
  <2>3. /\ 1 \in 1..Len(G) /\ g = G[1] /\ g \in Windows
        /\ Tail(G) \in GapLists /\ Len(Tail(G)) = Len(G) - 1
        /\ \A n \in 1..Len(G) - 1 : Tail(G)[n] = G[n + 1]
        /\ Len(G) \in Nat
    BY <2>1, <2>2, GapListParts
  <2> QED
    BY <2>3 DEF G
<1>4. g.from \in 0..MaxTime /\ g.to \in 0..MaxTime /\ 1 <= g.from
  BY <1>2, <1>3 DEF Windows, ShardFine, ConnFine
<1>5. /\ r \in ShardRecs /\ r.pc = "pump" /\ r.desired = q.desired /\ r.version = q.version
      /\ r.subscribed = q.subscribed /\ r.fed = q.fed /\ r.downAt = q.downAt
      /\ r.lastMsg = q.lastMsg
      /\ r.conn.gaps = Tail(q.conn.gaps) /\ r.conn.lastAt = q.conn.lastAt /\ r.conn.status = q.conn.status
  <2> DEFINE k == [q.conn EXCEPT !.gaps = Tail(q.conn.gaps)]
  <2>1. k \in Conns /\ k.gaps = Tail(q.conn.gaps) /\ k.lastAt = q.conn.lastAt /\ k.status = q.conn.status
    BY <1>2, <1>3 DEF Conns
  <2>2. r = [q EXCEPT !.conn = k]
    BY <1>2 DEF ShardRecs
  <2> HIDE DEF k, r
  <2> QED
    BY <1>1, <1>2, <2>1, <2>2 DEF ShardRecs
<1>6. (r.stop <=> q.stop) /\ (r.conn.down <=> q.conn.down)
  BY <1>2 DEF ShardRecs, Conns
<1> HIDE DEF r
<1>7. StreamsFine(r) /\ TimesFine(r)
  BY <1>1, <1>2, <1>5, <1>6 DEF ShardFine, StreamsFine, TimesFine, Up
<1>8. ConnFine(r)
  <2>1. \A n \in 1..Len(r.conn.gaps) : 1 <= r.conn.gaps[n].from
    <3>1. \A n \in 1..Len(q.conn.gaps) - 1 : n + 1 \in 1..Len(q.conn.gaps)
      BY <1>3
    <3> QED
      BY <1>2, <1>3, <1>5, <3>1 DEF ShardFine, ConnFine
  <2> QED
    BY <1>2, <1>5, <1>6, <2>1 DEF ShardFine, ConnFine
<1>9. /\ owed' \in [Streams -> SUBSET (1..MaxTime)]
      /\ \A s \in Streams : owed'[s] \subseteq owed[s]
      /\ \A s \in Streams : \A t \in owed'[s] :
           s \in q.subscribed /\ g.from # 0 => ~(g.from < t /\ t <= g.to)
  BY <1>1, <1>2, <1>4, GapsReported
<1>10. \A s \in Streams : \A t \in owed'[s] \ forgone'[s] : Witness(q, s, t) => Witness(r, s, t)
  <2> SUFFICES ASSUME NEW s \in Streams, NEW t \in owed'[s], Witness(q, s, t)
               PROVE  Witness(r, s, t)
    OBVIOUS
  <2>0. t \in 1..MaxTime /\ StreamsFine(q)
    BY <1>2, <1>9 DEF ShardFine
  <2>1. s \in q.fed /\ s \in q.subscribed /\ t \in Pending(q) /\ t \in Nat
    <3>1. s \in q.fed /\ t \in Pending(q)
      BY DEF Witness
    <3>2. s \in q.subscribed
      BY <1>1, <2>0, <3>1 DEF StreamsFine
    <3> QED
      BY <2>0, <3>1, <3>2
  <2>2. ~(g.from < t /\ t <= g.to)
    BY <1>4, <1>9, <2>1
  <2>3. InGap(q.conn, t) => InGap(r.conn, t)
    <3> SUFFICES ASSUME NEW n \in 1..Len(q.conn.gaps), q.conn.gaps[n].from < t, t <= q.conn.gaps[n].to
                 PROVE  InGap(r.conn, t)
      BY DEF InGap
    <3>1. n # 1
      BY <1>3, <2>2
    <3>2. n - 1 \in 1..Len(q.conn.gaps) - 1 /\ (n - 1) + 1 = n
      BY <1>3, <3>1
    <3>3. r.conn.gaps[n - 1] = q.conn.gaps[n] /\ n - 1 \in 1..Len(r.conn.gaps)
      BY <1>3, <1>5, <3>2
    <3> QED
      BY <3>3 DEF InGap
  <2>4. Flows(r) <=> Flows(q)
    BY <1>1, <1>5 DEF Flows
  <2>5. \/ InGap(q.conn, t)
        \/ q.conn.down /\ q.conn.lastAt < t /\ t <= now
        \/ ~Flows(q) /\ q.lastMsg < t /\ t <= now
    BY <1>1, <1>2, <2>1, PendingIs
  <2>6. t \in Pending(r)
    BY <1>2, <1>5, <1>6, <2>1, <2>3, <2>4, <2>5, PendingIs
  <2> QED
    BY <1>5, <2>1, <2>6 DEF Witness
<1>11. r.version <= q.version
  BY <1>2, <1>5 DEF ShardRecs
<1>12. forgone' \in [Streams -> SUBSET (1..MaxTime)]
  BY <1>1, <1>2 DEF TypeOK
<1> QED
  BY <1>1, <1>5, <1>6, <1>7, <1>8, <1>9, <1>10, <1>11, <1>12, OneShard

\* The connection ends: the gaps nobody has taken are forgone, and the outage
\* since the last frame is carried forward.
LEMMA PumpEnds ==
  ASSUME CInv, NEW i \in Shard, NEW q \in ShardRecs,
         UNCHANGED <<shards, created, sets, setting, closed, closing, cancelled, now, owed>>,
         faults' = faults \/ Fault,
         sh[i].pc = "pump", q.pc = "pump", q.desired = sh[i].desired, q.version = sh[i].version,
         q.stop <=> sh[i].stop, q.conn = sh[i].conn, q.lastMsg = sh[i].lastMsg,
         sh[i].fed \subseteq q.fed, StreamsFine(q),
         EndPump(i, q)
  PROVE  CInv'
<1> DEFINE r == Dropped(q)
<1>1. sh' = [sh EXCEPT ![i] = r] /\ Forgo(q.fed, Unclaimed(q.conn, q.lastMsg))
  BY DEF EndPump, Become
<1>2. /\ sh[i] \in ShardRecs /\ ShardFine(sh[i]) /\ TypeOK /\ now \in Nat
      /\ q.conn \in Conns /\ q.lastMsg \in Nat /\ q.lastMsg <= now /\ 1 <= q.lastMsg
  BY ShardTyped, ShardConstants DEF CInv, ShardsFine, ShardRecs, ShardFine, TimesFine
<1>3. r = [q EXCEPT !.pc = "sleep", !.downAt = q.lastMsg, !.conn = NoConn]
  BY DEF Dropped
<1> HIDE DEF r
<1>4. /\ r \in ShardRecs /\ r.pc = "sleep" /\ r.desired = q.desired /\ r.version = q.version
      /\ r.fed = q.fed /\ r.downAt = q.lastMsg /\ r.lastMsg = q.lastMsg /\ r.conn = NoConn
  BY <1>2, <1>3, NoConnTyped DEF ShardRecs
<1>5. r.stop <=> q.stop
  BY <1>3 DEF ShardRecs
<1>6. StreamsFine(r)
  BY <1>4, <1>5 DEF StreamsFine, Up
<1>7. TimesFine(r) /\ ConnFine(r)
  BY <1>2, <1>4, NoConnTyped DEF TimesFine, ConnFine
<1>8. forgone' = [s \in Streams |-> IF s \in q.fed
                                    THEN forgone[s] \cup (owed[s] \cap Unclaimed(q.conn, q.lastMsg))
                                    ELSE forgone[s]]
  BY <1>1 DEF Forgo
<1>9. /\ forgone' \in [Streams -> SUBSET (1..MaxTime)] /\ owed' \in [Streams -> SUBSET (1..MaxTime)]
      /\ \A s \in Streams : owed'[s] \subseteq owed[s] /\ forgone[s] \subseteq forgone'[s]
  BY <1>2, <1>8 DEF TypeOK
<1>10. \A s \in Streams : \A t \in owed'[s] \ forgone'[s] : Witness(sh[i], s, t) => Witness(r, s, t)
  <2> SUFFICES ASSUME NEW s \in Streams, NEW t \in owed'[s] \ forgone'[s], Witness(sh[i], s, t)
               PROVE  Witness(r, s, t)
    OBVIOUS
  <2>1. s \in q.fed /\ t \in Pending(sh[i]) /\ t \in Nat /\ t \in owed[s]
    BY <1>9 DEF Witness
  <2>2. t \notin Unclaimed(q.conn, q.lastMsg)
    BY <1>8, <2>1
  <2>3. ~InGap(q.conn, t) /\ ~(q.conn.down /\ q.conn.lastAt < t /\ t <= q.lastMsg)
    BY <1>2, <2>1, <2>2, UnclaimedIs
  <2>4. \/ InGap(sh[i].conn, t)
        \/ sh[i].conn.down /\ sh[i].conn.lastAt < t /\ t <= now
        \/ ~Flows(sh[i]) /\ sh[i].lastMsg < t /\ t <= now
    BY <1>2, <2>1, PendingIs
  <2>5. q.lastMsg < t /\ t <= now
    BY <1>2, <2>1, <2>3, <2>4
  <2>6. t \in Pending(r)
    BY <1>2, <1>4, <2>1, <2>5 DEF Pending
  <2> QED
    BY <1>4, <2>1, <2>6 DEF Witness
<1>11. r.version <= sh[i].version
  BY <1>2, <1>4 DEF ShardRecs
<1>12. r.stop \/ ~sh[i].stop
  BY <1>5
<1> QED
  BY <1>1, <1>4, <1>6, <1>7, <1>9, <1>10, <1>11, <1>12, OneShard

LEMMA ShardFails ==
  ASSUME CInv, NEW i \in Shard, PumpError(i)
  PROVE  CInv'
<1>1. /\ UNCHANGED <<shards, created, sets, setting, closed, closing, cancelled, now, faults, owed>>
      /\ sh[i].pc = "pump" /\ EndPump(i, sh[i])
  BY DEF PumpError, shardRest, setVars, closeVars
<1>2. sh[i] \in ShardRecs /\ StreamsFine(sh[i])
  BY ShardTyped DEF CInv, ShardsFine, ShardFine
<1> QED
  BY <1>1, <1>2, PumpEnds

\* The watchdog brings the subscription up to date, or ends the connection.
LEMMA ShardTicks ==
  ASSUME CInv, NEW i \in Shard, PumpTick(i)
  PROVE  CInv'
<1> DEFINE q == sh[i]
           v == [q EXCEPT !.subscribed = q.desired, !.ver = q.version, !.fed = Fed(q, q.desired)]
           u == IF q.version = q.ver THEN q ELSE v
<1>1. /\ UNCHANGED <<shards, created, sets, setting, closed, closing, cancelled, now, owed>>
      /\ q.pc = "pump"
      /\ \/ Fault /\ EndPump(i, q)
         \/ EndPump(i, u) /\ UNCHANGED faults
         \/ sh' = [sh EXCEPT ![i] = u] /\ UNCHANGED <<faults, forgone>>
  BY DEF PumpTick, Become, shardRest, setVars, closeVars
<1>2. q \in ShardRecs /\ ShardFine(q)
  BY ShardTyped DEF CInv, ShardsFine
<1>3. q.fed \subseteq Fed(q, q.desired) /\ Fed(q, q.desired) \subseteq q.desired
      /\ (Fed(q, q.desired) # {} => ~q.stop /\ ~closed /\ ~cancelled)
  BY <1>2 DEF Fed, Ending, ShardFine, StreamsFine, Up
<1>4. /\ v \in ShardRecs /\ v.pc = "pump" /\ v.desired = q.desired /\ v.version = q.version
      /\ v.subscribed = q.desired /\ v.fed = Fed(q, q.desired) /\ v.downAt = q.downAt
      /\ v.lastMsg = q.lastMsg /\ v.conn = q.conn
  <2>1. Fed(q, q.desired) \in SUBSET Streams
    BY <1>2, <1>3 DEF ShardRecs
  <2> QED
    BY <1>1, <1>2, <2>1 DEF ShardRecs
<1>5. v.stop <=> q.stop
  BY <1>2 DEF ShardRecs
<1> HIDE DEF v
<1>6. StreamsFine(v)
  BY <1>1, <1>3, <1>4, <1>5 DEF StreamsFine, Up
<1>7. /\ u \in ShardRecs /\ u.pc = "pump" /\ u.desired = q.desired /\ u.version = q.version
      /\ u.downAt = q.downAt /\ u.lastMsg = q.lastMsg /\ u.conn = q.conn
      /\ q.fed \subseteq u.fed
  BY <1>1, <1>2, <1>3, <1>4
<1>8. u.stop <=> q.stop
  BY <1>5
<1>9. StreamsFine(u)
  BY <1>2, <1>6 DEF ShardFine
<1> HIDE DEF u
<1>10. CASE Fault /\ EndPump(i, q)
  BY <1>1, <1>2, <1>10, PumpEnds DEF ShardFine
<1>11. CASE EndPump(i, u) /\ UNCHANGED faults
  BY <1>1, <1>7, <1>8, <1>9, <1>11, PumpEnds
<1>12. CASE sh' = [sh EXCEPT ![i] = u] /\ UNCHANGED <<faults, forgone>>
  <2>1. TimesFine(u) /\ ConnFine(u)
    BY <1>1, <1>2, <1>7 DEF ShardFine, TimesFine, ConnFine
  <2>2. Flows(u) <=> Flows(q)
    BY <1>1, <1>7 DEF Flows
  <2>3. Pending(u) = Pending(q)
    BY <1>1, <1>7, <2>2 DEF Pending
  <2>4. \A s : \A t \in 1..MaxTime : Witness(q, s, t) => Witness(u, s, t)
    BY <1>7, <2>3 DEF Witness
  <2> QED
    BY <1>1, <1>7, <1>8, <1>9, <1>12, <2>1, <2>4, ShardMoves
<1> QED
  BY <1>1, <1>10, <1>11, <1>12

-----------------------------------------------------------------------------
(* The connector and the watcher of its status. *)

\* The frames a connection that is up still owes.
Lost(c, last, t) ==
  \/ InGap(c, t)
  \/ c.down /\ c.lastAt < t /\ t <= now
  \/ c.status \notin {"open", "closing"} /\ last < t /\ t <= now

LEMMA ConnMoves ==
  ASSUME CInv, NEW i \in Shard, NEW c \in Conns, sh[i].pc = "pump",
         sh' = [sh EXCEPT ![i] = [sh[i] EXCEPT !.conn = c]],
         UNCHANGED <<shards, created, sets, setting, closed, closing, cancelled, now, owed>>,
         faults' = faults \/ Fault,
         forgone' \in [Streams -> SUBSET (1..MaxTime)],
         \A s \in Streams : forgone[s] \subseteq forgone'[s],
         c.down => 1 <= c.lastAt /\ c.lastAt <= sh[i].lastMsg,
         c.status = "gone" => c.down,
         \A n \in 1..Len(c.gaps) : 1 <= c.gaps[n].from,
         \A s \in sh[i].fed : \A t \in owed[s] \ forgone'[s] :
           Lost(sh[i].conn, sh[i].lastMsg, t) => Lost(c, sh[i].lastMsg, t)
  PROVE  CInv'
<1> DEFINE q == sh[i]
           r == [q EXCEPT !.conn = c]
<1>1. q \in ShardRecs /\ ShardFine(q) /\ TypeOK /\ now \in Nat
  BY ShardTyped, ShardConstants DEF CInv, ShardsFine
<1>2. /\ r \in ShardRecs /\ r.pc = "pump" /\ r.desired = q.desired /\ r.version = q.version
      /\ r.subscribed = q.subscribed /\ r.fed = q.fed /\ r.downAt = q.downAt
      /\ r.lastMsg = q.lastMsg /\ r.conn = c
  BY <1>1 DEF ShardRecs
<1>3. r.stop <=> q.stop
  BY <1>1 DEF ShardRecs
<1> HIDE DEF r
<1>4. StreamsFine(r)
  BY <1>1, <1>2, <1>3 DEF ShardFine, StreamsFine, Up
<1>5. TimesFine(r)
  BY <1>1, <1>2 DEF ShardFine, TimesFine
<1>6. ConnFine(r)
  BY <1>2 DEF ConnFine
<1>7. owed' \in [Streams -> SUBSET (1..MaxTime)]
  BY <1>1 DEF TypeOK
<1>8. \A s \in Streams : \A t \in owed'[s] \ forgone'[s] : Witness(q, s, t) => Witness(r, s, t)
  <2> SUFFICES ASSUME NEW s \in Streams, NEW t \in owed'[s] \ forgone'[s], Witness(q, s, t)
               PROVE  Witness(r, s, t)
    OBVIOUS
  <2>1. s \in q.fed /\ t \in Pending(q) /\ t \in Nat /\ t \in owed[s]
    BY <1>7 DEF Witness
  <2>2. Lost(q.conn, q.lastMsg, t)
    BY <1>1, <2>1, PendingIs DEF Lost, Flows
  <2>3. Lost(c, q.lastMsg, t)
    BY <2>1, <2>2
  <2>4. t \in Pending(r)
    BY <1>1, <1>2, <2>1, <2>3, PendingIs DEF Lost, Flows
  <2> QED
    BY <1>2, <2>1, <2>4 DEF Witness
<1>9. r.version <= q.version
  BY <1>1, <1>2 DEF ShardRecs
<1>10. sh' = [sh EXCEPT ![i] = r]
  BY DEF r
<1> QED
  BY <1>2, <1>3, <1>4, <1>5, <1>6, <1>7, <1>8, <1>9, <1>10, OneShard

LEMMA ConnChanges ==
  ASSUME CInv, NEW i \in Shard, ConnFault(i) \/ ConnRecreate(i)
  PROVE  CInv'
<1> DEFINE q == sh[i]
<1>1. PICK status \in {"open", "closing", "gone", "half", "dead"} :
        /\ sh' = [sh EXCEPT ![i] = [q EXCEPT !.conn.status = status]]
        /\ status = "open" => q.conn.status = "gone"
        /\ status = "closing" => q.conn.status = "open"
        /\ status = "gone" => q.conn.down
  BY DEF ConnFault, ConnRecreate, ConnStep, Become
<1>2. /\ UNCHANGED <<shards, created, sets, setting, closed, closing, cancelled, now, owed, forgone>>
      /\ q.pc = "pump" /\ (faults' = faults \/ Fault)
  BY DEF ConnFault, ConnRecreate, ConnStep, shardRest, setVars, closeVars
<1>3. q \in ShardRecs /\ ShardFine(q) /\ TypeOK /\ now \in Nat /\ q.conn \in Conns
  BY ShardTyped, ShardConstants DEF CInv, ShardsFine, ShardRecs
<1> DEFINE c == [q.conn EXCEPT !.status = status]
<1>4. c \in Conns /\ c.status = status /\ c.gaps = q.conn.gaps /\ c.lastAt = q.conn.lastAt
  BY <1>3 DEF Conns
<1>5. c.down <=> q.conn.down
  BY <1>3 DEF Conns
<1>6. [q EXCEPT !.conn.status = status] = [q EXCEPT !.conn = c]
  BY <1>3 DEF ShardRecs
<1> HIDE DEF c
<1>7. /\ c.down => 1 <= c.lastAt /\ c.lastAt <= q.lastMsg
      /\ c.status = "gone" => c.down
      /\ \A n \in 1..Len(c.gaps) : 1 <= c.gaps[n].from
  BY <1>1, <1>3, <1>4, <1>5 DEF ShardFine, ConnFine
<1>8. ASSUME NEW t \in Nat, Lost(q.conn, q.lastMsg, t)
      PROVE  Lost(c, q.lastMsg, t)
  <2>1. InGap(q.conn, t) => InGap(c, t)
    BY <1>4 DEF InGap
  <2>2. q.lastMsg \in Nat /\ q.conn.lastAt \in Nat
    BY <1>3, ShardConstants DEF ShardRecs, Conns
  <2>3. q.conn.status = "gone" => q.conn.down /\ q.conn.lastAt <= q.lastMsg
    BY <1>3 DEF ShardFine, ConnFine
  <2> QED
    BY <1>1, <1>4, <1>5, <1>8, <2>1, <2>2, <2>3 DEF Lost
<1>9. /\ forgone' \in [Streams -> SUBSET (1..MaxTime)]
      /\ \A s \in Streams : owed[s] \subseteq Nat
  BY <1>2, <1>3, ShardConstants DEF TypeOK
<1>10. q.fed \subseteq Streams
  BY <1>3 DEF ShardRecs
<1>11. sh' = [sh EXCEPT ![i] = [q EXCEPT !.conn = c]]
  BY <1>1, <1>6
<1> QED
  BY <1>2, <1>4, <1>7, <1>8, <1>9, <1>10, <1>11, ConnMoves

\* A poll opens a silent gap, or closes it and puts it in the channel, or throws
\* it away.
LEMMA ConnPolled ==
  ASSUME CInv, NEW i \in Shard, Poll(i)
  PROVE  CInv'
<1> DEFINE q == sh[i]
           w == [from |-> q.conn.lastAt, to |-> now]
           isOpen == q.conn.status \in {"open", "half"}
<1>1. /\ UNCHANGED <<shards, created, sets, setting, closed, closing, cancelled, now, faults, owed>>
      /\ q.pc = "pump"
      /\ \/ /\ ~isOpen /\ ~q.conn.down /\ UNCHANGED forgone
            /\ sh' = [sh EXCEPT ![i] = [q EXCEPT !.conn.down = TRUE, !.conn.lastAt = q.lastMsg]]
         \/ /\ isOpen /\ q.conn.down /\ Len(q.conn.gaps) < GapCap /\ UNCHANGED forgone
            /\ sh' = [sh EXCEPT ![i] = [q EXCEPT !.conn.down = FALSE, !.conn.lastAt = 0,
                                                 !.conn.gaps = Append(@, w)]]
         \/ /\ isOpen /\ q.conn.down
            /\ sh' = [sh EXCEPT ![i] = [q EXCEPT !.conn.down = FALSE, !.conn.lastAt = 0]]
            /\ Forgo(q.fed, q.conn.lastAt + 1..now)
  BY DEF Poll, Become, shardRest, setVars, closeVars
<1>2. /\ q \in ShardRecs /\ ShardFine(q) /\ TypeOK /\ now \in 1..MaxTime /\ q.conn \in Conns
      /\ q.conn.lastAt \in 0..MaxTime /\ q.lastMsg \in 0..MaxTime /\ MaxTime \in Nat /\ 0 \in 0..MaxTime
  BY ShardTyped, ShardConstants DEF CInv, ShardsFine, ShardRecs, Conns
<1>3. /\ q.conn.down => 1 <= q.conn.lastAt /\ q.conn.lastAt <= q.lastMsg
      /\ q.conn.status = "gone" => q.conn.down
      /\ \A n \in 1..Len(q.conn.gaps) : 1 <= q.conn.gaps[n].from
      /\ q.lastMsg <= now /\ 1 <= q.lastMsg
  BY <1>1, <1>2 DEF ShardFine, ConnFine, TimesFine
<1>4. /\ q.fed \subseteq Streams /\ \A s \in Streams : owed[s] \subseteq Nat
      /\ forgone \in [Streams -> SUBSET (1..MaxTime)] /\ owed \in [Streams -> SUBSET (1..MaxTime)]
      /\ q.conn.gaps \in GapLists
  BY <1>2 DEF ShardRecs, Conns, TypeOK
<1>5. CASE /\ ~isOpen /\ ~q.conn.down /\ UNCHANGED forgone
           /\ sh' = [sh EXCEPT ![i] = [q EXCEPT !.conn.down = TRUE, !.conn.lastAt = q.lastMsg]]
  <2> DEFINE c == [q.conn EXCEPT !.down = TRUE, !.lastAt = q.lastMsg]
  <2>1. c \in Conns /\ c.status = q.conn.status /\ c.gaps = q.conn.gaps /\ c.lastAt = q.lastMsg
    BY <1>2 DEF Conns
  <2>2. c.down
    BY <1>2 DEF Conns
  <2>3. [q EXCEPT !.conn.down = TRUE, !.conn.lastAt = q.lastMsg] = [q EXCEPT !.conn = c]
    BY <1>2 DEF ShardRecs
  <2>4. sh' = [sh EXCEPT ![i] = [q EXCEPT !.conn = c]]
    BY <1>5, <2>3
  <2> HIDE DEF c
  <2>5. \A t \in Nat : Lost(q.conn, q.lastMsg, t) => Lost(c, q.lastMsg, t)
    BY <1>5, <2>1 DEF Lost, InGap
  <2>6. /\ c.down => 1 <= c.lastAt /\ c.lastAt <= q.lastMsg
        /\ c.status = "gone" => c.down
        /\ \A n \in 1..Len(c.gaps) : 1 <= c.gaps[n].from
    BY <1>2, <1>3, <2>1, <2>2
  <2> QED
    BY <1>1, <1>4, <1>5, <2>1, <2>4, <2>5, <2>6, ConnMoves
<1>6. CASE /\ isOpen /\ q.conn.down /\ Len(q.conn.gaps) < GapCap /\ UNCHANGED forgone
           /\ sh' = [sh EXCEPT ![i] = [q EXCEPT !.conn.down = FALSE, !.conn.lastAt = 0,
                                                !.conn.gaps = Append(@, w)]]
  <2> DEFINE c == [q.conn EXCEPT !.down = FALSE, !.lastAt = 0, !.gaps = Append(@, w)]
  <2>1. w \in Windows /\ w.from = q.conn.lastAt /\ w.to = now
    BY <1>2 DEF Windows
  <2> HIDE DEF w
  <2>2. /\ Append(q.conn.gaps, w) \in GapLists /\ Len(Append(q.conn.gaps, w)) = Len(q.conn.gaps) + 1
        /\ Append(q.conn.gaps, w)[Len(q.conn.gaps) + 1] = w
        /\ \A n \in 1..Len(q.conn.gaps) : Append(q.conn.gaps, w)[n] = q.conn.gaps[n]
        /\ Len(q.conn.gaps) \in Nat
    BY <1>4, <1>6, <2>1, GapListParts
  <2>3. c \in Conns /\ c.status = q.conn.status /\ c.gaps = Append(q.conn.gaps, w)
    BY <1>2, <2>2 DEF Conns
  <2>4. ~c.down
    BY <1>2 DEF Conns
  <2>5. [q EXCEPT !.conn.down = FALSE, !.conn.lastAt = 0, !.conn.gaps = Append(@, w)] = [q EXCEPT !.conn = c]
    BY <1>2 DEF ShardRecs
  <2>6. sh' = [sh EXCEPT ![i] = [q EXCEPT !.conn = c]]
    BY <1>6, <2>5
  <2> HIDE DEF c
  <2>7. \A n \in 1..Len(c.gaps) : 1 <= c.gaps[n].from
    <3>1. \A n \in 1..Len(c.gaps) : n \in 1..Len(q.conn.gaps) \/ n = Len(q.conn.gaps) + 1
      BY <2>2, <2>3
    <3> QED
      BY <1>3, <1>6, <2>1, <2>2, <2>3, <3>1
  <2>8. ASSUME NEW t \in Nat, Lost(q.conn, q.lastMsg, t)
        PROVE  Lost(c, q.lastMsg, t)
    <3>1. InGap(q.conn, t) => InGap(c, t)
      <4>1. \A n \in 1..Len(q.conn.gaps) : n \in 1..Len(c.gaps) /\ c.gaps[n] = q.conn.gaps[n]
        BY <2>2, <2>3
      <4> QED
        BY <4>1 DEF InGap
    <3>2. w.from < t /\ t <= w.to => InGap(c, t)
      <4>1. Len(q.conn.gaps) + 1 \in 1..Len(c.gaps) /\ c.gaps[Len(q.conn.gaps) + 1] = w
        BY <2>2, <2>3
      <4> QED
        BY <4>1 DEF InGap
    <3>3. q.lastMsg < t => q.conn.lastAt < t
      BY <1>2, <1>3, <1>6
    <3> QED
      BY <1>6, <2>1, <2>3, <2>8, <3>1, <3>2, <3>3 DEF Lost
  <2> QED
    BY <1>1, <1>3, <1>4, <1>6, <2>3, <2>4, <2>6, <2>7, <2>8, ConnMoves
<1>7. CASE /\ isOpen /\ q.conn.down
           /\ sh' = [sh EXCEPT ![i] = [q EXCEPT !.conn.down = FALSE, !.conn.lastAt = 0]]
           /\ Forgo(q.fed, q.conn.lastAt + 1..now)
  <2> DEFINE c == [q.conn EXCEPT !.down = FALSE, !.lastAt = 0]
  <2>1. c \in Conns /\ c.status = q.conn.status /\ c.gaps = q.conn.gaps
    BY <1>2 DEF Conns
  <2>2. ~c.down
    BY <1>2 DEF Conns
  <2>3. [q EXCEPT !.conn.down = FALSE, !.conn.lastAt = 0] = [q EXCEPT !.conn = c]
    BY <1>2 DEF ShardRecs
  <2>4. sh' = [sh EXCEPT ![i] = [q EXCEPT !.conn = c]]
    BY <1>7, <2>3
  <2> HIDE DEF c
  <2>5. forgone' = [s \in Streams |-> IF s \in q.fed
                                      THEN forgone[s] \cup (owed[s] \cap (q.conn.lastAt + 1..now))
                                      ELSE forgone[s]]
    BY <1>7 DEF Forgo
  <2>6. /\ forgone' \in [Streams -> SUBSET (1..MaxTime)]
        /\ \A s \in Streams : forgone[s] \subseteq forgone'[s]
    BY <1>4, <2>5
  <2>7. ASSUME NEW s \in q.fed, NEW t \in owed[s] \ forgone'[s], Lost(q.conn, q.lastMsg, t)
        PROVE  Lost(c, q.lastMsg, t)
    <3>1. t \in Nat /\ t \notin q.conn.lastAt + 1..now
      BY <1>4, <2>5, <2>7
    <3>2. ~(q.conn.lastAt < t /\ t <= now) /\ ~(q.lastMsg < t /\ t <= now)
      BY <1>2, <1>3, <1>7, <3>1
    <3>3. InGap(q.conn, t)
      BY <2>7, <3>2 DEF Lost
    <3> QED
      BY <2>1, <3>3 DEF Lost, InGap
  <2>8. /\ c.status = "gone" => c.down
        /\ \A n \in 1..Len(c.gaps) : 1 <= c.gaps[n].from
    BY <1>3, <1>7, <2>1
  <2> QED
    BY <1>1, <2>1, <2>2, <2>4, <2>6, <2>7, <2>8, ConnMoves
<1> QED
  BY <1>1, <1>5, <1>6, <1>7

-----------------------------------------------------------------------------
(* SetSymbols. *)

LEMMA SetBegins ==
  ASSUME CInv, NEW syms \in SUBSET Symbols, BeginSet(syms)
  PROVE  CInv'
<1>1. /\ ~setting.on /\ sets < MaxSets /\ ~closed /\ sets' = sets + 1
      /\ created + Cardinality(Missing(syms)) <= MaxShards
      /\ setting' = [on |-> TRUE, syms |-> syms]
      /\ UNCHANGED <<sh, shards, created, closed, closing, cancelled, now, faults, owed, forgone>>
  BY DEF BeginSet, closeVars, Missing
<1>2. /\ TypeOK /\ ShardsFine /\ MapFine /\ SetFine /\ Accounted /\ NoShardAfterClose
      /\ sh \in [Shard -> ShardRecs] /\ sets \in Nat
  <2>1. TypeOK
    BY DEF CInv
  <2>2. sets \in Nat
    BY <2>1, ShardConstants DEF TypeOK
  <2> QED
    BY <2>1, <2>2, ShardTyped DEF CInv
<1>3. setting'.syms = syms /\ setting' \in [on : BOOLEAN, syms : SUBSET Symbols]
  BY <1>1
<1>4. sets' \in 0..MaxSets
  BY <1>1, <1>2, ShardConstants
<1>5. TypeOK'
  BY <1>1, <1>2, <1>3, <1>4 DEF TypeOK, Windows, Streams, Shard, Ids
<1>6. ShardsFine'
  <2>1. ASSUME NEW i \in Shard
        PROVE  ShardFine(sh[i])'
    <3>1. ShardFine(sh[i]) /\ sh[i].version \in Nat
      BY <1>2, ShardConstants DEF ShardsFine, ShardRecs
    <3>2. (sh[i].version + 1 <= sets + 1) /\ sh[i].version <= sets + 1
      BY <1>2, <3>1 DEF ShardFine, VersionFine
    <3>3. VersionFine(sh[i])'
      BY <1>1, <3>2 DEF VersionFine
    <3> QED
      BY <1>1, <3>1, <3>3 DEF ShardFine, StreamsFine, TimesFine, ConnFine, Up
  <2> QED
    BY <2>1 DEF ShardsFine, Shard
<1>7. MapFine'
  BY <1>1, <1>2 DEF MapFine, IdStreams, Up, Ids, Streams, Shard
<1>8. SetFine'
  <2>1. Missing(setting.syms)' = Missing(syms)
    BY <1>1, <1>3 DEF Missing, planStreams, streamsOf, Ids
  <2>2. created + Cardinality(Missing(syms)) <= MaxShards
    BY <1>1
  <2> QED
    BY <1>1, <1>2, <2>1, <2>2 DEF SetFine
<1>9. Accounted'
  BY <1>1, <1>2 DEF Accounted, Witness, Pending, Unclaimed, Flows, Streams, Shard
<1>10. NoShardAfterClose'
  BY <1>1, <1>2 DEF NoShardAfterClose, Shard, Ids
<1> QED
  BY <1>5, <1>6, <1>7, <1>8, <1>9, <1>10 DEF CInv

\* What the body of SetSymbols does to each shard and to each id, when num gives
\* the new shards their numbers.
Applied(num, new) ==
  /\ num \in [new -> Shard]
  /\ \A id \in new : /\ created < num[id] /\ num[id] <= created'
                     /\ sh'[num[id]] = newShard(streamsOf(setting.syms, id))
  /\ \A a, b \in new : num[a] = num[b] => a = b
  /\ \A id \in Ids : shards[id] # 0 =>
       sh'[shards[id]] = Reconciled(sh[shards[id]], streamsOf(setting.syms, id))
  /\ \A i \in Shard : (\A id \in new : num[id] # i) /\ (\A id \in Ids : shards[id] # i)
                        => sh'[i] = sh[i]
  /\ \A id \in new : shards'[id] = num[id]
  /\ \A id \in Ids \ new : shards'[id] = IF id \in planStreams(setting.syms) THEN shards[id] ELSE 0
  /\ shards' = [id \in Ids |-> shards'[id]]
  /\ sh' = [i \in Shard |-> sh'[i]]
  /\ created <= created' /\ created' \in 0..MaxShards

LEMMA SetApplied ==
  ASSUME CInv, setting.on, ~closed, ApplySet
  PROVE  \E num : Applied(num, Missing(setting.syms))
<1> DEFINE new == Missing(setting.syms)
           k == Cardinality(new)
<1>1. PICK num \in Numbering(new) :
        /\ sh' = [i \in Shard |->
             IF \E id \in new : num[id] = i
             THEN newShard(streamsOf(setting.syms, CHOOSE id \in new : num[id] = i))
             ELSE IF \E id \in Ids : shards[id] = i
             THEN Reconciled(sh[i], streamsOf(setting.syms, CHOOSE id \in Ids : shards[id] = i))
             ELSE sh[i]]
        /\ shards' = [id \in Ids |-> IF id \in new THEN num[id]
                                     ELSE IF id \in planStreams(setting.syms) THEN shards[id] ELSE 0]
  BY DEF ApplySet, Missing
<1>2. created' = created + k
  BY DEF ApplySet, Missing
<1>3. /\ created \in Nat /\ MaxShards \in Nat /\ k \in Nat /\ created + k <= MaxShards
      /\ \A id \in Ids : shards[id] <= created /\ shards[id] \in 0..MaxShards
      /\ \A a, b \in Ids : shards[a] = shards[b] /\ shards[a] # 0 => a = b
  <2>1. created \in Nat /\ MaxShards \in Nat
    BY ShardConstants DEF CInv, TypeOK
  <2>2. new \in SUBSET Ids
    BY DEF Missing, planStreams
  <2>3. k \in Nat
    BY <2>2, IdsFinite
  <2>4. created + k <= MaxShards
    BY DEF CInv, SetFine
  <2>5. shards \in [Ids -> 0..MaxShards]
    BY DEF CInv, TypeOK
  <2> HIDE DEF k, new
  <2> QED
    BY <2>1, <2>3, <2>4, <2>5 DEF CInv, MapFine
<1>4. /\ num \in [new -> created + 1..created + k]
      /\ \A a, b \in new : num[a] = num[b] => a = b
  BY DEF Numbering
<1> HIDE DEF k
<1>5. \A id \in new : num[id] \in Shard /\ num[id] # 0 /\ created < num[id] /\ num[id] <= created'
  BY <1>2, <1>3, <1>4 DEF Shard
<1> HIDE DEF new
<1>6. num \in [new -> Shard]
  BY <1>4, <1>5
<1>7. ASSUME NEW id \in new
      PROVE  sh'[num[id]] = newShard(streamsOf(setting.syms, id))
  <2>1. (CHOOSE a \in new : num[a] = num[id]) = id
    BY <1>4
  <2> QED
    BY <1>1, <1>5, <2>1
<1>8. ASSUME NEW id \in Ids, shards[id] # 0
      PROVE  sh'[shards[id]] = Reconciled(sh[shards[id]], streamsOf(setting.syms, id))
  <2>1. (CHOOSE a \in Ids : shards[a] = shards[id]) = id
    BY <1>3, <1>8
  <2>2. shards[id] \in Shard
    BY <1>3, <1>8 DEF Shard
  <2>3. \A a \in new : num[a] # shards[id]
    BY <1>3, <1>5
  <2> QED
    BY <1>1, <2>1, <2>2, <2>3
<1>9. ASSUME NEW i \in Shard, \A id \in new : num[id] # i, \A id \in Ids : shards[id] # i
      PROVE  sh'[i] = sh[i]
  BY <1>1, <1>9
<1>10. sh' = [i \in Shard |-> sh'[i]]
  BY <1>1
<1>11. created <= created' /\ created' \in 0..MaxShards
  BY <1>2, <1>3
<1>12. /\ \A id \in new : shards'[id] = num[id]
       /\ \A id \in Ids \ new : shards'[id] = IF id \in planStreams(setting.syms) THEN shards[id] ELSE 0
       /\ shards' = [id \in Ids |-> shards'[id]]
  <2>1. new \subseteq Ids
    BY DEF new, Missing, planStreams
  <2> QED
    BY <1>1, <2>1
<1>13. /\ num \in [new -> Shard]
       /\ \A id \in new : /\ created < num[id] /\ num[id] <= created'
                          /\ sh'[num[id]] = newShard(streamsOf(setting.syms, id))
       /\ \A a, b \in new : num[a] = num[b] => a = b
  BY <1>4, <1>5, <1>6, <1>7
<1>14. Applied(num, new)
  BY <1>8, <1>9, <1>10, <1>11, <1>12, <1>13 DEF Applied
<1>15. Applied(num, Missing(setting.syms))
  BY <1>14 DEF new
<1> QED
  BY <1>15

LEMMA NewShardIs ==
  ASSUME NEW T \in SUBSET Streams, NEW r, r = newShard(T)
  PROVE  /\ r \in ShardRecs /\ r.pc = "delay" /\ r.desired = T /\ r.fed = {} /\ r.version = 0
         /\ r.lastMsg = 0 /\ r.downAt = 0 /\ ~r.conn.down /\ r.conn.gaps = <<>>
         /\ r.conn.status = "none"
<1>1. 0 \in 0..MaxTime /\ 0 \in 0..MaxSets /\ <<>> \in GapLists
  <2>1. <<>> \in Seq(Windows) /\ Len(<<>>) \in 0..GapCap
    BY ShardConstants
  <2>2. <<>> \in GapLists
    BY <2>1, GapListOf
  <2> QED
    BY <2>2, ShardConstants
<1>2. NoConn \in Conns
  BY <1>1 DEF NoConn, Conns
<1>3. NoShard \in ShardRecs
  BY <1>1, <1>2 DEF NoShard, ShardRecs
<1> QED
  BY <1>3 DEF newShard, NoShard, NoConn, ShardRecs

LEMMA ReconciledIs ==
  ASSUME NEW q \in ShardRecs, NEW T \in SUBSET Streams,
         q.version + 1 <= sets, sets \in 0..MaxSets, NEW r, r = Reconciled(q, T)
  PROVE  /\ r \in ShardRecs /\ r.pc = q.pc /\ r.version \in Nat /\ r.version <= sets
         /\ r.want = q.want /\ r.subscribed = q.subscribed
         /\ r.fed = q.fed \cap T /\ r.lastMsg = q.lastMsg /\ r.downAt = q.downAt /\ r.conn = q.conn
         /\ T = {} => r.desired = q.desired
         /\ T # {} => r.desired = T
         /\ r.stop <=> q.stop \/ T = {}
<1>1. q.version \in Nat /\ q.version + 1 \in 0..MaxSets /\ q.version <= sets
  BY ShardConstants DEF ShardRecs
<1>2. CASE T = {}
  <2>1. r = [q EXCEPT !.stop = TRUE, !.fed = {}]
    BY <1>2 DEF Reconciled
  <2>2. r \in ShardRecs /\ r.pc = q.pc /\ r.version = q.version
        /\ r.want = q.want /\ r.subscribed = q.subscribed /\ r.desired = q.desired
        /\ r.fed = {} /\ r.lastMsg = q.lastMsg /\ r.downAt = q.downAt /\ r.conn = q.conn
    BY <2>1 DEF ShardRecs
  <2>3. r.stop
    BY <2>1 DEF ShardRecs
  <2> QED
    BY <1>1, <1>2, <2>2, <2>3
<1>3. CASE T # {}
  <2>1. r = [q EXCEPT !.desired = T, !.version = @ + 1, !.fed = @ \cap T]
    BY <1>3 DEF Reconciled
  <2>2. q.fed \cap T \in SUBSET Streams
    BY DEF ShardRecs
  <2>3. r = [q EXCEPT !.desired = T, !.version = q.version + 1, !.fed = q.fed \cap T]
    BY <2>1
  <2>4. r \in ShardRecs
    BY <1>1, <2>2, <2>3 DEF ShardRecs
  <2>5. r.pc = q.pc /\ r.version = q.version + 1
        /\ r.want = q.want /\ r.subscribed = q.subscribed /\ r.desired = T
        /\ r.fed = q.fed \cap T /\ r.lastMsg = q.lastMsg /\ r.downAt = q.downAt /\ r.conn = q.conn
    BY <2>3 DEF ShardRecs
  <2>6. r.stop <=> q.stop
    BY <2>1 DEF ShardRecs
  <2> QED
    BY <1>1, <1>3, <2>5, <2>6, <2>4
<1> QED
  BY <1>2, <1>3

\* The streams of an id among some symbols.
LEMMA StreamsOfIs ==
  ASSUME NEW syms \in SUBSET Symbols, NEW id \in Ids
  PROVE  /\ streamsOf(syms, id) \in SUBSET Streams
         /\ streamsOf(syms, id) \subseteq IdStreams(id)
         /\ \A s \in IdStreams(id) : s[1] \in syms => s \in streamsOf(syms, id)
         /\ id \in planStreams(syms) <=> streamsOf(syms, id) # {}
BY DEF streamsOf, planStreams, Streams, IdStreams

\* The body of SetSymbols: a new shard carries nothing yet, and a shard that is
\* kept loses no stream of a symbol that is still wanted.
LEMMA SetEnds ==
  ASSUME CInv, EndSet
  PROVE  CInv'
<1>1. /\ setting.on /\ setting' = Idle
      /\ UNCHANGED <<sets, closed, closing, cancelled, now, faults>>
      /\ \/ closed /\ UNCHANGED <<sh, shards, created, owed, forgone>>
         \/ ~closed /\ ApplySet
  BY DEF EndSet, closeVars
<1>2. /\ TypeOK /\ ShardsFine /\ MapFine /\ SetFine /\ Accounted /\ NoShardAfterClose
      /\ sh \in [Shard -> ShardRecs]
  BY ShardTyped DEF CInv
<1>3. /\ setting'.on = FALSE /\ setting' \in [on : BOOLEAN, syms : SUBSET Symbols]
      /\ setting.syms \in SUBSET Symbols /\ sets \in 0..MaxSets /\ sets \in Nat
  BY <1>1, <1>2, ShardConstants DEF Idle, TypeOK
<1>4. CASE closed /\ UNCHANGED <<sh, shards, created, owed, forgone>>
  <2>1. TypeOK'
    BY <1>1, <1>2, <1>3, <1>4 DEF TypeOK, Windows, Streams, Shard, Ids
  <2>2. ShardsFine'
    <3>1. ASSUME NEW i \in Shard
          PROVE  ShardFine(sh[i])'
      <4>1. ShardFine(sh[i])
        BY <1>2 DEF ShardsFine
      <4> QED
        BY <1>1, <1>3, <1>4, <4>1 DEF ShardFine, VersionFine, StreamsFine, TimesFine, ConnFine, Up
    <3> QED
      BY <3>1 DEF ShardsFine, Shard
  <2>3. MapFine'
    BY <1>1, <1>2, <1>4 DEF MapFine, IdStreams, Up, Ids, Streams, Shard
  <2>4. SetFine'
    BY <1>1, <1>2, <1>3, <1>4 DEF SetFine
  <2>5. Accounted'
    BY <1>1, <1>2, <1>4 DEF Accounted, Witness, Pending, Unclaimed, Flows, Streams, Shard
  <2>6. NoShardAfterClose'
    BY <1>1, <1>2, <1>4 DEF NoShardAfterClose, Shard, Ids
  <2> QED
    BY <2>1, <2>2, <2>3, <2>4, <2>5, <2>6 DEF CInv
<1>5. CASE ~closed /\ ApplySet
  <2> DEFINE new == Missing(setting.syms)
             T(id) == streamsOf(setting.syms, id)
             plan == planStreams(setting.syms)
  <2>1. PICK num : Applied(num, new)
    BY <1>1, <1>5, SetApplied
  <2>2. /\ num \in [new -> Shard]
        /\ \A id \in new : created < num[id] /\ num[id] <= created'
        /\ \A id \in new : sh'[num[id]] = newShard(T(id))
        /\ \A a, b \in new : num[a] = num[b] => a = b
        /\ \A id \in Ids : shards[id] # 0 => sh'[shards[id]] = Reconciled(sh[shards[id]], T(id))
        /\ \A i \in Shard : (\A id \in new : num[id] # i) /\ (\A id \in Ids : shards[id] # i)
                              => sh'[i] = sh[i]
        /\ \A id \in new : shards'[id] = num[id]
        /\ \A id \in Ids \ new : shards'[id] = IF id \in plan THEN shards[id] ELSE 0
        /\ shards' = [id \in Ids |-> shards'[id]] /\ sh' = [i \in Shard |-> sh'[i]]
        /\ created <= created' /\ created' \in 0..MaxShards
    BY <2>1 DEF Applied
  <2>3. \A id \in Ids : /\ T(id) \in SUBSET Streams /\ T(id) \subseteq IdStreams(id)
                        /\ \A s \in IdStreams(id) : s[1] \in setting.syms => s \in T(id)
                        /\ id \in plan <=> T(id) # {}
    BY <1>3, StreamsOfIs
  <2>4. new \subseteq Ids /\ \A id \in Ids : id \in new <=> id \in plan /\ shards[id] = 0
    BY DEF Missing, planStreams
  <2> HIDE DEF new, T, plan
  <2>5. /\ shards \in [Ids -> 0..MaxShards] /\ created \in Nat /\ created' \in Nat /\ MaxShards \in Nat
        /\ \A id \in Ids : shards[id] <= created
        /\ \A id \in Ids : shards[id] # 0 => shards[id] \in Shard
        /\ \A i \in Shard : i \in Nat /\ i # 0 /\ i \in 0..MaxShards
    <3>1. shards \in [Ids -> 0..MaxShards] /\ created \in 0..MaxShards
      BY <1>2 DEF TypeOK
    <3> QED
      BY <1>2, <2>2, <3>1, ShardConstants DEF MapFine, Shard
  \* A shard of the map.
  <2>6. ASSUME NEW id \in Ids, shards[id] # 0
        PROVE  LET q == sh[shards[id]]
                   r == sh'[shards[id]]
               IN  /\ r \in ShardRecs /\ r.pc = q.pc /\ r.version \in Nat /\ r.version <= sets
                   /\ r.want = q.want /\ r.subscribed = q.subscribed
                   /\ r.fed = q.fed \cap T(id) /\ r.lastMsg = q.lastMsg /\ r.downAt = q.downAt
                   /\ r.conn = q.conn
                   /\ T(id) = {} => r.desired = q.desired
                   /\ T(id) # {} => r.desired = T(id)
                   /\ r.stop <=> q.stop \/ T(id) = {}
    <3>1. shards[id] \in Shard
      BY <2>5, <2>6
    <3>2. sh[shards[id]] \in ShardRecs /\ sh[shards[id]].version + 1 <= sets
      BY <1>1, <1>2, <3>1 DEF ShardsFine, ShardFine, VersionFine
    <3>3. sh'[shards[id]] = Reconciled(sh[shards[id]], T(id))
      BY <2>2, <2>6
    <3> QED
      BY <1>3, <2>3, <3>2, <3>3, ReconciledIs
  <2>7. ASSUME NEW id \in new
        PROVE  LET r == sh'[num[id]]
               IN  /\ r \in ShardRecs /\ r.pc = "delay" /\ r.desired = T(id) /\ r.fed = {} /\ r.version = 0
                   /\ r.lastMsg = 0 /\ r.downAt = 0 /\ ~r.conn.down /\ r.conn.gaps = <<>>
                   /\ r.conn.status = "none"
    <3>1. sh'[num[id]] = newShard(T(id)) /\ T(id) \in SUBSET Streams
      BY <2>2, <2>3, <2>4
    <3> QED
      BY <3>1, NewShardIs
  <2>8. \A i \in Shard : \/ \E id \in new : num[id] = i
                         \/ \E id \in Ids : shards[id] = i
                         \/ sh'[i] = sh[i] /\ (\A id \in new : num[id] # i) /\ (\A id \in Ids : shards[id] # i)
    BY <2>2
  <2>9. sh' \in [Shard -> ShardRecs]
    <3>1. \A id \in Ids : shards[id] # 0 => sh'[shards[id]] \in ShardRecs
      BY <2>6
    <3>2. \A id \in new : sh'[num[id]] \in ShardRecs
      BY <2>7
    <3>3. \A i \in Shard : sh'[i] \in ShardRecs
      BY <1>2, <2>5, <2>8, <3>1, <3>2
    <3> QED
      BY <2>2, <3>3
  <2>10. TypeOK'
    <3>1. shards' \in [Ids -> 0..MaxShards]
      <4>1. ASSUME NEW id \in new
            PROVE  shards'[id] \in 0..MaxShards
        BY <2>2, <2>5
      <4>2. ASSUME NEW id \in Ids \ new
            PROVE  shards'[id] \in 0..MaxShards
        BY <2>2, <2>5, ShardConstants
      <4> QED
        BY <2>2, <4>1, <4>2
    <3>2. /\ owed' \in [Streams -> SUBSET (1..MaxTime)]
          /\ forgone' \in [Streams -> SUBSET (1..MaxTime)]
      BY <1>2, <1>5 DEF ApplySet, TypeOK
    <3>3. /\ sets' \in 0..MaxSets /\ setting' \in [on : BOOLEAN, syms : SUBSET Symbols]
          /\ {closed', cancelled'} \subseteq BOOLEAN /\ closing' \in {"no", "wait", "done"}
          /\ now' \in 1..MaxTime /\ faults' \in 0..MaxFaults /\ created' \in 0..MaxShards
      BY <1>1, <1>2, <1>3, <2>2 DEF TypeOK
    <3> QED
      BY <2>9, <3>1, <3>2, <3>3
      DEF TypeOK, ShardRecs, Conns, GapLists, Windows, Streams, Shard, Ids
  <2>11. ShardsFine'
    <3>1. ASSUME NEW i \in Shard
          PROVE  /\ StreamsFine(sh'[i]) /\ TimesFine(sh'[i]) /\ ConnFine(sh'[i])
                 /\ sh'[i].version \in Nat /\ sh'[i].version <= sets
      <4>1. /\ sh[i] \in ShardRecs /\ sh[i].version \in Nat /\ now \in Nat
            /\ StreamsFine(sh[i]) /\ TimesFine(sh[i]) /\ ConnFine(sh[i]) /\ sh[i].version <= sets
        BY <1>2, ShardConstants, ShardTyped DEF ShardsFine, ShardRecs, ShardFine, VersionFine
      <4>2. CASE \E id \in new : num[id] = i
        <5>1. /\ sh'[i].pc = "delay" /\ sh'[i].fed = {} /\ sh'[i].version = 0
              /\ sh'[i].lastMsg = 0 /\ sh'[i].downAt = 0 /\ ~sh'[i].conn.down
              /\ sh'[i].conn.gaps = <<>> /\ sh'[i].conn.status = "none"
          BY <2>7, <4>2
        <5>2. StreamsFine(sh'[i])
          BY <5>1 DEF StreamsFine
        <5>3. TimesFine(sh'[i]) /\ ConnFine(sh'[i])
          BY <4>1, <5>1 DEF TimesFine, ConnFine
        <5> QED
          BY <1>3, <5>1, <5>2, <5>3
      <4>3. CASE \E id \in Ids : shards[id] = i
        <5>1. PICK id \in Ids : shards[id] = i /\ i # 0
          BY <2>5, <4>3
        <5>2. /\ sh'[i].pc = sh[i].pc /\ sh'[i].version \in Nat /\ sh'[i].version <= sets
              /\ sh'[i].want = sh[i].want /\ sh'[i].subscribed = sh[i].subscribed
              /\ sh'[i].fed = sh[i].fed \cap T(id) /\ sh'[i].lastMsg = sh[i].lastMsg
              /\ sh'[i].downAt = sh[i].downAt /\ sh'[i].conn = sh[i].conn
              /\ T(id) = {} => sh'[i].desired = sh[i].desired
              /\ T(id) # {} => sh'[i].desired = T(id)
              /\ sh'[i].stop <=> sh[i].stop \/ T(id) = {}
          BY <2>6, <5>1
        <5>3. StreamsFine(sh'[i])
          BY <4>1, <5>2 DEF StreamsFine, Up
        <5>4. TimesFine(sh'[i]) /\ ConnFine(sh'[i])
          BY <4>1, <5>2 DEF TimesFine, ConnFine
        <5> QED
          BY <5>2, <5>3, <5>4
      <4>4. CASE sh'[i] = sh[i]
        BY <4>1, <4>4
      <4> QED
        BY <2>8, <4>2, <4>3, <4>4
    <3>2. ASSUME NEW i \in Shard
          PROVE  ShardFine(sh[i])'
      <4>1. (sets' = sets /\ setting'.on = FALSE)
        BY <1>1, <1>3
      <4> QED
        BY <1>1, <3>1, <4>1 DEF ShardFine, VersionFine, StreamsFine, TimesFine, ConnFine, Up
    <3> QED
      BY <3>2 DEF ShardsFine, Shard
  <2>12. MapFine'
    <3>1. ASSUME NEW id \in Ids
          PROVE  \/ id \in new /\ shards'[id] = num[id]
                 \/ id \notin new /\ id \in plan /\ shards'[id] = shards[id] /\ shards[id] # 0 /\ T(id) # {}
                 \/ id \notin new /\ id \notin plan /\ shards'[id] = 0 /\ T(id) = {}
      BY <2>2, <2>3, <2>4
    <3>2. ASSUME NEW id \in Ids
          PROVE  shards'[id] <= created'
      BY <2>2, <2>5, <3>1
    <3>3. ASSUME NEW a \in Ids, NEW b \in Ids, shards'[a] = shards'[b], shards'[a] # 0
          PROVE  a = b
      <4>1. \A x \in Ids : (x \in new => created < shards'[x]) /\ (x \notin new => shards'[x] <= created)
        BY <2>2, <2>5, <3>1
      <4>2. a \in new <=> b \in new
        <5>1. shards'[a] \in Nat
          BY <2>2, <2>5, <3>1
        <5> QED
          BY <2>5, <3>3, <4>1, <5>1
      <4>3. CASE a \in new /\ b \in new
        BY <2>2, <3>3, <4>3
      <4>4. CASE a \notin new /\ b \notin new
        <5>1. shards[a] = shards[b] /\ shards[a] # 0
          BY <3>1, <3>3, <4>4
        <5> QED
          BY <1>2, <5>1 DEF MapFine
      <4> QED
        BY <4>2, <4>3, <4>4
    <3>4. ASSUME NEW id \in Ids, shards'[id] # 0
          PROVE  sh'[shards'[id]].desired \subseteq IdStreams(id)
      <4>1. CASE id \in new
        BY <2>2, <2>3, <2>7, <4>1
      <4>2. CASE id \notin new
        <5>1. shards'[id] = shards[id] /\ shards[id] # 0 /\ T(id) # {}
          BY <3>1, <3>4, <4>2
        <5>2. sh'[shards[id]].desired = T(id)
          BY <2>6, <5>1
        <5> QED
          BY <2>3, <5>1, <5>2
      <4> QED
        BY <4>1, <4>2
    <3>5. ASSUME NEW i \in Shard, Up(sh'[i])
          PROVE  \E id \in Ids : shards'[id] = i
      <4>1. CASE \E id \in new : num[id] = i
        BY <2>2, <2>4, <4>1
      <4>2. CASE \E id \in Ids : shards[id] = i
        <5>1. PICK id \in Ids : shards[id] = i /\ i # 0
          BY <2>5, <4>2
        <5>2. T(id) # {}
          BY <2>6, <3>5, <5>1 DEF Up
        <5> QED
          BY <2>4, <3>1, <5>1, <5>2
      <4>3. CASE sh'[i] = sh[i] /\ (\A id \in Ids : shards[id] # i)
        BY <1>2, <1>5, <3>5, <4>3 DEF MapFine
      <4> QED
        BY <2>8, <4>1, <4>2, <4>3
    <3> QED
      BY <3>2, <3>3, <3>4, <3>5 DEF MapFine, IdStreams, Up, Ids, Streams, Shard
  <2>13. SetFine'
    BY <1>1, <1>2, <1>3 DEF SetFine
  <2>14. Accounted'
    <3>1. /\ owed' = [s \in Streams |-> IF s[1] \in setting.syms THEN owed[s] ELSE {}]
          /\ forgone' = [s \in Streams |-> IF s[1] \in setting.syms THEN forgone[s] ELSE {}]
      BY <1>5 DEF ApplySet
    <3>2. ASSUME NEW s \in Streams, NEW t \in owed'[s] \ forgone'[s]
          PROVE  \E i \in Shard : Witness(sh'[i], s, t)
      <4>1. s[1] \in setting.syms /\ t \in owed[s] \ forgone[s]
        BY <3>1, <3>2
      <4>2. PICK i \in Shard : Witness(sh[i], s, t)
        BY <1>2, <4>1 DEF Accounted
      <4>3. s \in sh[i].fed /\ StreamsFine(sh[i])
        BY <1>2, <4>2 DEF Witness, ShardsFine, ShardFine
      <4>4. Up(sh[i]) /\ s \in sh[i].desired
        BY <4>3 DEF StreamsFine
      <4>5. PICK id \in Ids : shards[id] = i /\ i # 0
        BY <1>2, <1>5, <2>5, <4>4 DEF MapFine
      <4>6. s \in IdStreams(id)
        BY <1>2, <4>4, <4>5 DEF MapFine
      <4>7. s \in sh'[i].fed
        BY <2>3, <2>6, <4>1, <4>3, <4>5, <4>6
      <4>8. sh'[i].pc = sh[i].pc /\ sh'[i].lastMsg = sh[i].lastMsg /\ sh'[i].downAt = sh[i].downAt
            /\ sh'[i].conn = sh[i].conn
        BY <2>6, <4>5
      <4>9. t \in Pending(sh'[i])
        BY <4>2, <4>8 DEF Witness, Pending, Flows
      <4> QED
        BY <4>7, <4>9 DEF Witness
    <3> QED
      BY <1>1, <3>2 DEF Accounted, Witness, Pending, Unclaimed, Flows, Streams, Shard
  <2>15. NoShardAfterClose'
    BY <1>1, <1>2, <1>5 DEF NoShardAfterClose, SetFine
  <2> QED
    BY <2>10, <2>11, <2>12, <2>13, <2>14, <2>15 DEF CInv
<1> QED
  BY <1>1, <1>4, <1>5

-----------------------------------------------------------------------------
(* The now. *)

PendingAt(r, n) ==
  IF r.pc = "pump"
  THEN Unclaimed(r.conn, n) \cup (IF Flows(r) THEN {} ELSE r.lastMsg + 1..n)
  ELSE IF r.downAt # 0 THEN r.downAt + 1..n ELSE {}

\* The next frame reaches the shards it flows to; what is pending stays so, and
\* the frame is pending where it is lost.
LEMMA FramePending ==
  ASSUME NEW n \in Nat, NEW r \in ShardRecs, NEW t \in Nat,
         r.lastMsg <= n, r.downAt <= n
  PROVE  /\ ~Flows(r) => (t \in PendingAt(r, n) => t \in PendingAt(r, n + 1))
         /\ ~Flows(r) /\ (r.pc # "pump" => r.downAt # 0) => n + 1 \in PendingAt(r, n + 1)
         /\ Flows(r) => (t \in PendingAt(r, n) => t \in PendingAt([r EXCEPT !.lastMsg = n + 1], n + 1))
<1>1. r.conn \in Conns /\ r.lastMsg \in Nat /\ r.downAt \in Nat
  BY ShardConstants DEF ShardRecs
<1>2. t \in Unclaimed(r.conn, n) => t \in Unclaimed(r.conn, n + 1)
  <2>1. r.conn.lastAt \in Nat
    BY <1>1, ShardConstants DEF Conns
  <2>2. n + 1 \in Nat /\ (t <= n => t <= n + 1)
    OBVIOUS
  <2> QED
    BY <1>1, <2>1, <2>2, UnclaimedIs
<1>3. /\ t \in r.lastMsg + 1..n => t \in r.lastMsg + 1..n + 1
      /\ t \in r.downAt + 1..n => t \in r.downAt + 1..n + 1
      /\ n + 1 \in r.lastMsg + 1..n + 1 /\ n + 1 \in r.downAt + 1..n + 1
  BY <1>1
<1>4. CASE ~Flows(r)
  BY <1>2, <1>3, <1>4 DEF PendingAt
<1>5. CASE Flows(r)
  <2> DEFINE u == [r EXCEPT !.lastMsg = n + 1]
  <2>1. u.pc = r.pc /\ u.conn = r.conn /\ r.pc = "pump"
    BY <1>5 DEF ShardRecs, Flows
  <2> HIDE DEF u
  <2>2. Flows(u)
    BY <1>5, <2>1 DEF Flows
  <2>3. t \in PendingAt(r, n) => t \in Unclaimed(r.conn, n)
    BY <1>5, <2>1 DEF PendingAt
  <2>4. t \in Unclaimed(u.conn, n + 1) => t \in PendingAt(u, n + 1)
    BY <2>1 DEF PendingAt
  <2>5. t \in PendingAt(r, n) => t \in PendingAt(u, n + 1)
    BY <1>2, <2>1, <2>3, <2>4
  <2> QED
    BY <1>5, <2>5 DEF u
<1> QED
  BY <1>4, <1>5

LEMMA FrameSent ==
  ASSUME CInv, Tick
  PROVE  CInv'
<1>1. /\ now < MaxTime /\ ~closed /\ ~cancelled /\ now' = now + 1
      /\ sh' = [i \in Shard |-> IF Flows(sh[i]) THEN [sh[i] EXCEPT !.lastMsg = now + 1] ELSE sh[i]]
      /\ owed' = [s \in Streams |->
                    IF \E i \in Shard : s \in sh[i].fed /\ ~Flows(sh[i])
                    THEN owed[s] \cup {now + 1} ELSE owed[s]]
      /\ UNCHANGED <<shards, created, sets, setting, closed, closing, cancelled, faults, forgone>>
  BY DEF Tick, Ending, setVars, closeVars
<1>2. /\ TypeOK /\ ShardsFine /\ MapFine /\ SetFine /\ Accounted
      /\ sh \in [Shard -> ShardRecs] /\ now \in 1..MaxTime /\ now \in Nat /\ MaxTime \in Nat
  BY ShardTyped, ShardConstants DEF CInv
<1>3. now' \in 1..MaxTime /\ now' \in Nat /\ now + 1 \in 0..MaxTime /\ now + 1 \in 1..MaxTime
  BY <1>1, <1>2
<1>4. ASSUME NEW i \in Shard
      PROVE  /\ sh'[i] \in ShardRecs /\ sh'[i].pc = sh[i].pc /\ sh'[i].desired = sh[i].desired
             /\ sh'[i].version = sh[i].version /\ sh'[i].want = sh[i].want
             /\ sh'[i].subscribed = sh[i].subscribed /\ sh'[i].fed = sh[i].fed
             /\ sh'[i].downAt = sh[i].downAt /\ sh'[i].conn = sh[i].conn
             /\ sh'[i].lastMsg \in {sh[i].lastMsg, now + 1}
             /\ sh'[i].stop <=> sh[i].stop
  <2>1. sh[i] \in ShardRecs
    BY <1>2
  <2>2. CASE Flows(sh[i])
    <3>1. sh'[i] = [sh[i] EXCEPT !.lastMsg = now + 1]
      BY <1>1, <2>2
    <3>2. sh'[i].stop <=> sh[i].stop
      BY <2>1, <3>1 DEF ShardRecs
    <3>3. sh'[i] \in ShardRecs
      BY <1>3, <2>1, <3>1 DEF ShardRecs
    <3>4. /\ sh'[i].pc = sh[i].pc /\ sh'[i].desired = sh[i].desired
          /\ sh'[i].version = sh[i].version /\ sh'[i].want = sh[i].want
          /\ sh'[i].subscribed = sh[i].subscribed /\ sh'[i].fed = sh[i].fed
          /\ sh'[i].downAt = sh[i].downAt /\ sh'[i].conn = sh[i].conn
          /\ sh'[i].lastMsg = now + 1
      BY <2>1, <3>1 DEF ShardRecs
    <3> QED
      BY <3>2, <3>3, <3>4
  <2>3. CASE ~Flows(sh[i])
    <3>1. sh'[i] = sh[i]
      BY <1>1, <2>3
    <3> QED
      BY <2>1, <3>1
  <2> QED
    BY <2>2, <2>3
<1>5. TypeOK'
  <2>1. sh' \in [Shard -> ShardRecs]
    BY <1>1, <1>4
  <2>2. owed' \in [Streams -> SUBSET (1..MaxTime)] /\ forgone' \in [Streams -> SUBSET (1..MaxTime)]
    BY <1>1, <1>2, <1>3 DEF TypeOK
  <2> QED
    BY <1>1, <1>2, <1>3, <2>1, <2>2, ShardTypes DEF TypeOK
<1>6. ShardsFine'
  <2>1. ASSUME NEW i \in Shard
        PROVE  ShardFine(sh[i])'
    <3>1. ShardFine(sh[i]) /\ sh[i].lastMsg \in Nat /\ sh[i].downAt \in Nat /\ sh[i].conn.lastAt \in Nat
      BY <1>2, ShardConstants DEF ShardsFine, ShardRecs, Conns
    <3>2. StreamsFine(sh[i])'
      BY <1>1, <1>4, <3>1 DEF ShardFine, StreamsFine, Up
    <3>3. TimesFine(sh[i])'
      BY <1>1, <1>2, <1>4, <3>1 DEF ShardFine, TimesFine
    <3>4. ConnFine(sh[i])'
      <4>1. sh[i].lastMsg <= sh'[i].lastMsg /\ sh'[i].lastMsg \in Nat
        BY <1>2, <1>4, <3>1 DEF ShardFine, TimesFine
      <4>2. ConnFine(sh[i])
        BY <3>1 DEF ShardFine
      <4>3. sh[i].conn.lastAt <= sh[i].lastMsg => sh[i].conn.lastAt <= sh'[i].lastMsg
        BY <3>1, <4>1
      <4>4. sh'[i].conn = sh[i].conn
        BY <1>4
      <4> QED
        BY <4>2, <4>3, <4>4 DEF ConnFine
    <3>5. VersionFine(sh[i])'
      BY <1>1, <1>4, <3>1 DEF ShardFine, VersionFine
    <3> QED
      BY <3>2, <3>3, <3>4, <3>5 DEF ShardFine
  <2> QED
    BY <2>1 DEF ShardsFine, Shard
<1>7. MapFine'
  <2>1. ASSUME NEW id \in Ids, shards[id] # 0
        PROVE  sh'[shards[id]].desired \subseteq IdStreams(id)
    <3>1. shards[id] \in Shard
      BY <1>2, <2>1, ShardConstants DEF TypeOK, Shard
    <3> QED
      BY <1>2, <1>4, <2>1, <3>1 DEF MapFine
  <2>2. ASSUME NEW i \in Shard, Up(sh'[i])
        PROVE  \E id \in Ids : shards[id] = i
    BY <1>1, <1>2, <1>4, <2>2 DEF MapFine, Up
  <2>3. /\ \A id \in Ids : shards[id] <= created
        /\ \A a, b \in Ids : shards[a] = shards[b] /\ shards[a] # 0 => a = b
    BY <1>2 DEF MapFine
  <2>4. shards' = shards /\ created' = created /\ ~closed'
    BY <1>1
  <2> QED
    BY <2>1, <2>2, <2>3, <2>4 DEF MapFine, IdStreams, Up, Ids, Streams, Shard
<1>8. SetFine'
  BY <1>1, <1>2 DEF SetFine, Missing, planStreams, streamsOf, Ids
<1>9. Accounted'
  <2>1. ASSUME NEW s \in Streams, NEW t \in owed'[s] \ forgone[s]
        PROVE  \E i \in Shard : s \in sh'[i].fed /\ t \in PendingAt(sh'[i], now + 1)
    <3>1. \A i \in Shard : /\ sh[i] \in ShardRecs /\ sh[i].lastMsg <= now /\ sh[i].downAt <= now
                           /\ sh[i].fed # {} /\ sh[i].pc # "pump" => sh[i].downAt # 0
      BY <1>2 DEF ShardsFine, ShardFine, TimesFine
    <3>2. \A i \in Shard : /\ Flows(sh[i]) => sh'[i] = [sh[i] EXCEPT !.lastMsg = now + 1]
                           /\ ~Flows(sh[i]) => sh'[i] = sh[i]
      BY <1>1
    <3>3. CASE t \in owed[s]
      <4>1. PICK i \in Shard : Witness(sh[i], s, t)
        BY <1>2, <2>1, <3>3 DEF Accounted
      <4>2. s \in sh'[i].fed /\ t \in PendingAt(sh[i], now) /\ t \in Nat
        BY <1>2, <1>4, <3>3, <4>1 DEF Witness, Pending, PendingAt, TypeOK
      <4>3. t \in PendingAt(sh'[i], now + 1)
        BY <1>2, <3>1, <3>2, <4>2, FramePending
      <4> QED
        BY <4>2, <4>3
    <3>4. CASE t \notin owed[s]
      <4>1. PICK i \in Shard : s \in sh[i].fed /\ ~Flows(sh[i])
        BY <1>1, <2>1, <3>4
      <4>2. t = now + 1
        BY <1>1, <2>1, <3>4
      <4>3. sh'[i] = sh[i] /\ now + 1 \in PendingAt(sh[i], now + 1)
        BY <1>2, <3>1, <3>2, <4>1, FramePending
      <4> QED
        BY <4>1, <4>2, <4>3
    <3> QED
      BY <3>3, <3>4
  <2> QED
    BY <1>1, <2>1 DEF Accounted, Witness, Pending, PendingAt, Unclaimed, Flows, Streams, Shard
<1>10. NoShardAfterClose'
  BY <1>1, <1>2 DEF NoShardAfterClose, SetFine
<1> QED
  BY <1>5, <1>6, <1>7, <1>8, <1>9, <1>10 DEF CInv

-----------------------------------------------------------------------------
(* The end of the service. *)

\* Nothing is owed from now on, and no supervisor that was told to stop is untold.
LEMMA ServiceEnds ==
  ASSUME CInv,
         sh' \in [Shard -> ShardRecs],
         \A i \in Shard :
           /\ sh'[i].fed = {} /\ sh'[i].desired = sh[i].desired /\ sh'[i].pc = sh[i].pc
           /\ sh'[i].lastMsg = sh[i].lastMsg /\ sh'[i].downAt = sh[i].downAt
           /\ sh'[i].conn = sh[i].conn /\ sh'[i].version = sh[i].version,
         \A i \in Shard : sh[i].stop => sh'[i].stop,
         UNCHANGED <<shards, created, sets, setting, now, faults>>,
         {closed', cancelled'} \subseteq BOOLEAN, closed => closed', closing' \in {"no", "wait"},
         closing' # "no" => closed',
         OweNothing
  PROVE  CInv'
<1>1. /\ TypeOK /\ ShardsFine /\ MapFine /\ SetFine
      /\ shards' = shards /\ created' = created /\ sets' = sets /\ setting' = setting /\ now' = now
  BY DEF CInv
<1>2. TypeOK'
  <2>1. owed' \in [Streams -> SUBSET (1..MaxTime)] /\ forgone' \in [Streams -> SUBSET (1..MaxTime)]
    BY DEF OweNothing
  <2>2. /\ now' \in 1..MaxTime /\ shards' \in [Ids -> 0..MaxShards] /\ faults' \in 0..MaxFaults
    BY <1>1 DEF TypeOK
  <2> QED
    BY <1>1, <2>1, <2>2, ShardTypes
<1>3. ShardsFine'
  <2>1. ASSUME NEW i \in Shard
        PROVE  ShardFine(sh[i])'
    <3>1. ShardFine(sh[i])
      BY <1>1 DEF ShardsFine
    <3>2. StreamsFine(sh[i])'
      BY DEF StreamsFine
    <3>3. TimesFine(sh[i])' /\ ConnFine(sh[i])'
      BY <1>1, <3>1 DEF ShardFine, TimesFine, ConnFine
    <3>4. VersionFine(sh[i])'
      BY <1>1, <3>1 DEF ShardFine, VersionFine
    <3> QED
      BY <3>2, <3>3, <3>4 DEF ShardFine
  <2> QED
    BY <2>1 DEF ShardsFine, Shard
<1>4. MapFine'
  <2>1. ASSUME NEW id \in Ids, shards[id] # 0
        PROVE  sh'[shards[id]].desired \subseteq IdStreams(id)
    <3>1. shards[id] \in Shard
      <4>1. shards[id] \in 0..MaxShards
        BY <1>1 DEF TypeOK
      <4> QED
        BY <2>1, <4>1, ShardConstants DEF Shard
    <3> QED
      BY <1>1, <2>1, <3>1 DEF MapFine
  <2>2. ASSUME NEW i \in Shard, Up(sh'[i]), ~closed'
        PROVE  \E id \in Ids : shards[id] = i
    <3>1. Up(sh[i]) /\ ~closed
      BY <2>2 DEF Up
    <3> QED
      BY <1>1, <3>1 DEF MapFine
  <2>3. /\ \A id \in Ids : shards[id] <= created
        /\ \A a, b \in Ids : shards[a] = shards[b] /\ shards[a] # 0 => a = b
    BY <1>1 DEF MapFine
  <2> QED
    BY <1>1, <2>1, <2>2, <2>3 DEF MapFine, IdStreams, Up, Ids, Streams, Shard
<1>5. SetFine'
  BY <1>1 DEF SetFine, Missing, planStreams, streamsOf, Ids
<1>6. Accounted'
  BY DEF OweNothing, Accounted, Streams
<1>7. NoShardAfterClose'
  BY DEF NoShardAfterClose
<1> QED
  BY <1>2, <1>3, <1>4, <1>5, <1>6, <1>7 DEF CInv

LEMMA CollectorCloses ==
  ASSUME CInv, Close
  PROVE  CInv'
<1> DEFINE wasTold(i) == \E id \in Ids : shards[id] = i
<1>1. /\ closed' = TRUE /\ closing' = "wait" /\ OweNothing
      /\ sh' = [i \in Shard |-> [sh[i] EXCEPT !.fed = {}, !.stop = @ \/ wasTold(i)]]
      /\ UNCHANGED <<shards, created, cancelled, sets, setting, now, faults>>
  BY DEF Close, closeRest
<1>2. TypeOK /\ sh \in [Shard -> ShardRecs]
  BY ShardTyped DEF CInv
<1>3. ASSUME NEW i \in Shard
      PROVE  /\ sh'[i] \in ShardRecs /\ sh'[i].fed = {} /\ sh'[i].desired = sh[i].desired
             /\ sh'[i].pc = sh[i].pc
             /\ sh'[i].lastMsg = sh[i].lastMsg /\ sh'[i].downAt = sh[i].downAt
             /\ sh'[i].conn = sh[i].conn /\ sh'[i].version = sh[i].version
             /\ sh[i].stop => sh'[i].stop
  <2> DEFINE b == sh[i].stop \/ wasTold(i)
             q == sh[i]
  <2>1. sh[i] \in ShardRecs /\ b \in BOOLEAN
    BY <1>2
  <2>2. sh'[i] = [q EXCEPT !.fed = {}, !.stop = b]
    BY <1>1
  <2>3. q.stop => b
    OBVIOUS
  <2> HIDE DEF b, q
  <2>4. q \in ShardRecs
    BY <2>1 DEF q
  <2>5. [q EXCEPT !.fed = {}, !.stop = b].stop = b
    BY <2>4 DEF ShardRecs
  <2>6. LET r == [q EXCEPT !.fed = {}, !.stop = b]
        IN  /\ r \in ShardRecs /\ r.fed = {} /\ r.desired = q.desired /\ r.pc = q.pc
            /\ r.lastMsg = q.lastMsg /\ r.downAt = q.downAt
            /\ r.conn = q.conn /\ r.version = q.version
    BY <2>1, <2>4 DEF ShardRecs
  <2>7. q.stop => sh'[i].stop
    BY <2>2, <2>3, <2>5
  <2> QED
    BY <2>2, <2>6, <2>7 DEF q
<1>4. sh' \in [Shard -> ShardRecs]
  BY <1>1, <1>3
<1>5. {closed', cancelled'} \subseteq BOOLEAN
  BY <1>1, <1>2 DEF TypeOK
<1> QED
  BY <1>1, <1>3, <1>4, <1>5, ServiceEnds

LEMMA ContextEnds ==
  ASSUME CInv, Cancel
  PROVE  CInv'
<1>1. /\ cancelled' = TRUE /\ ~closed /\ OweNothing
      /\ sh' = [i \in Shard |-> [sh[i] EXCEPT !.fed = {}]]
      /\ UNCHANGED <<shards, created, closed, closing, sets, setting, now, faults>>
  BY DEF Cancel, Ending, closeRest
<1>2. TypeOK /\ SetFine /\ sh \in [Shard -> ShardRecs]
  BY ShardTyped DEF CInv
<1>3. ASSUME NEW i \in Shard
      PROVE  /\ sh'[i] \in ShardRecs /\ sh'[i].fed = {} /\ sh'[i].desired = sh[i].desired
             /\ sh'[i].pc = sh[i].pc
             /\ sh'[i].lastMsg = sh[i].lastMsg /\ sh'[i].downAt = sh[i].downAt
             /\ sh'[i].conn = sh[i].conn /\ sh'[i].version = sh[i].version
             /\ sh[i].stop => sh'[i].stop
  <2>1. sh[i] \in ShardRecs /\ sh'[i] = [sh[i] EXCEPT !.fed = {}]
    BY <1>1, <1>2
  <2>2. sh[i].stop => sh'[i].stop
    BY <2>1 DEF ShardRecs
  <2>3. sh'[i] \in ShardRecs
    BY <2>1 DEF ShardRecs
  <2>4. /\ sh'[i].fed = {} /\ sh'[i].desired = sh[i].desired /\ sh'[i].pc = sh[i].pc
        /\ sh'[i].lastMsg = sh[i].lastMsg /\ sh'[i].downAt = sh[i].downAt
        /\ sh'[i].conn = sh[i].conn /\ sh'[i].version = sh[i].version
    BY <2>1 DEF ShardRecs
  <2> QED
    BY <2>2, <2>3, <2>4
<1>4. sh' \in [Shard -> ShardRecs]
  BY <1>1, <1>3
<1>5. {closed', cancelled'} \subseteq BOOLEAN /\ closing' = "no"
  BY <1>1, <1>2 DEF TypeOK, SetFine
<1> QED
  BY <1>1, <1>3, <1>4, <1>5, ServiceEnds

LEMMA CollectorClosed ==
  ASSUME CInv, CloseReturn
  PROVE  CInv'
<1>1. /\ closing = "wait" /\ closing' = "done" /\ shards' = [id \in Ids |-> 0]
      /\ \A i \in Shard : sh[i].pc \in {"none", "done"}
      /\ UNCHANGED <<sh, created, closed, cancelled, sets, setting, now, faults, owed, forgone>>
  BY DEF CloseReturn, closeRest
<1>2. /\ TypeOK /\ ShardsFine /\ Accounted /\ SetFine /\ closed
      /\ sh \in [Shard -> ShardRecs]
  BY <1>1, ShardTyped DEF CInv, SetFine
<1>3. TypeOK'
  <2>1. shards' \in [Ids -> 0..MaxShards]
    BY <1>1, ShardConstants
  <2>2. sh' = sh /\ now' = now
    BY <1>1
  <2> QED
    BY <1>1, <1>2, <2>1, <2>2, ShardTypes, ShardTyped DEF TypeOK
<1>4. ShardsFine'
  BY <1>1, <1>2
  DEF ShardsFine, ShardFine, VersionFine, StreamsFine, TimesFine, ConnFine, Up, Shard
<1>5. MapFine'
  <2>1. created \in Nat
    BY <1>2, ShardConstants DEF TypeOK
  <2>2. \A id \in Ids : shards'[id] = 0
    BY <1>1
  <2> QED
    BY <1>1, <1>2, <2>1, <2>2 DEF MapFine, Ids, Shard
<1>6. SetFine'
  BY <1>1, <1>2 DEF SetFine
<1>7. Accounted'
  BY <1>1, <1>2 DEF Accounted, Witness, Pending, Unclaimed, Flows, Streams, Shard
<1>8. NoShardAfterClose'
  BY <1>1 DEF NoShardAfterClose, Shard, Ids
<1> QED
  BY <1>3, <1>4, <1>5, <1>6, <1>7, <1>8 DEF CInv

-----------------------------------------------------------------------------
(* The specification. *)

LEMMA CollectorInit ==
  ASSUME Init
  PROVE  CInv
<1>1. /\ sh = [i \in Shard |-> NoShard] /\ shards = [id \in Ids |-> 0] /\ created = 0
      /\ sets = 0 /\ setting = Idle /\ closed = FALSE /\ closing = "no" /\ cancelled = FALSE
      /\ now = 1 /\ faults = 0
      /\ owed = [s \in Streams |-> {}] /\ forgone = [s \in Streams |-> {}]
  BY DEF Init
<1>2. /\ NoShard \in ShardRecs /\ NoShard.pc = "none" /\ NoShard.fed = {} /\ NoShard.version = 0
      /\ NoShard.lastMsg = 0 /\ NoShard.downAt = 0 /\ NoShard.desired = {}
  <2>1. 0 \in 0..MaxSets /\ 0 \in 0..MaxTime
    BY ShardConstants
  <2>2. NoShard \in ShardRecs
    BY <2>1, NoConnTyped DEF NoShard, ShardRecs
  <2> QED
    BY <2>2 DEF NoShard
<1>3. NoShard.conn.status = "none" /\ NoShard.conn.gaps = <<>> /\ ~NoShard.conn.down
  BY DEF NoShard, NoConn
<1>4. sh \in [Shard -> ShardRecs]
  BY <1>1, <1>2
<1>5. TypeOK
  <2>1. /\ shards \in [Ids -> 0..MaxShards] /\ created \in 0..MaxShards /\ sets \in 0..MaxSets
        /\ now \in 1..MaxTime /\ faults \in 0..MaxFaults
    BY <1>1, ShardConstants
  <2>2. setting \in [on : BOOLEAN, syms : SUBSET Symbols]
    BY <1>1 DEF Idle
  <2>3. /\ {closed, cancelled} \subseteq BOOLEAN /\ closing \in {"no", "wait", "done"}
        /\ owed \in [Streams -> SUBSET (1..MaxTime)] /\ forgone \in [Streams -> SUBSET (1..MaxTime)]
    BY <1>1
  <2> QED
    BY <1>4, <2>1, <2>2, <2>3
    DEF TypeOK, ShardRecs, Conns, GapLists, Windows, Streams, Shard, Ids
<1>6. ShardsFine
  <2>1. ~setting.on
    BY <1>1 DEF Idle
  <2>2. StreamsFine(NoShard) /\ TimesFine(NoShard)
    BY <1>1, <1>2 DEF StreamsFine, TimesFine
  <2>3. ConnFine(NoShard) /\ VersionFine(NoShard)
    BY <1>1, <1>2, <1>3, <2>1 DEF ConnFine, VersionFine
  <2> QED
    BY <1>1, <2>2, <2>3 DEF ShardsFine, ShardFine
<1>7. MapFine
  BY <1>1, <1>2 DEF MapFine, Up
<1>8. SetFine
  BY <1>1 DEF SetFine, Idle
<1>9. Accounted
  BY <1>1 DEF Accounted
<1>10. NoShardAfterClose
  BY <1>1 DEF NoShardAfterClose
<1> QED
  BY <1>5, <1>6, <1>7, <1>8, <1>9, <1>10 DEF CInv

LEMMA CollectorStep ==
  ASSUME CInv, [Next]_vars
  PROVE  CInv'
<1>1. CASE \E syms \in SUBSET Symbols : BeginSet(syms)
  BY <1>1, SetBegins
<1>2. CASE EndSet
  BY <1>2, SetEnds
<1>3. ASSUME NEW i \in Shard, ShardStep(i)
      PROVE  CInv'
  <2>1. CASE Sleep(i)
    BY <2>1, ShardSleeps
  <2>2. CASE Dial(i)
    BY <2>2, ShardDials
  <2>3. CASE ConnectOK(i)
    BY <2>3, ShardConnects
  <2>4. CASE ConnectFailed(i)
    BY <2>4, ConnectFails
  <2>5. CASE PumpStop(i)
    BY <2>5, ShardStops
  <2>6. CASE PumpGap(i)
    BY <2>6, SilentGapTaken
  <2>7. CASE PumpError(i)
    BY <2>7, ShardFails
  <2>8. CASE PumpTick(i)
    BY <2>8, ShardTicks
  <2> QED
    BY <1>3, <2>1, <2>2, <2>3, <2>4, <2>5, <2>6, <2>7, <2>8 DEF ShardStep
<1>4. CASE \E i \in Shard : ConnFault(i) \/ ConnRecreate(i)
  BY <1>4, ConnChanges
<1>5. CASE \E i \in Shard : Poll(i)
  BY <1>5, ConnPolled
<1>6. CASE Tick
  BY <1>6, FrameSent
<1>7. CASE Close
  BY <1>7, CollectorCloses
<1>8. CASE CloseReturn
  BY <1>8, CollectorClosed
<1>9. CASE Cancel
  BY <1>9, ContextEnds
<1>10. CASE UNCHANGED vars
  <2>1. UNCHANGED <<sh, shards, created, sets, setting, closed, closing, cancelled, now, faults, owed, forgone>>
    BY <1>10 DEF vars, setVars, closeVars
  <2>2. TypeOK'
    BY <2>1 DEF CInv, TypeOK, Windows, Streams, Shard, Ids
  <2>3. ShardsFine'
    BY <2>1 DEF CInv, ShardsFine, ShardFine, VersionFine, StreamsFine, TimesFine, ConnFine, Up, Shard
  <2>4. MapFine'
    BY <2>1 DEF CInv, MapFine, IdStreams, Up, Ids, Streams, Shard
  <2>5. SetFine'
    BY <2>1 DEF CInv, SetFine, Missing, planStreams, streamsOf, Ids
  <2>6. Accounted'
    BY <2>1 DEF CInv, Accounted, Witness, Pending, Unclaimed, Flows, Streams, Shard
  <2>7. NoShardAfterClose'
    BY <2>1 DEF CInv, NoShardAfterClose, Shard, Ids
  <2> QED
    BY <2>2, <2>3, <2>4, <2>5, <2>6, <2>7 DEF CInv
<1> QED
  BY <1>1, <1>2, <1>3, <1>4, <1>5, <1>6, <1>7, <1>8, <1>9, <1>10 DEF Next

\* In every state of the collector the invariant of its shards holds: what flows
\* belongs to a supervisor of the map that is up, the clocks of a shard and of its
\* watcher never lead the frames, and no call of SetSymbols makes a shard twice.
THEOREM ShardInvariantKept == Spec => []CInv
<1>1. Init => CInv
  BY CollectorInit
<1>2. CInv /\ [Next]_vars => CInv'
  BY CollectorStep
<1> QED
  BY <1>1, <1>2, PTL DEF Spec

\* connectAndPump, reportGap, watchStatus: a frame lost on a stream that has been
\* flowing is in a gap that was reported or that still will be, or in a silent gap
\* that was thrown away with a full channel or a lost connection, whatever the
\* connections, the subscription changes and the polls do.
THEOREM LostAccounted == Spec => []LostFramesAccounted
<1>1. Spec => []CInv
  BY ShardInvariantKept
<1>2. CInv => LostFramesAccounted
  BY DEF CInv, Accounted, Witness, LostFramesAccounted
<1> QED
  BY <1>1, <1>2, PTL

\* SetSymbols, Close: once Close has returned no supervisor runs and none is
\* created, however a call of SetSymbols was interleaved with it.
THEOREM NothingStartsAfterClose == Spec => []NoShardAfterClose
<1>1. Spec => []CInv
  BY ShardInvariantKept
<1>2. CInv => NoShardAfterClose
  BY DEF CInv
<1> QED
  BY <1>1, <1>2, PTL

-----------------------------------------------------------------------------
(* What the shards want.  A second invariant beside CInv: a supervisor     *)
(* whose version is the current one holds the current set, and the map is  *)
(* the plan of one set of symbols until the service ends.                  *)

\* A supervisor that takes itself for up to date.
Told(r) ==
  /\ r.ver <= r.version
  /\ r.pc = "dialing" /\ r.ver = r.version => r.want = r.desired
  /\ r.pc = "pump" /\ r.ver = r.version => r.subscribed = r.desired

AllTold == \A i \in Shard : Told(sh[i])

\* The share of an id, its streams being T.
Share(id, T) ==
  IF T # {} THEN shards[id] # 0 /\ Up(sh[shards[id]]) /\ sh[shards[id]].desired = T
            ELSE shards[id] = 0

PlanOf(syms) == \A id \in Ids : Share(id, streamsOf(syms, id))

OnePlan == ~Ending => \E syms \in SUBSET Symbols : PlanOf(syms)

PInv == AllTold /\ OnePlan

\* A step that leaves the map alone and stops or redirects no supervisor.
LEMMA PlanStands ==
  ASSUME CInv, PInv, shards' = shards, Ending => Ending',
         \A j \in Shard : Told(sh'[j]),
         \A j \in Shard : Up(sh[j]) /\ ~Ending' => Up(sh'[j]) /\ sh'[j].desired = sh[j].desired
  PROVE  PInv'
<1>1. AllTold'
  BY DEF AllTold, Told, Shard
<1>2. ASSUME ~Ending'
      PROVE  \E syms \in SUBSET Symbols : PlanOf(syms)'
  <2>1. PICK syms \in SUBSET Symbols : PlanOf(syms)
    BY <1>2 DEF PInv, OnePlan
  <2>2. shards \in [Ids -> 0..MaxShards] /\ MaxShards \in Nat
    BY ShardConstants DEF CInv, TypeOK
  <2>3. ASSUME NEW id \in Ids
        PROVE  Share(id, streamsOf(syms, id))'
    <3>1. Share(id, streamsOf(syms, id))
      BY <2>1 DEF PlanOf
    <3>2. CASE streamsOf(syms, id) = {}
      BY <3>1, <3>2 DEF Share, streamsOf
    <3>3. CASE streamsOf(syms, id) # {}
      <4>1. /\ shards[id] # 0 /\ Up(sh[shards[id]])
            /\ sh[shards[id]].desired = streamsOf(syms, id)
        BY <3>1, <3>3 DEF Share
      <4>2. shards[id] \in Shard
        BY <2>2, <4>1 DEF Shard
      <4>3. Up(sh'[shards[id]]) /\ sh'[shards[id]].desired = streamsOf(syms, id)
        BY <1>2, <4>1, <4>2
      <4> QED
        BY <3>3, <4>1, <4>3 DEF Share, streamsOf, Up
    <3> QED
      BY <3>2, <3>3
  <2>4. PlanOf(syms)'
    BY <2>3 DEF PlanOf, Ids
  <2> QED
    BY <2>4
<1>3. OnePlan'
  BY <1>2 DEF OnePlan
<1> QED
  BY <1>1, <1>3 DEF PInv

\* A step of one shard: a supervisor that is up stays up and wants what it did,
\* unless the service is ending.
LEMMA PlanOfOthers ==
  ASSUME CInv, PInv, NEW i \in Shard, NEW r, Become(i, r),
         UNCHANGED <<shards, closed, cancelled>>,
         Told(r),
         Up(sh[i]) /\ ~Ending => Up(r) /\ r.desired = sh[i].desired
  PROVE  PInv'
<1>1. sh \in [Shard -> ShardRecs]
  BY ShardTyped DEF CInv
<1>2. sh'[i] = r /\ \A j \in Shard : j # i => sh'[j] = sh[j]
  BY <1>1 DEF Become
<1>3. \A j \in Shard : Told(sh'[j])
  BY <1>2 DEF PInv, AllTold
<1>4. Ending' = Ending
  BY DEF Ending
<1>5. \A j \in Shard : Up(sh[j]) /\ ~Ending' => Up(sh'[j]) /\ sh'[j].desired = sh[j].desired
  BY <1>2, <1>4
<1> QED
  BY <1>3, <1>4, <1>5, PlanStands

\* A step that touches neither the sets, the versions nor the life of a shard.
LEMMA PlanUntouched ==
  ASSUME CInv, PInv, NEW i \in Shard, NEW r, Become(i, r),
         UNCHANGED <<shards, closed, cancelled>>,
         r.pc = sh[i].pc, r.stop = sh[i].stop, r.desired = sh[i].desired, r.want = sh[i].want,
         r.subscribed = sh[i].subscribed, r.ver = sh[i].ver, r.version = sh[i].version
  PROVE  PInv'
<1>1. Told(sh[i])
  BY DEF PInv, AllTold
<1>2. Told(r)
  BY <1>1 DEF Told
<1>3. Up(sh[i]) => Up(r)
  BY DEF Up
<1> QED
  BY <1>2, <1>3, PlanOfOthers

\* A supervisor that is not dialing or pumping claims nothing.
LEMMA PlanPaused ==
  ASSUME CInv, PInv, NEW i \in Shard, NEW r, Become(i, r),
         UNCHANGED <<shards, closed, cancelled>>,
         r.pc \in {"dial", "sleep"}, r.stop = sh[i].stop, r.desired = sh[i].desired,
         r.ver <= r.version
  PROVE  PInv'
<1>1. Told(r)
  BY DEF Told
<1>2. Up(sh[i]) => Up(r)
  BY DEF Up
<1> QED
  BY <1>1, <1>2, PlanOfOthers

\* A supervisor that exits was told to, or the service is ending.
LEMMA PlanExits ==
  ASSUME CInv, PInv, NEW i \in Shard, Stopping(sh[i]), Become(i, Exited),
         UNCHANGED <<shards, closed, cancelled>>
  PROVE  PInv'
<1>1. Told(Exited)
  BY DEF Told, Exited, NoShard
<1>2. ~(Up(sh[i]) /\ ~Ending)
  BY DEF Stopping, Up, Ending
<1> QED
  BY <1>1, <1>2, PlanOfOthers

LEMMA PlanOfSupervisor ==
  ASSUME CInv, PInv, NEW i \in Shard, ShardStep(i)
  PROVE  PInv'
<1> DEFINE q == sh[i]
<1>1. q \in ShardRecs /\ Told(q) /\ q.ver \in Nat /\ q.version \in Nat
  <2>1. q \in ShardRecs
    BY ShardTyped DEF CInv
  <2>2. Told(q)
    BY DEF PInv, AllTold
  <2>3. q.ver \in 0..MaxSets /\ q.version \in 0..MaxSets
    BY <2>1 DEF ShardRecs
  <2> QED
    BY <2>1, <2>2, <2>3, ShardConstants
<1>2. q.ver <= q.version
  BY <1>1 DEF Told
<1>3. UNCHANGED <<shards, closed, cancelled>>
  BY DEF ShardStep, Sleep, Dial, ConnectOK, ConnectFailed, PumpStop, PumpGap, PumpError, PumpTick,
         shardRest, setVars, closeVars
<1>4. CASE Sleep(i)
  <2>1. CASE q.pc \in {"delay", "sleep"} /\ Become(i, [q EXCEPT !.pc = "dial"])
    <3>1. PICK r : r = [q EXCEPT !.pc = "dial"]
      OBVIOUS
    <3>2. r.pc = "dial" /\ r.stop = q.stop /\ r.desired = q.desired /\ r.ver = q.ver /\ r.version = q.version
      BY <1>1, <3>1 DEF ShardRecs
    <3> QED
      BY <1>2, <1>3, <2>1, <3>1, <3>2, PlanPaused
  <2>2. CASE Stopping(q) /\ Become(i, Exited)
    BY <1>3, <2>2, PlanExits
  <2> QED
    BY <1>4, <2>1, <2>2 DEF Sleep
<1>5. CASE Dial(i)
  <2>1. PICK r : r = [q EXCEPT !.pc = "dialing", !.want = q.desired, !.ver = q.version]
    OBVIOUS
  <2>2. q.pc = "dial" /\ Become(i, r)
    BY <1>5, <2>1 DEF Dial
  <2>3. r.pc = "dialing" /\ r.want = q.desired /\ r.ver = q.version /\ r.version = q.version
        /\ r.desired = q.desired /\ r.stop = q.stop
    BY <1>1, <2>1 DEF ShardRecs
  <2>4. Told(r)
    BY <1>1, <2>3 DEF Told
  <2>5. Up(q) => Up(r)
    BY <2>3 DEF Up
  <2> QED
    BY <1>3, <2>2, <2>3, <2>4, <2>5, PlanOfOthers
<1>6. CASE ConnectOK(i)
  <2>1. PICK r : r = [q EXCEPT !.pc = "pump", !.subscribed = q.want, !.want = {}, !.downAt = 0,
                               !.lastMsg = now, !.conn = Dialed, !.fed = Fed(q, q.want)]
    OBVIOUS
  <2>2. q.pc = "dialing" /\ Become(i, r)
    BY <1>6, <2>1 DEF ConnectOK
  <2>3. r.pc = "pump" /\ r.subscribed = q.want /\ r.ver = q.ver /\ r.version = q.version
        /\ r.desired = q.desired /\ r.stop = q.stop
    BY <1>1, <2>1 DEF ShardRecs
  <2>4. Told(r)
    BY <1>1, <2>2, <2>3 DEF Told
  <2>5. Up(q) => Up(r)
    BY <2>3 DEF Up
  <2> QED
    BY <1>3, <2>2, <2>3, <2>4, <2>5, PlanOfOthers
<1>7. CASE ConnectFailed(i)
  <2>1. CASE cancelled
    <3>1. Become(i, Exited)
      BY <1>7, <2>1 DEF ConnectFailed
    <3> QED
      BY <1>3, <2>1, <3>1, PlanExits DEF Stopping
  <2>2. CASE ~cancelled
    <3>1. PICK r : r = [q EXCEPT !.pc = "sleep", !.want = {}]
      OBVIOUS
    <3>2. Become(i, r)
      BY <1>7, <2>2, <3>1 DEF ConnectFailed
    <3>3. r.pc = "sleep" /\ r.stop = q.stop /\ r.desired = q.desired /\ r.ver = q.ver /\ r.version = q.version
      BY <1>1, <3>1 DEF ShardRecs
    <3> QED
      BY <1>2, <1>3, <3>2, <3>3, PlanPaused
  <2> QED
    BY <2>1, <2>2
<1>8. CASE PumpStop(i)
  BY <1>3, <1>8, PlanExits DEF PumpStop
<1>9. CASE PumpGap(i)
  <2>1. PICK r : r = [q EXCEPT !.conn.gaps = Tail(@)]
    OBVIOUS
  <2>2. Become(i, r)
    BY <1>9, <2>1 DEF PumpGap
  <2>3. /\ r.pc = q.pc /\ r.stop = q.stop /\ r.desired = q.desired /\ r.want = q.want
        /\ r.subscribed = q.subscribed /\ r.ver = q.ver /\ r.version = q.version
    BY <1>1, <2>1 DEF ShardRecs
  <2> QED
    BY <1>3, <2>2, <2>3, PlanUntouched
\* A connection that ends leaves a supervisor that sleeps.
<1>10. ASSUME NEW u \in ShardRecs, u.stop = q.stop, u.desired = q.desired, u.ver <= u.version,
              Become(i, Dropped(u))
       PROVE  PInv'
  <2>1. PICK r : r = Dropped(u)
    OBVIOUS
  <2>2. r.pc = "sleep" /\ r.stop = q.stop /\ r.desired = q.desired /\ r.ver <= r.version
    BY <1>10, <2>1 DEF Dropped, ShardRecs
  <2> QED
    BY <1>3, <1>10, <2>1, <2>2, PlanPaused
<1>11. CASE PumpError(i)
  <2>1. Become(i, Dropped(q))
    BY <1>11 DEF PumpError, EndPump
  <2> QED
    BY <1>1, <1>2, <1>10, <2>1
<1>12. CASE PumpTick(i)
  <2>1. PICK u : u = IF q.version = q.ver THEN q
                     ELSE [q EXCEPT !.subscribed = q.desired, !.ver = q.version, !.fed = Fed(q, q.desired)]
    OBVIOUS
  <2>2. q.pc = "pump"
    BY <1>12 DEF PumpTick
  <2>3. Become(i, Dropped(q)) \/ Become(i, Dropped(u)) \/ Become(i, u)
    BY <1>12, <2>1 DEF PumpTick, EndPump
  <2>4. Fed(q, q.desired) \in SUBSET Streams
    BY <1>1 DEF Fed, ShardRecs
  <2>5. /\ u \in ShardRecs /\ u.pc = "pump" /\ u.stop = q.stop /\ u.desired = q.desired
        /\ u.version = q.version /\ u.ver = q.version /\ u.subscribed = q.desired
    <3>1. CASE q.version = q.ver
      <4>1. q.subscribed = q.desired
        BY <1>1, <2>2, <3>1 DEF Told
      <4> QED
        BY <1>1, <2>1, <2>2, <3>1, <4>1
    <3>2. CASE q.version # q.ver
      <4>1. u = [q EXCEPT !.subscribed = q.desired, !.ver = q.version, !.fed = Fed(q, q.desired)]
        BY <2>1, <3>2
      <4> QED
        BY <1>1, <2>2, <2>4, <4>1 DEF ShardRecs
    <3> QED
      BY <3>1, <3>2
  <2>6. u.ver <= u.version /\ Told(u)
    BY <1>1, <2>5 DEF Told
  <2>7. Up(q) => Up(u)
    BY <2>5 DEF Up
  <2>8. CASE Become(i, Dropped(q))
    BY <1>1, <1>2, <1>10, <2>8
  <2>9. CASE Become(i, Dropped(u))
    BY <1>10, <2>5, <2>6, <2>9
  <2>10. CASE Become(i, u)
    BY <1>3, <2>5, <2>6, <2>7, <2>10, PlanOfOthers
  <2> QED
    BY <2>3, <2>8, <2>9, <2>10
<1> QED
  BY <1>4, <1>5, <1>6, <1>7, <1>8, <1>9, <1>11, <1>12 DEF ShardStep

LEMMA PlanOfConnection ==
  ASSUME CInv, PInv, NEW i \in Shard, ConnFault(i) \/ ConnRecreate(i) \/ Poll(i)
  PROVE  PInv'
<1> DEFINE q == sh[i]
<1>1. q \in ShardRecs
  BY ShardTyped DEF CInv
<1>2. UNCHANGED <<shards, closed, cancelled>>
  BY DEF ConnFault, ConnRecreate, Poll, ConnStep, shardRest, setVars, closeVars
<1>3. ASSUME NEW c, Become(i, [q EXCEPT !.conn = c])
      PROVE  PInv'
  <2>1. PICK r : r = [q EXCEPT !.conn = c]
    OBVIOUS
  <2>2. /\ r.pc = q.pc /\ r.stop = q.stop /\ r.desired = q.desired /\ r.want = q.want
        /\ r.subscribed = q.subscribed /\ r.ver = q.ver /\ r.version = q.version
    BY <1>1, <2>1 DEF ShardRecs
  <2> QED
    BY <1>2, <1>3, <2>1, <2>2, PlanUntouched
<1>4. CASE ConnFault(i) \/ ConnRecreate(i)
  <2>1. PICK status \in {"half", "dead", "closing", "gone", "open"} : ConnStep(i, status)
    BY <1>4 DEF ConnFault, ConnRecreate
  <2>2. Become(i, [q EXCEPT !.conn = [q.conn EXCEPT !.status = status]])
    BY <2>1 DEF ConnStep
  <2> QED
    BY <1>3, <2>2
<1>5. CASE Poll(i)
  <2> DEFINE Kept(r) == /\ r.pc = q.pc /\ r.stop = q.stop /\ r.desired = q.desired /\ r.want = q.want
                         /\ r.subscribed = q.subscribed /\ r.ver = q.ver /\ r.version = q.version
  <2>1. \/ Become(i, [q EXCEPT !.conn.down = TRUE, !.conn.lastAt = q.lastMsg])
        \/ Become(i, [q EXCEPT !.conn.down = FALSE, !.conn.lastAt = 0,
                               !.conn.gaps = Append(@, [from |-> q.conn.lastAt, to |-> now])])
        \/ Become(i, [q EXCEPT !.conn.down = FALSE, !.conn.lastAt = 0])
    BY <1>5 DEF Poll
  <2>2. Kept([q EXCEPT !.conn.down = TRUE, !.conn.lastAt = q.lastMsg])
    BY <1>1 DEF ShardRecs
  <2>3. Kept([q EXCEPT !.conn.down = FALSE, !.conn.lastAt = 0,
                       !.conn.gaps = Append(@, [from |-> q.conn.lastAt, to |-> now])])
    BY <1>1 DEF ShardRecs
  <2>4. Kept([q EXCEPT !.conn.down = FALSE, !.conn.lastAt = 0])
    BY <1>1 DEF ShardRecs
  <2>5. PICK r : Become(i, r) /\ Kept(r)
    <3> HIDE DEF Kept
    <3> QED
      BY <2>1, <2>2, <2>3, <2>4
  <2> QED
    BY <1>2, <2>5, PlanUntouched
<1> QED
  BY <1>4, <1>5

LEMMA PlanOfClock ==
  ASSUME CInv, PInv, Tick
  PROVE  PInv'
<1>1. sh \in [Shard -> ShardRecs]
  BY ShardTyped DEF CInv
<1>2. ASSUME NEW j \in Shard
      PROVE  Told(sh'[j]) /\ (Up(sh[j]) => Up(sh'[j]) /\ sh'[j].desired = sh[j].desired)
  <2>1. sh[j] \in ShardRecs /\ Told(sh[j])
    BY <1>1 DEF PInv, AllTold
  <2>2. sh'[j] = sh[j] \/ sh'[j] = [sh[j] EXCEPT !.lastMsg = now + 1]
    BY DEF Tick
  <2>3. LET q == sh[j]
            r == sh'[j]
        IN /\ r.pc = q.pc /\ r.stop = q.stop /\ r.desired = q.desired /\ r.want = q.want
           /\ r.subscribed = q.subscribed /\ r.ver = q.ver /\ r.version = q.version
    BY <2>1, <2>2 DEF ShardRecs
  <2> QED
    BY <2>1, <2>3 DEF Told, Up
<1>3. shards' = shards /\ Ending' = Ending
  BY DEF Tick, setVars, closeVars, Ending
<1> QED
  BY <1>2, <1>3, PlanStands

\* Once the service ends, only the versions still tell.
LEMMA PlanAtEnd ==
  ASSUME PInv, Ending',
         \A j \in Shard : LET q == sh[j]
                               r == sh'[j]
                           IN /\ r.pc = q.pc /\ r.desired = q.desired /\ r.want = q.want
                              /\ r.subscribed = q.subscribed /\ r.ver = q.ver /\ r.version = q.version
  PROVE  PInv'
<1>1. ASSUME NEW j \in Shard
      PROVE  Told(sh'[j])
  <2>1. Told(sh[j])
    BY DEF PInv, AllTold
  <2> QED
    BY <2>1 DEF Told
<1>2. AllTold'
  BY <1>1 DEF AllTold, Told, Shard
<1> QED
  BY <1>2 DEF PInv, OnePlan

LEMMA PlanClosed ==
  ASSUME CInv, PInv, Close
  PROVE  PInv'
<1> DEFINE wasTold(i) == \E id \in Ids : shards[id] = i
<1>1. sh' = [i \in Shard |-> [sh[i] EXCEPT !.fed = {}, !.stop = @ \/ wasTold(i)]]
  BY Zenon DEF Close
<1>2. closed'
  BY Zenon DEF Close
<1> HIDE DEF wasTold
<1>3. ASSUME NEW j \in Shard
      PROVE  LET q == sh[j]
                 r == sh'[j]
             IN /\ r.pc = q.pc /\ r.desired = q.desired /\ r.want = q.want
                /\ r.subscribed = q.subscribed /\ r.ver = q.ver /\ r.version = q.version
  <2> DEFINE b == sh[j].stop \/ wasTold(j)
             q == sh[j]
  <2>1. q \in ShardRecs
    BY ShardTyped DEF CInv
  <2>2. sh'[j] = [q EXCEPT !.fed = {}, !.stop = b]
    BY <1>1, Zenon
  <2> HIDE DEF b, q
  <2>3. LET r == [q EXCEPT !.fed = {}, !.stop = b]
        IN /\ r.pc = q.pc /\ r.desired = q.desired /\ r.want = q.want
           /\ r.subscribed = q.subscribed /\ r.ver = q.ver /\ r.version = q.version
    BY <2>1 DEF ShardRecs
  <2> QED
    BY <2>2, <2>3 DEF q
<1>4. Ending'
  BY <1>2 DEF Ending
<1> QED
  BY <1>3, <1>4, PlanAtEnd

LEMMA PlanCloseReturns ==
  ASSUME CInv, PInv, CloseReturn
  PROVE  PInv'
<1>1. closing # "no" /\ closed' = closed /\ sh' = sh
  BY DEF CloseReturn
<1>2. closing # "no" => closed
  BY DEF CInv, SetFine
<1>3. Ending'
  BY <1>1, <1>2 DEF Ending
<1> QED
  BY <1>1, <1>3, PlanAtEnd

LEMMA PlanCancelled ==
  ASSUME CInv, PInv, Cancel
  PROVE  PInv'
<1>1. cancelled' = TRUE /\ sh' = [i \in Shard |-> [sh[i] EXCEPT !.fed = {}]]
  BY DEF Cancel
<1>2. ASSUME NEW j \in Shard
      PROVE  LET q == sh[j]
                 r == sh'[j]
             IN /\ r.pc = q.pc /\ r.desired = q.desired /\ r.want = q.want
                /\ r.subscribed = q.subscribed /\ r.ver = q.ver /\ r.version = q.version
  <2>1. sh[j] \in ShardRecs
    BY ShardTyped DEF CInv
  <2> QED
    BY <1>1, <2>1 DEF ShardRecs
<1>3. Ending'
  BY <1>1 DEF Ending
<1> QED
  BY <1>2, <1>3, PlanAtEnd

\* The body of SetSymbols: the plan of the new set takes the place of the old
\* one, under the lock.
LEMMA PlanReplaced ==
  ASSUME CInv, PInv, EndSet
  PROVE  PInv'
<1>1. /\ setting.on /\ UNCHANGED <<closed, cancelled>>
      /\ \/ closed /\ UNCHANGED <<sh, shards>>
         \/ ~closed /\ ApplySet
  BY DEF EndSet, closeVars
<1>2. Ending' = Ending
  BY <1>1 DEF Ending
<1>3. CASE closed /\ UNCHANGED <<sh, shards>>
  <2>1. \A j \in Shard : Told(sh'[j]) /\ sh'[j] = sh[j]
    BY <1>3 DEF PInv, AllTold
  <2>2. shards' = shards /\ (Ending => Ending')
    BY <1>2, <1>3
  <2> QED
    BY <2>1, <2>2, PlanStands
<1>4. CASE ~closed /\ ApplySet
  <2> DEFINE syms == setting.syms
             new == Missing(syms)
             T(id) == streamsOf(syms, id)
  <2>1. PICK num : Applied(num, new)
    BY <1>1, <1>4, SetApplied
  <2>2. /\ sh \in [Shard -> ShardRecs] /\ shards \in [Ids -> 0..MaxShards] /\ MaxShards \in Nat
        /\ syms \in SUBSET Symbols /\ sets \in 0..MaxSets /\ ShardsFine
    BY ShardTyped, ShardConstants DEF CInv, TypeOK
  <2>3. /\ num \in [new -> Shard]
        /\ \A id \in new : sh'[num[id]] = newShard(T(id))
        /\ \A id \in Ids : shards[id] # 0 => sh'[shards[id]] = Reconciled(sh[shards[id]], T(id))
        /\ \A i \in Shard : (\A id \in new : num[id] # i) /\ (\A id \in Ids : shards[id] # i)
                              => sh'[i] = sh[i]
        /\ \A id \in new : shards'[id] = num[id]
        /\ \A id \in Ids \ new : shards'[id] = IF id \in planStreams(syms) THEN shards[id] ELSE 0
    BY <2>1 DEF Applied
  <2>4. \A id \in Ids : T(id) \in SUBSET Streams /\ (id \in planStreams(syms) <=> T(id) # {})
    BY <2>2, StreamsOfIs
  <2>5. new \subseteq Ids /\ \A id \in Ids : id \in new <=> T(id) # {} /\ shards[id] = 0
    BY <2>4 DEF Missing, planStreams
  <2>6. \A id \in Ids : shards[id] # 0 => shards[id] \in Shard
    BY <2>2 DEF Shard
  <2>7. \A i \in Shard : i # 0
    BY DEF Shard
  <2> HIDE DEF syms, new, T
  \* A shard of the map: its version moves with its set.
  <2>8. ASSUME NEW id \in Ids, shards[id] # 0
        PROVE  /\ Told(sh'[shards[id]])
               /\ T(id) # {} => sh'[shards[id]].desired = T(id) /\ (Up(sh[shards[id]]) => Up(sh'[shards[id]]))
    <3>1. PICK q \in ShardRecs : q = sh[shards[id]]
      BY <2>2, <2>6, <2>8
    <3>2. PICK r : r = sh'[shards[id]]
      OBVIOUS
    <3>3. r = Reconciled(q, T(id)) /\ T(id) \in SUBSET Streams
      BY <2>3, <2>4, <2>8, <3>1, <3>2
    <3>4. Told(q)
      BY <2>6, <2>8, <3>1 DEF PInv, AllTold
    <3>5. q.version + 1 <= sets
      BY <1>1, <2>2, <2>6, <2>8, <3>1 DEF ShardsFine, ShardFine, VersionFine
    <3>6. /\ r.pc = q.pc /\ r.want = q.want /\ r.subscribed = q.subscribed
          /\ T(id) = {} => r.desired = q.desired
          /\ T(id) # {} => r.desired = T(id)
          /\ r.stop <=> q.stop \/ T(id) = {}
      BY <2>2, <3>1, <3>3, <3>5, ReconciledIs
    <3>7. r.ver = q.ver /\ (T(id) = {} => r.version = q.version) /\ (T(id) # {} => r.version = q.version + 1)
      BY <3>1, <3>3 DEF Reconciled, ShardRecs
    <3>8. q.ver \in Nat /\ q.version \in Nat
      BY <3>1, ShardConstants DEF ShardRecs
    <3>9. Told(r)
      <4>1. CASE T(id) = {}
        BY <3>4, <3>6, <3>7, <4>1 DEF Told
      <4>2. CASE T(id) # {}
        <5>1. q.ver <= q.version
          BY <3>4 DEF Told
        <5>2. r.ver < r.version /\ r.ver # r.version
          BY <3>7, <3>8, <4>2, <5>1
        <5>3. r.ver <= r.version
          BY <3>7, <3>8, <4>2, <5>1
        <5> QED
          BY <5>2, <5>3 DEF Told
      <4> QED
        BY <4>1, <4>2
    <3>10. T(id) # {} /\ Up(q) => Up(r)
      BY <3>6 DEF Up
    <3> QED
      BY <3>1, <3>2, <3>6, <3>9, <3>10
  \* A new shard.
  <2>9. ASSUME NEW id \in new
        PROVE  /\ Told(sh'[num[id]]) /\ Up(sh'[num[id]]) /\ sh'[num[id]].desired = T(id)
    <3>1. PICK r : r = newShard(T(id)) /\ r = sh'[num[id]]
      BY <2>3
    <3>2. r.pc = "delay" /\ r.desired = T(id) /\ ~r.stop /\ r.ver = 0 /\ r.version = 0
      BY <3>1 DEF newShard, NoShard
    <3> QED
      BY <3>1, <3>2 DEF Told, Up
  <2>10. AllTold'
    <3>1. ASSUME NEW i \in Shard
          PROVE  Told(sh'[i])
      <4>1. CASE \E id \in new : num[id] = i
        BY <2>9, <4>1
      <4>2. CASE \E id \in Ids : shards[id] = i
        BY <2>7, <2>8, <4>2
      <4>3. CASE (\A id \in new : num[id] # i) /\ (\A id \in Ids : shards[id] # i)
        BY <2>3, <4>3 DEF PInv, AllTold
      <4> QED
        BY <4>1, <4>2, <4>3
    <3> QED
      BY <3>1 DEF AllTold, Told, Shard
  <2>11. ASSUME ~Ending, NEW id \in Ids
         PROVE  IF T(id) # {}
                THEN shards'[id] # 0 /\ Up(sh'[shards'[id]]) /\ sh'[shards'[id]].desired = T(id)
                ELSE shards'[id] = 0
    <3>1. CASE id \in new
      <4>1. shards'[id] = num[id] /\ num[id] # 0 /\ T(id) # {}
        BY <2>3, <2>5, <2>7, <3>1
      <4> QED
        BY <2>9, <3>1, <4>1
    <3>2. CASE id \notin new /\ T(id) = {}
      <4>1. shards'[id] = 0
        BY <2>3, <2>4, <3>2
      <4> QED
        BY <3>2, <4>1
    <3>3. CASE id \notin new /\ T(id) # {}
      <4>1. shards'[id] = shards[id] /\ shards[id] # 0
        BY <2>3, <2>4, <2>5, <3>3
      <4>2. Up(sh[shards[id]])
        <5>1. PICK old \in SUBSET Symbols : PlanOf(old)
          BY <2>11 DEF PInv, OnePlan
        <5>2. Share(id, streamsOf(old, id))
          BY <5>1 DEF PlanOf
        <5> QED
          BY <4>1, <5>2 DEF Share
      <4> QED
        BY <2>8, <3>3, <4>1, <4>2
    <3> QED
      BY <3>1, <3>2, <3>3
  <2>12. ASSUME ~Ending
         PROVE  \E w \in SUBSET Symbols : PlanOf(w)'
    <3>1. PICK w \in SUBSET Symbols : w = syms
      BY <2>2
    <3>2. ASSUME NEW id \in Ids
          PROVE  Share(id, streamsOf(w, id))'
      <4>1. streamsOf(w, id) = T(id)
        BY <3>1 DEF T
      <4>2. IF streamsOf(w, id) # {}
            THEN shards'[id] # 0 /\ Up(sh'[shards'[id]]) /\ sh'[shards'[id]].desired = streamsOf(w, id)
            ELSE shards'[id] = 0
        BY <2>11, <2>12, <4>1
      <4> QED
        BY <4>2 DEF Share, streamsOf, Up
    <3> QED
      BY <3>2 DEF PlanOf, Ids
  <2> QED
    BY <1>2, <2>10, <2>12 DEF PInv, OnePlan
<1> QED
  BY <1>1, <1>3, <1>4

LEMMA PlanInit ==
  ASSUME Init
  PROVE  PInv
<1>1. AllTold
  BY DEF Init, AllTold, Told, NoShard
<1>2. PlanOf({})
  <2>1. \A id \in Ids : streamsOf({}, id) = {} /\ shards[id] = 0
    BY DEF Init, streamsOf
  <2> QED
    BY <2>1 DEF PlanOf, Share
<1>3. {} \in SUBSET Symbols
  OBVIOUS
<1> QED
  BY <1>1, <1>2, <1>3 DEF PInv, OnePlan

LEMMA PlanStep ==
  ASSUME CInv, PInv, [Next]_vars
  PROVE  PInv'
<1>1. CASE \/ \E syms \in SUBSET Symbols : BeginSet(syms)
           \/ UNCHANGED vars
  <2>1. UNCHANGED <<sh, shards, closed, cancelled>>
    BY <1>1 DEF BeginSet, vars, setVars, closeVars
  <2>2. \A j \in Shard : Told(sh'[j]) /\ sh'[j] = sh[j]
    BY <2>1 DEF PInv, AllTold
  <2>3. shards' = shards /\ (Ending => Ending')
    BY <2>1 DEF Ending
  <2> QED
    BY <2>2, <2>3, PlanStands
<1>2. CASE EndSet
  BY <1>2, PlanReplaced
<1>3. ASSUME NEW i \in Shard, ShardStep(i)
      PROVE  PInv'
  BY <1>3, PlanOfSupervisor
<1>4. ASSUME NEW i \in Shard, ConnFault(i) \/ ConnRecreate(i) \/ Poll(i)
      PROVE  PInv'
  BY <1>4, PlanOfConnection
<1>5. CASE Tick
  BY <1>5, PlanOfClock
<1>6. CASE Close \/ CloseReturn \/ Cancel
  BY <1>6, PlanClosed, PlanCloseReturns, PlanCancelled
<1> QED
  BY <1>1, <1>2, <1>3, <1>4, <1>5, <1>6 DEF Next

LEMMA PlanKept == Spec => [](CInv /\ PInv)
<1>1. Init => CInv /\ PInv
  BY CollectorInit, PlanInit
<1>2. (CInv /\ PInv) /\ [Next]_vars => (CInv /\ PInv)'
  BY CollectorStep, PlanStep
<1> QED
  BY <1>1, <1>2, PTL DEF Spec

\* snapshotDesired, setDesired, pumpLoop: a supervisor dials with, or carries, the
\* set of the version it holds, so that comparing the two versions is enough to
\* find every change of the set, whenever SetSymbols made it.
THEOREM VersionsTell == Spec => []VersionTells
<1>1. CInv /\ PInv => VersionTells
  BY DEF PInv, AllTold, Told, VersionTells
<1> QED
  BY <1>1, PlanKept, PTL

\* SetSymbols: until Close or the end of the context the shards of the map run,
\* and they want the plan of one set of symbols, whatever faults, reconnects and
\* earlier calls came before.
THEOREM MapKeepsOnePlan == Spec => []MapIsOnePlan
<1>1. CInv /\ PInv => MapIsOnePlan
  <2>1. SUFFICES ASSUME PInv, ~Ending
                 PROVE  MapIsOnePlan
    BY DEF MapIsOnePlan
  <2>2. PICK syms \in SUBSET Symbols : PlanOf(syms)
    BY <2>1 DEF PInv, OnePlan
  <2>3. ASSUME NEW id \in Ids
        PROVE  IF id \in planStreams(syms)
               THEN /\ shards[id] # 0 /\ ~sh[shards[id]].stop
                    /\ sh[shards[id]].pc \notin {"none", "done"}
                    /\ sh[shards[id]].desired = streamsOf(syms, id)
               ELSE shards[id] = 0
    <3>1. Share(id, streamsOf(syms, id))
      BY <2>2 DEF PlanOf
    <3>2. id \in planStreams(syms) <=> streamsOf(syms, id) # {}
      BY DEF planStreams
    <3> QED
      BY <3>1, <3>2 DEF Share, Up
  <2> QED
    BY <2>2, <2>3 DEF MapIsOnePlan
<1> QED
  BY <1>1, PlanKept, PTL
=============================================================================
