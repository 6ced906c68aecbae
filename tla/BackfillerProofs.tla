-------------------------- MODULE BackfillerProofs --------------------------
(***************************************************************************)
(* The package backfill and the gate it holds, in three parts.  First the  *)
(* window gate: its two maps agree, for any symbols, intervals and number  *)
(* of callers.  Then the ownership discipline of the backfiller, for every *)
(* set of requests, key lists and shards, every queue size, and every      *)
(* interleaving with Close: none of its properties is inductive by itself; *)
(* they are proved together with the shape of the queue and of the holds.  *)
(* The last part proves the archive sweep, which shares no state with the  *)
(* other two.                                                              *)
(***************************************************************************)
EXTENDS Backfiller, Sweeper, FiniteSetTheorems, TLAPS

-----------------------------------------------------------------------------
(* The window gate.  The argument needs that only finitely many keys of an *)
(* interval are held at a time.                                            *)

HeldFinite == \A iv \in Intervals : IsFiniteSet(HeldKeysOf(iv))

GateInv == GateTypeOK /\ HeldFinite /\ IntervalCountExact

\* The gate's spelling of a caller's key is one of its keys (gate.go:32-34).
LEMMA NormIsKey ==
  ASSUME NEW raw \in RawKey
  PROVE  norm(raw) \in Key /\ norm(raw)[2] \in Intervals
BY GateAssumption DEF RawKey, Key, Symbols, norm

\* An upper-case key is its own spelling: norm is idempotent.
LEMMA KeyIsNormal ==
  ASSUME NEW k \in Key
  PROVE  k \in RawKey /\ norm(k) = k
BY GateAssumption DEF RawKey, Key, Symbols, norm

\* A hold adds its key to the held keys of its interval (Hold).
LEMMA HoldAddsKey ==
  ASSUME GateTypeOK, NEW raw \in RawKey, Hold(raw), NEW iv \in Intervals
  PROVE  HeldKeysOf(iv)' = IF iv = norm(raw)[2] THEN HeldKeysOf(iv) \cup {norm(raw)}
                           ELSE HeldKeysOf(iv)
<1> DEFINE k == norm(raw)
<1>1. k \in Key
  BY NormIsKey
<1>2. keys \in [Key -> Nat] /\ keys' = [keys EXCEPT ![k] = @ + 1]
  BY DEF GateTypeOK, Hold
<1>3. \A j \in Key : keys'[j] > 0 <=> keys[j] > 0 \/ j = k
  BY <1>1, <1>2
<1> QED
  BY <1>1, <1>3 DEF HeldKeysOf

\* A release removes its key when it gives back the last hold (Release).
LEMMA ReleaseRemovesKey ==
  ASSUME GateTypeOK, NEW raw \in RawKey, Release(raw), NEW iv \in Intervals
  PROVE  HeldKeysOf(iv)' = IF iv = norm(raw)[2] /\ keys[norm(raw)] = 1
                           THEN HeldKeysOf(iv) \ {norm(raw)} ELSE HeldKeysOf(iv)
<1> DEFINE k == norm(raw)
<1>1. k \in Key
  BY NormIsKey
<1>2. keys \in [Key -> Nat]
  BY DEF GateTypeOK
<1>3. CASE keys[k] = 0
  BY <1>3 DEF Release, gateVars, HeldKeysOf
<1>4. CASE keys[k] = 1
  <2>1. keys' = [keys EXCEPT ![k] = 0]
    BY <1>4 DEF Release, gateVars
  <2>2. \A j \in Key : keys'[j] > 0 <=> keys[j] > 0 /\ j # k
    BY <1>1, <1>2, <2>1
  <2> QED
    BY <1>1, <1>4, <2>2 DEF HeldKeysOf
<1>5. CASE keys[k] > 1
  <2>1. keys' = [keys EXCEPT ![k] = @ - 1]
    BY <1>1, <1>2, <1>5 DEF Release, gateVars
  <2>2. \A j \in Key : keys'[j] > 0 <=> keys[j] > 0
    BY <1>1, <1>2, <1>5, <2>1
  <2> QED
    BY <1>5, <2>2 DEF HeldKeysOf
<1> QED
  BY <1>1, <1>2, <1>3, <1>4, <1>5

-----------------------------------------------------------------------------
(* The three parts of the invariant, for either method.                    *)

LEMMA InitGateInv == GateInit => GateInv
<1> SUFFICES ASSUME GateInit PROVE GateInv
  OBVIOUS
<1>1. GateTypeOK
  BY DEF GateInit, GateTypeOK
<1>2. \A iv \in Intervals : HeldKeysOf(iv) = {}
  BY DEF GateInit, HeldKeysOf
<1> QED
  BY <1>1, <1>2, FS_EmptySet DEF GateInv, HeldFinite, IntervalCountExact, GateInit

LEMMA HoldKeepsGateInv ==
  ASSUME GateInv, NEW raw \in RawKey, Hold(raw)
  PROVE  GateInv'
<1> DEFINE k == norm(raw)
<1> USE DEF GateInv
<1>1. k \in Key /\ k[2] \in Intervals
  BY NormIsKey
<1>2. GateTypeOK'
  BY <1>1 DEF GateTypeOK, Hold
<1>3. ASSUME NEW iv \in Intervals
      PROVE  /\ IsFiniteSet(HeldKeysOf(iv)')
             /\ byInterv'[iv] = Cardinality(HeldKeysOf(iv)')
  <2>1. IsFiniteSet(HeldKeysOf(iv)) /\ byInterv[iv] = Cardinality(HeldKeysOf(iv))
    BY DEF HeldFinite, IntervalCountExact
  <2>2. CASE iv # k[2]
    BY <1>1, <2>1, <2>2, HoldAddsKey DEF Hold, GateTypeOK
  <2>3. CASE iv = k[2]
    <3>1. HeldKeysOf(iv)' = HeldKeysOf(iv) \cup {k}
      BY <2>3, HoldAddsKey
    <3>2. k \in HeldKeysOf(iv) <=> keys[k] # 0
      BY <1>1, <2>3 DEF HeldKeysOf, GateTypeOK
    <3>3. byInterv'[iv] = IF keys[k] = 0 THEN byInterv[iv] + 1 ELSE byInterv[iv]
      BY <1>1, <2>3 DEF Hold, GateTypeOK
    <3> QED
      BY <2>1, <3>1, <3>2, <3>3, FS_AddElement
  <2> QED
    BY <2>2, <2>3
<1> QED
  BY <1>2, <1>3 DEF HeldFinite, IntervalCountExact

LEMMA ReleaseKeepsGateInv ==
  ASSUME GateInv, NEW raw \in RawKey, Release(raw)
  PROVE  GateInv'
<1> DEFINE k == norm(raw)
<1> USE DEF GateInv
<1>1. k \in Key /\ k[2] \in Intervals /\ keys[k] \in Nat
  BY NormIsKey DEF GateTypeOK
<1>2. GateTypeOK'
  BY <1>1 DEF GateTypeOK, Release, gateVars
<1>3. ASSUME NEW iv \in Intervals
      PROVE  /\ IsFiniteSet(HeldKeysOf(iv)')
             /\ byInterv'[iv] = Cardinality(HeldKeysOf(iv)')
  <2>1. IsFiniteSet(HeldKeysOf(iv)) /\ byInterv[iv] = Cardinality(HeldKeysOf(iv))
    BY DEF HeldFinite, IntervalCountExact
  <2>2. CASE iv # k[2] \/ keys[k] # 1
    <3>1. byInterv'[iv] = byInterv[iv]
      BY <1>1, <2>2 DEF Release, gateVars, GateTypeOK
    <3> QED
      BY <2>1, <2>2, <3>1, ReleaseRemovesKey
  <2>3. CASE iv = k[2] /\ keys[k] = 1
    <3>1. HeldKeysOf(iv)' = HeldKeysOf(iv) \ {k}
      BY <2>3, ReleaseRemovesKey
    <3>2. k \in HeldKeysOf(iv)
      BY <1>1, <2>3 DEF HeldKeysOf
    <3>3. Cardinality(HeldKeysOf(iv)') = byInterv[iv] - 1 /\ IsFiniteSet(HeldKeysOf(iv)')
      BY <2>1, <3>1, <3>2, FS_RemoveElement
    <3>4. Cardinality(HeldKeysOf(iv)') \in Nat
      BY <3>3, FS_CardinalityType
    <3>5. byInterv'[iv] = IF byInterv[iv] <= 1 THEN 0 ELSE byInterv[iv] - 1
      BY <1>1, <2>3 DEF Release, gateVars, GateTypeOK
    <3> QED
      BY <3>3, <3>4, <3>5 DEF GateTypeOK
  <2> QED
    BY <2>2, <2>3
<1> QED
  BY <1>2, <1>3 DEF HeldFinite, IntervalCountExact

LEMMA NextKeepsGateInv == GateInv /\ [GateNext]_gateVars => GateInv'
<1> SUFFICES ASSUME GateInv, [GateNext]_gateVars PROVE GateInv'
  OBVIOUS
<1>1. ASSUME NEW raw \in RawKey, Hold(raw) PROVE GateInv'
  BY <1>1, HoldKeepsGateInv
<1>2. ASSUME NEW raw \in RawKey, Release(raw) PROVE GateInv'
  BY <1>2, ReleaseKeepsGateInv
<1>3. CASE UNCHANGED gateVars
  BY <1>3 DEF gateVars, GateInv, GateTypeOK, HeldFinite, IntervalCountExact, HeldKeysOf
<1> QED
  BY <1>1, <1>2, <1>3 DEF GateNext

-----------------------------------------------------------------------------

(* Type correctness of the gate: no count ever goes negative, whoever      *)
(* releases what and how often.                                            *)
THEOREM GateTypeCorrect == GateSpec => []GateTypeOK
<1>1. GateInv => GateTypeOK
  BY DEF GateInv
<1> QED
  BY <1>1, InitGateInv, NextKeepsGateInv, PTL DEF GateSpec

(* The count of every interval is the number of its held keys, so its      *)
(* kline_ready is suppressed exactly while one of its windows is.          *)
THEOREM GateCountsExact == GateSpec => []IntervalCountExact
<1>1. GateInv => IntervalCountExact
  BY DEF GateInv
<1> QED
  BY <1>1, InitGateInv, NextKeepsGateInv, PTL DEF GateSpec

-----------------------------------------------------------------------------
(* The backfiller. *)

\* A busy runner works on a request.
RunnerHasRequest == runner = "busy" => cur \in Requests

\* The queue holds queued requests, each of them once.
QueueShape ==
  /\ \A i \in 1..Len(reqCh) : pc[reqCh[i]] = "queued"
  /\ \A i, j \in 1..Len(reqCh) : i # j => reqCh[i] # reqCh[j]

\* What a request holds, depending on where its goroutine stands.
HeldShape ==
  \A r \in Requests :
    /\ pc[r] \in Owning \cup {"release"} => rkeys[r] \subseteq Key /\ held[r] \subseteq rkeys[r]
    /\ pc[r] \in Guarded => held[r] = rkeys[r]
    /\ pc[r] \notin Owning \cup {"release"} => held[r] = {}

Shape == TypeOK /\ RunnerHasRequest /\ QueueShape /\ HeldShape

IInv == GateInv /\ Shape /\ OwnedApart /\ GateCountsHolders

USE DEF Owning, Guarded, PCs, Reasons, runVars, Goto, deliver, Unmark, Enter

-----------------------------------------------------------------------------

LEMMA KeysAreRaw == Key \subseteq RawKey
BY KeyIsNormal

\* What a queue of requests is after its head is taken (RunnerTake, DrainTake).
LEMMA TakingTheHead ==
  ASSUME NEW s \in Seq(Requests), s # <<>>
  PROVE  /\ Head(s) = s[1] /\ Head(s) \in Requests /\ 1 \in 1..Len(s)
         /\ Tail(s) \in Seq(Requests) /\ Len(Tail(s)) = Len(s) - 1
         /\ \A i \in 1..Len(Tail(s)) : i + 1 \in 1..Len(s) /\ Tail(s)[i] = s[i + 1]
OBVIOUS

\* A result is counted for repairs only (Request.deliver).
LEMMA DeliverTyped ==
  ASSUME TypeOK, NEW r \in Requests, deliver(r)
  PROVE  answers' \in [Requests -> Nat]
BY DEF TypeOK

\* Appending a request to the queue (the send in Submit).
LEMMA AppendedTyped ==
  ASSUME NEW s \in Seq(Requests), NEW r \in Requests
  PROVE  /\ Append(s, r) \in Seq(Requests) /\ Len(Append(s, r)) = Len(s) + 1
         /\ \A i \in 1..Len(s) : Append(s, r)[i] = s[i]
         /\ Append(s, r)[Len(s) + 1] = r
OBVIOUS

LEMMA TypeStep == IInv /\ [Next]_vars => TypeOK'
<1> SUFFICES ASSUME IInv, [Next]_vars PROVE TypeOK'
  OBVIOUS
<1> USE BackfillerAssumption DEF IInv, Shape, TypeOK
<1>1. ASSUME NEW r \in Requests, NEW ks \in KeyLists \cup {{}}, SubmitColdStart(r, ks)
      PROVE  TypeOK'
  BY <1>1 DEF SubmitColdStart, gateVars, GateTypeOK
<1>2. ASSUME NEW r \in Requests, NEW ks \in KeyLists, SubmitOther(r, ks) PROVE TypeOK'
  BY <1>2 DEF SubmitOther, gateVars, GateTypeOK
<1>3. ASSUME NEW r \in Requests, NEW sh \in Shards, NEW ks \in KeyLists \cup {{}},
             HandleGap(r, sh, ks)
      PROVE  TypeOK'
  BY <1>3 DEF HandleGap, gateVars, GateTypeOK
<1>4. ASSUME NEW sh \in Shards, DebounceElapse(sh) PROVE TypeOK'
  BY <1>4 DEF DebounceElapse, gateVars, GateTypeOK
<1>5. CASE CancelContext \/ CloseStore \/ CloseSignal
  BY <1>5 DEF CancelContext, CloseStore, CloseSignal, gateVars, GateTypeOK
<1>6. ASSUME NEW r \in Requests, CheckClosed(r) PROVE TypeOK'
  <2>1. answers' \in [Requests -> Nat]
    BY <1>6, DeliverTyped DEF CheckClosed
  <2>2. pc' \in [Requests -> PCs]
    BY <1>6 DEF CheckClosed
  <2> QED
    BY <1>6, <2>1, <2>2 DEF CheckClosed, gateVars, GateTypeOK
<1>7. ASSUME NEW r \in Requests, Filter(r) PROVE TypeOK'
  <2>1. {norm(k) : k \in rkeys[r]} \subseteq Key
    BY NormIsKey
  <2>2. answers' \in [Requests -> Nat]
    BY <1>7, DeliverTyped DEF Filter
  <2>3. rkeys' \in [Requests -> SUBSET RawKey] /\ inflight' \subseteq Key
    BY <1>7, <2>1, KeysAreRaw DEF Filter
  <2>4. pc' \in [Requests -> PCs] /\ coldDone' \in BOOLEAN
    BY <1>7 DEF Filter
  <2> QED
    BY <1>7, <2>2, <2>3, <2>4 DEF Filter, gateVars, GateTypeOK
<1>8. ASSUME NEW r \in Requests, HoldNext(r) PROVE TypeOK'
  <2>1. PICK k \in rkeys[r] \ held[r] :
          /\ Hold(k)
          /\ held' = [held EXCEPT ![r] = @ \cup {k}]
          /\ pc' = [pc EXCEPT ![r] = IF held[r] \cup {k} = rkeys[r] THEN "send" ELSE "hold"]
    BY <1>8 DEF HoldNext
  <2>2. k \in Key /\ k \in RawKey
    BY <1>8, KeysAreRaw DEF HoldNext, HeldShape
  <2>3. GateTypeOK'
    BY <2>1, <2>2, HoldKeepsGateInv DEF GateInv
  <2> QED
    BY <1>8, <2>1, <2>2, <2>3 DEF HoldNext
<1>9. ASSUME NEW r \in Requests, Send(r) PROVE TypeOK'
  <2>0. reqCh' = reqCh \/ (Len(reqCh) < QueueSize /\ reqCh' = Append(reqCh, r))
    BY <1>9 DEF Send
  <2>1. reqCh' \in Seq(Requests) /\ Len(reqCh') <= QueueSize
    <3>1. CASE reqCh' = reqCh
      BY <3>1
    <3>2. CASE Len(reqCh) < QueueSize /\ reqCh' = Append(reqCh, r)
      <4>1. Len(reqCh) \in Nat /\ QueueSize \in Nat
        OBVIOUS
      <4> QED
        BY <3>2, <4>1, AppendedTyped
    <3> QED
      BY <2>0, <3>1, <3>2
  <2>2. pc' \in [Requests -> PCs] /\ inflight' \subseteq Key
    BY <1>9 DEF Send
  <2>3. outcome' \in [Requests -> {"none", "processed", "rejected", "drained"}]
    BY <1>9 DEF Send
  <2> QED
    BY <1>9, <2>1, <2>2, <2>3 DEF Send, gateVars, GateTypeOK
<1>10. ASSUME NEW r \in Requests, ReleaseNext(r) PROVE TypeOK'
  <2>1. PICK k \in held[r] : Release(k) /\ held' = [held EXCEPT ![r] = @ \ {k}]
    BY <1>10 DEF ReleaseNext
  <2>2. k \in RawKey
    BY KeysAreRaw
  <2>3. GateTypeOK'
    BY <2>1, <2>2, ReleaseKeepsGateInv DEF GateInv
  <2> QED
    BY <1>10, <2>1, <2>3 DEF ReleaseNext
<1>11. ASSUME NEW r \in Requests, Finish(r) PROVE TypeOK'
  BY <1>11 DEF Finish, gateVars, GateTypeOK
<1>12. CASE RunnerTake
  BY <1>12, TakingTheHead DEF RunnerTake, gateVars, GateTypeOK
<1>13. CASE ProcessEnd \/ ProcessColdDone \/ ProcessUnmark
  <2>1. answers' \in [Requests -> Nat]
    BY <1>13, DeliverTyped DEF ProcessEnd, ProcessColdDone, ProcessUnmark, RunnerHasRequest
  <2>2. pc' \in [Requests -> PCs]
    BY <1>13 DEF ProcessEnd, ProcessColdDone, ProcessUnmark
  <2> QED
    BY <1>13, <2>1, <2>2 DEF ProcessEnd, ProcessColdDone, ProcessUnmark, gateVars, GateTypeOK
<1>17. CASE ProcessHang
  BY <1>17 DEF ProcessHang, gateVars, GateTypeOK
<1>18. CASE ProcessExpire
  <2>1. answers' \in [Requests -> Nat]
    BY <1>18, DeliverTyped DEF ProcessExpire, RunnerHasRequest
  <2>2. pc' \in [Requests -> PCs]
    BY <1>18 DEF ProcessExpire
  <2> QED
    BY <1>18, <2>1, <2>2 DEF ProcessExpire, gateVars, GateTypeOK
<1>14. CASE RunnerStop \/ DrainExit
  BY <1>14 DEF RunnerStop, DrainExit, gateVars, GateTypeOK
<1>15. CASE DrainTake
  BY <1>15, TakingTheHead DEF DrainTake, gateVars, GateTypeOK
<1>16. CASE UNCHANGED vars
  BY <1>16 DEF vars, bfVars, gateVars, GateTypeOK
<1> QED
  BY <1>1, <1>2, <1>3, <1>4, <1>5, <1>6, <1>7, <1>8, <1>9, <1>10, <1>11, <1>12, <1>13,
     <1>14, <1>15, <1>16, <1>17, <1>18 DEF Next, Caller, Owner, Runner

-----------------------------------------------------------------------------
(* The queue.                                                              *)

\* The queue keeps its shape while nobody touches it or its requests.
LEMMA QueueKept ==
  ASSUME TypeOK, QueueShape, UNCHANGED reqCh,
         \A r \in Requests : pc[r] = "queued" => pc'[r] = "queued"
  PROVE  QueueShape'
<1>1. \A i \in 1..Len(reqCh) : reqCh[i] \in Requests
  BY DEF TypeOK
<1>2. \A i \in 1..Len(reqCh) : pc[reqCh[i]] = "queued"
  BY DEF QueueShape
<1>3. \A i \in 1..Len(reqCh) : pc'[reqCh[i]] = "queued"
  BY <1>1, <1>2
<1> QED
  BY <1>3 DEF QueueShape

\* Taking its head, which leaves the queued state, keeps it too.
LEMMA QueueTaken ==
  ASSUME TypeOK, QueueShape, reqCh # <<>>, reqCh' = Tail(reqCh),
         \A r \in Requests \ {Head(reqCh)} : pc'[r] = pc[r]
  PROVE  QueueShape'
<1>1. reqCh \in Seq(Requests)
  BY DEF TypeOK
<1>2. ASSUME NEW i \in 1..Len(Tail(reqCh))
      PROVE  /\ i + 1 \in 1..Len(reqCh) /\ Tail(reqCh)[i] = reqCh[i + 1]
             /\ reqCh[i + 1] \in Requests \ {Head(reqCh)}
  <2>0. Len(Tail(reqCh)) \in Nat /\ i \in Nat /\ i # 0
    BY <1>1, TakingTheHead
  <2>1. i + 1 \in 1..Len(reqCh) /\ Tail(reqCh)[i] = reqCh[i + 1]
    BY <1>1, TakingTheHead
  <2>2. 1 \in 1..Len(reqCh) /\ Head(reqCh) = reqCh[1]
    BY <1>1, TakingTheHead
  <2>3. reqCh[i + 1] # reqCh[1]
    BY <2>0, <2>1, <2>2 DEF QueueShape
  <2>4. reqCh[i + 1] \in Requests
    BY <1>1, <2>1
  <2> QED
    BY <2>1, <2>2, <2>3, <2>4
<1>3. ASSUME NEW i \in 1..Len(Tail(reqCh)) PROVE pc'[Tail(reqCh)[i]] = "queued"
  <2>1. pc[reqCh[i + 1]] = "queued" /\ pc'[reqCh[i + 1]] = pc[reqCh[i + 1]]
    BY <1>2 DEF QueueShape
  <2> QED
    BY <1>2, <2>1
<1>4. \A i, j \in 1..Len(Tail(reqCh)) : i # j => Tail(reqCh)[i] # Tail(reqCh)[j]
  BY <1>2 DEF QueueShape
<1> QED
  BY <1>3, <1>4 DEF QueueShape

\* Appending a request that was not queued keeps it.
LEMMA QueueAppended ==
  ASSUME TypeOK, QueueShape, NEW r \in Requests, pc[r] = "send",
         reqCh' = Append(reqCh, r), pc' = [pc EXCEPT ![r] = "queued"]
  PROVE  QueueShape'
<1>1. reqCh \in Seq(Requests) /\ Len(reqCh) \in Nat /\ pc \in [Requests -> PCs]
  BY DEF TypeOK
<1>2. \A i \in 1..Len(reqCh) :
        reqCh[i] \in Requests /\ reqCh[i] # r /\ reqCh'[i] = reqCh[i]
  BY <1>1, AppendedTyped DEF QueueShape
<1>3. reqCh'[Len(reqCh) + 1] = r /\ Len(reqCh') = Len(reqCh) + 1
  BY <1>1, AppendedTyped
<1>4. \A i \in 1..Len(reqCh') : i \in 1..Len(reqCh) \/ i = Len(reqCh) + 1
  BY <1>1, <1>3
<1>5. \A i \in 1..Len(reqCh') : pc'[reqCh'[i]] = "queued"
  BY <1>1, <1>2, <1>3, <1>4 DEF QueueShape
<1>6. \A i, j \in 1..Len(reqCh') : i # j => reqCh'[i] # reqCh'[j]
  BY <1>2, <1>3, <1>4 DEF QueueShape
<1> QED
  BY <1>5, <1>6 DEF QueueShape

LEMMA QueueStep == IInv /\ [Next]_vars => RunnerHasRequest' /\ QueueShape'
<1> SUFFICES ASSUME IInv, [Next]_vars PROVE RunnerHasRequest' /\ QueueShape'
  OBVIOUS
<1> USE DEF IInv, Shape, RunnerHasRequest
<1>0. pc \in [Requests -> PCs] /\ reqCh \in Seq(Requests)
  BY DEF TypeOK
<1>1. ASSUME NEW r \in Requests, NEW ks \in KeyLists \cup {{}},
             \/ SubmitColdStart(r, ks)
             \/ SubmitOther(r, ks)
             \/ \E sh \in Shards : HandleGap(r, sh, ks)
      PROVE  RunnerHasRequest' /\ QueueShape'
  BY <1>0, <1>1, QueueKept DEF SubmitColdStart, SubmitOther, HandleGap
<1>2. CASE CancelContext \/ CloseStore \/ CloseSignal \/ \E sh \in Shards : DebounceElapse(sh)
  BY <1>2, QueueKept DEF CancelContext, CloseStore, CloseSignal, DebounceElapse
<1>3. ASSUME NEW r \in Requests,
             CheckClosed(r) \/ Filter(r) \/ HoldNext(r) \/ ReleaseNext(r)
      PROVE  RunnerHasRequest' /\ QueueShape'
  BY <1>0, <1>3, QueueKept DEF CheckClosed, Filter, HoldNext, ReleaseNext
<1>4. ASSUME NEW r \in Requests, Finish(r) PROVE RunnerHasRequest' /\ QueueShape'
  BY <1>0, <1>4, QueueKept DEF Finish
<1>5. ASSUME NEW r \in Requests, Send(r) PROVE RunnerHasRequest' /\ QueueShape'
  <2>1. CASE UNCHANGED reqCh /\ pc' = [pc EXCEPT ![r] = "release"]
    BY <1>0, <1>5, <2>1, QueueKept DEF Send
  <2>2. CASE reqCh' = Append(reqCh, r) /\ pc' = [pc EXCEPT ![r] = "queued"]
    BY <1>5, <2>2, QueueAppended DEF Send
  <2> QED
    BY <1>5, <2>1, <2>2 DEF Send
<1>6. CASE RunnerTake
  BY <1>0, <1>6, QueueTaken, TakingTheHead DEF RunnerTake
<1>7. CASE DrainTake
  BY <1>0, <1>7, QueueTaken, TakingTheHead DEF DrainTake
<1>8. CASE ProcessEnd \/ ProcessColdDone \/ ProcessUnmark
  BY <1>0, <1>8, QueueKept DEF ProcessEnd, ProcessColdDone, ProcessUnmark
<1>11. CASE ProcessHang \/ ProcessExpire
  BY <1>0, <1>11, QueueKept DEF ProcessHang, ProcessExpire
<1>9. CASE RunnerStop \/ DrainExit
  BY <1>9, QueueKept DEF RunnerStop, DrainExit
<1>10. CASE UNCHANGED vars
  BY <1>10, QueueKept DEF vars, bfVars
<1> QED
  BY <1>1, <1>2, <1>3, <1>4, <1>5, <1>6, <1>7, <1>8, <1>9, <1>10, <1>11
     DEF Next, Caller, Owner, Runner

-----------------------------------------------------------------------------
(* The holds.                                                              *)

LEMMA HeldStep == IInv /\ [Next]_vars => HeldShape'
<1> SUFFICES ASSUME IInv, [Next]_vars PROVE HeldShape'
  OBVIOUS
<1> USE DEF IInv, Shape, HeldShape
<1>0. /\ pc \in [Requests -> PCs]
      /\ rkeys \in [Requests -> SUBSET RawKey] /\ held \in [Requests -> SUBSET Key]
      /\ reqCh \in Seq(Requests)
  BY DEF TypeOK
<1>1. ASSUME NEW r \in Requests, NEW ks \in KeyLists \cup {{}},
             \/ SubmitColdStart(r, ks)
             \/ SubmitOther(r, ks)
             \/ \E sh \in Shards : HandleGap(r, sh, ks)
      PROVE  HeldShape'
  BY <1>0, <1>1 DEF SubmitColdStart, SubmitOther, HandleGap
<1>2. CASE CancelContext \/ CloseStore \/ CloseSignal \/ \E sh \in Shards : DebounceElapse(sh)
  BY <1>0, <1>2 DEF CancelContext, CloseStore, CloseSignal, DebounceElapse
<1>3. ASSUME NEW r \in Requests, CheckClosed(r) \/ Finish(r) PROVE HeldShape'
  BY <1>0, <1>3 DEF CheckClosed, Finish
<1>4. ASSUME NEW r \in Requests, Filter(r) PROVE HeldShape'
  <2>1. {norm(k) : k \in rkeys[r]} \subseteq Key
    BY <1>0, NormIsKey
  <2>2. rkeys' = [rkeys EXCEPT ![r] = rkeys'[r]] /\ rkeys'[r] \subseteq Key
    BY <1>0, <1>4, <2>1 DEF Filter
  <2>3. held[r] = {} /\ held' = held
    BY <1>0, <1>4 DEF Filter
  <2>4. pc' = [pc EXCEPT ![r] = "done"] \/ pc' = [pc EXCEPT ![r] = "hold"]
    BY <1>4 DEF Filter
  <2> QED
    BY <1>0, <2>2, <2>3, <2>4
<1>5. ASSUME NEW r \in Requests, HoldNext(r) PROVE HeldShape'
  BY <1>0, <1>5 DEF HoldNext
<1>6. ASSUME NEW r \in Requests, ReleaseNext(r) PROVE HeldShape'
  BY <1>0, <1>6 DEF ReleaseNext
<1>7. ASSUME NEW r \in Requests, Send(r) PROVE HeldShape'
  BY <1>0, <1>7 DEF Send
<1>8. CASE RunnerTake \/ DrainTake
  <2>1. Head(reqCh) \in Requests /\ pc[Head(reqCh)] = "queued"
    BY <1>0, <1>8, TakingTheHead DEF RunnerTake, DrainTake, QueueShape
  <2> QED
    BY <1>0, <1>8, <2>1 DEF RunnerTake, DrainTake
<1>9. CASE ProcessEnd \/ ProcessColdDone \/ ProcessUnmark
  BY <1>0, <1>9 DEF ProcessEnd, ProcessColdDone, ProcessUnmark, RunnerHasRequest
<1>11. CASE ProcessHang \/ ProcessExpire
  BY <1>0, <1>11 DEF ProcessHang, ProcessExpire, RunnerHasRequest
<1>10. CASE RunnerStop \/ DrainExit \/ UNCHANGED vars
  BY <1>0, <1>10 DEF RunnerStop, DrainExit, vars, bfVars
<1> QED
  BY <1>1, <1>2, <1>3, <1>4, <1>5, <1>6, <1>7, <1>8, <1>9, <1>10, <1>11
     DEF Next, Caller, Owner, Runner

-----------------------------------------------------------------------------
(* Ownership.                                                              *)

\* Ownership does not change while no request starts or stops owning keys.
LEMMA OwnershipKept ==
  ASSUME OwnedApart, UNCHANGED inflight,
         \A r \in Requests : /\ pc'[r] \in Owning <=> pc[r] \in Owning
                             /\ pc[r] \in Owning => rkeys'[r] = rkeys[r]
  PROVE  OwnedApart'
<1>1. {q \in Requests : pc'[q] \in Owning} = {q \in Requests : pc[q] \in Owning}
  OBVIOUS
<1>2. UNION {rkeys'[r] : r \in {q \in Requests : pc'[q] \in Owning}}
        = UNION {rkeys[r] : r \in {q \in Requests : pc[q] \in Owning}}
  BY <1>1
<1> QED
  BY <1>2 DEF OwnedApart

\* A request that gives up its keys takes exactly them out of flight, because
\* no other request owns one of them (releaseKeys).
LEMMA OwnershipDropped ==
  ASSUME TypeOK, OwnedApart, NEW r \in Requests, pc[r] \in Owning,
         inflight' = inflight \ rkeys[r], UNCHANGED rkeys,
         pc' = [pc EXCEPT ![r] = "release"]
  PROVE  OwnedApart'
<1>1. \A q \in Requests : pc'[q] \in Owning <=> q # r /\ pc[q] \in Owning
  BY DEF TypeOK
<1>2. inflight = UNION {rkeys[q] : q \in {p \in Requests : pc[p] \in Owning}}
  BY DEF OwnedApart
<1>3. \A q \in Requests : q # r /\ pc[q] \in Owning => rkeys[q] \cap rkeys[r] = {}
  BY DEF OwnedApart
<1>4. inflight' = UNION {rkeys'[q] : q \in {p \in Requests : pc'[p] \in Owning}}
  BY <1>1, <1>2, <1>3
<1> QED
  BY <1>1, <1>4 DEF OwnedApart

LEMMA OwnedStep == IInv /\ [Next]_vars => OwnedApart'
<1> SUFFICES ASSUME IInv, [Next]_vars PROVE OwnedApart'
  OBVIOUS
<1> USE DEF IInv, Shape
<1>0. /\ pc \in [Requests -> PCs] /\ rkeys \in [Requests -> SUBSET RawKey]
      /\ reqCh \in Seq(Requests)
  BY DEF TypeOK
<1>1. ASSUME NEW r \in Requests, NEW ks \in KeyLists \cup {{}},
             \/ SubmitColdStart(r, ks)
             \/ SubmitOther(r, ks)
             \/ \E sh \in Shards : HandleGap(r, sh, ks)
      PROVE  OwnedApart'
  BY <1>0, <1>1, OwnershipKept DEF SubmitColdStart, SubmitOther, HandleGap
<1>2. CASE CancelContext \/ CloseStore \/ CloseSignal \/ \E sh \in Shards : DebounceElapse(sh)
  BY <1>2, OwnershipKept DEF CancelContext, CloseStore, CloseSignal, DebounceElapse
<1>3. ASSUME NEW r \in Requests, CheckClosed(r) \/ HoldNext(r) \/ ReleaseNext(r) \/ Finish(r)
      PROVE  OwnedApart'
  BY <1>0, <1>3, OwnershipKept DEF CheckClosed, HoldNext, ReleaseNext, Finish
<1>4. ASSUME NEW r \in Requests, Filter(r) PROVE OwnedApart'
  <2> DEFINE fresh == {norm(k) : k \in rkeys[r]} \ inflight
  <2>1. /\ pc[r] = "filter"
        /\ rkeys' = [rkeys EXCEPT ![r] = fresh]
        /\ inflight' = inflight \cup fresh
        /\ \/ fresh = {} /\ pc' = [pc EXCEPT ![r] = "done"]
           \/ pc' = [pc EXCEPT ![r] = "hold"]
    BY <1>4 DEF Filter
  <2> HIDE DEF fresh
  <2>2. inflight = UNION {rkeys[q] : q \in {p \in Requests : pc[p] \in Owning}}
    BY DEF OwnedApart
  <2>3. fresh \cap inflight = {}
    BY DEF fresh
  <2>4. \A q \in Requests \ {r} : pc'[q] = pc[q] /\ rkeys'[q] = rkeys[q]
    BY <1>0, <2>1
  <2>5. rkeys'[r] = fresh /\ pc[r] \notin Owning
    BY <1>0, <2>1
  <2>6. CASE fresh = {} /\ pc' = [pc EXCEPT ![r] = "done"]
    <3>1. inflight' = inflight /\ \A q \in Requests : pc'[q] \in Owning <=> pc[q] \in Owning
      BY <1>0, <2>1, <2>6
    <3> QED
      BY <2>4, <2>5, <3>1, OwnershipKept
  <2>7. CASE pc' = [pc EXCEPT ![r] = "hold"]
    <3>1. \A q \in Requests : pc'[q] \in Owning <=> q = r \/ pc[q] \in Owning
      BY <1>0, <2>7
    <3>2. inflight' = UNION {rkeys'[q] : q \in {p \in Requests : pc'[p] \in Owning}}
      BY <2>1, <2>2, <2>4, <2>5, <3>1
    <3>3. \A q \in Requests \ {r} : pc[q] \in Owning => rkeys[q] \cap fresh = {}
      BY <2>2, <2>3
    <3>4. \A p, q \in Requests :
            p # q /\ pc'[p] \in Owning /\ pc'[q] \in Owning => rkeys'[p] \cap rkeys'[q] = {}
      BY <2>4, <2>5, <3>1, <3>3 DEF OwnedApart
    <3> QED
      BY <3>2, <3>4 DEF OwnedApart
  <2> QED
    BY <2>1, <2>6, <2>7
<1>5. ASSUME NEW r \in Requests, Send(r) PROVE OwnedApart'
  <2>1. CASE pc' = [pc EXCEPT ![r] = "queued"] /\ UNCHANGED inflight
    BY <1>0, <1>5, <2>1, OwnershipKept DEF Send
  <2>2. CASE pc' = [pc EXCEPT ![r] = "release"] /\ inflight' = inflight \ rkeys[r]
    BY <1>0, <1>5, <2>2, OwnershipDropped DEF Send
  <2> QED
    BY <1>5, <2>1, <2>2 DEF Send
<1>6. CASE RunnerTake
  <2>1. Head(reqCh) \in Requests /\ pc[Head(reqCh)] = "queued"
    BY <1>0, <1>6, TakingTheHead DEF RunnerTake, QueueShape
  <2> QED
    BY <1>0, <1>6, <2>1, OwnershipKept DEF RunnerTake
<1>7. CASE DrainTake
  <2>1. Head(reqCh) \in Requests /\ pc[Head(reqCh)] = "queued"
    BY <1>0, <1>7, TakingTheHead DEF DrainTake, QueueShape
  <2> QED
    BY <1>0, <1>7, <2>1, OwnershipDropped DEF DrainTake
<1>8. CASE ProcessEnd \/ ProcessColdDone
  BY <1>0, <1>8, OwnershipKept DEF ProcessEnd, ProcessColdDone
<1>11. CASE ProcessHang \/ ProcessExpire
  BY <1>0, <1>11, OwnershipKept DEF ProcessHang, ProcessExpire
<1>9. CASE ProcessUnmark
  BY <1>0, <1>9, OwnershipDropped DEF ProcessUnmark, RunnerHasRequest
<1>10. CASE RunnerStop \/ DrainExit \/ UNCHANGED vars
  BY <1>10, OwnershipKept DEF RunnerStop, DrainExit, vars, bfVars
<1> QED
  BY <1>1, <1>2, <1>3, <1>4, <1>5, <1>6, <1>7, <1>8, <1>9, <1>10, <1>11
     DEF Next, Caller, Owner, Runner

-----------------------------------------------------------------------------
(* The gate's counts.                                                      *)

Holders(k) == {r \in Requests : k \in held[r]}

LEMMA HoldersFinite ==
  ASSUME NEW k PROVE IsFiniteSet(Holders(k)) /\ Cardinality(Holders(k)) \in Nat
BY BackfillerAssumption, FS_Subset, FS_CardinalityType DEF Holders

\* One more request holds the key, and the gate counts one more.
LEMMA CountsAfterHold ==
  ASSUME IInv, NEW r \in Requests, NEW k \in Key, k \notin held[r], Hold(k),
         held' = [held EXCEPT ![r] = @ \cup {k}]
  PROVE  GateCountsHolders'
<1> USE DEF IInv, Shape
<1>1. norm(k) = k /\ held \in [Requests -> SUBSET Key] /\ keys \in [Key -> Nat]
  BY KeyIsNormal DEF TypeOK, GateTypeOK
<1>2. keys' = [keys EXCEPT ![k] = @ + 1]
  BY <1>1 DEF Hold
<1>3. Holders(k)' = Holders(k) \cup {r} /\ r \notin Holders(k)
  BY <1>1 DEF Holders
<1>4. \A j \in Key \ {k} : Holders(j)' = Holders(j)
  BY <1>1 DEF Holders
<1>5. keys[k] = Cardinality(Holders(k)) /\ \A j \in Key : keys[j] = Cardinality(Holders(j))
  BY DEF GateCountsHolders, Holders
<1>6. keys'[k] = Cardinality(Holders(k)')
  <2> DEFINE Q == Holders(k)
  <2>1. IsFiniteSet(Q) /\ r \notin Q
    BY <1>3, HoldersFinite
  <2> HIDE DEF Q
  <2>2. Cardinality(Q \cup {r}) = Cardinality(Q) + 1
    BY <2>1, FS_AddElement
  <2>3. keys'[k] = keys[k] + 1
    BY <1>1, <1>2
  <2> QED
    BY <1>3, <1>5, <2>2, <2>3 DEF Q
<1>7. \A j \in Key \ {k} : keys'[j] = Cardinality(Holders(j)')
  BY <1>1, <1>2, <1>4, <1>5
<1> QED
  BY <1>6, <1>7 DEF GateCountsHolders, Holders

\* One request less holds the key, and the gate counts one less.
LEMMA CountsAfterRelease ==
  ASSUME IInv, NEW r \in Requests, NEW k \in Key, k \in held[r], Release(k),
         held' = [held EXCEPT ![r] = @ \ {k}]
  PROVE  GateCountsHolders'
<1> USE DEF IInv, Shape
<1>1. norm(k) = k /\ held \in [Requests -> SUBSET Key] /\ keys \in [Key -> Nat]
  BY KeyIsNormal DEF TypeOK, GateTypeOK
<1>2. Holders(k)' = Holders(k) \ {r} /\ r \in Holders(k)
  BY <1>1 DEF Holders
<1>3. \A j \in Key \ {k} : Holders(j)' = Holders(j)
  BY <1>1 DEF Holders
<1>4. \A j \in Key : keys[j] = Cardinality(Holders(j))
  BY DEF GateCountsHolders, Holders
<1>5. Cardinality(Holders(k)') = keys[k] - 1
  BY <1>2, <1>4, HoldersFinite, FS_RemoveElement
<1>6. keys[k] # 0
  BY <1>2, <1>4, HoldersFinite, FS_EmptySet
<1>7. keys' = [keys EXCEPT ![k] = @ - 1]
  BY <1>1, <1>6 DEF Release, gateVars
<1>8. keys'[k] = Cardinality(Holders(k)')
  BY <1>1, <1>5, <1>7
<1>9. \A j \in Key \ {k} : keys'[j] = Cardinality(Holders(j)')
  BY <1>1, <1>3, <1>4, <1>7
<1> QED
  BY <1>8, <1>9 DEF GateCountsHolders, Holders

LEMMA CountStep == IInv /\ [Next]_vars => GateInv' /\ GateCountsHolders'
<1> SUFFICES ASSUME IInv, [Next]_vars PROVE GateInv' /\ GateCountsHolders'
  OBVIOUS
<1> USE DEF IInv, Shape
<1>1. ASSUME NEW r \in Requests, HoldNext(r) PROVE GateInv' /\ GateCountsHolders'
  <2>1. PICK k \in rkeys[r] \ held[r] : Hold(k) /\ held' = [held EXCEPT ![r] = @ \cup {k}]
    BY <1>1 DEF HoldNext
  <2>2. k \in Key /\ k \in RawKey /\ k \notin held[r]
    BY <1>1, <2>1, KeysAreRaw DEF HoldNext, HeldShape
  <2> QED
    BY <2>1, <2>2, HoldKeepsGateInv, CountsAfterHold
<1>2. ASSUME NEW r \in Requests, ReleaseNext(r) PROVE GateInv' /\ GateCountsHolders'
  <2>1. PICK k \in held[r] : Release(k) /\ held' = [held EXCEPT ![r] = @ \ {k}]
    BY <1>2 DEF ReleaseNext
  <2>2. k \in Key /\ k \in RawKey
    BY KeysAreRaw DEF TypeOK
  <2> QED
    BY <2>1, <2>2, ReleaseKeepsGateInv, CountsAfterRelease
<1>3. CASE UNCHANGED gateVars /\ UNCHANGED held
  <2>1. GateInv'
    BY <1>3, NextKeepsGateInv
  <2> QED
    BY <1>3, <2>1 DEF GateCountsHolders, gateVars
<1>4. \/ UNCHANGED gateVars /\ UNCHANGED held
      \/ \E r \in Requests : HoldNext(r) \/ ReleaseNext(r)
  BY DEF Next, Caller, Owner, Runner, SubmitColdStart, SubmitOther, HandleGap, DebounceElapse,
         CancelContext, CloseStore, CloseSignal, CheckClosed, Filter, Send, Finish, RunnerTake,
         ProcessEnd, ProcessHang, ProcessExpire, ProcessColdDone, ProcessUnmark, RunnerStop,
         DrainTake, DrainExit, vars, bfVars
<1> QED
  BY <1>1, <1>2, <1>3, <1>4

-----------------------------------------------------------------------------

LEMMA InitIInv == Init => IInv
<1> SUFFICES ASSUME Init PROVE IInv
  OBVIOUS
<1> USE DEF Init
<1>1. GateInv
  BY InitGateInv
<1>2. TypeOK
  <2>1. reqCh \in Seq(Requests) /\ Len(reqCh) <= QueueSize
    BY BackfillerAssumption
  <2>2. /\ pc \in [Requests -> PCs] /\ reason \in [Requests -> Reasons]
        /\ rkeys \in [Requests -> SUBSET RawKey] /\ held \in [Requests -> SUBSET Key]
        /\ answers \in [Requests -> Nat]
        /\ outcome \in [Requests -> {"none", "processed", "rejected", "drained"}]
    OBVIOUS
  <2> QED
    BY <1>1, <2>1, <2>2 DEF TypeOK, GateInv
<1>3. RunnerHasRequest /\ QueueShape /\ HeldShape
  BY DEF RunnerHasRequest, QueueShape, HeldShape
<1>4. {q \in Requests : pc[q] \in Owning} = {}
  OBVIOUS
<1>5. OwnedApart
  BY <1>4 DEF OwnedApart
<1>6. \A k \in Key : {r \in Requests : k \in held[r]} = {} /\ keys[k] = 0
  BY DEF GateInit
<1>7. GateCountsHolders
  BY <1>6, FS_EmptySet DEF GateCountsHolders
<1> QED
  BY <1>1, <1>2, <1>3, <1>5, <1>7 DEF IInv, Shape

LEMMA NextIInv == IInv /\ [Next]_vars => IInv'
BY TypeStep, QueueStep, HeldStep, OwnedStep, CountStep DEF IInv, Shape

LEMMA Invariance == Spec => []IInv
BY InitIInv, NextIInv, PTL DEF Spec

\* A key that some request holds is held by the gate.
LEMMA HeldIsHeld ==
  ASSUME IInv, NEW r \in Requests, NEW k \in held[r]
  PROVE  HeldWindow(k)
<1>1. k \in Key /\ norm(k) = k
  BY KeyIsNormal DEF IInv, Shape, TypeOK
<1>2. keys[k] = Cardinality(Holders(k)) /\ r \in Holders(k)
  BY <1>1 DEF IInv, GateCountsHolders, Holders
<1>3. Cardinality(Holders(k)) # 0 /\ Cardinality(Holders(k)) \in Nat
  BY <1>2, HoldersFinite, FS_EmptySet
<1> QED
  BY <1>1, <1>2, <1>3 DEF HeldWindow

\* With no hold left the gate is open for every interval.
LEMMA NothingHeld ==
  ASSUME IInv, \A r \in Requests : held[r] = {}
  PROVE  \A iv \in Intervals : ~HeldInterval(iv)
<1>1. \A k \in Key : {r \in Requests : k \in held[r]} = {}
  OBVIOUS
<1>2. \A k \in Key : keys[k] = 0
  BY <1>1, FS_EmptySet DEF IInv, GateCountsHolders
<1>3. \A iv \in Intervals : HeldKeysOf(iv) = {}
  BY <1>2 DEF HeldKeysOf
<1>4. \A iv \in Intervals : byInterv[iv] = 0
  BY <1>3, FS_EmptySet DEF IInv, GateInv, IntervalCountExact
<1> QED
  BY <1>4 DEF HeldInterval

-----------------------------------------------------------------------------

(* Type correctness of the backfiller: the queue never exceeds its         *)
(* capacity and no count of the gate goes negative.                        *)
THEOREM TypeCorrect == Spec => []TypeOK
<1>1. IInv => TypeOK
  BY DEF IInv, Shape
<1> QED
  BY <1>1, Invariance, PTL

(* Two requests never own the same key, and inflight is exactly what the   *)
(* live requests own (Submit and releaseKeys).                             *)
THEOREM OwnedOnce == Spec => []KeysOwnedOnce
<1>1. IInv => KeysOwnedOnce
  BY DEF IInv, Shape, KeysOwnedOnce
<1> QED
  BY <1>1, Invariance, PTL

(* The gate counts exactly the requests that still owe a release.          *)
THEOREM CountsHolders == Spec => []GateCountsHolders
<1>1. IInv => GateCountsHolders
  BY DEF IInv
<1> QED
  BY <1>1, Invariance, PTL

(* The keys of a request are behind the gate from the end of its Submit to *)
(* the moment it releases them, whatever other requests release.           *)
THEOREM OwnedHeld == Spec => []OwnedKeysHeld
<1>1. IInv => OwnedKeysHeld
  BY HeldIsHeld DEF OwnedKeysHeld, IInv, Shape, HeldShape
<1> QED
  BY <1>1, Invariance, PTL

(* No path through Submit, process and drainRelease leaks a hold.          *)
THEOREM NoHoldLeaked == Spec => []NothingHeldAtRest
<1>1. IInv => NothingHeldAtRest
  BY NothingHeld DEF NothingHeldAtRest, IInv, Shape, HeldShape
<1> QED
  BY <1>1, Invariance, PTL
-----------------------------------------------------------------------------
(* How a request ends. *)

\* The results a request has been sent, depending on where its goroutine stands.
Answered(r) ==
  LET due == IF reason[r] = "repair" THEN 1 ELSE 0 IN
    /\ pc[r] \in {"idle", "submit", "filter", "hold", "send", "queued", "process", "hung"}
         => answers[r] = 0
    /\ pc[r] \in {"processed", "done"} => answers[r] = due
    /\ pc[r] = "release" =>
         /\ outcome[r] = "processed" => answers[r] = due
         /\ outcome[r] # "processed" => answers[r] = 0

\* What a release says of readiness and of the runner.
Released(r) ==
  pc[r] = "release" =>
    /\ outcome[r] \in {"processed", "rejected", "drained"}
    /\ outcome[r] = "drained" => stopping
    /\ outcome[r] = "processed" /\ reason[r] = "cold_start" => coldDone

EndShape ==
  /\ \A r \in Requests : Answered(r) /\ Released(r)
  /\ runner \in {"draining", "exited"} => stopping
  /\ ReadyOnItsWay

\* A step that leaves a request where it is leaves its answers.
LEMMA EndKept ==
  ASSUME NEW r \in Requests, Answered(r), Released(r),
         pc'[r] = pc[r], reason'[r] = reason[r], outcome'[r] = outcome[r],
         answers'[r] = answers[r], stopping => stopping', coldDone => coldDone'
  PROVE  Answered(r)' /\ Released(r)'
<1>1. Answered(r)'
  BY DEF Answered
<1>2. Released(r)'
  BY DEF Released
<1> QED
  BY <1>1, <1>2

\* A step that neither ends the cold start nor begins one keeps it on its way.
LEMMA OnItsWay ==
  ASSUME ReadyOnItsWay, UNCHANGED <<coldSubmitted, reason>>,
         closed => closed', stopping => stopping', coldDone => coldDone',
         \A r \in Requests :
           reason[r] = "cold_start" /\ pc[r] \notin {"idle", "done"}
             => pc'[r] \notin {"idle", "done"} \/ coldDone' \/ closed' \/ stopping'
  PROVE  ReadyOnItsWay'
BY DEF ReadyOnItsWay, Ready

\* What a step of request r leaves: where the others stand, and their answers.
LEMMA Moved ==
  ASSUME TypeOK, NEW r \in Requests, NEW l \in PCs, Goto(r, l)
  PROVE  pc'[r] = l /\ \A q \in Requests \ {r} : pc'[q] = pc[q]
BY DEF TypeOK

LEMMA Delivered ==
  ASSUME TypeOK, NEW r \in Requests, deliver(r)
  PROVE  /\ answers[r] = 0 => answers'[r] = IF reason[r] = "repair" THEN 1 ELSE 0
         /\ \A q \in Requests \ {r} : answers'[q] = answers[q]
BY DEF TypeOK

\* A goroutine enters Submit.
LEMMA EnterEnds ==
  ASSUME TypeOK, EndShape, NEW r \in Requests, NEW why \in Reasons, NEW ks, Enter(r, why, ks),
         UNCHANGED <<runner, closed, stopping, coldDone, outcome, answers>>,
         coldSubmitted' = coldSubmitted \/ why = "cold_start"
  PROVE  EndShape'
<1>1. /\ pc[r] = "idle" /\ pc'[r] = "submit" /\ reason'[r] = why
      /\ \A q \in Requests \ {r} : pc'[q] = pc[q] /\ reason'[q] = reason[q]
  BY DEF TypeOK
<1>2. ASSUME NEW q \in Requests PROVE Answered(q)' /\ Released(q)'
  <2>1. CASE q = r
    <3>1. answers'[r] = 0
      BY <1>1 DEF EndShape, Answered
    <3> QED
      BY <1>1, <2>1, <3>1 DEF Answered, Released
  <2>2. CASE q # r
    BY <1>1, <2>2, EndKept DEF EndShape
  <2> QED
    BY <2>1, <2>2
<1>3. ReadyOnItsWay'
  <2>1. CASE why = "cold_start"
    BY <1>1, <2>1 DEF ReadyOnItsWay
  <2>2. CASE coldSubmitted' = coldSubmitted
    BY <1>1, <2>2 DEF EndShape, ReadyOnItsWay, Ready
  <2> QED
    BY <2>1, <2>2
<1> QED
  BY <1>2, <1>3 DEF EndShape

\* A step of the goroutine that owns r, and of no other request.
LEMMA OwnerEnds ==
  ASSUME EndShape, NEW r \in Requests, Answered(r)', Released(r)',
         UNCHANGED <<coldSubmitted, reason>>,
         closed => closed', stopping => stopping', coldDone => coldDone',
         runner' \in {"draining", "exited"} => stopping',
         \A q \in Requests \ {r} :
           pc'[q] = pc[q] /\ outcome'[q] = outcome[q] /\ answers'[q] = answers[q],
         reason[r] = "cold_start" /\ pc'[r] \in {"idle", "done"}
           => pc[r] \in {"idle", "done"} \/ coldDone' \/ closed' \/ stopping'
  PROVE  EndShape'
<1>1. ASSUME NEW q \in Requests PROVE Answered(q)' /\ Released(q)'
  <2>1. CASE q = r
    BY <2>1
  <2>2. CASE q # r
    BY <2>2, EndKept DEF EndShape
  <2> QED
    BY <2>1, <2>2
<1>2. ReadyOnItsWay'
  BY OnItsWay DEF EndShape
<1> QED
  BY <1>1, <1>2 DEF EndShape

LEMMA EndStep == IInv /\ EndShape /\ [Next]_vars => EndShape'
<1> SUFFICES ASSUME IInv, EndShape, [Next]_vars PROVE EndShape'
  OBVIOUS
<1>0. /\ TypeOK /\ RunnerHasRequest /\ QueueShape
      /\ pc \in [Requests -> PCs] /\ reqCh \in Seq(Requests)
      /\ outcome \in [Requests -> {"none", "processed", "rejected", "drained"}]
      /\ answers \in [Requests -> Nat]
  BY DEF IInv, Shape, TypeOK
<1>s. \A r \in Requests : Answered(r) /\ Released(r)
  BY DEF EndShape
<1>1. ASSUME NEW r \in Requests, NEW ks \in KeyLists \cup {{}}, SubmitColdStart(r, ks)
      PROVE  EndShape'
  <2>1. CASE ks = {}
    BY <1>1, <2>1, <1>s, EndKept DEF SubmitColdStart, EndShape, ReadyOnItsWay, Ready
  <2>2. CASE ks # {}
    BY <1>0, <1>1, <2>2, EnterEnds DEF SubmitColdStart
  <2> QED
    BY <2>1, <2>2
<1>2. ASSUME NEW r \in Requests, NEW ks \in KeyLists, SubmitOther(r, ks) PROVE EndShape'
  <2>1. PICK why \in {"universe_add", "repair"} : Enter(r, why, ks)
    BY <1>2 DEF SubmitOther
  <2> QED
    BY <1>0, <1>2, <2>1, EnterEnds DEF SubmitOther
<1>3. ASSUME NEW r \in Requests, NEW sh \in Shards, NEW ks \in KeyLists \cup {{}},
             HandleGap(r, sh, ks)
      PROVE  EndShape'
  <2>1. CASE ks = {}
    BY <1>3, <2>1, <1>s, EndKept DEF HandleGap, EndShape, ReadyOnItsWay, Ready
  <2>2. CASE ks # {}
    BY <1>0, <1>3, <2>2, EnterEnds DEF HandleGap
  <2> QED
    BY <2>1, <2>2
<1>4. CASE CancelContext \/ CloseStore \/ CloseSignal \/ \E sh \in Shards : DebounceElapse(sh)
  <2>1. /\ UNCHANGED <<pc, reason, outcome, answers, runner, coldSubmitted, coldDone>>
        /\ (stopping => stopping') /\ (closed => closed')
    BY <1>4 DEF CancelContext, CloseStore, CloseSignal, DebounceElapse
  <2>2. \A r \in Requests : Answered(r)' /\ Released(r)'
    BY <1>s, <2>1, EndKept
  <2> QED
    BY <2>1, <2>2, OnItsWay DEF EndShape
<1>5. ASSUME NEW r \in Requests, CheckClosed(r) PROVE EndShape'
  <2>1. CASE closed /\ deliver(r) /\ Goto(r, "done")
    <3>1. pc'[r] = "done" /\ \A q \in Requests \ {r} : pc'[q] = pc[q] /\ answers'[q] = answers[q]
      BY <1>0, <2>1, Moved, Delivered
    <3>2. answers'[r] = IF reason[r] = "repair" THEN 1 ELSE 0
      <4>1. answers[r] = 0
        BY <1>s, <1>5 DEF CheckClosed, Answered
      <4> QED
        BY <1>0, <2>1, <4>1, Delivered
    <3>3. Answered(r)' /\ Released(r)'
      BY <1>5, <3>1, <3>2 DEF CheckClosed, Answered, Released
    <3> QED
      BY <1>5, <2>1, <3>1, <3>3, OwnerEnds DEF CheckClosed, EndShape
  <2>2. CASE ~closed /\ Goto(r, "filter") /\ UNCHANGED answers
    <3>1. pc'[r] = "filter" /\ \A q \in Requests \ {r} : pc'[q] = pc[q]
      BY <1>0, <2>2
    <3>2. Answered(r)' /\ Released(r)'
      BY <1>5, <1>s, <2>2, <3>1 DEF CheckClosed, Answered, Released
    <3> QED
      BY <1>5, <2>2, <3>1, <3>2, OwnerEnds DEF CheckClosed, EndShape
  <2> QED
    BY <1>5, <2>1, <2>2 DEF CheckClosed
<1>6. ASSUME NEW r \in Requests, Filter(r) PROVE EndShape'
  <2>1. CASE coldDone' = (coldDone \/ reason[r] = "cold_start") /\ deliver(r) /\ Goto(r, "done")
    <3>1. pc'[r] = "done" /\ \A q \in Requests \ {r} : pc'[q] = pc[q] /\ answers'[q] = answers[q]
      BY <1>0, <2>1, Moved, Delivered
    <3>2. answers'[r] = IF reason[r] = "repair" THEN 1 ELSE 0
      <4>1. answers[r] = 0
        BY <1>s, <1>6 DEF Filter, Answered
      <4> QED
        BY <1>0, <2>1, <4>1, Delivered
    <3>3. Answered(r)' /\ Released(r)'
      BY <1>6, <3>1, <3>2 DEF Filter, Answered, Released
    <3> QED
      BY <1>6, <2>1, <3>1, <3>3, OwnerEnds DEF Filter, EndShape
  <2>2. CASE Goto(r, "hold") /\ UNCHANGED <<coldDone, answers>>
    <3>1. pc'[r] = "hold" /\ \A q \in Requests \ {r} : pc'[q] = pc[q]
      BY <1>0, <2>2
    <3>2. Answered(r)' /\ Released(r)'
      BY <1>6, <1>s, <2>2, <3>1 DEF Filter, Answered, Released
    <3> QED
      BY <1>6, <2>2, <3>1, <3>2, OwnerEnds DEF Filter, EndShape
  <2> QED
    BY <1>6, <2>1, <2>2 DEF Filter
<1>7. ASSUME NEW r \in Requests, HoldNext(r) PROVE EndShape'
  <2>1. pc'[r] \in {"hold", "send"} /\ \A q \in Requests \ {r} : pc'[q] = pc[q]
    BY <1>0, <1>7 DEF HoldNext
  <2>2. Answered(r)' /\ Released(r)'
    BY <1>7, <1>s, <2>1 DEF HoldNext, Answered, Released
  <2> QED
    BY <1>7, <2>1, <2>2, OwnerEnds DEF HoldNext, EndShape
<1>8. ASSUME NEW r \in Requests, Send(r) PROVE EndShape'
  <2>1. /\ pc[r] = "send" /\ answers' = answers /\ reason' = reason
        /\ UNCHANGED <<coldSubmitted, coldDone, closed, stopping, runner>>
    BY <1>8 DEF Send
  <2>2. CASE Goto(r, "queued") /\ UNCHANGED outcome
    <3>1. pc'[r] = "queued" /\ \A q \in Requests \ {r} : pc'[q] = pc[q]
      BY <1>0, <2>2
    <3>2. Answered(r)' /\ Released(r)'
      BY <1>s, <2>1, <3>1 DEF Answered, Released
    <3> QED
      BY <2>1, <2>2, <3>1, <3>2, OwnerEnds DEF EndShape
  <2>3. CASE Unmark(r, "rejected")
    <3>1. /\ pc'[r] = "release" /\ outcome'[r] = "rejected"
          /\ \A q \in Requests \ {r} : pc'[q] = pc[q] /\ outcome'[q] = outcome[q]
      BY <1>0, <2>3
    <3>2. Answered(r)' /\ Released(r)'
      BY <1>s, <2>1, <3>1 DEF Answered, Released
    <3> QED
      BY <2>1, <3>1, <3>2, OwnerEnds DEF EndShape
  <2> QED
    BY <1>8, <2>2, <2>3 DEF Send
<1>9. ASSUME NEW r \in Requests, ReleaseNext(r) PROVE EndShape'
  <2>1. UNCHANGED <<coldSubmitted, coldDone, closed, runner, stopping, pc, reason, outcome, answers>>
    BY <1>9 DEF ReleaseNext, runVars
  <2>2. Answered(r)' /\ Released(r)'
    BY <1>s, <2>1, EndKept
  <2> QED
    BY <2>1, <2>2, OwnerEnds DEF EndShape
<1>10. ASSUME NEW r \in Requests, Finish(r) PROVE EndShape'
  <2>1. /\ pc[r] = "release" /\ pc' = [pc EXCEPT ![r] = "done"]
        /\ coldDone' = (coldDone \/ (outcome[r] = "rejected" /\ reason[r] = "cold_start"))
        /\ UNCHANGED <<coldSubmitted, closed, stopping, reason, outcome>>
    BY <1>10 DEF Finish
  <2>2. pc'[r] = "done" /\ \A q \in Requests \ {r} : pc'[q] = pc[q]
    BY <1>0, <2>1
  <2>3. runner' \in {"draining", "exited"} => stopping'
    BY <1>10, <2>1 DEF Finish, EndShape
  <2>4. /\ answers'[r] = IF reason[r] = "repair" THEN 1 ELSE 0
        /\ \A q \in Requests \ {r} : answers'[q] = answers[q]
    <3>1. CASE outcome[r] = "processed" /\ UNCHANGED answers
      BY <1>s, <2>1, <3>1 DEF Answered
    <3>2. CASE outcome[r] # "processed" /\ deliver(r)
      <4>1. answers[r] = 0
        BY <1>s, <2>1, <3>2 DEF Answered
      <4> QED
        BY <1>0, <3>2, <4>1, Delivered
    <3> QED
      BY <1>10, <3>1, <3>2 DEF Finish
  <2>5. Answered(r)' /\ Released(r)'
    BY <2>1, <2>2, <2>4 DEF Answered, Released
  <2>6. reason[r] = "cold_start" => coldDone' \/ stopping'
    BY <1>s, <2>1 DEF Released
  <2> QED
    BY <2>1, <2>2, <2>3, <2>4, <2>5, <2>6, OwnerEnds
<1>11. CASE RunnerTake
  <2>1. PICK r \in Requests : r = Head(reqCh) /\ pc[r] = "queued"
    BY <1>0, <1>11, TakingTheHead DEF RunnerTake, QueueShape
  <2>2. /\ pc' = [pc EXCEPT ![r] = "process"] /\ runner' = "busy"
        /\ UNCHANGED <<coldSubmitted, coldDone, closed, stopping, reason, outcome, answers>>
    BY <1>11, <2>1 DEF RunnerTake
  <2>3. pc'[r] = "process" /\ \A q \in Requests \ {r} : pc'[q] = pc[q]
    BY <1>0, <2>1, <2>2
  <2>4. Answered(r)' /\ Released(r)'
    BY <1>s, <2>1, <2>2, <2>3 DEF Answered, Released
  <2> QED
    BY <2>1, <2>2, <2>3, <2>4, OwnerEnds
<1>12. CASE ProcessEnd
  <2>1. /\ cur \in Requests /\ pc[cur] = "process" /\ pc' = [pc EXCEPT ![cur] = "processed"]
        /\ deliver(cur) /\ UNCHANGED <<coldSubmitted, coldDone, closed, runner, stopping, reason, outcome>>
    BY <1>0, <1>12 DEF ProcessEnd, RunnerHasRequest, runVars
  <2>2. /\ pc'[cur] = "processed"
        /\ \A q \in Requests \ {cur} : pc'[q] = pc[q] /\ answers'[q] = answers[q]
    BY <1>0, <2>1, Moved, Delivered
  <2>3. answers'[cur] = IF reason[cur] = "repair" THEN 1 ELSE 0
    <3>1. answers[cur] = 0
      BY <1>s, <2>1 DEF Answered
    <3> QED
      BY <1>0, <2>1, <3>1, Delivered
  <2>4. \A r \in Requests : r = cur => Answered(r)' /\ Released(r)'
    BY <2>1, <2>2, <2>3 DEF Answered, Released
  <2>5. \A r \in Requests \ {cur} : Answered(r)' /\ Released(r)'
    BY <1>s, <2>1, <2>2, EndKept
  <2>6. ReadyOnItsWay'
    BY <2>1, <2>2, OnItsWay DEF EndShape
  <2> QED
    BY <2>1, <2>4, <2>5, <2>6 DEF EndShape
<1>18. CASE ProcessExpire
  <2>1. /\ cur \in Requests /\ pc[cur] = "hung" /\ pc' = [pc EXCEPT ![cur] = "processed"]
        /\ deliver(cur) /\ UNCHANGED <<coldSubmitted, coldDone, closed, runner, stopping, reason, outcome>>
    BY <1>0, <1>18 DEF ProcessExpire, RunnerHasRequest, runVars
  <2>2. /\ pc'[cur] = "processed"
        /\ \A q \in Requests \ {cur} : pc'[q] = pc[q] /\ answers'[q] = answers[q]
    BY <1>0, <2>1, Moved, Delivered
  <2>3. answers'[cur] = IF reason[cur] = "repair" THEN 1 ELSE 0
    <3>1. answers[cur] = 0
      BY <1>s, <2>1 DEF Answered
    <3> QED
      BY <1>0, <2>1, <3>1, Delivered
  <2>4. \A r \in Requests : r = cur => Answered(r)' /\ Released(r)'
    BY <2>1, <2>2, <2>3 DEF Answered, Released
  <2>5. \A r \in Requests \ {cur} : Answered(r)' /\ Released(r)'
    BY <1>s, <2>1, <2>2, EndKept
  <2>6. ReadyOnItsWay'
    BY <2>1, <2>2, OnItsWay DEF EndShape
  <2> QED
    BY <2>1, <2>4, <2>5, <2>6 DEF EndShape
<1>19. CASE ProcessHang
  <2>1. /\ cur \in Requests /\ pc[cur] = "process" /\ pc' = [pc EXCEPT ![cur] = "hung"]
        /\ UNCHANGED <<coldSubmitted, coldDone, closed, runner, stopping, reason, outcome, answers>>
    BY <1>0, <1>19 DEF ProcessHang, RunnerHasRequest, runVars
  <2>2. pc'[cur] = "hung" /\ \A q \in Requests \ {cur} : pc'[q] = pc[q]
    BY <1>0, <2>1, Moved
  <2>3. \A r \in Requests : r = cur => Answered(r)' /\ Released(r)'
    BY <1>s, <2>1, <2>2 DEF Answered, Released
  <2>4. \A r \in Requests \ {cur} : Answered(r)' /\ Released(r)'
    BY <1>s, <2>1, <2>2, EndKept
  <2>5. ReadyOnItsWay'
    BY <2>1, <2>2, OnItsWay DEF EndShape
  <2> QED
    BY <2>1, <2>3, <2>4, <2>5 DEF EndShape
<1>13. CASE ProcessColdDone
  <2>1. /\ coldDone' /\ UNCHANGED <<coldSubmitted, closed, runner, stopping, pc, reason, outcome, answers>>
    BY <1>13 DEF ProcessColdDone, runVars
  <2>2. \A r \in Requests : Answered(r)' /\ Released(r)'
    BY <1>s, <2>1, EndKept
  <2> QED
    BY <2>1, <2>2 DEF EndShape, ReadyOnItsWay, Ready
<1>14. CASE ProcessUnmark
  <2>1. /\ cur \in Requests /\ pc[cur] = "processed" /\ pc' = [pc EXCEPT ![cur] = "release"]
        /\ outcome' = [outcome EXCEPT ![cur] = "processed"]
        /\ reason[cur] = "cold_start" => coldDone
        /\ UNCHANGED <<coldSubmitted, coldDone, closed, runner, stopping, reason, answers>>
    BY <1>0, <1>14 DEF ProcessUnmark, RunnerHasRequest, runVars
  <2>2. /\ pc'[cur] = "release" /\ outcome'[cur] = "processed"
        /\ \A q \in Requests \ {cur} : pc'[q] = pc[q] /\ outcome'[q] = outcome[q]
    BY <1>0, <2>1
  <2>3. \A r \in Requests : r = cur => Answered(r)' /\ Released(r)'
    BY <1>s, <2>1, <2>2 DEF Answered, Released
  <2>4. \A r \in Requests \ {cur} : Answered(r)' /\ Released(r)'
    BY <1>s, <2>1, <2>2, EndKept
  <2>5. ReadyOnItsWay'
    BY <2>1, <2>2, OnItsWay DEF EndShape
  <2> QED
    BY <2>1, <2>3, <2>4, <2>5 DEF EndShape
<1>15. CASE RunnerStop \/ DrainExit
  <2>1. /\ UNCHANGED <<coldSubmitted, coldDone, closed, stopping, pc, reason, outcome, answers>>
        /\ stopping
    BY <1>15 DEF RunnerStop, DrainExit, EndShape
  <2>2. \A r \in Requests : Answered(r)' /\ Released(r)'
    BY <1>s, <2>1, EndKept
  <2> QED
    BY <2>1, <2>2 DEF EndShape, ReadyOnItsWay
<1>16. CASE DrainTake
  <2>1. PICK r \in Requests : r = Head(reqCh) /\ pc[r] = "queued"
    BY <1>0, <1>16, TakingTheHead DEF DrainTake, QueueShape
  <2>2. /\ pc' = [pc EXCEPT ![r] = "release"] /\ outcome' = [outcome EXCEPT ![r] = "drained"]
        /\ stopping
        /\ UNCHANGED <<coldSubmitted, coldDone, closed, stopping, runner, reason, answers>>
    BY <1>16, <2>1 DEF DrainTake, EndShape
  <2>3. /\ pc'[r] = "release" /\ outcome'[r] = "drained"
        /\ \A q \in Requests \ {r} : pc'[q] = pc[q] /\ outcome'[q] = outcome[q]
    BY <1>0, <2>1, <2>2
  <2>4. Answered(r)' /\ Released(r)'
    BY <1>s, <2>1, <2>2, <2>3 DEF Answered, Released
  <2> QED
    BY <2>1, <2>2, <2>3, <2>4, OwnerEnds
<1>17. CASE UNCHANGED vars
  BY <1>17, <1>s, EndKept DEF vars, bfVars, EndShape, ReadyOnItsWay, Ready
<1> QED
  BY <1>1, <1>2, <1>3, <1>4, <1>5, <1>6, <1>7, <1>8, <1>9, <1>10, <1>11, <1>12, <1>13,
     <1>14, <1>15, <1>16, <1>17, <1>18, <1>19 DEF Next, Caller, Owner, Runner

LEMMA InitEnd == Init => EndShape
BY DEF Init, EndShape, Answered, Released, ReadyOnItsWay, Ready

LEMMA EndInvariance == Spec => [](IInv /\ EndShape)
BY InitIInv, NextIInv, InitEnd, EndStep, PTL DEF Spec

(* Every repair is answered once and by the way it ends, never twice and   *)
(* never on a request that waits for nothing (Request.deliver): the        *)
(* sweeper's channel has room for one result.                              *)
THEOREM AnswersOnce == Spec => []AnsweredOnce
<1>1. ASSUME EndShape, TypeOK PROVE AnsweredOnce
  <2>1. ASSUME NEW r \in Requests
        PROVE  LET due == IF reason[r] = "repair" THEN 1 ELSE 0 IN
                 answers[r] <= due /\ (pc[r] = "done" => answers[r] = due)
    <3>1. Answered(r) /\ pc[r] \in PCs
      BY <1>1 DEF EndShape, TypeOK
    <3> QED
      BY <3>1 DEF Answered
  <2> QED
    BY <2>1 DEF AnsweredOnce
<1>2. IInv => TypeOK
  BY DEF IInv, Shape
<1> QED
  BY <1>1, <1>2, EndInvariance, PTL

(* A cold start that is over has made the service ready, whichever way it  *)
(* ended, or the service is stopping (Ready, Submit, process).             *)
THEOREM ReadyNotForgotten == Spec => []ReadyOnItsWay
<1>1. EndShape => ReadyOnItsWay
  BY DEF EndShape
<1> QED
  BY <1>1, EndInvariance, PTL
-----------------------------------------------------------------------------
(***************************************************************************)
(* The archive sweep (sweep.go), the other caller that keeps state between *)
(* its requests, for any symbols, trades, page length, window and number   *)
(* of faults.                                                              *)
(***************************************************************************)
HIDE DEF Owning, Guarded, PCs, Reasons, runVars, Goto, deliver, Unmark, Enter

-----------------------------------------------------------------------------
(* A page: the first bars of a set. *)

LEMMA LeastOf ==
  ASSUME NEW A \in SUBSET Nat, A # {}
  PROVE  \E m \in A : \A a \in A : m <= a
<1>1. PICK m \in A : \A a \in A : <<a, m>> \notin OpToRel(<, Nat)
  BY WFMin, NatLessThanWellFounded
<1>2. \A a \in A : ~(a < m)
  BY <1>1 DEF OpToRel
<1>3. \A a \in A : a \in Nat
  OBVIOUS
<1> QED
  BY <1>2, <1>3

LEMMA GreatestOf ==
  ASSUME NEW A \in SUBSET Nat, A # {}, NEW n \in Nat, \A a \in A : a <= n
  PROVE  \E m \in A : \A a \in A : a <= m
<1> DEFINE B == {n - a : a \in A}
<1>1. B \in SUBSET Nat /\ B # {}
  <2>1. \A a \in A : a \in Nat /\ n - a \in Nat
    OBVIOUS
  <2> QED
    BY <2>1
<1>2. PICK k \in B : \A b \in B : k <= b
  BY <1>1, LeastOf
<1>3. PICK m \in A : k = n - m
  BY <1>2
<1>4. \A a \in A : k <= n - a
  BY <1>2
<1>5. \A a \in A : a \in Nat
  OBVIOUS
<1> QED
  BY <1>3, <1>4, <1>5

\* The limit smallest elements of a set.
below(A, b) == {c \in A : c < b}
FirstOf(A, limit) == {b \in A : Cardinality(below(A, b)) < limit}

\* They are an initial part of it, and the whole when there are fewer.
LEMMA FirstOnes ==
  ASSUME NEW A \in SUBSET Nat, NEW n \in Nat, A \subseteq 0..n, NEW limit \in Nat \ {0}
  PROVE  /\ \A b \in FirstOf(A, limit), c \in A : c < b => c \in FirstOf(A, limit)
         /\ A # {} => FirstOf(A, limit) # {}
         /\ Cardinality(FirstOf(A, limit)) < limit => FirstOf(A, limit) = A
<1> DEFINE P == FirstOf(A, limit)
<1>1. IsFiniteSet(A) /\ \A T \in SUBSET A : IsFiniteSet(T) /\ Cardinality(T) \in Nat
  <2>1. IsFiniteSet(0..n)
    BY FS_Interval
  <2> QED
    BY <2>1, FS_Subset, FS_CardinalityType
<1>2. /\ \A b \in A : below(A, b) \in SUBSET A /\ b \in Nat
      /\ \A b \in P : b \in A /\ Cardinality(below(A, b)) < limit
      /\ \A b \in A : Cardinality(below(A, b)) < limit => b \in P
  BY DEF below, FirstOf
<1> HIDE DEF P
<1>3. ASSUME NEW b \in P, NEW c \in A, c < b
      PROVE  c \in P
  <2>1. below(A, c) \subseteq below(A, b) /\ b \in A
    <3>1. b \in A /\ b \in Nat /\ c \in Nat
      BY <1>2
    <3>2. \A x \in A : x \in Nat /\ (x < c => x < b)
      BY <1>3, <3>1
    <3> QED
      BY <3>1, <3>2 DEF below
  <2>2. Cardinality(below(A, c)) <= Cardinality(below(A, b))
    BY <1>1, <1>2, <2>1, FS_Subset
  <2> QED
    BY <1>1, <1>2, <2>1, <2>2
<1>4. ASSUME A # {}
      PROVE  P # {}
  <2>1. PICK m \in A : \A a \in A : m <= a
    BY <1>4, LeastOf
  <2>2. below(A, m) = {}
    <3>1. \A x \in A : ~(x < m)
      BY <1>2, <2>1
    <3> QED
      BY <3>1 DEF below
  <2>3. Cardinality(below(A, m)) = 0
    BY <2>2, FS_EmptySet
  <2> QED
    BY <1>2, <2>1, <2>3
<1>5. ASSUME P # A
      PROVE  ~(Cardinality(P) < limit)
  <2>1. A \ P \in SUBSET Nat /\ A \ P # {}
    BY <1>2, <1>5
  <2>2. PICK b \in A \ P : \A a \in A \ P : b <= a
    BY <2>1, LeastOf
  <2>3. below(A, b) \subseteq P /\ P \subseteq A
    <3>1. \A x \in A : x < b => x \in P
      BY <1>2, <2>2
    <3> QED
      BY <1>2, <3>1 DEF below
  <2>4. Cardinality(below(A, b)) <= Cardinality(P)
    BY <1>1, <2>3, FS_Subset
  <2>5. ~(Cardinality(below(A, b)) < limit)
    BY <1>2, <2>2
  <2> QED
    BY <1>1, <1>2, <2>2, <2>3, <2>4, <2>5
<1> QED
  BY <1>3, <1>4, <1>5 DEF P

\* Milliseconds: the bars are D apart.
LEMMA BarsApartBy ==
  ASSUME NEW a \in Nat, NEW b \in Nat
  PROVE  /\ D * a \in Nat /\ D * b \in Nat
         /\ a < b => D * a + D <= D * b
         /\ a <= b <=> D * a <= D * b
<1>1. D \in Nat /\ D > 1
  BY SweeperAssumption
<1>2. D * a \in Nat /\ D * b \in Nat
  BY <1>1
<1>3. ASSUME NEW x \in Nat, NEW y \in Nat, x < y
      PROVE  D * x + D <= D * y
  <2>1. PICK d \in Nat : y = x + 1 + d
    <3>1. y - x - 1 \in Nat /\ y = x + 1 + (y - x - 1)
      BY <1>3
    <3> QED BY <3>1
  <2>2. D * y = D * x + D + D * d /\ D * d \in Nat /\ D * x \in Nat
    BY <1>1, <2>1
  <2> QED
    BY <1>1, <2>2
<1>4. a <= b => D * a <= D * b
  <2>1. CASE a < b
    BY <1>1, <1>2, <1>3, <2>1
  <2>2. CASE a = b
    BY <1>2, <2>2
  <2> QED
    BY <2>1, <2>2
<1>5. b < a => D * b < D * a
  BY <1>1, <1>2, <1>3
<1> QED
  BY <1>2, <1>3, <1>4, <1>5


\* The rest of the range, as the pager asks for it.
rest(s, cursor, until) == {b \in Traded[s] : b <= now /\ cursor <= D * b /\ D * b <= until}

Ended(rows, limit, until) ==
  rows = {} \/ Cardinality(rows) < limit \/ nextCursor(rows) >= until

\* The page of a request and whether it is the last.
PageOf(cursor, to) == Page(cursor, D * to, pageLimitFor(cursor, D * to))
IsLast(cursor, to) == Ended(PageOf(cursor, to), pageLimitFor(cursor, D * to), D * to)

\* When the paging ends, nothing of the range is left; otherwise the cursor has
\* passed the bars of the page, and no other bar.
LEMMA PageReaches ==
  ASSUME req.job.sym \in SweptSymbols, now \in Nat,
         NEW cursor \in Nat, NEW to \in Nat, cursor < D * to
  PROVE  /\ \A b \in PageOf(cursor, to) :
              b \in Nat /\ b \in Traded[req.job.sym] /\ b <= now /\ cursor <= D * b
         /\ IsLast(cursor, to) =>
              \A b \in Traded[req.job.sym] :
                b < to /\ b <= now /\ cursor <= D * b => b \in PageOf(cursor, to)
         /\ ~IsLast(cursor, to) =>
              /\ nextCursor(PageOf(cursor, to)) \in Nat
              /\ cursor < nextCursor(PageOf(cursor, to))
              /\ nextCursor(PageOf(cursor, to)) < D * to
              /\ \A b \in Traded[req.job.sym] :
                   D * b < nextCursor(PageOf(cursor, to)) => D * b < cursor \/ b \in PageOf(cursor, to)
<1> DEFINE limit == pageLimitFor(cursor, D * to)
           rows  == PageOf(cursor, to)
<1>0. rows = Page(cursor, D * to, limit) /\ (IsLast(cursor, to) <=> Ended(rows, limit, D * to))
  BY DEF PageOf, IsLast
<1> DEFINE T == Traded[req.job.sym]
           A == rest(req.job.sym, cursor, D * to)
<1>1. /\ D \in Nat /\ D > 1 /\ PageLim \in Nat \ {0} /\ T \in SUBSET Nat
      /\ \A b \in T : b \in Nat
  BY SweeperAssumption
<1>2. D * to \in Nat /\ \A b \in Nat : D * b \in Nat
  BY <1>1, BarsApartBy
<1>3. limit \in Nat \ {0}
  <2>1. (D * to - cursor) \div D \in Nat
    BY <1>1, <1>2
  <2> QED
    BY <1>1, <2>1 DEF pageLimitFor, limit
<1> HIDE DEF limit, rows
<1>4. /\ \A b \in A : b \in T /\ b \in Nat /\ b <= now /\ cursor <= D * b /\ D * b <= D * to
      /\ \A b \in T : b <= now /\ cursor <= D * b /\ D * b <= D * to => b \in A
  BY <1>1 DEF rest
<1> HIDE DEF T
<1>5. rows = FirstOf(A, limit)
  <2>1. rows = {b \in A : Cardinality({c \in A : c < b}) < limit}
    BY <1>0 DEF Page, rest
  <2>2. \A b : Cardinality({c \in A : c < b}) = Cardinality(below(A, b))
    BY DEF below
  <2> HIDE DEF A
  <2>3. \A b : b \in rows <=> b \in A /\ Cardinality(below(A, b)) < limit
    BY <2>1, <2>2
  <2> QED
    BY <2>3 DEF FirstOf
<1> HIDE DEF A
<1>6. /\ \A b \in rows, c \in A : c < b => c \in rows
      /\ A # {} => rows # {}
      /\ Cardinality(rows) < limit => rows = A
  <2>1. A \in SUBSET Nat /\ A \subseteq 0..now
    BY <1>4
  <2>2. /\ \A b \in FirstOf(A, limit), c \in A : c < b => c \in FirstOf(A, limit)
        /\ A # {} => FirstOf(A, limit) # {}
        /\ Cardinality(FirstOf(A, limit)) < limit => FirstOf(A, limit) = A
    BY <1>3, <2>1, FirstOnes
  <2> QED
    BY <1>5, <2>2
<1>7. \A b \in rows : b \in A
  BY <1>5 DEF FirstOf
<1>8. ASSUME rows # {}
      PROVE  /\ Last(rows) \in rows /\ Last(rows) \in Nat
             /\ \A b \in rows : b <= Last(rows)
             /\ nextCursor(rows) = D * Last(rows) + 1
  <2>1. rows \in SUBSET Nat /\ \A b \in rows : b <= now
    BY <1>4, <1>7
  <2>2. \E m \in rows : \A b \in rows : b <= m
    BY <1>8, <2>1, GreatestOf
  <2> QED
    BY <2>1, <2>2 DEF Last, nextCursor
<1>9. ASSUME Ended(rows, limit, D * to), NEW b \in T, b < to, b <= now, cursor <= D * b
      PROVE  b \in rows
  <2>1. b \in A
    BY <1>1, <1>4, <1>9, BarsApartBy
  <2>2. CASE rows = {} \/ Cardinality(rows) < limit
    BY <1>6, <2>1, <2>2
  <2>3. CASE rows # {} /\ nextCursor(rows) >= D * to
    <3>1. to <= Last(rows)
      <4>1. CASE Last(rows) < to
        <5>1. D * Last(rows) + D <= D * to /\ D * Last(rows) \in Nat
          BY <1>8, <2>3, <4>1, BarsApartBy
        <5> QED
          BY <1>1, <1>2, <1>8, <2>3, <5>1
      <4> QED
        BY <1>8, <2>3, <4>1
    <3>2. b < Last(rows)
      BY <1>1, <1>8, <1>9, <2>3, <3>1
    <3> QED
      BY <1>6, <1>8, <2>1, <2>3, <3>2
  <2> QED
    BY <1>9, <2>2, <2>3 DEF Ended
<1>10. ASSUME ~Ended(rows, limit, D * to)
       PROVE  /\ nextCursor(rows) \in Nat
              /\ cursor < nextCursor(rows) /\ nextCursor(rows) < D * to
              /\ \A b \in T : D * b < nextCursor(rows) => D * b < cursor \/ b \in rows
  <2>1. rows # {} /\ ~(nextCursor(rows) >= D * to)
    BY <1>10 DEF Ended
  <2> DEFINE m == Last(rows)
  <2>2. /\ m \in rows /\ m \in A /\ m \in Nat /\ \A b \in rows : b <= m
        /\ nextCursor(rows) = D * m + 1
    BY <1>7, <1>8, <2>1
  <2> HIDE DEF m
  <2>3. D * m \in Nat /\ cursor <= D * m /\ m <= now /\ D * m <= D * to
    BY <1>2, <1>4, <2>2
  <2>4. ASSUME NEW b \in T, D * b < nextCursor(rows), ~(D * b < cursor)
        PROVE  b \in rows
    <3>1. b \in Nat /\ D * b \in Nat
      BY <1>1, <1>2
    <3>2. D * b <= D * m
      BY <2>2, <2>3, <2>4, <3>1
    <3>3. b <= m
      BY <2>2, <3>1, <3>2, BarsApartBy
    <3>4. b <= now /\ cursor <= D * b /\ D * b <= D * to
      BY <1>2, <2>2, <2>3, <2>4, <3>1, <3>2, <3>3
    <3>5. b \in A
      BY <1>4, <3>4
    <3> QED
      BY <1>6, <2>2, <3>1, <3>3, <3>5
  <2>5. nextCursor(rows) \in Nat /\ cursor < nextCursor(rows) /\ nextCursor(rows) < D * to
    BY <1>2, <2>1, <2>2, <2>3
  <2> QED
    BY <2>4, <2>5
<1> QED
  BY <1>0, <1>4, <1>7, <1>9, <1>10 DEF T, rows

-----------------------------------------------------------------------------
(* The invariant of the sweep. *)

Jobs == [sym : SweptSymbols \cup {0}, from : Nat, to : Nat, cursor : Int, asOf : Nat, got : BOOLEAN]

RequestOK ==
  req \in [todo : SUBSET Ranges, job : Jobs, outs : SUBSET Outcomes,
           state : {"none", "open", "answered"}]

JobRange == [sym |-> req.job.sym, from |-> req.job.from, to |-> req.job.to]
Fetching == req.job.cursor >= 0

\* A hole as the sweep that submitted it saw it: the bar behind it is archived
\* and had settled.
Settled(r) ==
  r \in Ranges /\ r.from < r.to /\ r.to \in archive[r.sym] /\ r.to < start - Settle

TradedIn(r) == {b \in Traded[r.sym] : r.from <= b /\ b < r.to}

RangesOK ==
  /\ start <= now
  /\ spc = "timer" => req = NoReq
  /\ \A r \in req.todo : Settled(r)
  /\ \A o \in req.outs : Settled(o.rng)
  /\ Fetching => Settled(JobRange)

\* The traded bars behind the cursor.
Passed(cursor) == {b \in TradedIn(JobRange) : D * b < cursor}

JobOK ==
  Fetching =>
    /\ req.state = "open" /\ start <= req.job.asOf
    /\ D * req.job.from <= req.job.cursor /\ req.job.cursor < D * req.job.to
    /\ ~req.job.got => Passed(req.job.cursor) = {}
    /\ faults = 0 => Passed(req.job.cursor) \subseteq archive[req.job.sym]

OutsOK ==
  \A o \in req.outs : ~o.err =>
    /\ ~o.got => TradedIn(o.rng) = {}
    /\ faults = 0 => TradedIn(o.rng) \subseteq archive[o.rng.sym]

\* What is suppressed was answered without a bar, up to an archived one.
EmptyOK ==
  \A e \in empty : \E to \in Bars :
    /\ to \in archive[e.key.sym] /\ e.key.from < to /\ to < now - Settle
    /\ TradedIn([sym |-> e.key.sym, from |-> e.key.from, to |-> to]) = {}

SweepInv == SweepTypeOK /\ RequestOK /\ RangesOK /\ JobOK /\ OutsOK /\ EmptyOK

-----------------------------------------------------------------------------
(* Types. *)

LEMMA SweepConstants ==
         /\ SweptSymbols \subseteq Nat /\ Window \in Nat \ {0} /\ Settle \in Nat \ {0} /\ EmptyTTL \in Nat \ {0}
         /\ MaxRanges \in Nat \ {0} /\ PageLim \in Nat \ {0} /\ MaxTime \in Nat \ {0}
         /\ D \in Nat /\ D > 1 /\ MaxMisses \in Nat /\ MaxFaults \in Nat
         /\ Traded \in [SweptSymbols -> SUBSET Nat]
BY SweeperAssumption

\* What the steps may do to the request, to the archive and to the clock.
LEMMA SweepTypes ==
  ASSUME SweepTypeOK,
         now' \in {now, now + 1}, now' \in 0..MaxTime,
         archive' \in [SweptSymbols -> SUBSET Bars],
         spc' \in {"timer", "await", "done"}, start' \in {start, now, 0},
         empty' \subseteq [key : Keys, exp : 0..MaxTime + EmptyTTL], vain' \subseteq Keys,
         RequestOK', req'.job.cursor \in -1..D * MaxTime,
         cancelled' \in BOOLEAN, misses' \in 0..MaxMisses, faults' \in 0..MaxFaults
  PROVE  SweepTypeOK'
<1>1. start' \in 0..MaxTime
  BY SweepConstants DEF SweepTypeOK
<1>2. req'.todo \subseteq Ranges /\ req'.outs \subseteq Outcomes /\ req'.state \in {"none", "open", "answered"}
  BY DEF RequestOK
<1> QED
  BY <1>1, <1>2 DEF SweepTypeOK, Bars, Keys, Ranges, Outcomes

LEMMA SweepFault ==
  ASSUME SweepTypeOK, Fault \/ faults' = faults
  PROVE  faults' \in 0..MaxFaults /\ (faults' = 0 => faults = 0)
BY SweepConstants DEF SweepTypeOK, Fault

\* A step that leaves the request and the empty ranges: the live stream, the
\* context, a query that fails.
LEMMA SweepGoesOn ==
  ASSUME SweepInv, SweepTypeOK', now' \in {now, now + 1},
         UNCHANGED <<req, start>>, empty' \subseteq empty, spc' \in {spc, "done"},
         \A s \in SweptSymbols : archive[s] \subseteq archive'[s],
         faults' = 0 => faults = 0
  PROVE  SweepInv'
<1>1. RequestOK'
  BY DEF SweepInv, RequestOK, Ranges, Outcomes, Bars
<1>2. now \in Nat /\ start \in Nat /\ Settle \in Nat
  BY SweepConstants DEF SweepInv, SweepTypeOK
<1>3. \A r : Settled(r) => r \in Ranges /\ r.sym \in SweptSymbols /\ Settled(r)'
  BY DEF Settled, Ranges, Bars
<1>4. RangesOK'
  <2>1. JobRange' = JobRange /\ Fetching' = Fetching
    BY DEF JobRange, Fetching
  <2>2. start' <= now'
    BY <1>2 DEF SweepInv, RangesOK
  <2> QED
    BY <1>3, <2>1, <2>2 DEF SweepInv, RangesOK
<1>5. JobOK'
  <2>1. SUFFICES ASSUME Fetching'
                 PROVE  JobOK'
    BY DEF JobOK
  <2>2. Fetching /\ Settled(JobRange) /\ JobRange' = JobRange
    BY <2>1 DEF Fetching, JobRange, SweepInv, RangesOK
  <2>3. req.job.sym \in SweptSymbols
    BY <1>3, <2>2 DEF JobRange
  <2>4. \A cursor : Passed(cursor)' = Passed(cursor)
    BY DEF Passed, TradedIn, JobRange
  <2> QED
    BY <2>2, <2>3, <2>4 DEF SweepInv, JobOK
<1>6. OutsOK'
  <2>1. ASSUME NEW o \in req.outs, ~o.err
        PROVE  /\ ~o.got => TradedIn(o.rng) = {}
               /\ faults' = 0 => TradedIn(o.rng) \subseteq archive'[o.rng.sym]
    <3>1. o.rng.sym \in SweptSymbols
      BY <1>3 DEF SweepInv, RangesOK
    <3> QED
      BY <2>1, <3>1 DEF SweepInv, OutsOK
  <2> QED
    BY <2>1 DEF OutsOK, TradedIn
<1>7. EmptyOK'
  <2>1. SUFFICES ASSUME NEW e \in empty'
                 PROVE  \E to \in Bars :
                          /\ to \in archive'[e.key.sym] /\ e.key.from < to /\ to < now' - Settle
                          /\ TradedIn([sym |-> e.key.sym, from |-> e.key.from, to |-> to]) = {}
    BY DEF EmptyOK, TradedIn, Bars
  <2>2. PICK to \in Bars :
          /\ to \in archive[e.key.sym] /\ e.key.from < to /\ to < now - Settle
          /\ TradedIn([sym |-> e.key.sym, from |-> e.key.from, to |-> to]) = {}
    BY <2>1 DEF SweepInv, EmptyOK
  <2>3. e.key.sym \in SweptSymbols
    BY <2>1 DEF SweepInv, SweepTypeOK, Keys
  <2>4. to < now' - Settle
    BY <1>2, <2>2 DEF Bars
  <2> QED
    BY <2>2, <2>3, <2>4
<1> QED
  BY <1>1, <1>4, <1>5, <1>6, <1>7 DEF SweepInv

-----------------------------------------------------------------------------
(* The sweep loop. *)

\* A hole the query finds has an archived bar behind it that has settled.
LEMMA GapsSettled ==
  ASSUME SweepTypeOK, NEW r \in FindGaps(sweepFrom(now), sweepTo(now))
  PROVE  r \in Ranges /\ r.from < r.to /\ r.to \in archive[r.sym] /\ r.to < now - Settle
<1>1. /\ r \in Ranges /\ r.from < r.to
      /\ r.to \in archive[r.sym] \cap (now - Settle - Window..now - Settle - 1)
  BY DEF FindGaps, sweepFrom, sweepTo
<1>2. r.to < now - Settle
  BY <1>1, SweepConstants DEF SweepTypeOK
<1> QED
  BY <1>1, <1>2

LEMMA SweepSubmits ==
  ASSUME SweepInv, Sweep
  PROVE  SweepInv'
<1> DEFINE known  == pruneEmpty(now)
           gaps   == FindGaps(sweepFrom(now), sweepTo(now))
           wanted == Capped({r \in gaps : ~isEmpty(r, known)})
<1>1. /\ spc = "timer" /\ empty' = known /\ UNCHANGED <<now, archive, vain, cancelled, misses>>
      /\ \/ wanted = {} /\ UNCHANGED <<spc, start, req, faults>>
         \/ /\ spc' = "await" /\ start' = now /\ (faults' = faults \/ Fault)
            /\ \E taken, state : req' = [NoReq EXCEPT !.todo = {r \in wanted : r.sym \in taken},
                                                        !.state = state]
                                 /\ state \in {"answered", "open"}
  BY DEF Sweep
<1>2. empty' \subseteq empty /\ wanted \subseteq gaps
  BY <1>1 DEF pruneEmpty, Capped
<1> HIDE DEF known, wanted
<1>3. SweepTypeOK /\ RequestOK /\ EmptyOK /\ now \in Nat
  BY DEF SweepInv, SweepTypeOK
<1>4. CASE wanted = {} /\ UNCHANGED <<spc, start, req, faults>>
  <2>1. SweepTypeOK'
    BY <1>1, <1>2, <1>3, <1>4 DEF SweepTypeOK, Bars, Keys, Ranges, Outcomes
  <2> QED
    BY <1>1, <1>2, <1>4, <2>1, <1>3, SweepGoesOn
<1>5. CASE /\ spc' = "await" /\ start' = now /\ (faults' = faults \/ Fault)
           /\ \E taken, state : req' = [NoReq EXCEPT !.todo = {r \in wanted : r.sym \in taken},
                                                       !.state = state]
                                /\ state \in {"answered", "open"}
  <2>1. /\ req'.todo \subseteq wanted /\ req'.outs = {} /\ req'.job = NoJob
        /\ req'.state \in {"none", "open", "answered"}
        /\ req' = [todo |-> req'.todo, job |-> NoJob, outs |-> {}, state |-> req'.state]
    BY <1>5 DEF NoReq
  <2>2. \A r \in req'.todo : r \in Ranges /\ r.from < r.to /\ r.to \in archive[r.sym] /\ r.to < now - Settle
    BY <1>2, <1>3, <2>1, GapsSettled
  <2>3. NoJob \in Jobs /\ NoJob.cursor = -1
    BY DEF NoJob, Jobs
  <2>4. RequestOK'
    <3>1. req'.todo \in SUBSET Ranges
      BY <2>2
    <3> HIDE DEF gaps
    <3>2. req' \in [todo : SUBSET Ranges, job : Jobs, outs : SUBSET Outcomes,
                    state : {"none", "open", "answered"}]
      BY <2>1, <2>3, <3>1
    <3> QED
      BY <3>2 DEF RequestOK, Ranges, Outcomes, Bars, Jobs
  <2>5. SweepTypeOK'
    <3>1. faults' \in 0..MaxFaults
      BY <1>3, <1>5, SweepFault
    <3>2. D * MaxTime \in Nat /\ -1 \in -1..D * MaxTime
      BY SweepConstants
    <3> QED
      BY <1>1, <1>2, <1>3, <1>5, <2>1, <2>3, <2>4, <3>1, <3>2, SweepTypes DEF SweepTypeOK
  <2>6. ~Fetching'
    BY <2>1, <2>3 DEF Fetching
  <2>7. RangesOK'
    <3>1. \A r \in req'.todo : Settled(r)'
      BY <1>1, <1>5, <2>2 DEF Settled, Ranges, Bars
    <3>2. start' = now /\ now' = now /\ spc' = "await"
      BY <1>1, <1>5
    <3>3. start' <= now' /\ spc' # "timer"
      BY <1>3, <3>2
    <3> QED
      BY <2>1, <2>6, <3>1, <3>3 DEF RangesOK
  <2>8. JobOK' /\ OutsOK'
    BY <2>1, <2>6 DEF JobOK, OutsOK
  <2>9. EmptyOK'
    BY <1>1, <1>2, <1>3 DEF EmptyOK, TradedIn, Bars
  <2> QED
    BY <2>4, <2>5, <2>7, <2>8, <2>9 DEF SweepInv
<1> QED
  BY <1>1, <1>4, <1>5

LEMMA SweepAnswered ==
  ASSUME SweepInv, Answer
  PROVE  SweepInv'
<1> DEFINE vainKeys == {keyOf(o.rng) : o \in {p \in req.outs : Vain(p)}}
<1>1. /\ spc = "await" /\ spc' = "timer" /\ start' = 0 /\ req' = NoReq
      /\ empty' = {e \in empty : e.key \notin vainKeys} \cup {[key |-> k, exp |-> start + EmptyTTL] : k \in vainKeys}
      /\ vain' = vain \cup vainKeys
      /\ UNCHANGED <<now, archive, cancelled, misses, faults>>
  BY DEF Answer
<1>2. ASSUME NEW k \in vainKeys
      PROVE  /\ k \in Keys
             /\ \E to \in Bars : /\ to \in archive[k.sym] /\ k.from < to /\ to < now - Settle
                                   /\ TradedIn([sym |-> k.sym, from |-> k.from, to |-> to]) = {}
  <2>1. PICK o \in req.outs : Vain(o) /\ k = keyOf(o.rng)
    BY <1>2
  <2>2. o.rng \in Ranges /\ Settled(o.rng) /\ TradedIn(o.rng) = {}
    BY <2>1 DEF SweepInv, RangesOK, OutsOK, Vain, Settled
  <2>3. k \in Keys /\ k.sym = o.rng.sym /\ k.from = o.rng.from
    BY <2>1, <2>2 DEF keyOf, Keys, Ranges
  <2>4. o.rng = [sym |-> k.sym, from |-> k.from, to |-> o.rng.to] /\ o.rng.to \in Bars
    BY <2>2, <2>3 DEF Ranges
  <2>5. o.rng.to < now - Settle
    BY <2>2, <2>4, SweepConstants DEF Settled, SweepInv, RangesOK, SweepTypeOK, Bars
  <2> QED
    BY <2>2, <2>3, <2>4, <2>5 DEF Settled
<1> HIDE DEF vainKeys
<1>3. SweepTypeOK /\ EmptyOK /\ now \in Nat /\ start \in 0..MaxTime
  BY DEF SweepInv, SweepTypeOK
<1>4. NoReq.job = NoJob /\ NoReq.outs = {} /\ NoReq.todo = {} /\ NoJob.cursor = -1
  BY DEF NoReq, NoJob
<1>5. RequestOK'
  <2>1. NoJob \in Jobs
    BY DEF NoJob, Jobs
  <2>2. NoReq \in [todo : SUBSET Ranges, job : Jobs, outs : SUBSET Outcomes,
                     state : {"none", "open", "answered"}]
    BY <2>1 DEF NoReq
  <2> QED
    BY <1>1, <2>2 DEF RequestOK, Ranges, Outcomes, Bars, Jobs
<1>6. SweepTypeOK'
  <2>1. empty' \subseteq [key : Keys, exp : 0..MaxTime + EmptyTTL]
    <3>1. start + EmptyTTL \in 0..MaxTime + EmptyTTL
      BY <1>3, SweepConstants
    <3> QED
      BY <1>1, <1>2, <1>3, <3>1 DEF SweepTypeOK
  <2>2. vain' \subseteq Keys
    BY <1>1, <1>2, <1>3 DEF SweepTypeOK
  <2>3. D * MaxTime \in Nat /\ -1 \in -1..D * MaxTime
    BY SweepConstants
  <2> QED
    BY <1>1, <1>3, <1>4, <1>5, <2>1, <2>2, <2>3, SweepTypes DEF SweepTypeOK
<1>7. RangesOK' /\ JobOK' /\ OutsOK'
  BY <1>1, <1>3, <1>4 DEF RangesOK, JobOK, OutsOK, Fetching
<1>8. EmptyOK'
  <2>1. ASSUME NEW e \in empty'
        PROVE  \E to \in Bars :
                 /\ to \in archive[e.key.sym] /\ e.key.from < to /\ to < now - Settle
                 /\ TradedIn([sym |-> e.key.sym, from |-> e.key.from, to |-> to]) = {}
    <3>1. CASE e \in empty
      BY <1>3, <3>1 DEF EmptyOK
    <3>2. CASE e \notin empty
      <4>1. PICK k \in vainKeys : e.key = k
        BY <1>1, <2>1, <3>2
      <4> QED
        BY <1>2, <4>1
    <3> QED
      BY <3>1, <3>2
  <2> QED
    BY <1>1, <2>1 DEF EmptyOK, TradedIn, Bars
<1> QED
  BY <1>5, <1>6, <1>7, <1>8 DEF SweepInv

-----------------------------------------------------------------------------
(* The repair request. *)

\* A step of the request leaves the loop alone; the archive may grow.
LEMMA RepairStill ==
  ASSUME SweepInv, UNCHANGED <<now, spc, start, empty, vain, cancelled, misses>>,
         req.state = "open",
         archive' \in [SweptSymbols -> SUBSET Bars], \A s \in SweptSymbols : archive[s] \subseteq archive'[s],
         faults' = faults \/ Fault,
         RequestOK', req'.job.cursor \in -1..D * MaxTime,
         \A r \in req'.todo : r \in req.todo,
         \A o \in req'.outs : Settled(o.rng),
         Fetching' => Settled(JobRange)',
         JobOK', OutsOK'
  PROVE  SweepInv'
<1>1. SweepTypeOK /\ EmptyOK /\ RangesOK /\ spc # "timer"
  <2>1. NoReq.state = "none"
    BY DEF NoReq
  <2> QED
    BY <2>1 DEF SweepInv, RangesOK
<1>2. SweepTypeOK'
  <2>1. faults' \in 0..MaxFaults
    BY <1>1, SweepFault
  <2> QED
    BY <1>1, <2>1, SweepTypes DEF SweepTypeOK
<1>3. \A r : Settled(r) => Settled(r)'
  BY DEF Settled, Ranges, Bars
<1>4. RangesOK'
  BY <1>1, <1>3 DEF RangesOK
<1>5. EmptyOK'
  <2>1. \A e \in empty : e.key.sym \in SweptSymbols
    BY <1>1 DEF SweepTypeOK, Keys
  <2> QED
    BY <1>1, <2>1 DEF EmptyOK, TradedIn, Bars
<1> QED
  BY <1>2, <1>4, <1>5 DEF SweepInv

\* A record of the request with some of its fields changed.
LEMMA RequestFields ==
  ASSUME RequestOK, NEW T \in SUBSET Ranges, NEW j \in Jobs, NEW O \in SUBSET Outcomes,
         NEW st \in {"none", "open", "answered"},
         req' = [todo |-> T, job |-> j, outs |-> O, state |-> st]
  PROVE  RequestOK' /\ req'.todo = T /\ req'.job = j /\ req'.outs = O /\ req'.state = st
<1>1. req' \in [todo : SUBSET Ranges, job : Jobs, outs : SUBSET Outcomes,
                state : {"none", "open", "answered"}]
  OBVIOUS
<1> QED
  BY <1>1 DEF RequestOK, Ranges, Outcomes, Bars, Jobs

LEMMA OutcomeTyped ==
  ASSUME NEW r \in Ranges, NEW got \in BOOLEAN, NEW err \in BOOLEAN
  PROVE  [rng |-> r, got |-> got, err |-> err] \in Outcomes
BY DEF Outcomes

LEMMA OutcomeFields ==
  ASSUME NEW o, NEW r, NEW got \in BOOLEAN, NEW err \in BOOLEAN, o = [rng |-> r, got |-> got, err |-> err]
  PROVE  o.rng = r /\ (o.got <=> got) /\ (o.err <=> err)
BY Zenon

LEMMA RangeBegins ==
  ASSUME SweepInv, Begin
  PROVE  SweepInv'
<1>1. /\ req.state = "open" /\ ~(req.job.cursor >= 0)
      /\ UNCHANGED <<now, archive, spc, start, empty, vain, cancelled, misses, faults>>
      /\ RequestOK /\ SweepTypeOK /\ OutsOK /\ RangesOK
  BY DEF Begin, loopVars, SweepInv, RequestOK, Jobs
<1>2. PICK r \in req.todo :
        req' = [req EXCEPT !.todo = @ \ {r},
                           !.job = [sym |-> r.sym, from |-> r.from, to |-> r.to,
                                    cursor |-> D * r.from, asOf |-> now, got |-> FALSE]]
  BY DEF Begin
<1>3. /\ Settled(r) /\ r \in Ranges /\ r.sym \in SweptSymbols /\ r.from \in 0..MaxTime - 1
      /\ r.to \in 0..MaxTime - 1 /\ r.from < r.to
      /\ r = [sym |-> r.sym, from |-> r.from, to |-> r.to]
  BY <1>1 DEF RangesOK, Settled, Ranges, Bars
<1>4. now \in Nat /\ start <= now
  BY <1>1 DEF SweepTypeOK, RangesOK
<1>5. D * r.from \in Nat /\ D * r.to \in Nat /\ D * r.from < D * r.to /\ D * r.to <= D * MaxTime /\ D * MaxTime \in Nat
  <2>1. r.from \in Nat /\ r.to \in Nat /\ MaxTime \in Nat /\ r.to <= MaxTime
    BY <1>3, SweepConstants
  <2>2. D * r.from + D <= D * r.to /\ D * r.from \in Nat /\ D * r.to \in Nat
    BY <1>3, <2>1, BarsApartBy
  <2>3. D * r.to <= D * MaxTime /\ D * MaxTime \in Nat
    BY <2>1, BarsApartBy
  <2> QED
    BY <2>2, <2>3, SweepConstants
<1> DEFINE job == [sym |-> r.sym, from |-> r.from, to |-> r.to,
                   cursor |-> D * r.from, asOf |-> now, got |-> FALSE]
<1>6. job \in Jobs
  BY <1>3, <1>4, <1>5 DEF Jobs
<1>7. req' = [todo |-> req.todo \ {r}, job |-> job, outs |-> req.outs, state |-> "open"]
  BY <1>1, <1>2 DEF RequestOK
<1>8. /\ job.sym = r.sym /\ job.from = r.from /\ job.to = r.to
      /\ job.cursor = D * r.from /\ job.asOf = now /\ job.got = FALSE
  OBVIOUS
<1> HIDE DEF job
<1>9. /\ RequestOK' /\ req'.todo = req.todo \ {r} /\ req'.job = job /\ req'.outs = req.outs
      /\ req'.state = "open"
  BY <1>1, <1>6, <1>7, RequestFields DEF RequestOK
<1>10. JobRange' = r
  BY <1>3, <1>8, <1>9 DEF JobRange
<1>11. Settled(JobRange)'
  BY <1>1, <1>3, <1>10 DEF Settled, Ranges, Bars
<1>12. Passed(D * r.from)' = {}
  <2>1. \A b \in Traded[r.sym] : b \in Nat
    BY <1>3, SweepConstants
  <2>2. \A b \in Traded[r.sym] : r.from <= b => ~(D * b < D * r.from)
    BY <1>3, <2>1, BarsApartBy
  <2> QED
    BY <1>10, <2>2 DEF Passed, TradedIn
<1>13. JobOK'
  BY <1>1, <1>3, <1>4, <1>5, <1>8, <1>9, <1>12 DEF JobOK
<1>14. OutsOK'
  BY <1>1, <1>9 DEF OutsOK, TradedIn
<1>15. req'.job.cursor \in -1..D * MaxTime
  BY <1>5, <1>8, <1>9
<1> QED
  BY <1>1, <1>9, <1>11, <1>13, <1>14, <1>15, RepairStill DEF RangesOK, SweepTypeOK

LEMMA RequestEnds ==
  ASSUME SweepInv, PageError \/ Expire \/ Deliver
  PROVE  SweepInv'
<1>1. /\ req.state = "open" /\ UNCHANGED <<now, archive, spc, start, empty, vain, cancelled, misses>>
      /\ faults' = faults \/ Fault
      /\ RequestOK /\ SweepTypeOK /\ OutsOK /\ JobOK /\ RangesOK
  BY DEF PageError, Expire, Deliver, fetching, loopVars, SweepInv
<1>2. /\ archive' \in [SweptSymbols -> SUBSET Bars] /\ \A s \in SweptSymbols : archive[s] \subseteq archive'[s]
      /\ faults' = 0 => faults = 0
  BY <1>1, SweepFault DEF SweepTypeOK
<1>3. NoJob \in Jobs /\ NoJob.cursor = -1 /\ -1 \in -1..D * MaxTime
  <2>1. D * MaxTime \in Nat
    BY SweepConstants
  <2> QED
    BY <2>1 DEF NoJob, Jobs
<1>4. CASE PageError
  <2> DEFINE o == Outcome(req.job.got, TRUE)
  <2>1. Fetching /\ req' = [req EXCEPT !.job = NoJob, !.outs = @ \cup {o}]
    BY <1>4 DEF PageError, fetching, Fetching
  <2>2. o = [rng |-> JobRange, got |-> req.job.got, err |-> TRUE] /\ Settled(JobRange)
    BY <1>1, <2>1 DEF Outcome, JobRange, RangesOK
  <2>3. o \in Outcomes /\ o.rng = JobRange /\ o.err
    <3>1. JobRange \in Ranges /\ req.job.got \in BOOLEAN
      BY <1>1, <2>2 DEF Settled, RequestOK, Jobs
    <3> HIDE DEF o
    <3>2. o \in Outcomes
      BY <2>2, <3>1, OutcomeTyped
    <3>3. o.rng = JobRange /\ (o.err <=> TRUE)
      BY <2>2, <3>1, OutcomeFields
    <3> QED
      BY <3>2, <3>3
  <2> HIDE DEF o
  <2>4. req' = [todo |-> req.todo, job |-> NoJob, outs |-> req.outs \cup {o}, state |-> "open"]
    BY <1>1, <2>1 DEF RequestOK
  <2>5. /\ RequestOK' /\ req'.todo = req.todo /\ req'.job = NoJob
        /\ req'.outs = req.outs \cup {o} /\ req'.state = "open"
    <3>1. req.todo \in SUBSET Ranges /\ req.outs \cup {o} \in SUBSET Outcomes
      BY <1>1, <2>3 DEF RequestOK
    <3> QED
      BY <1>1, <1>3, <2>4, <3>1, RequestFields
  <2>6. ~Fetching'
    BY <1>3, <2>5 DEF Fetching
  <2>7. JobOK' /\ OutsOK'
    BY <1>1, <1>2, <2>3, <2>5, <2>6 DEF JobOK, OutsOK, TradedIn
  <2>8. \A p \in req'.outs : Settled(p.rng)
    BY <1>1, <2>2, <2>3, <2>5 DEF RangesOK
  <2> QED
    BY <1>1, <1>2, <1>3, <2>5, <2>6, <2>7, <2>8, RepairStill
<1>5. CASE Expire \/ Deliver
  <2>1. /\ ~Fetching /\ \E T \in SUBSET req.todo, st \in {"open", "answered"} :
             req' = [todo |-> T, job |-> req.job, outs |-> req.outs, state |-> st]
    <3>1. ~Fetching
      BY <1>1, <1>5 DEF Expire, Deliver, Fetching, RequestOK, Jobs
    <3>2. CASE Expire
      <4>1. req' = [todo |-> {}, job |-> req.job, outs |-> req.outs, state |-> "open"]
        BY <1>1, <3>2 DEF Expire, RequestOK
      <4> QED
        BY <3>1, <4>1
    <3>3. CASE Deliver
      <4>1. req' = [todo |-> req.todo, job |-> req.job, outs |-> req.outs, state |-> "answered"]
        BY <1>1, <3>3 DEF Deliver, RequestOK
      <4> QED
        BY <3>1, <4>1
    <3> QED
      BY <1>5, <3>2, <3>3
  <2>2. PICK T \in SUBSET req.todo, st \in {"open", "answered"} :
          req' = [todo |-> T, job |-> req.job, outs |-> req.outs, state |-> st]
    BY <2>1
  <2>3. /\ RequestOK' /\ req'.todo = T /\ req'.job = req.job /\ req'.outs = req.outs
    <3>1. T \in SUBSET Ranges /\ req.job \in Jobs /\ req.outs \in SUBSET Outcomes
      BY <1>1 DEF RequestOK
    <3> QED
      BY <1>1, <2>2, <3>1, RequestFields
  <2>4. ~Fetching'
    BY <2>1, <2>3 DEF Fetching
  <2>5. JobOK' /\ OutsOK'
    BY <1>1, <1>2, <2>3, <2>4 DEF JobOK, OutsOK, TradedIn
  <2> QED
    BY <1>1, <1>2, <2>3, <2>4, <2>5, RepairStill DEF RangesOK, SweepTypeOK
<1> QED
  BY <1>4, <1>5

LEMMA PageKeeps ==
  ASSUME SweepInv, FetchPage
  PROVE  SweepInv'
<1> DEFINE until == D * req.job.to
           cursor == req.job.cursor
           rows  == PageOf(req.job.cursor, req.job.to)
           batch == {b \in rows : /\ req.job.from <= b /\ b < req.job.to
                                  /\ D * b + D - 1 < D * req.job.asOf - 1}
           got   == req.job.got \/ batch # {}
           ended == IsLast(req.job.cursor, req.job.to)
           o     == Outcome(got, FALSE)
<1>1. /\ Fetching /\ UNCHANGED <<now, spc, start, empty, vain, cancelled, misses>>
      /\ \/ archive' = [archive EXCEPT ![req.job.sym] = @ \cup batch] /\ UNCHANGED faults
         \/ Fault /\ UNCHANGED archive
      /\ req' = IF ended THEN [req EXCEPT !.job = NoJob, !.outs = @ \cup {o}]
                ELSE [req EXCEPT !.job.cursor = nextCursor(rows), !.job.got = got]
  BY DEF FetchPage, fetching, loopVars, Fetching, IsLast, Ended, PageOf
<1>2. /\ RequestOK /\ SweepTypeOK /\ OutsOK /\ RangesOK /\ req.job \in Jobs
      /\ req.state = "open" /\ start <= req.job.asOf
      /\ D * req.job.from <= cursor /\ cursor < until
      /\ ~req.job.got => Passed(cursor) = {}
      /\ faults = 0 => Passed(cursor) \subseteq archive[req.job.sym]
      /\ Settled(JobRange)
  BY <1>1 DEF SweepInv, JobOK, RangesOK, RequestOK
<1>3. /\ req.job.sym \in SweptSymbols /\ req.job.from \in 0..MaxTime - 1 /\ req.job.to \in 0..MaxTime - 1
      /\ req.job.to \in Nat /\ req.job.from \in Nat /\ req.job.asOf \in Nat
      /\ now \in Nat /\ start \in Nat /\ start <= now /\ cursor \in Nat /\ req.job.got \in BOOLEAN
      /\ req.job.to < start - Settle /\ JobRange \in Ranges
  <2>1. JobRange.sym = req.job.sym /\ JobRange.from = req.job.from /\ JobRange.to = req.job.to
    BY DEF JobRange
  <2>2. JobRange \in Ranges /\ JobRange.to < start - Settle
    BY <1>2 DEF Settled
  <2>3. now \in Nat /\ start \in Nat /\ start <= now
    BY <1>2 DEF SweepTypeOK, RangesOK
  <2>4. cursor \in Nat
    BY <1>1, <1>2 DEF Fetching, Jobs
  <2>5. req.job.asOf \in Nat /\ req.job.got \in BOOLEAN
    BY <1>2 DEF Jobs
  <2>6. MaxTime \in Nat
    BY SweepConstants
  <2> QED
    BY <2>1, <2>2, <2>3, <2>4, <2>5, <2>6 DEF Ranges, Bars
<1> HIDE DEF o
<1>4. /\ \A b \in rows : b \in Nat /\ b \in Traded[req.job.sym] /\ b <= now /\ cursor <= D * b
      /\ ended => \A b \in Traded[req.job.sym] : b < req.job.to /\ b <= now /\ cursor <= D * b => b \in rows
      /\ ~ended => /\ nextCursor(rows) \in Nat
                   /\ cursor < nextCursor(rows) /\ nextCursor(rows) < until
                   /\ \A b \in Traded[req.job.sym] :
                        D * b < nextCursor(rows) => D * b < cursor \/ b \in rows
  <2>1. cursor < D * req.job.to
    BY <1>2
  <2> QED
    BY <1>3, <2>1, PageReaches
<1> HIDE DEF rows, ended
<1>5. \A b \in rows : b \in batch <=> req.job.from <= b /\ b < req.job.to
  <2>1. ASSUME NEW b \in rows, b < req.job.to
        PROVE  D * b + D - 1 < D * req.job.asOf - 1
    <3>1. b \in Nat /\ b + 1 \in Nat /\ b + 1 < req.job.asOf /\ D \in Nat /\ D > 1
      BY <1>2, <1>3, <1>4, <2>1, SweepConstants
    <3>2. D * (b + 1) = D * b + D /\ D * b \in Nat
      BY <3>1
    <3>3. D * (b + 1) + D <= D * req.job.asOf /\ D * req.job.asOf \in Nat
      BY <1>3, <3>1, BarsApartBy
    <3> QED
      BY <3>1, <3>2, <3>3
  <2> QED
    BY <2>1
<1>6. /\ batch \subseteq rows /\ \A b \in batch : b \in Bars /\ b \in Nat
      /\ got \in BOOLEAN
  <2>1. MaxTime \in Nat
    BY SweepConstants
  <2>2. batch \subseteq rows /\ \A b \in batch : b \in Bars /\ b \in Nat
    BY <1>3, <1>4, <2>1 DEF Bars
  <2> QED
    BY <1>3, <2>2
<1> HIDE DEF batch
<1>7. /\ archive' \in [SweptSymbols -> SUBSET Bars] /\ \A s \in SweptSymbols : archive[s] \subseteq archive'[s]
      /\ faults' = faults \/ Fault
      /\ faults' = 0 => faults = 0 /\ batch \subseteq archive'[req.job.sym]
  <2>1. archive \in [SweptSymbols -> SUBSET Bars] /\ faults \in Nat
    BY <1>2, SweepConstants DEF SweepTypeOK
  <2>2. CASE archive' = [archive EXCEPT ![req.job.sym] = @ \cup batch] /\ UNCHANGED faults
    BY <1>3, <1>6, <2>1, <2>2
  <2>3. CASE Fault /\ UNCHANGED archive
    BY <2>1, <2>3 DEF Fault
  <2> QED
    BY <1>1, <2>2, <2>3
\* Behind the page lie the bars passed before and the bars of the page.
<1>8. ASSUME NEW last \in Nat,
             \A b \in TradedIn(JobRange) : D * b < last => D * b < cursor \/ b \in rows
      PROVE  /\ ~got => Passed(last) = {}
             /\ faults' = 0 => Passed(last) \subseteq archive'[req.job.sym]
  <2>1. \A b \in Passed(last) : b \in Passed(cursor) \/ b \in batch
    BY <1>5, <1>8 DEF Passed, TradedIn, JobRange
  <2> QED
    BY <1>2, <1>3, <1>7, <2>1
\* What had an outcome keeps it.
<1>9. \A p \in req.outs : ~p.err => /\ ~p.got => TradedIn(p.rng) = {}
                                    /\ faults' = 0 => TradedIn(p.rng) \subseteq archive'[p.rng.sym]
  <2>1. \A p \in req.outs : p.rng.sym \in SweptSymbols
    BY <1>2 DEF RangesOK, Settled, Ranges
  <2> QED
    BY <1>2, <1>7, <2>1 DEF OutsOK
<1>10. \A b \in TradedIn(JobRange) : /\ b \in Traded[req.job.sym] /\ b \in Nat
                                     /\ req.job.from <= b /\ b < req.job.to /\ b <= now
  <2>1. \A b \in TradedIn(JobRange) : b \in Traded[req.job.sym] /\ req.job.from <= b /\ b < req.job.to
    BY DEF TradedIn, JobRange
  <2>2. \A b \in Traded[req.job.sym] : b \in Nat
    BY <1>3, SweepConstants
  <2>3. req.job.to < now
    BY <1>3, SweepConstants
  <2>4. \A b \in Nat : b < req.job.to => b <= now
    BY <1>3, <2>3
  <2> QED
    BY <2>1, <2>2, <2>4
<1>11. until \in Nat /\ until <= D * MaxTime /\ D * MaxTime \in Nat
  <2>1. MaxTime \in Nat /\ req.job.to <= MaxTime
    BY <1>3, SweepConstants
  <2> QED
    BY <1>3, <2>1, BarsApartBy
<1>12. CASE ended
  <2>1. /\ ~got => TradedIn(JobRange) = {}
        /\ faults' = 0 => TradedIn(JobRange) \subseteq archive'[req.job.sym]
    <3>1. \A b \in TradedIn(JobRange) : D * b \in Nat /\ D * b < until
      BY <1>3, <1>10, BarsApartBy, SweepConstants
    <3>2. \A b \in TradedIn(JobRange) : D * b < cursor \/ b \in rows
      BY <1>3, <1>4, <1>10, <1>12, <3>1
    <3>3. Passed(until) = TradedIn(JobRange)
      BY <3>1 DEF Passed
    <3>4. /\ ~got => Passed(until) = {}
          /\ faults' = 0 => Passed(until) \subseteq archive'[req.job.sym]
      BY <1>8, <1>11, <3>2
    <3> QED
      BY <3>3, <3>4
  <2>2. o = [rng |-> JobRange, got |-> got, err |-> FALSE]
    BY DEF o, Outcome, JobRange
  <2>3. o \in Outcomes
    BY <1>3, <1>6, <2>2, OutcomeTyped
  <2>4. o.rng = JobRange /\ (o.got <=> got) /\ (o.err <=> FALSE)
    BY <1>6, <2>2, OutcomeFields
  <2>5. NoJob \in Jobs /\ NoJob.cursor = -1
    BY DEF NoJob, Jobs
  <2>6. req' = [todo |-> req.todo, job |-> NoJob, outs |-> req.outs \cup {o}, state |-> "open"]
    BY <1>1, <1>2, <1>12 DEF RequestOK
  <2>7. /\ RequestOK' /\ req'.todo = req.todo /\ req'.job = NoJob
        /\ req'.outs = req.outs \cup {o} /\ req'.state = "open"
    <3>1. req.todo \in SUBSET Ranges /\ req.outs \cup {o} \in SUBSET Outcomes /\ RequestOK
      BY <1>2, <2>3 DEF RequestOK
    <3> QED
      BY <2>5, <2>6, <3>1, RequestFields
  <2>8. ~Fetching' /\ JobOK'
    BY <2>5, <2>7 DEF Fetching, JobOK
  <2>9. OutsOK'
    <3>1. JobRange.sym = req.job.sym
      BY DEF JobRange
    <3> HIDE DEF got
    <3>2. \A p \in req'.outs : ~p.err => /\ ~p.got => TradedIn(p.rng) = {}
                                         /\ faults' = 0 => TradedIn(p.rng) \subseteq archive'[p.rng.sym]
      BY <1>9, <2>1, <2>4, <2>7, <3>1
    <3> QED
      BY <3>2 DEF OutsOK, TradedIn
  <2>10. /\ \A p \in req'.outs : Settled(p.rng)
         /\ req'.job.cursor \in -1..D * MaxTime
    BY <1>2, <1>11, <2>4, <2>5, <2>7 DEF RangesOK
  <2>11. \A r \in req'.todo : r \in req.todo
    BY <2>7
  <2> QED
    BY <1>1, <1>2, <1>7, <2>7, <2>8, <2>9, <2>10, <2>11, RepairStill
<1>13. CASE ~ended
  <2> DEFINE next == nextCursor(rows)
             job == [sym |-> req.job.sym, from |-> req.job.from, to |-> req.job.to,
                     cursor |-> next, asOf |-> req.job.asOf, got |-> got]
  <2>1. next \in Nat /\ cursor < next /\ next < until
    BY <1>4, <1>13
  <2>2. /\ ~got => Passed(next) = {}
        /\ faults' = 0 => Passed(next) \subseteq archive'[req.job.sym]
    <3>1. \A b \in TradedIn(JobRange) : D * b < next => D * b < cursor \/ b \in rows
      BY <1>4, <1>10, <1>13
    <3> QED
      BY <1>8, <2>1, <3>1
  <2> HIDE DEF got, next
  <2>3. req' = [todo |-> req.todo, job |-> job, outs |-> req.outs, state |-> "open"]
    <3>1. req' = [req EXCEPT !.job.cursor = next, !.job.got = got]
      BY <1>1, <1>13 DEF next
    <3> QED
      BY <1>2, <3>1 DEF RequestOK, Jobs
  <2>4. job \in Jobs
    BY <1>2, <1>3, <1>6, <2>1 DEF Jobs
  <2>5. /\ job.sym = req.job.sym /\ job.from = req.job.from /\ job.to = req.job.to
        /\ job.cursor = next /\ job.asOf = req.job.asOf
    OBVIOUS
  <2>6. job.got <=> got
    BY <1>6
  <2> HIDE DEF job
  <2>7. /\ RequestOK' /\ req'.todo = req.todo /\ req'.job = job
        /\ req'.outs = req.outs /\ req'.state = "open"
    BY <1>2, <2>3, <2>4, RequestFields DEF RequestOK
  <2>8. JobRange' = JobRange /\ req'.job.sym = req.job.sym
    BY <2>5, <2>7 DEF JobRange
  <2>9. Settled(JobRange)'
    BY <1>1, <1>2, <1>3, <1>7, <2>8 DEF Settled, Ranges, Bars
  <2>10. JobOK'
    <3>1. req'.job.cursor = next /\ (req'.job.got <=> got) /\ req'.job.asOf = req.job.asOf
      BY <2>5, <2>6, <2>7
    <3>2. /\ start' <= req'.job.asOf
          /\ D * req'.job.from <= req'.job.cursor /\ req'.job.cursor < D * req'.job.to
      <4>1. D * req.job.from \in Nat /\ D * req.job.from <= next
        BY <1>2, <1>3, <2>1, BarsApartBy
      <4> QED
        BY <1>1, <1>2, <2>1, <2>5, <2>7, <4>1
    <3>3. Passed(req.job.cursor)' = Passed(next)
      BY <2>8, <3>1 DEF Passed, TradedIn
    <3> QED
      BY <2>2, <2>7, <2>8, <3>1, <3>2, <3>3 DEF JobOK
  <2>11. OutsOK'
    BY <1>9, <2>7 DEF OutsOK, TradedIn
  <2>12. /\ \A p \in req'.outs : Settled(p.rng)
         /\ req'.job.cursor \in -1..D * MaxTime
    BY <1>2, <1>11, <2>1, <2>5, <2>7 DEF RangesOK
  <2>13. \A r \in req'.todo : r \in req.todo
    BY <2>7
  <2> QED
    BY <1>1, <1>2, <1>7, <2>7, <2>9, <2>10, <2>11, <2>12, <2>13, RepairStill
<1> QED
  BY <1>12, <1>13

-----------------------------------------------------------------------------
(* The invariant is inductive. *)

LEMMA SweepStarts ==
  ASSUME SweepInit
  PROVE  SweepInv
<1>1. NoJob \in Jobs /\ NoJob.cursor = -1
  BY DEF NoJob, Jobs
<1>2. /\ NoReq \in [todo : SUBSET Ranges, job : Jobs, outs : SUBSET Outcomes,
                      state : {"none", "open", "answered"}]
      /\ NoReq.todo = {} /\ NoReq.outs = {} /\ NoReq.job = NoJob /\ NoReq.state = "none"
  BY <1>1 DEF NoReq
<1>3. SweepTypeOK
  <2>1. D * MaxTime \in Nat /\ MaxTime \in Nat /\ -1 \in -1..D * MaxTime
    BY SweepConstants
  <2>2. now \in 0..MaxTime /\ start \in 0..MaxTime /\ misses \in 0..MaxMisses /\ faults \in 0..MaxFaults
    BY SweepConstants DEF SweepInit
  <2> QED
    BY <1>1, <1>2, <2>1, <2>2 DEF SweepInit, SweepTypeOK
<1>4. RequestOK
  BY <1>2 DEF SweepInit, RequestOK
<1>5. ~Fetching
  BY <1>1, <1>2 DEF SweepInit, Fetching
<1>6. RangesOK /\ JobOK /\ OutsOK /\ EmptyOK
  BY <1>2, <1>5 DEF SweepInit, RangesOK, JobOK, OutsOK, EmptyOK
<1> QED
  BY <1>3, <1>4, <1>6 DEF SweepInv

LEMMA SweepTicks ==
  ASSUME SweepInv, Tick
  PROVE  SweepInv'
<1>1. SweepTypeOK /\ now \in 0..MaxTime /\ now < MaxTime
  BY DEF SweepInv, SweepTypeOK, Tick
<1>2. PICK lost \in SUBSET {s \in SweptSymbols : now \in Traded[s]} :
        /\ misses + Cardinality(lost) <= MaxMisses
        /\ misses' = misses + Cardinality(lost)
        /\ archive' = [s \in SweptSymbols |-> IF now \in Traded[s] /\ s \notin lost
                                         THEN archive[s] \cup {now} ELSE archive[s]]
  BY DEF Tick
<1>3. now' = now + 1 /\ UNCHANGED <<spc, start, empty, vain, req, cancelled, faults>>
  BY DEF Tick, loopVars
<1>4. now \in Bars /\ now' \in 0..MaxTime
  BY <1>1, <1>3, SweepConstants DEF Bars
<1>5. archive' \in [SweptSymbols -> SUBSET Bars] /\ \A s \in SweptSymbols : archive[s] \subseteq archive'[s]
  BY <1>1, <1>2, <1>4 DEF SweepTypeOK
<1>6. misses' \in 0..MaxMisses
  <2>1. Cardinality(lost) \in Nat
    BY SweeperAssumption, FS_Subset, FS_CardinalityType
  <2>2. misses \in Nat /\ MaxMisses \in Nat
    BY <1>1, SweepConstants DEF SweepTypeOK
  <2> QED
    BY <1>2, <2>1, <2>2
<1>7. SweepTypeOK'
  BY <1>1, <1>3, <1>4, <1>5, <1>6 DEF SweepTypeOK, Bars, Keys, Ranges, Outcomes
<1> QED
  BY <1>3, <1>5, <1>7, SweepGoesOn

LEMMA SweepStep ==
  ASSUME SweepInv, [SweepNext]_sweepVars
  PROVE  SweepInv'
<1>1. SweepTypeOK
  BY DEF SweepInv
<1>2. CASE Tick
  BY <1>2, SweepTicks
<1>3. CASE Sweep
  BY <1>3, SweepSubmits
<1>4. CASE Answer
  BY <1>4, SweepAnswered
<1>5. CASE Begin
  BY <1>5, RangeBegins
<1>6. CASE FetchPage
  BY <1>6, PageKeeps
<1>7. CASE PageError \/ Expire \/ Deliver
  BY <1>7, RequestEnds
<1>8. CASE FindError \/ Leave \/ Cancel \/ UNCHANGED sweepVars
  <2>1. /\ UNCHANGED <<now, archive, start, empty, vain, req, misses>>
        /\ spc' \in {spc, "done"} /\ (cancelled' = cancelled \/ cancelled' = TRUE)
        /\ faults' = faults \/ Fault
    BY <1>8 DEF FindError, Leave, Cancel, sweepVars, loopVars
  <2>2. faults' \in 0..MaxFaults /\ (faults' = 0 => faults = 0)
    BY <1>1, <2>1, SweepFault
  <2>3. SweepTypeOK'
    BY <1>1, <2>1, <2>2 DEF SweepTypeOK, Bars, Keys, Ranges, Outcomes
  <2> QED
    BY <2>1, <2>2, <2>3, SweepGoesOn DEF SweepInv, SweepTypeOK
<1> QED
  BY <1>2, <1>3, <1>4, <1>5, <1>6, <1>7, <1>8 DEF SweepNext, Loop, Repair

(* The sweep is well typed, asks only for holes behind which a settled bar *)
(* is archived, has fetched the range up to its cursor, and keeps for each *)
(* key it suppresses an archived bar before which nothing was traded.      *)
THEOREM SweepInvariantKept == SweepSpec => []SweepInv
<1>1. SweepInit => SweepInv
  BY SweepStarts
<1>2. SweepInv /\ [SweepNext]_sweepVars => SweepInv'
  BY SweepStep
<1> QED
  BY <1>1, <1>2, PTL DEF SweepSpec

(* A range the pager ended without an error, and no fault anywhere, is     *)
(* archived as far as the exchange traded it, for every page length and    *)
(* wherever the cursor falls between two bars.                             *)
THEOREM FetchedWhole == SweepSpec => []FetchedIsWhole
<1>1. SweepInv => FetchedIsWhole
  <2> SUFFICES ASSUME SweepInv, faults = 0, NEW o \in req.outs, ~o.err,
                      NEW b \in barsOf(o.rng) \cap Traded[o.rng.sym]
               PROVE  b \in archive[o.rng.sym]
    BY DEF FetchedIsWhole
  <2>1. TradedIn(o.rng) \subseteq archive[o.rng.sym] /\ o.rng \in Ranges
    BY DEF SweepInv, OutsOK, RangesOK, Settled
  <2>2. o.rng.from <= b /\ b < o.rng.to
    BY <2>1, SweepConstants DEF barsOf, Ranges, Bars
  <2> QED
    BY <2>1, <2>2 DEF TradedIn
<1> QED
  BY <1>1, SweepInvariantKept, PTL

(* A hole that is not asked for again is one the exchange has no bar for,  *)
(* although only the start of a hole is remembered and its end moves.      *)
THEOREM VainSuppressed == SweepSpec => []SuppressedInVain
<1>1. SweepInv => SuppressedInVain
  <2> SUFFICES ASSUME SweepInv, NEW e \in empty,
                      NEW r \in FindGaps(sweepFrom(now), sweepTo(now)), keyOf(r) = e.key,
                      NEW b \in barsOf(r) \cap Traded[r.sym]
               PROVE  FALSE
    BY DEF SuppressedInVain, SweepInv
  <2>1. PICK to \in Bars :
          /\ to \in archive[e.key.sym] /\ e.key.from < to /\ to < now - Settle
          /\ TradedIn([sym |-> e.key.sym, from |-> e.key.from, to |-> to]) = {}
    BY DEF SweepInv, EmptyOK
  <2>2. r \in Ranges /\ e.key.sym = r.sym /\ e.key.from = r.from /\ r.from < r.to
    BY DEF keyOf, FindGaps
  <2>3. r.sym \in SweptSymbols /\ r.from \in Nat /\ r.to \in Nat /\ to \in Nat
        /\ r.from \in Bars
    BY <2>2, SweepConstants DEF Ranges, Bars
  <2>4. r.from <= b /\ b < r.to /\ b \in Traded[r.sym] /\ b \in Nat
    BY <2>3 DEF barsOf
  \* The hole does not hold the archived bar.
  <2>5. r.to <= to
    <3>1. now \in Nat
      BY DEF SweepInv, SweepTypeOK
    <3>2. /\ r.from - 1 \in now - Settle - Window..now - Settle - 1
          /\ barsOf(r) \cap (archive[r.sym] \cap (now - Settle - Window..now - Settle - 1)) = {}
      BY DEF FindGaps, sweepFrom, sweepTo
    <3>3. to \in now - Settle - Window..now - Settle - 1
      BY <2>1, <2>2, <2>3, <3>1, <3>2, SweepConstants
    <3>4. to \notin barsOf(r)
      BY <2>1, <2>2, <3>2, <3>3
    <3> QED
      BY <2>1, <2>2, <2>3, <3>4 DEF barsOf
  <2>6. b \in TradedIn([sym |-> e.key.sym, from |-> e.key.from, to |-> to])
    BY <2>2, <2>3, <2>4, <2>5 DEF TradedIn
  <2> QED
    BY <2>1, <2>6
<1> QED
  BY <1>1, SweepInvariantKept, PTL

-----------------------------------------------------------------------------
(* No range is asked in vain a second time. *)

\* What was found empty by the sweep that began at t is suppressed until it has
\* left the window.
VainOK ==
  \A k \in vain : \E t \in 0..now :
    /\ k.from < t - Settle
    /\ t + EmptyTTL <= now \/ \E e \in empty : e.key = k /\ e.exp = t + EmptyTTL

\* Nothing of the request was found empty before.
FreshOK ==
  /\ \A r \in req.todo : keyOf(r) \notin vain
  /\ \A o \in req.outs : keyOf(o.rng) \notin vain
  /\ Fetching => keyOf(JobRange) \notin vain

VainInv == VainOK /\ FreshOK

\* The repair gives outcomes to the ranges of the request and to no others.
LEMMA RequestRanges ==
  ASSUME RequestOK, Repair
  PROVE  /\ \A r \in req'.todo : r \in req.todo
         /\ \A o \in req'.outs : o \in req.outs \/ (Fetching /\ o.rng = JobRange)
         /\ Fetching' => (Fetching /\ JobRange' = JobRange) \/ JobRange' \in req.todo
<1>1. NoJob.cursor = -1
  BY DEF NoJob
<1>2. CASE Begin
  <2>1. PICK r \in req.todo :
          req' = [req EXCEPT !.todo = @ \ {r},
                             !.job = [sym |-> r.sym, from |-> r.from, to |-> r.to,
                                      cursor |-> D * r.from, asOf |-> now, got |-> FALSE]]
    BY <1>2 DEF Begin
  <2>2. req'.todo = req.todo \ {r} /\ req'.outs = req.outs
    BY <2>1 DEF RequestOK
  <2>3. req'.job.sym = r.sym /\ req'.job.from = r.from /\ req'.job.to = r.to
    BY <2>1 DEF RequestOK
  <2>4. r = [sym |-> r.sym, from |-> r.from, to |-> r.to]
    BY DEF RequestOK, Ranges
  <2>5. JobRange' = r
    BY <2>3, <2>4 DEF JobRange
  <2> QED
    BY <2>2, <2>5
<1>3. CASE FetchPage \/ PageError
  <2>1. PICK got, err, cursor :
          /\ Fetching
          /\ \/ req' = [req EXCEPT !.job = NoJob, !.outs = @ \cup {Outcome(got, err)}]
             \/ req' = [req EXCEPT !.job.cursor = cursor, !.job.got = got]
    BY <1>3 DEF FetchPage, PageError, fetching, Fetching
  <2>2. Outcome(got, err).rng = JobRange
    BY DEF Outcome, JobRange
  <2>3. CASE req' = [req EXCEPT !.job = NoJob, !.outs = @ \cup {Outcome(got, err)}]
    <3>1. req'.todo = req.todo /\ req'.job = NoJob /\ req'.outs = req.outs \cup {Outcome(got, err)}
      BY <2>3 DEF RequestOK
    <3> QED
      BY <1>1, <2>1, <2>2, <3>1 DEF Fetching
  <2>4. CASE req' = [req EXCEPT !.job.cursor = cursor, !.job.got = got]
    <3>1. /\ req'.todo = req.todo /\ req'.outs = req.outs
          /\ req'.job.sym = req.job.sym /\ req'.job.from = req.job.from /\ req'.job.to = req.job.to
      BY <2>4 DEF RequestOK, Jobs
    <3> QED
      BY <2>1, <3>1 DEF JobRange
  <2> QED
    BY <2>1, <2>3, <2>4
<1>4. CASE Expire \/ Deliver
  <2>1. req' = [req EXCEPT !.todo = {}] \/ req' = [req EXCEPT !.state = "answered"]
    BY <1>4 DEF Expire, Deliver
  <2>2. req'.todo \subseteq req.todo /\ req'.job = req.job /\ req'.outs = req.outs
    BY <2>1 DEF RequestOK
  <2> QED
    BY <2>2 DEF JobRange, Fetching
<1> QED
  BY <1>2, <1>3, <1>4 DEF Repair

\* A step that marks nothing and forgets what is expired, at most.
LEMMA VainStays ==
  ASSUME SweepTypeOK, VainOK, now' \in {now, now + 1}, UNCHANGED vain,
         \A e \in empty : now < e.exp => e \in empty'
  PROVE  VainOK'
<1>1. now \in Nat /\ EmptyTTL \in Nat /\ Settle \in Nat /\ \A e \in empty : e.exp \in Nat
  BY SweepConstants DEF SweepTypeOK
<1>2. ASSUME NEW k \in vain
      PROVE  \E t \in 0..now' : /\ k.from < t - Settle
                                /\ t + EmptyTTL <= now' \/ \E e \in empty' : e.key = k /\ e.exp = t + EmptyTTL
  <2>1. PICK t \in 0..now :
          /\ k.from < t - Settle
          /\ t + EmptyTTL <= now \/ \E e \in empty : e.key = k /\ e.exp = t + EmptyTTL
    BY DEF VainOK
  <2>2. t \in 0..now' /\ t + EmptyTTL \in Nat
    BY <1>1
  <2>3. t + EmptyTTL <= now => t + EmptyTTL <= now'
    BY <1>1, <2>2
  <2>4. ASSUME NEW e \in empty, e.key = k, e.exp = t + EmptyTTL, ~(t + EmptyTTL <= now)
        PROVE  e \in empty'
    BY <1>1, <2>2, <2>4
  <2> QED
    BY <2>1, <2>2, <2>3, <2>4
<1> QED
  BY <1>2 DEF VainOK

\* A hole a sweep asks for was not found empty before.
LEMMA AsksFresh ==
  ASSUME EmptyTTL >= Window, SweepInv, VainOK,
         NEW r \in FindGaps(sweepFrom(now), sweepTo(now)), ~isEmpty(r, pruneEmpty(now))
  PROVE  keyOf(r) \notin vain
<1> SUFFICES ASSUME keyOf(r) \in vain
             PROVE  FALSE
  OBVIOUS
<1>1. PICK t \in 0..now :
        /\ keyOf(r).from < t - Settle
        /\ t + EmptyTTL <= now \/ \E e \in empty : e.key = keyOf(r) /\ e.exp = t + EmptyTTL
  BY DEF VainOK
<1>2. keyOf(r).from = r.from /\ r.from \in Nat
  BY SweepConstants DEF keyOf, FindGaps, Ranges, Bars
<1>3. now \in Nat /\ \A e \in empty : e.exp \in Nat
  BY SweepConstants DEF SweepInv, SweepTypeOK
<1>4. r.from - 1 \in now - Settle - Window..now - Settle - 1
  BY DEF FindGaps, sweepFrom, sweepTo
<1>5. ~(t + EmptyTTL <= now)
  BY <1>1, <1>2, <1>3, <1>4, SweepConstants
<1>6. PICK e \in empty : e.key = keyOf(r) /\ e.exp = t + EmptyTTL
  BY <1>1, <1>5
<1>7. now < e.exp
  BY <1>3, <1>5, <1>6, SweepConstants
<1> QED
  BY <1>6, <1>7 DEF isEmpty, pruneEmpty

LEMMA VainStep ==
  ASSUME EmptyTTL >= Window, SweepInv, VainInv, [SweepNext]_sweepVars
  PROVE  VainInv'
<1>1. SweepTypeOK /\ RequestOK /\ RangesOK /\ VainOK /\ FreshOK
  BY DEF SweepInv, VainInv
<1>2. CASE Sweep
  <2> DEFINE known  == pruneEmpty(now)
             gaps   == FindGaps(sweepFrom(now), sweepTo(now))
             wanted == Capped({r \in gaps : ~isEmpty(r, known)})
  <2>1. /\ empty' = known /\ UNCHANGED <<now, vain>>
        /\ \/ UNCHANGED req
           \/ \E taken, state : req' = [NoReq EXCEPT !.todo = {r \in wanted : r.sym \in taken},
                                                       !.state = state]
                                /\ state \in {"answered", "open"}
    BY <1>2 DEF Sweep
  <2>2. VainOK'
    BY <1>1, <2>1, VainStays DEF pruneEmpty
  <2>3. \A r \in wanted : r \in gaps /\ ~isEmpty(r, known)
    BY DEF Capped
  <2>4. \A r \in wanted : keyOf(r) \notin vain
    BY <1>1, <2>3, AsksFresh
  <2> HIDE DEF known, wanted
  <2>5. CASE UNCHANGED req
    BY <1>1, <2>1, <2>2, <2>5 DEF VainInv, FreshOK, Fetching, JobRange
  <2>6. CASE \E taken, state : req' = [NoReq EXCEPT !.todo = {r \in wanted : r.sym \in taken},
                                                      !.state = state]
                               /\ state \in {"answered", "open"}
    <3>1. req'.todo \subseteq wanted /\ req'.outs = {} /\ req'.job = NoJob
      BY <2>6 DEF NoReq
    <3>2. NoJob.cursor = -1
      BY DEF NoJob
    <3>3. ~Fetching'
      BY <3>1, <3>2 DEF Fetching
    <3>4. \A r \in req'.todo : keyOf(r) \notin vain'
      BY <2>1, <2>4, <3>1
    <3> QED
      BY <2>2, <3>1, <3>3, <3>4 DEF VainInv, FreshOK, keyOf
  <2> QED
    BY <2>1, <2>5, <2>6
<1>3. CASE Answer
  <2> DEFINE vainKeys == {keyOf(o.rng) : o \in {p \in req.outs : Vain(p)}}
  <2>1. /\ req' = NoReq /\ UNCHANGED now
        /\ empty' = {e \in empty : e.key \notin vainKeys} \cup {[key |-> k, exp |-> start + EmptyTTL] : k \in vainKeys}
        /\ vain' = vain \cup vainKeys
    BY <1>3 DEF Answer
  <2>2. ASSUME NEW k \in vainKeys
        PROVE  k.from < start - Settle
    <3>1. PICK o \in req.outs : k = keyOf(o.rng)
      OBVIOUS
    <3>2. o.rng.from \in Nat /\ o.rng.to \in Nat /\ o.rng.from < o.rng.to /\ o.rng.to < start - Settle
      BY <1>1, SweepConstants DEF RangesOK, Settled, Ranges, Bars
    <3> QED
      BY <1>1, <3>1, <3>2, SweepConstants DEF keyOf, SweepTypeOK
  <2> HIDE DEF vainKeys
  <2>3. ASSUME NEW k \in vain'
        PROVE  \E t \in 0..now : /\ k.from < t - Settle
                                 /\ \/ t + EmptyTTL <= now
                                    \/ \E e \in empty' : e.key = k /\ e.exp = t + EmptyTTL
    <3>1. CASE k \in vainKeys
      <4>1. start \in 0..now
        BY <1>1, SweepConstants DEF SweepTypeOK, RangesOK
      <4>2. [key |-> k, exp |-> start + EmptyTTL] \in empty'
        BY <2>1, <3>1
      <4> QED
        BY <2>2, <3>1, <4>1, <4>2
    <3>2. CASE k \notin vainKeys
      <4>1. k \in vain /\ \A e \in empty : e.key = k => e \in empty'
        BY <2>1, <3>2
      <4> QED
        BY <1>1, <4>1 DEF VainOK
    <3> QED
      BY <3>1, <3>2
  <2>4. VainOK'
    BY <2>1, <2>3 DEF VainOK
  <2>5. NoReq.job = NoJob /\ NoReq.outs = {} /\ NoReq.todo = {} /\ NoJob.cursor = -1
    BY DEF NoReq, NoJob
  <2> QED
    BY <2>1, <2>4, <2>5 DEF VainInv, FreshOK, Fetching
<1>4. CASE Repair
  <2>1. UNCHANGED <<now, empty, vain>>
    BY <1>4 DEF Repair, Begin, FetchPage, PageError, Expire, Deliver, loopVars
  <2>2. VainOK'
    BY <1>1, <2>1, VainStays
  <2>3. FreshOK'
    <3>1. /\ \A r \in req'.todo : r \in req.todo
          /\ \A o \in req'.outs : o \in req.outs \/ (Fetching /\ o.rng = JobRange)
          /\ Fetching' => (Fetching /\ JobRange' = JobRange) \/ JobRange' \in req.todo
      BY <1>1, <1>4, RequestRanges
    <3>2. \A r : keyOf(r)' = keyOf(r)
      BY DEF keyOf
    <3> QED
      BY <1>1, <2>1, <3>1 DEF FreshOK, keyOf
  <2> QED
    BY <2>2, <2>3 DEF VainInv
<1>5. CASE Tick \/ FindError \/ Leave \/ Cancel \/ UNCHANGED sweepVars
  <2>1. now' \in {now, now + 1} /\ UNCHANGED <<empty, vain, req>>
    BY <1>5 DEF Tick, FindError, Leave, Cancel, sweepVars, loopVars
  <2>2. VainOK'
    BY <1>1, <2>1, VainStays
  <2> QED
    BY <1>1, <2>1, <2>2 DEF VainInv, FreshOK, Fetching, JobRange
<1> QED
  BY <1>2, <1>3, <1>4, <1>5 DEF SweepNext, Loop

(* With EmptyTTL at least the window, an empty range is asked for once:    *)
(* when its mark expires the range has left the window.                    *)
THEOREM AskedOnce ==
  EmptyTTL >= Window => (SweepSpec => EmptyAskedOnce)
<1> SUFFICES ASSUME EmptyTTL >= Window
             PROVE  SweepSpec => EmptyAskedOnce
  OBVIOUS
<1>1. SweepInit => SweepInv /\ VainInv
  <2> SUFFICES ASSUME SweepInit
               PROVE  SweepInv /\ VainInv
    OBVIOUS
  <2>1. SweepInv
    BY SweepStarts
  <2>2. NoReq.job = NoJob /\ NoReq.outs = {} /\ NoReq.todo = {} /\ NoJob.cursor = -1
    BY DEF NoReq, NoJob
  <2> QED
    BY <2>1, <2>2 DEF SweepInit, VainInv, VainOK, FreshOK, Fetching
<1>2. (SweepInv /\ VainInv) /\ [SweepNext]_sweepVars => (SweepInv /\ VainInv)'
  BY SweepStep, VainStep
<1>3. (SweepInv /\ VainInv) /\ [SweepNext]_sweepVars =>
        [\A k \in Keys : k \in vain /\ spc = "await" /\ spc' = "timer" =>
           ~\E o \in req.outs : Vain(o) /\ keyOf(o.rng) = k]_sweepVars
  BY DEF VainInv, FreshOK
<1> QED
  BY <1>1, <1>2, <1>3, PTL DEF SweepSpec, EmptyAskedOnce
=============================================================================
