----------------------------- MODULE Backfiller -----------------------------
(***************************************************************************)
(* internal/backfill/backfill.go: the life of a backfill request, from     *)
(* Submit through the queue and the single runner to the release of its    *)
(* keys, against a concurrent Close and against other submitters.  What a  *)
(* request does to the archive and to the Redis window while it is being   *)
(* processed is module WindowSeam; here it is one step.                    *)
(*                                                                         *)
(* A request is submitted by the goroutine of its caller (app.Run, the     *)
(* sweeper, the universe callback, a shard's OnGap) and is then owned by   *)
(* the runner.  pc[r] is where the goroutine that owns r stands.           *)
(***************************************************************************)
EXTENDS WindowGate, Sequences

CONSTANTS
  Requests,     (* identities of the requests; bounds how many there are   *)
  KeyLists,     (* the key lists callers submit                            *)
  Shards,       (* websocket shards that report gaps                       *)
  QueueSize,    (* capacity of reqCh                                       *)
  None,         (* no request                                              *)
  GateTimeout,  (* whether gateTimeout > 0: a request has a deadline       *)
  MayStop       (* whether Close and cancellation of the context can occur *)

ASSUME BackfillerAssumption ==
  /\ IsFiniteSet(Requests)
  /\ KeyLists \subseteq SUBSET RawKey
  /\ QueueSize \in Nat \ {0}
  /\ None \notin Requests
  /\ {GateTimeout, MayStop} \subseteq BOOLEAN

Reasons == {"cold_start", "universe_add", "shard_reconnect", "repair"}

VARIABLES
  inflight,       (* Backfiller.inflight                                   *)
  reqCh,          (* Backfiller.reqCh                                      *)
  gapSeen,        (* shards whose last gap is younger than gapDebounce     *)
  coldSubmitted,  (* coldStartSubmitted                                    *)
  coldDone,       (* coldStartDone                                         *)
  closed,         (* closed                                                *)
  stopping,       (* the runner's context is cancelled or stopCh is closed *)
  runner,         (* the run goroutine: "idle", "busy", "draining", ...    *)
  cur,            (* the request the runner works on                       *)
  pc,             (* where the goroutine that owns a request stands        *)
  reason,         (* Request.Reason                                        *)
  rkeys,          (* Request.Keys, replaced by the fresh keys in Submit    *)
  held,           (* keys whose gate hold the request has not given back   *)
  outcome,        (* why the request's keys are being released             *)
  answers         (* results sent on Request.Result                        *)

runVars  == <<runner, cur, stopping>>
bfVars   == <<inflight, reqCh, gapSeen, coldSubmitted, coldDone, closed, runner, cur,
              stopping, pc, reason, rkeys, held, outcome, answers>>
vars     == <<gateVars, bfVars>>

\* Submitted and not yet given up: the states in which a request owns keys.
Owning   == {"hold", "send", "queued", "process", "hung", "processed"}
\* The states in which every key of the request must be behind the gate.
Guarded  == {"send", "queued", "process", "hung", "processed"}
PCs      == {"idle", "submit", "filter", "release", "done"} \cup Owning

TypeOK ==
  /\ GateTypeOK
  /\ inflight \subseteq Key
  /\ reqCh \in Seq(Requests) /\ Len(reqCh) <= QueueSize
  /\ gapSeen \subseteq Shards
  /\ {coldSubmitted, coldDone, closed, stopping} \subseteq BOOLEAN
  /\ runner \in {"idle", "busy", "draining", "exited"}
  /\ cur \in Requests \cup {None}
  /\ pc \in [Requests -> PCs]
  /\ reason \in [Requests -> Reasons]
  /\ rkeys \in [Requests -> SUBSET RawKey]
  /\ held \in [Requests -> SUBSET Key]
  /\ outcome \in [Requests -> {"none", "processed", "rejected", "drained"}]
  /\ answers \in [Requests -> Nat]

Init ==
  /\ GateInit
  /\ inflight = {} /\ reqCh = <<>> /\ gapSeen = {}
  /\ coldSubmitted = FALSE /\ coldDone = FALSE
  /\ closed = FALSE /\ stopping = FALSE
  /\ runner = "idle" /\ cur = None
  /\ pc      = [r \in Requests |-> "idle"]
  /\ reason  = [r \in Requests |-> "repair"]
  /\ rkeys   = [r \in Requests |-> {}]
  /\ held    = [r \in Requests |-> {}]
  /\ outcome = [r \in Requests |-> "none"]
  /\ answers = [r \in Requests |-> 0]

Goto(r, l) == pc' = [pc EXCEPT ![r] = l]

\* Only a repair request carries a Result channel.
deliver(r) ==
  answers' = [answers EXCEPT ![r] = IF reason[r] = "repair" THEN @ + 1 ELSE @]

Ready == ~coldSubmitted \/ coldDone

-----------------------------------------------------------------------------
(* The callers. *)

\* Enter Submit with the given keys.
Enter(r, why, ks) ==
  /\ pc[r] = "idle"
  /\ Goto(r, "submit")
  /\ reason' = [reason EXCEPT ![r] = why]
  /\ rkeys'  = [rkeys EXCEPT ![r] = ks]

\* app.Run submits the whole universe once.
SubmitColdStart(r, ks) ==
  /\ ~coldSubmitted
  /\ coldSubmitted' = TRUE
  /\ \/ /\ ks = {}
        /\ coldDone' = TRUE
        /\ UNCHANGED <<pc, reason, rkeys>>
     \/ /\ ks # {}
        /\ Enter(r, "cold_start", ks)
        /\ UNCHANGED coldDone
  /\ UNCHANGED <<gateVars, inflight, reqCh, gapSeen, closed, runVars, held, outcome, answers>>

\* app.onUniverseChange submits new symbols once the cold start is submitted;
\* the sweeper starts after it and submits repairs.
SubmitOther(r, ks) ==
  /\ coldSubmitted
  /\ \E why \in {"universe_add", "repair"} : Enter(r, why, ks)
  /\ UNCHANGED <<gateVars, inflight, reqCh, gapSeen, coldSubmitted, coldDone, closed,
                 runVars, held, outcome, answers>>

\* A gap of a shard whose last gap is too recent is dropped; so is one whose
\* streams name no key, but it starts the debounce.
HandleGap(r, sh, ks) ==
  /\ ~closed
  /\ sh \notin gapSeen
  /\ gapSeen' = gapSeen \cup {sh}
  /\ \/ ks = {} /\ UNCHANGED <<pc, reason, rkeys>>
     \/ ks # {} /\ Enter(r, "shard_reconnect", ks)
  /\ UNCHANGED <<gateVars, inflight, reqCh, coldSubmitted, coldDone, closed, runVars,
                 held, outcome, answers>>

DebounceElapse(sh) ==
  /\ sh \in gapSeen
  /\ gapSeen' = gapSeen \ {sh}
  /\ UNCHANGED <<gateVars, inflight, reqCh, coldSubmitted, coldDone, closed, runVars,
                 pc, reason, rkeys, held, outcome, answers>>

-----------------------------------------------------------------------------
(* Submit, after the caller has entered it. *)

CheckClosed(r) ==
  /\ pc[r] = "submit"
  /\ \/ closed /\ deliver(r) /\ Goto(r, "done")
     \/ ~closed /\ Goto(r, "filter") /\ UNCHANGED answers
  /\ UNCHANGED <<gateVars, inflight, reqCh, gapSeen, coldSubmitted, coldDone, closed,
                 runVars, reason, rkeys, held, outcome>>

\* Mutant: a key that another request is rebuilding is not filtered out.
FilterKeepsDuplicates(r) ==
  LET fresh == {norm(k) : k \in rkeys[r]} IN
    /\ pc[r] = "filter"
    /\ rkeys' = [rkeys EXCEPT ![r] = fresh]
    /\ inflight' = inflight \cup fresh
    /\ Goto(r, "hold")
    /\ UNCHANGED <<coldDone, answers>>
    /\ UNCHANGED <<gateVars, reqCh, gapSeen, coldSubmitted, closed, runVars, reason,
                   held, outcome>>

\* Mutant: a repair whose keys are all in flight is forgotten without an answer.
FilterForgetsDuplicates(r) ==
  LET fresh == {norm(k) : k \in rkeys[r]} \ inflight IN
    /\ pc[r] = "filter"
    /\ rkeys' = [rkeys EXCEPT ![r] = fresh]
    /\ inflight' = inflight \cup fresh
    /\ Goto(r, IF fresh = {} THEN "done" ELSE "hold")
    /\ coldDone' = (coldDone \/ (fresh = {} /\ reason[r] = "cold_start"))
    /\ UNCHANGED answers
    /\ UNCHANGED <<gateVars, reqCh, gapSeen, coldSubmitted, closed, runVars, reason,
                   held, outcome>>

\* Under mu: keep the keys no other request owns and mark them in flight.
Filter(r) ==
  LET fresh == {norm(k) : k \in rkeys[r]} \ inflight IN
    /\ pc[r] = "filter"
    /\ rkeys' = [rkeys EXCEPT ![r] = fresh]
    /\ inflight' = inflight \cup fresh
    /\ \/ /\ fresh = {}
          /\ coldDone' = (coldDone \/ reason[r] = "cold_start")
          /\ deliver(r)
          /\ Goto(r, "done")
       \/ /\ fresh # {}
          /\ Goto(r, "hold")
          /\ UNCHANGED <<coldDone, answers>>
    /\ UNCHANGED <<gateVars, reqCh, gapSeen, coldSubmitted, closed, runVars, reason,
                   held, outcome>>

\* gate.Hold for the fresh keys, one call each, outside mu.
HoldNext(r) ==
  /\ pc[r] = "hold"
  /\ \E k \in rkeys[r] \ held[r] :
       /\ Hold(k)
       /\ held' = [held EXCEPT ![r] = @ \cup {k}]
       /\ Goto(r, IF held[r] \cup {k} = rkeys[r] THEN "send" ELSE "hold")
  /\ UNCHANGED <<inflight, reqCh, gapSeen, coldSubmitted, coldDone, closed, runVars,
                 reason, rkeys, outcome, answers>>

\* releaseKeys, first half: under mu the keys stop being in flight.
Unmark(r, why) ==
  /\ inflight' = inflight \ rkeys[r]
  /\ outcome'  = [outcome EXCEPT ![r] = why]
  /\ Goto(r, "release")

\* Mutant: a request dropped because the queue is full keeps its keys held.
SendLeaksHolds(r) ==
  /\ pc[r] = "send"
  /\ \/ /\ Len(reqCh) < QueueSize
        /\ reqCh' = Append(reqCh, r)
        /\ Goto(r, "queued")
        /\ UNCHANGED <<inflight, outcome>>
     \/ /\ Len(reqCh) >= QueueSize
        /\ inflight' = inflight \ rkeys[r]
        /\ Goto(r, "done")
        /\ UNCHANGED <<reqCh, outcome>>
  /\ UNCHANGED <<gateVars, gapSeen, coldSubmitted, coldDone, closed, runVars, reason,
                 rkeys, held, answers>>

\* The non-blocking send; a full queue rejects the request.
Send(r) ==
  /\ pc[r] = "send"
  /\ \/ /\ Len(reqCh) < QueueSize
        /\ reqCh' = Append(reqCh, r)
        /\ Goto(r, "queued")
        /\ UNCHANGED <<inflight, outcome>>
     \/ /\ Len(reqCh) >= QueueSize
        /\ Unmark(r, "rejected")
        /\ UNCHANGED reqCh
  /\ UNCHANGED <<gateVars, gapSeen, coldSubmitted, coldDone, closed, runVars, reason,
                 rkeys, held, answers>>

\* releaseKeys, second half: gate.Release for each key, outside mu.
ReleaseNext(r) ==
  /\ pc[r] = "release"
  /\ \E k \in held[r] :
       /\ Release(k)
       /\ held' = [held EXCEPT ![r] = @ \ {k}]
  /\ UNCHANGED <<inflight, reqCh, gapSeen, coldSubmitted, coldDone, closed, runVars, pc,
                 reason, rkeys, outcome, answers>>

\* Mutant: a cold start rejected by the full queue leaves readiness wedged.
FinishWedgesReady(r) ==
  /\ pc[r] = "release" /\ held[r] = {}
  /\ Goto(r, "done")
  /\ \/ outcome[r] = "processed" /\ UNCHANGED answers
     \/ outcome[r] # "processed" /\ deliver(r)
  /\ \/ cur # r /\ UNCHANGED <<cur, runner>>
     \/ cur = r /\ cur' = None /\ runner' = (IF runner = "busy" THEN "idle" ELSE runner)
  /\ UNCHANGED <<gateVars, inflight, reqCh, gapSeen, coldSubmitted, coldDone, closed,
                 stopping, reason, rkeys, held, outcome>>

\* After releaseKeys: a rejected or drained request is answered only now, and
\* a rejected cold start does not wedge readiness.
Finish(r) ==
  /\ pc[r] = "release" /\ held[r] = {}
  /\ Goto(r, "done")
  /\ \/ outcome[r] = "processed" /\ UNCHANGED answers
     \/ outcome[r] # "processed" /\ deliver(r)
  /\ coldDone' = (coldDone \/ (outcome[r] = "rejected" /\ reason[r] = "cold_start"))
  /\ \/ cur # r /\ UNCHANGED <<cur, runner>>
     \/ cur = r /\ cur' = None /\ runner' = (IF runner = "busy" THEN "idle" ELSE runner)
  /\ UNCHANGED <<gateVars, inflight, reqCh, gapSeen, coldSubmitted, closed, stopping,
                 reason, rkeys, held, outcome>>

-----------------------------------------------------------------------------
(* The runner. *)

RunnerTake ==
  /\ runner = "idle" /\ reqCh # <<>>
  /\ runner' = "busy"
  /\ cur'    = Head(reqCh)
  /\ reqCh'  = Tail(reqCh)
  /\ Goto(Head(reqCh), "process")
  /\ UNCHANGED <<gateVars, inflight, gapSeen, coldSubmitted, coldDone, closed, stopping,
                 reason, rkeys, held, outcome, answers>>

\* process runs to its end; the last deferred call of it, deliver, runs first.
ProcessEnd ==
  /\ runner = "busy" /\ pc[cur] = "process"
  /\ Goto(cur, "processed")
  /\ deliver(cur)
  /\ UNCHANGED <<gateVars, inflight, reqCh, gapSeen, coldSubmitted, coldDone, closed,
                 runVars, reason, rkeys, held, outcome>>

\* A call of process to the exchange, ClickHouse or Redis does not come back.
ProcessHang ==
  /\ runner = "busy" /\ pc[cur] = "process"
  /\ Goto(cur, "hung")
  /\ UNCHANGED <<gateVars, inflight, reqCh, gapSeen, coldSubmitted, coldDone, closed,
                 runVars, reason, rkeys, held, outcome, answers>>

\* Mutant: process runs under the context of Start, without gateTimeout.
ExpireOnlyAtStop ==
  /\ runner = "busy" /\ pc[cur] = "hung"
  /\ stopping
  /\ Goto(cur, "processed")
  /\ deliver(cur)
  /\ UNCHANGED <<gateVars, inflight, reqCh, gapSeen, coldSubmitted, coldDone, closed,
                 runVars, reason, rkeys, held, outcome>>

\* Every such call takes the request's context, which ends at gateTimeout or
\* with the context of Start: the call fails, and so does what follows it.
ProcessExpire ==
  /\ runner = "busy" /\ pc[cur] = "hung"
  /\ GateTimeout \/ stopping
  /\ Goto(cur, "processed")
  /\ deliver(cur)
  /\ UNCHANGED <<gateVars, inflight, reqCh, gapSeen, coldSubmitted, coldDone, closed,
                 runVars, reason, rkeys, held, outcome>>

\* Then coldStartDone is stored, ...
ProcessColdDone ==
  /\ runner = "busy" /\ pc[cur] = "processed"
  /\ reason[cur] = "cold_start" /\ ~coldDone
  /\ coldDone' = TRUE
  /\ UNCHANGED <<gateVars, inflight, reqCh, gapSeen, coldSubmitted, closed, runVars, pc,
                 reason, rkeys, held, outcome, answers>>

\* ... and releaseKeys runs.
ProcessUnmark ==
  /\ runner = "busy" /\ pc[cur] = "processed"
  /\ reason[cur] = "cold_start" => coldDone
  /\ Unmark(cur, "processed")
  /\ UNCHANGED <<gateVars, reqCh, gapSeen, coldSubmitted, coldDone, closed, runVars,
                 reason, rkeys, held, answers>>

\* The select picks ctx.Done or stopCh; it may also pick a queued request.
RunnerStop ==
  /\ runner = "idle" /\ stopping
  /\ runner' = "draining"
  /\ UNCHANGED <<gateVars, inflight, reqCh, gapSeen, coldSubmitted, coldDone, closed, cur,
                 stopping, pc, reason, rkeys, held, outcome, answers>>

\* drainRelease: the keys of a queued request are released unprocessed.
DrainTake ==
  /\ runner = "draining" /\ cur = None /\ reqCh # <<>>
  /\ cur'   = Head(reqCh)
  /\ reqCh' = Tail(reqCh)
  /\ Unmark(Head(reqCh), "drained")
  /\ UNCHANGED <<gateVars, gapSeen, coldSubmitted, coldDone, closed, runner, stopping,
                 reason, rkeys, held, answers>>

DrainExit ==
  /\ runner = "draining" /\ cur = None /\ reqCh = <<>>
  /\ runner' = "exited"
  /\ UNCHANGED <<gateVars, inflight, reqCh, gapSeen, coldSubmitted, coldDone, closed, cur,
                 stopping, pc, reason, rkeys, held, outcome, answers>>

\* The context given to Start is cancelled.
CancelContext ==
  /\ MayStop /\ ~stopping
  /\ stopping' = TRUE
  /\ UNCHANGED <<gateVars, inflight, reqCh, gapSeen, coldSubmitted, coldDone, closed,
                 runner, cur, pc, reason, rkeys, held, outcome, answers>>

\* Close: closed first, then the cancellation and stopCh; it returns when the
\* runner has exited.
CloseStore ==
  /\ MayStop /\ ~closed
  /\ closed' = TRUE
  /\ UNCHANGED <<gateVars, inflight, reqCh, gapSeen, coldSubmitted, coldDone, runVars, pc,
                 reason, rkeys, held, outcome, answers>>

CloseSignal ==
  /\ closed /\ ~stopping
  /\ stopping' = TRUE
  /\ UNCHANGED <<gateVars, inflight, reqCh, gapSeen, coldSubmitted, coldDone, closed,
                 runner, cur, pc, reason, rkeys, held, outcome, answers>>

-----------------------------------------------------------------------------

Caller ==
  \/ \E r \in Requests, ks \in KeyLists \cup {{}} : SubmitColdStart(r, ks)
  \/ \E r \in Requests, ks \in KeyLists : SubmitOther(r, ks)
  \/ \E r \in Requests, sh \in Shards, ks \in KeyLists \cup {{}} : HandleGap(r, sh, ks)
  \/ \E sh \in Shards : DebounceElapse(sh)
  \/ CancelContext
  \/ CloseStore

\* The steps of the goroutine that owns r, outside process.
Owner(r) ==
  CheckClosed(r) \/ Filter(r) \/ HoldNext(r) \/ Send(r) \/ ReleaseNext(r) \/ Finish(r)

Runner ==
  RunnerTake \/ ProcessEnd \/ ProcessExpire \/ ProcessColdDone \/ ProcessUnmark \/ RunnerStop
    \/ DrainTake \/ DrainExit

Next == Caller \/ (\E r \in Requests : Owner(r)) \/ Runner \/ ProcessHang \/ CloseSignal

Spec == Init /\ [][Next]_vars

\* Goroutines that can run do run, and a deadline that is set passes.  A hung
\* call is not assumed to return: only its context ends it (ProcessExpire).
Fairness == (\A r \in Requests : WF_vars(Owner(r))) /\ WF_vars(Runner) /\ WF_vars(CloseSignal)

FairSpec == Spec /\ Fairness

-----------------------------------------------------------------------------
(* Safety. *)

\* inflight is what the live requests own, and no two own the same key.
OwnedApart ==
  /\ inflight = UNION {rkeys[r] : r \in {q \in Requests : pc[q] \in Owning}}
  /\ \A r, q \in Requests :
       r # q /\ pc[r] \in Owning /\ pc[q] \in Owning => rkeys[r] \cap rkeys[q] = {}

(* Two requests never rebuild the same key at the same time, and a key is  *)
(* marked in flight exactly as long as one request owns it: a duplicate    *)
(* would rebuild a window from an older read after a newer one, and a      *)
(* leaked mark would block every later repair of the key (Submit,          *)
(* backfill.go:344-357).                                                   *)
KeysOwnedOnce == TypeOK /\ OwnedApart

(* The gate's count of a key is the number of requests that still have to  *)
(* give a hold back.                                                       *)
GateCountsHolders ==
  \A k \in Key : keys[k] = Cardinality({r \in Requests : k \in held[r]})

(* From the end of its Submit until its keys are released, every key of a  *)
(* request is behind the gate, so no live push reaches a window under      *)
(* rebuild.  Another request's release, which comes after the key is free  *)
(* to be submitted again (releaseKeys unmarks before it opens the gate),   *)
(* must not open it.                                                       *)
OwnedKeysHeld ==
  \A r \in Requests : pc[r] \in Guarded => \A k \in rkeys[r] : HeldWindow(k)

(* When nothing owns a key the gate is fully open: a leaked hold would     *)
(* suppress the key's window and the interval's kline_ready for good.      *)
NothingHeldAtRest ==
  (\A r \in Requests : pc[r] \in {"idle", "submit", "filter", "done"})
     => \A iv \in Intervals : ~HeldInterval(iv)

(* The sweeper waits for one result per repair, on a channel of one place  *)
(* that deliver never blocks on: a request is answered once, in the end,   *)
(* by whichever of the five deliveries its way out passes (Submit,         *)
(* drainRelease, process), and nothing but a repair is answered.           *)
AnsweredOnce ==
  \A r \in Requests :
    LET due == IF reason[r] = "repair" THEN 1 ELSE 0 IN
      answers[r] <= due /\ (pc[r] = "done" => answers[r] = due)

(* The safety half of ColdStartEndsReady: until the service is ready or    *)
(* begins to stop, the cold start is still on its way, so no outcome of it *)
(* (rejected, all duplicates, processed) is left that never sets           *)
(* coldStartDone.                                                          *)
ReadyOnItsWay ==
  Ready \/ closed \/ stopping
    \/ \E r \in Requests : reason[r] = "cold_start" /\ pc[r] \notin {"idle", "done"}

(* While the service runs every hold is given back in the end, whichever   *)
(* way the request ends, also when a call of it hangs (process bounds the  *)
(* request by gateTimeout, backfill.go:457-461).                           *)
HoldsReleased == \A k \in Key : HeldWindow(k) ~> (~HeldWindow(k) \/ stopping)

(* A repair request that is submitted is answered, so the sweeper that     *)
(* waits on the result goes on, unless the service stops.                  *)
RepairAnswered ==
  \A r \in Requests :
    (pc[r] = "submit" /\ reason[r] = "repair") ~> (answers[r] = 1 \/ stopping)

(* A submitted cold start ends with the service ready or stopping, also    *)
(* when the queue is full or every key is already in flight.               *)
ColdStartEndsReady == coldSubmitted ~> (Ready \/ stopping)
=============================================================================
