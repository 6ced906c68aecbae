------------------------------ MODULE Admission ------------------------------
(***************************************************************************)
(* Admission of requests to the exchange: weightgate.Gate.Wait for the     *)
(* /fapi classes (internal/weightgate/gate.go), DataPool.Wait for          *)
(* /futures/data (internal/openinterest/limiter.go), and what their        *)
(* callers do with a response.  Both wait out a pause, then a second limit *)
(* (the exchange's used weight; the sliding window), then a token bucket,  *)
(* and look again when they wake.                                          *)
(*                                                                         *)
(* A tick is the time in which a bucket gains one token.  The steps of a   *)
(* caller between two sleeps take less than a tick, and a sleeper wakes on *)
(* time.  The buckets are golang.org/x/time/rate, which is external.       *)
(***************************************************************************)
EXTENDS Integers, Sequences

CONSTANTS
  Callers,
  Mixes,        (* who asks for what: for each caller "live" or "bulk",    *)
                (* which go to the gate, or "data", which goes to the      *)
                (* pool; the two share nothing, and "misc" differs from    *)
                (* "live" by its budget only                               *)
  Burst,        (* capacity of the bucket of each class                    *)
  Weights,      (* the weights bulk callers ask for                        *)
  Minute,       (* ticks in the exchange's minute                          *)
  UsedLevels,   (* what the exchange may report as used                    *)
  Soft, Hard,   (* the thresholds of bulk and of live                      *)
  Window, Cap,  (* the sliding window of the pool                          *)
  Retry,        (* the Retry-After a 429 or 418 may carry                  *)
  MaxTime,      (* the clock runs on beyond it only while a caller sleeps  *)
  MaxCalls,     (* bound on the requests                                   *)
  MaxFaults     (* bound on the responses 429 and 418, on reports of used  *)
                (* weight at a threshold and on contexts that end          *)

Classes == UNION {{m[c] : c \in Callers} : m \in Mixes}

ASSUME AdmissionAssumption ==
  /\ Mixes \subseteq [Callers -> {"live", "bulk", "data"}]
  /\ \A k \in Classes : Burst[k] \in Nat \ {0}
  /\ Weights \subseteq Nat /\ Retry \subseteq Nat /\ UsedLevels \subseteq Nat
  /\ {Minute, Window, Cap} \subseteq Nat \ {0}
  /\ Soft \in Nat /\ Hard \in Nat /\ Soft <= Hard
  /\ {MaxTime, MaxCalls, MaxFaults} \subseteq Nat

VARIABLES
  now,
  paused,     (* pausedUntilNs and pausedNs: the end of the pause          *)
  obs,        (* the last used weight reported and when                    *)
  times,      (* DataPool.times, pruned as all that read it do first       *)
  lim,        (* the buckets                                               *)
  caller,     (* where each caller stands                                  *)
  mix,        (* the class of each caller                                  *)
  calls, faults,
  debt,       (* history: what each class has spent and not earned back    *)
  pausedAt    (* history: when the pause in force began                    *)

limits == <<paused, obs, times, lim>>
bounds == <<mix, calls, faults>>
vars == <<now, limits, caller, bounds, debt, pausedAt>>

Pools == {"fapi", "data"}
pool(k) == IF k = "data" THEN "data" ELSE "fapi"
poolOf(c) == pool(mix[c])

NoObservation == [used |-> 0, at |-> -1]
NoReservation == [tokens |-> 0, act |-> 0]

\* wake: when a sleep ends; until and cur: PauseFor's variables.
Idle == [pc |-> "idle", weight |-> 0, resv |-> NoReservation,
         wake |-> 0, until |-> 0, cur |-> 0]

Sleeping == {"nap", "token"}
Running  == {"check", "repause", "repress", "load", "cas"}

PCs    == {"idle", "respond"} \cup Sleeping \cup Running
Caller == [pc : PCs, weight : Nat,
           resv : [tokens : Int, act : Int], wake : Int, until : Int, cur : Int]

PausesOK ==
  /\ paused \in [Pools -> Nat] /\ pausedAt \in [Pools -> Nat]
  /\ obs \in [used : UsedLevels \cup {0}, at : -1..now]

TimesOK ==
  /\ times \in Seq(Nat)
  /\ \A i \in 1..Len(times) : times[i] <= now /\ (i > 1 => times[i - 1] <= times[i])

BucketsOK ==
  /\ lim \in [Classes -> [tokens : Int, event : Int]]
  /\ \A k \in Classes : lim[k].tokens <= Burst[k]

CallersOK ==
  /\ caller \in [Callers -> Caller] /\ mix \in Mixes
  /\ \A c \in Callers :
       /\ caller[c].pc \in Sleeping => now <= caller[c].wake
       /\ caller[c].pc # "idle" => caller[c].weight \in 1..Burst[mix[c]]

TypeOK ==
  /\ now \in Nat /\ debt \in [Classes -> Nat]
  /\ calls \in 0..MaxCalls /\ faults \in 0..MaxFaults
  /\ PausesOK /\ TimesOK /\ BucketsOK /\ CallersOK

Init ==
  /\ now = 0
  /\ paused = [p \in Pools |-> 0] /\ pausedAt = [p \in Pools |-> 0]
  /\ obs = NoObservation
  /\ times = <<>>
  /\ lim = [k \in Classes |-> [tokens |-> Burst[k], event |-> 0]]
  /\ caller = [c \in Callers |-> Idle]
  /\ mix \in Mixes
  /\ calls = 0 /\ faults = 0
  /\ debt = [k \in Classes |-> 0]

at(c, pc) == caller[c].pc = pc
leave(c)  == caller' = [caller EXCEPT ![c] = Idle]
\* pc, having slept or not: what a sleep was for is over.
go(c, pc) == caller' = [caller EXCEPT ![c].pc = pc, ![c].wake = 0]
nap(c, t) == caller' = [caller EXCEPT ![c].pc = "nap", ![c].wake = t]
again(c)  == caller' = [caller EXCEPT ![c].resv = NoReservation, ![c].wake = 0, ![c].pc = "check"]

\* At pc, or woken from a sleep that leads to pc.
woken(c, sleep, pc) == at(c, pc) \/ (at(c, sleep) /\ now >= caller[c].wake)

Fault == faults < MaxFaults /\ faults' = faults + 1

-----------------------------------------------------------------------------
(* rate.Limiter. *)

least(a, b) == IF a < b THEN a ELSE b

\* A tick's refill of a bucket.  The time of its last reservation matters only
\* to reservations that may still be cancelled.
relied(k)   == \E c \in Callers : mix[c] = k /\ at(c, "token")
refilled(k) == [tokens |-> least(Burst[k], lim[k].tokens + 1),
                event  |-> IF relied(k) THEN lim[k].event ELSE 0]

\* ReserveN: the bucket may go below zero, and the reservation may be used when
\* it would be filled to zero again.
ReserveN(k, n) ==
  LET left == lim[k].tokens - n
      act  == now + (IF left < 0 THEN -left ELSE 0)
  IN  [resv   |-> [tokens |-> n, act |-> act],
       bucket |-> [tokens |-> left, event |-> act]]

\* CancelAt: nothing comes back once the time of the reservation has passed (a
\* caller that wakes in its tick may be late or not), or as far as later
\* reservations rely on it.
CancelAt(k, r, late) ==
  LET back == r.tokens - (lim[k].event - r.act) IN
  IF r.act < now \/ (r.act = now /\ late) \/ back <= 0 THEN lim
  ELSE [lim EXCEPT ![k] =
          [tokens |-> least(Burst[k], lim[k].tokens + back),
           event  |-> IF r.act = @.event /\ r.act - r.tokens >= now
                      THEN r.act - r.tokens ELSE @.event]]

Cancelled(c) == \E late \in BOOLEAN : lim' = CancelAt(mix[c], caller[c].resv, late)

-----------------------------------------------------------------------------
(* Wait. *)

\* A weight of zero counts as one.  Pages of klines differ in weight; the other
\* classes ask for one, and the pool counts requests.
charged(c, w) == IF w = 0 \/ mix[c] # "bulk" THEN 1 ELSE w

\* A request heavier than the burst is refused.
Call(c) ==
  /\ at(c, "idle") /\ calls < MaxCalls /\ now <= MaxTime
  /\ calls' = calls + 1
  /\ \E w \in Weights :
       /\ charged(c, w) <= Burst[mix[c]]
       /\ caller' = [caller EXCEPT ![c] = [Idle EXCEPT !.pc = "check", !.weight = charged(c, w)]]
  /\ UNCHANGED <<now, limits, mix, faults, debt, pausedAt>>

endOfMinute(t) == (t \div Minute + 1) * Minute

\* Mutant: an observation does not expire.
backpressureForEver(k) == obs # NoObservation /\ obs.used >= (IF k = "bulk" THEN Soft ELSE Hard)

\* backpressureDelay: an observation counts until its minute is over.
backpressure(k) ==
  /\ obs # NoObservation
  /\ now < endOfMinute(obs.at)
  /\ obs.used >= (IF k = "bulk" THEN Soft ELSE Hard)

\* backpressureDelay, or windowWait: until when the class must wait.
busyUntil(k) ==
  IF k = "data" THEN IF Len(times) < Cap THEN now ELSE times[1] + Window
  ELSE IF backpressure(k) THEN endOfMinute(obs.at) ELSE now

\* Mutant: the delay of the reservation is not waited for.
NoDelay(resv) == FALSE

Delayed(resv) == resv.act > now

\* The first look, and the reservation of the tokens.  What begins between the
\* one and the other is found by the second look.
Check(c) ==
  LET k == mix[c]
      r == ReserveN(k, caller[c].weight)
  IN
  /\ woken(c, "nap", "check")
  /\ \/ paused[pool(k)] > now /\ nap(c, paused[pool(k)]) /\ UNCHANGED lim
     \/ paused[pool(k)] <= now /\ busyUntil(k) > now /\ nap(c, busyUntil(k)) /\ UNCHANGED lim
     \/ /\ paused[pool(k)] <= now /\ busyUntil(k) <= now
        /\ lim' = [lim EXCEPT ![k] = r.bucket]
        /\ caller' = [caller EXCEPT ![c].resv = r.resv,
                                    ![c].wake = IF Delayed(r.resv) THEN r.resv.act ELSE 0,
                                    ![c].pc = IF Delayed(r.resv) THEN "token" ELSE "repause"]
  /\ UNCHANGED <<now, paused, obs, times, bounds, debt, pausedAt>>

\* The context ends, at the head of the loop or in a sleep; a reservation is
\* cancelled.
GiveUp(c) ==
  /\ caller[c].pc \in Sleeping \cup {"check"}
  /\ Fault
  /\ IF at(c, "token") THEN Cancelled(c) ELSE UNCHANGED lim
  /\ leave(c)
  /\ UNCHANGED <<now, paused, obs, times, mix, calls, debt, pausedAt>>

\* Mutant: a pause that began during the sleep is not noticed.
PausedMeanwhileNever(c) == FALSE

PausedMeanwhile(c) == paused[poolOf(c)] > now

\* A pause may have begun while the caller slept for tokens: it gives them back
\* and starts over.
RecheckPause(c) ==
  /\ woken(c, "token", "repause")
  /\ IF PausedMeanwhile(c) THEN again(c) /\ Cancelled(c)
                           ELSE go(c, "repress") /\ UNCHANGED lim
  /\ UNCHANGED <<now, paused, obs, times, bounds, debt, pausedAt>>

\* Mutant: record does not look at the cap.
RefusedUnchecked(k) == k # "data" /\ backpressure(k)

\* Backpressure has begun meanwhile, or record finds the window full.
Refused(k) == IF k = "data" THEN Len(times) >= Cap ELSE backpressure(k)

\* The caller starts over, or may send, and the pool counts the request.
RecheckLimit(c) ==
  LET k == mix[c] IN
  /\ at(c, "repress")
  /\ IF Refused(k) THEN again(c) /\ Cancelled(c) /\ UNCHANGED <<times, debt>>
     ELSE /\ caller' = [caller EXCEPT ![c].resv = NoReservation, ![c].wake = 0,
                                        ![c].pc = "respond"]
          /\ debt' = [debt EXCEPT ![k] = @ + caller[c].weight]
          /\ times' = IF k = "data" THEN Append(times, now) ELSE times
          /\ UNCHANGED lim
  /\ UNCHANGED <<now, paused, obs, bounds, pausedAt>>

-----------------------------------------------------------------------------
(* The response, and PauseFor. *)

\* ObserveHeader: the gate's responses may report the used weight.
Observed(c) ==
  {obs} \cup IF mix[c] = "data" THEN {} ELSE {[used |-> u, at |-> now] : u \in UsedLevels}

\* The header, and the status: 429 and 418 pause the pool.
Respond(c) ==
  /\ at(c, "respond")
  /\ obs' \in Observed(c)
  /\ \/ leave(c) /\ (obs' = obs \/ obs'.used < Soft) /\ UNCHANGED faults
     \/ leave(c) /\ obs' # obs /\ obs'.used >= Soft /\ Fault
     \/ /\ Fault
        /\ \E d \in Retry : caller' = [caller EXCEPT ![c].pc = "load", ![c].until = now + d]
  /\ UNCHANGED <<now, paused, times, lim, mix, calls, debt, pausedAt>>

PauseLoad(c) ==
  /\ at(c, "load")
  /\ IF caller[c].until <= paused[poolOf(c)] THEN leave(c)
     ELSE caller' = [caller EXCEPT ![c].pc = "cas", ![c].cur = paused[poolOf(c)]]
  /\ UNCHANGED <<now, limits, bounds, debt, pausedAt>>

\* Mutant: a store instead of the compare-and-swap.
SwapBlind(c) == TRUE

SwapSucceeds(c) == paused[poolOf(c)] = caller[c].cur

PauseSwap(c) ==
  LET p == poolOf(c) IN
  /\ at(c, "cas")
  /\ IF SwapSucceeds(c)
     THEN /\ paused' = [paused EXCEPT ![p] = caller[c].until]
          /\ pausedAt' = IF paused[p] > now THEN pausedAt ELSE [pausedAt EXCEPT ![p] = now]
          /\ leave(c)
     ELSE go(c, "load") /\ UNCHANGED <<paused, pausedAt>>
  /\ UNCHANGED <<now, obs, times, lim, bounds, debt>>

-----------------------------------------------------------------------------

\* prune: what has left the window is dropped from the head.
prune(t) ==
  \E k \in 0..Len(times) :
    /\ \A i \in 1..Len(times) : times[i] <= t - Window <=> i <= k
    /\ times' = SubSeq(times, k + 1, Len(times))

Tick ==
  /\ now < MaxTime \/ \E c \in Callers : caller[c].pc \in Sleeping
  /\ \A c \in Callers : caller[c].pc \notin Running /\ (caller[c].pc \in Sleeping => caller[c].wake > now)
  /\ now' = now + 1
  /\ debt' = [k \in Classes |-> IF debt[k] = 0 THEN 0 ELSE debt[k] - 1]
  /\ lim' = [k \in Classes |-> refilled(k)]
  /\ prune(now + 1)
  /\ UNCHANGED <<paused, obs, caller, bounds, pausedAt>>

Step(c) ==
  Check(c) \/ RecheckPause(c) \/ RecheckLimit(c) \/ Respond(c) \/ PauseLoad(c) \/ PauseSwap(c)

Next == Tick \/ \E c \in Callers : Call(c) \/ GiveUp(c) \/ Step(c)

Spec == Init /\ [][Next]_vars

\* Callers run, the exchange answers or the client's timeout ends the request,
\* and time passes.
FairSpec == Spec /\ WF_vars(Tick) /\ \A c \in Callers : WF_vars(Step(c))

-----------------------------------------------------------------------------

(* The token buckets hold whatever is reserved, cancelled and abandoned:   *)
(* over no period does a class send more than its burst and what was       *)
(* refilled in the period (debt is a meter that leaks at that rate).  It   *)
(* holds of the classes whose requests all weigh one: CancelAt may restore *)
(* more than was reserved when weights differ.  The state is well typed    *)
(* besides.                                                                *)
BudgetKept == TypeOK /\ \A k \in Classes \ {"bulk"} : debt[k] <= Burst[k]

(* DataPool: at no time does the window hold more requests than the cap,   *)
(* although callers look at it before they sleep for a token and others    *)
(* send meanwhile.                                                         *)
WindowCapKept == Len(times) <= Cap

(* Nobody sends into a pause, or into backpressure of its class, that has  *)
(* begun in an earlier tick: not even a caller that was asleep then.       *)
NothingSentIntoBackoff ==
  [][\A c \in Callers : at(c, "repress") /\ caller'[c].pc = "respond" =>
       /\ paused[poolOf(c)] > now => pausedAt[poolOf(c)] = now
       /\ mix[c] # "data" /\ backpressure(mix[c]) => obs.at = now]_vars

(* "A shorter pause never shortens one already in force", whoever else     *)
(* reports one at the same time.                                           *)
PauseNeverShortened == [][\A p \in Pools : paused'[p] >= paused[p]]_vars

(* No caller is left waiting: pauses end, windows move on, and a caller    *)
(* that has to start over finds tokens again.                              *)
CallersReturn == <>[](\A c \in Callers : at(c, "idle"))
=============================================================================
