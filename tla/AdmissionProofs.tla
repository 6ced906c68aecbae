--------------------------- MODULE AdmissionProofs ---------------------------
(***************************************************************************)
(* Pauses, backoff, the sliding window and the token buckets, for every    *)
(* set of callers, every budget, weight, threshold and Retry-After, and    *)
(* clocks without a bound.                                                 *)
(***************************************************************************)
EXTENDS Admission, FiniteSetTheorems, TLAPS

\* Whoever swaps found a pause shorter than its own (the compare before the
\* compare-and-swap).
SwapLengthens == \A c \in Callers : at(c, "cas") => caller[c].cur < caller[c].until

\* A caller that has passed its second look at the pause has passed it in this
\* tick: a pause in force began after that, in the same tick.
PauseIsFresh ==
  \A c \in Callers :
    at(c, "repress") /\ paused[poolOf(c)] > now => pausedAt[poolOf(c)] = now

WithinCap == Len(times) <= Cap

IInv == TypeOK /\ SwapLengthens /\ PauseIsFresh /\ WithinCap

USE DEF Sleeping, Running, Pools, poolOf, pool, at

-----------------------------------------------------------------------------
LEMMA MixTyped ==
  ASSUME NEW m \in Mixes, NEW c \in Callers
  PROVE  m[c] \in Classes /\ Burst[m[c]] \in Nat \ {0}
<1>1. m[c] \in Classes
  BY DEF Classes
<1> QED
  BY <1>1, AdmissionAssumption DEF AdmissionAssumption

\* A reservation is made of integers, and its bucket is not above its burst.
LEMMA ReserveTyped ==
  ASSUME TypeOK, NEW k \in Classes, NEW n \in Nat
  PROVE  /\ ReserveN(k, n).resv \in [tokens : Int, act : Int]
         /\ ReserveN(k, n).bucket \in [tokens : Int, event : Int]
         /\ ReserveN(k, n).bucket.tokens <= Burst[k]
<1>1. lim[k] \in [tokens : Int, event : Int] /\ lim[k].tokens <= Burst[k] /\ now \in Nat
  BY DEF TypeOK, BucketsOK
<1>2. Burst[k] \in Nat
  BY AdmissionAssumption DEF AdmissionAssumption
<1> QED
  BY <1>1, <1>2 DEF ReserveN

\* What a cancelled reservation gives back does not overfill the bucket.
LEMMA CancelTyped ==
  ASSUME TypeOK, NEW c \in Callers, Cancelled(c)
  PROVE  BucketsOK'
<1> DEFINE k == mix[c]
<1>1. k \in Classes /\ Burst[k] \in Nat
  BY MixTyped DEF TypeOK, CallersOK
<1>2. BucketsOK /\ caller[c].resv \in [tokens : Int, act : Int] /\ now \in Nat
  BY DEF TypeOK, CallersOK, Caller
<1>3. PICK late \in BOOLEAN : lim' = CancelAt(k, caller[c].resv, late)
  BY DEF Cancelled
<1>4. CASE lim' = lim
  BY <1>2, <1>4 DEF BucketsOK
<1>5. CASE lim' # lim
  <2> DEFINE r == caller[c].resv
             back == r.tokens - (lim[k].event - r.act)
             b == [tokens |-> least(Burst[k], lim[k].tokens + back),
                   event  |-> IF r.act = lim[k].event /\ r.act - r.tokens >= now
                              THEN r.act - r.tokens ELSE lim[k].event]
  <2>1. lim' = [lim EXCEPT ![k] = b]
    BY <1>3, <1>5 DEF CancelAt
  <2>2. back \in Int
    BY <1>1, <1>2 DEF BucketsOK
  <2>3. least(Burst[k], lim[k].tokens + back) \in Int
        /\ least(Burst[k], lim[k].tokens + back) <= Burst[k]
    BY <1>1, <1>2, <2>2 DEF least, BucketsOK
  <2>4. b \in [tokens : Int, event : Int] /\ b.tokens <= Burst[k]
    BY <1>1, <1>2, <2>3 DEF BucketsOK
  <2> QED
    BY <1>1, <1>2, <2>1, <2>4 DEF BucketsOK
<1> QED
  BY <1>4, <1>5

\* What prune leaves of the times (DataPool.prune).
LEMMA PruneTyped ==
  ASSUME TypeOK, NEW t \in Nat, prune(t), now' \in Nat, now <= now'
  PROVE  TimesOK' /\ Len(times') <= Len(times)
<1>1. PICK k \in 0..Len(times) : times' = SubSeq(times, k + 1, Len(times))
  BY DEF prune
<1>2. times \in Seq(Nat) /\ now \in Nat
  BY DEF TypeOK, TimesOK
<1>3. /\ times' \in Seq(Nat) /\ Len(times') = Len(times) - k
      /\ \A i \in 1..Len(times') : i + k \in 1..Len(times) /\ times'[i] = times[i + k]
  BY <1>1, <1>2
<1>4. \A j \in 1..Len(times) :
        times[j] \in Nat /\ times[j] <= now /\ (j > 1 => times[j - 1] <= times[j])
  BY DEF TypeOK, TimesOK
<1>5. ASSUME NEW i \in 1..Len(times')
      PROVE  times'[i] <= now' /\ (i > 1 => times'[i - 1] <= times'[i])
  <2>1. times'[i] \in Nat /\ times'[i] <= now
    BY <1>3, <1>4
  <2>2. times'[i] <= now'
    BY <1>2, <2>1
  <2>3. ASSUME i > 1 PROVE times'[i - 1] <= times'[i]
    <3>1. i \in Nat /\ k \in Nat /\ Len(times') \in Nat
      BY <1>2, <1>3
    <3>2. i - 1 \in 1..Len(times') /\ (i - 1) + k = (i + k) - 1 /\ i + k > 1
      BY <2>3, <3>1
    <3> QED
      BY <1>3, <1>4, <3>2
  <2> QED
    BY <2>2, <2>3
<1> QED
  BY <1>2, <1>3, <1>5 DEF TimesOK

-----------------------------------------------------------------------------
(* Each action keeps the types. *)

\* The parts of TypeOK that an action leaves alone.
LEMMA PartsKept ==
  ASSUME TypeOK, now' = now
  PROVE  /\ UNCHANGED <<paused, obs, pausedAt>> => PausesOK'
         /\ UNCHANGED times => TimesOK'
         /\ UNCHANGED lim => BucketsOK'
<1>1. UNCHANGED <<paused, obs, pausedAt>> => PausesOK'
  BY DEF TypeOK, PausesOK
<1>2. UNCHANGED times => TimesOK'
  BY DEF TypeOK, TimesOK
<1>3. UNCHANGED lim => BucketsOK'
  BY DEF TypeOK, BucketsOK
<1> QED
  BY <1>1, <1>2, <1>3

\* The part of TypeOK about the callers, when only c moves and its next record
\* is well typed.
LEMMA CallerTyped ==
  ASSUME TypeOK, NEW c \in Callers, NEW r \in Caller,
         caller' = [caller EXCEPT ![c] = r], now' = now, mix' = mix,
         r.pc \in Sleeping => now <= r.wake,
         r.pc # "idle" => r.weight \in 1..Burst[mix[c]]
  PROVE  CallersOK'
BY DEF TypeOK, CallersOK

\* What is known of a caller that is in a call.
LEMMA BusyTyped ==
  ASSUME TypeOK, NEW c \in Callers
  PROVE  /\ caller[c] \in Caller /\ now \in Nat
         /\ mix[c] \in Classes /\ Burst[mix[c]] \in Nat \ {0}
         /\ caller[c].pc # "idle" => caller[c].weight \in 1..Burst[mix[c]]
<1>1. mix \in Mixes
  BY DEF TypeOK, CallersOK
<1>2. mix[c] \in Classes /\ Burst[mix[c]] \in Nat \ {0}
  BY <1>1, MixTyped
<1> QED
  BY <1>2 DEF TypeOK, CallersOK

LEMMA IdleTyped == Idle \in Caller /\ Idle.pc = "idle"
BY DEF Idle, NoReservation, Caller, PCs

\* The records a step can leave: a new call sets pc and weight, PauseFor pc and
\* its variables, Wait pc and wake, and with them the reservation.
moved(r, p, w) == [r EXCEPT !.pc = p, !.wake = w]
asked(r, n) == [r EXCEPT !.pc = "check", !.weight = n]
told(r, u)   == [r EXCEPT !.pc = "load", !.until = u]
loaded(r, u) == [r EXCEPT !.pc = "cas", !.cur = u]
movedWith(r, v, p, w) == [r EXCEPT !.resv = v, !.wake = w, !.pc = p]

LEMMA Asked ==
  ASSUME NEW r \in Caller, NEW n \in Nat
  PROVE  asked(r, n) \in Caller /\ asked(r, n).pc = "check" /\ asked(r, n).weight = n
BY DEF Caller, PCs, asked

LEMMA Told ==
  ASSUME NEW r \in Caller, NEW u \in Int
  PROVE  /\ told(r, u) \in Caller /\ told(r, u).pc = "load" /\ told(r, u).weight = r.weight
         /\ loaded(r, u) \in Caller /\ loaded(r, u).pc = "cas"
         /\ loaded(r, u).weight = r.weight
         /\ loaded(r, u).cur = u /\ loaded(r, u).until = r.until
BY DEF Caller, PCs, told, loaded

LEMMA Moved ==
  ASSUME NEW r \in Caller, NEW p \in PCs, NEW w \in Int
  PROVE  /\ moved(r, p, w) \in Caller /\ moved(r, p, w).pc = p
         /\ moved(r, p, w).wake = w /\ moved(r, p, w).weight = r.weight
BY DEF Caller, moved

LEMMA MovedWith ==
  ASSUME NEW r \in Caller, NEW p \in PCs, NEW w \in Int, NEW v \in [tokens : Int, act : Int]
  PROVE  /\ movedWith(r, v, p, w) \in Caller /\ movedWith(r, v, p, w).pc = p
         /\ movedWith(r, v, p, w).wake = w /\ movedWith(r, v, p, w).weight = r.weight
BY DEF Caller, movedWith

\* A caller that leaves is idle.
LEMMA LeaveTyped ==
  ASSUME TypeOK, NEW c \in Callers, leave(c), now' = now, mix' = mix
  PROVE  CallersOK'
<1>1. caller' = [caller EXCEPT ![c] = Idle]
  BY DEF leave
<1>2. Idle.pc \notin Sleeping
  BY IdleTyped
<1> QED
  BY <1>1, <1>2, IdleTyped, CallerTyped

\* A caller that goes on, starts over or sleeps keeps its weight.
LEMMA MoveTyped ==
  ASSUME TypeOK, NEW c \in Callers, caller[c].pc # "idle", NEW r \in Caller,
         caller' = [caller EXCEPT ![c] = r], now' = now, mix' = mix,
         r.pc \in Sleeping => now <= r.wake, r.weight = caller[c].weight
  PROVE  CallersOK'
<1>1. r.weight \in 1..Burst[mix[c]]
  BY BusyTyped
<1> QED
  BY <1>1, CallerTyped

LEMMA GoTyped ==
  ASSUME TypeOK, NEW c \in Callers, caller[c].pc # "idle", now' = now, mix' = mix,
         NEW p \in PCs, NEW w \in Int, p \in Sleeping => now <= w,
         caller' = [caller EXCEPT ![c] = moved(caller[c], p, w)]
  PROVE  CallersOK'
<1> DEFINE r == moved(caller[c], p, w)
<1>1. caller[c] \in Caller
  BY BusyTyped
<1>2. r \in Caller /\ r.pc = p /\ r.wake = w /\ r.weight = caller[c].weight
  BY <1>1, Moved
<1>3. caller' = [caller EXCEPT ![c] = r]
  OBVIOUS
<1> HIDE DEF r
<1> QED
  BY <1>2, <1>3, MoveTyped

LEMMA ReserveMoveTyped ==
  ASSUME TypeOK, NEW c \in Callers, caller[c].pc # "idle", now' = now, mix' = mix,
         NEW p \in PCs, NEW w \in Int, p \in Sleeping => now <= w,
         NEW v \in [tokens : Int, act : Int],
         caller' = [caller EXCEPT ![c] = movedWith(caller[c], v, p, w)]
  PROVE  CallersOK'
<1> DEFINE r == movedWith(caller[c], v, p, w)
<1>1. caller[c] \in Caller
  BY BusyTyped
<1>2. r \in Caller /\ r.pc = p /\ r.wake = w /\ r.weight = caller[c].weight
  BY <1>1, MovedWith
<1>3. caller' = [caller EXCEPT ![c] = r]
  OBVIOUS
<1> HIDE DEF r
<1> QED
  BY <1>2, <1>3, MoveTyped

LEMMA CallTypes ==
  ASSUME TypeOK, NEW c \in Callers, Call(c) PROVE TypeOK'
<1>1. PICK w \in Weights :
        /\ charged(c, w) <= Burst[mix[c]]
        /\ caller' = [caller EXCEPT ![c] =
                        [Idle EXCEPT !.pc = "check", !.weight = charged(c, w)]]
  BY DEF Call
<1>2. charged(c, w) \in Nat \ {0}
  BY AdmissionAssumption DEF AdmissionAssumption, charged
<1> DEFINE n == charged(c, w)
           r == asked(Idle, n)
<1>3. r \in Caller /\ r.pc = "check" /\ r.weight = n
  BY <1>2, IdleTyped, Asked
<1>4. r.weight \in 1..Burst[mix[c]]
  BY <1>1, <1>2, <1>3, BusyTyped
<1>5. now' = now /\ mix' = mix /\ caller' = [caller EXCEPT ![c] = r]
  BY <1>1 DEF Call, asked
<1> HIDE DEF r
<1>6. CallersOK'
  BY <1>3, <1>4, <1>5, CallerTyped
<1>7. calls' \in 0..MaxCalls /\ faults' \in 0..MaxFaults
  BY AdmissionAssumption DEF TypeOK, Call, AdmissionAssumption
<1>8. UNCHANGED <<now, paused, obs, times, lim, debt, pausedAt>>
  BY DEF Call, limits
<1> QED
  BY <1>6, <1>7, <1>8, PartsKept DEF TypeOK

\* Until when a class must wait is a time.
LEMMA BusyUntilTyped ==
  ASSUME TypeOK, NEW k \in Classes PROVE busyUntil(k) \in Int
<1>1. now \in Nat /\ Len(times) \in Nat /\ Cap \in Nat \ {0} /\ Window \in Nat /\ obs.at \in Int
  BY AdmissionAssumption DEF AdmissionAssumption, TypeOK, TimesOK, PausesOK
<1>2. endOfMinute(obs.at) \in Int
  BY <1>1, AdmissionAssumption DEF endOfMinute, AdmissionAssumption
<1>3. Len(times) >= Cap => times[1] \in Nat
  BY <1>1 DEF TypeOK, TimesOK
<1> QED
  BY <1>1, <1>2, <1>3 DEF busyUntil

\* A sleep for the end of a pause or of what is busy, and a sleep for tokens,
\* end in the future.
LEMMA CheckTypes ==
  ASSUME TypeOK, NEW c \in Callers, Check(c) PROVE TypeOK'
<1> DEFINE k == mix[c]
           v == ReserveN(k, caller[c].weight)
<1>1. k \in Classes /\ now \in Nat /\ caller[c].pc # "idle" /\ caller[c].weight \in Nat
  <2>1. caller[c].pc # "idle"
    BY DEF Check, woken
  <2> QED
    BY <2>1, BusyTyped
<1>2. UNCHANGED <<now, paused, obs, times, mix, calls, faults, debt, pausedAt>>
  BY DEF Check, bounds
<1>3. ASSUME CallersOK', BucketsOK' PROVE TypeOK'
  BY <1>2, <1>3, PartsKept DEF TypeOK
<1>4. ASSUME NEW t \in Int, t > now, nap(c, t), lim' = lim
      PROVE  TypeOK'
  <2>1. CallersOK'
    <3>1. caller' = [caller EXCEPT ![c] = moved(caller[c], "nap", t)]
      BY <1>4 DEF nap, moved, TypeOK, CallersOK
    <3>2. "nap" \in PCs /\ now <= t
      BY <1>1, <1>4 DEF PCs
    <3> QED
      BY <1>1, <1>2, <1>4, <3>1, <3>2, GoTyped
  <2> QED
    BY <1>2, <1>3, <1>4, <2>1, PartsKept
<1>5. CASE paused[pool(k)] > now /\ nap(c, paused[pool(k)]) /\ lim' = lim
  <2>1. paused[pool(k)] \in Int
    BY DEF TypeOK, PausesOK
  <2> QED
    BY <1>4, <1>5, <2>1
<1>6. CASE busyUntil(k) > now /\ nap(c, busyUntil(k)) /\ lim' = lim
  <2>1. busyUntil(k) \in Int
    BY <1>1, BusyUntilTyped
  <2> QED
    BY <1>4, <1>6, <2>1
<1> DEFINE w == IF Delayed(v.resv) THEN v.resv.act ELSE 0
           p == IF Delayed(v.resv) THEN "token" ELSE "repause"
<1>7. CASE /\ lim' = [lim EXCEPT ![k] = v.bucket]
           /\ caller' = [caller EXCEPT ![c].resv = v.resv, ![c].wake = w, ![c].pc = p]
  <2>1. /\ v.resv \in [tokens : Int, act : Int] /\ v.bucket \in [tokens : Int, event : Int]
        /\ v.bucket.tokens <= Burst[k]
    BY <1>1, ReserveTyped
  <2> HIDE DEF v
  <2>2. BucketsOK'
    BY <1>1, <1>7, <2>1 DEF TypeOK, BucketsOK
  <2>3. w \in Int /\ p \in PCs /\ (p \in Sleeping => now <= w)
    BY <1>1, <2>1 DEF Delayed, PCs
  <2> HIDE DEF w, p
  <2>4. caller' = [caller EXCEPT ![c] = movedWith(caller[c], v.resv, p, w)]
    BY <1>7 DEF movedWith, TypeOK, CallersOK
  <2>5. CallersOK'
    BY <1>1, <1>2, <2>1, <2>3, <2>4, ReserveMoveTyped
  <2> QED
    BY <1>3, <2>2, <2>5
<1>8. \/ paused[pool(k)] > now /\ nap(c, paused[pool(k)]) /\ lim' = lim
      \/ busyUntil(k) > now /\ nap(c, busyUntil(k)) /\ lim' = lim
      \/ /\ lim' = [lim EXCEPT ![k] = v.bucket]
         /\ caller' = [caller EXCEPT ![c].resv = v.resv, ![c].wake = w, ![c].pc = p]
  BY Zenon DEF Check
<1> QED
  BY Zenon, <1>5, <1>6, <1>7, <1>8

\* A caller that starts over, with its tokens given back.
LEMMA AgainTyped ==
  ASSUME TypeOK, NEW c \in Callers, caller[c].pc # "idle", again(c), now' = now, mix' = mix
  PROVE  CallersOK'
<1> DEFINE p == "check"
           w == 0
<1>1. caller' = [caller EXCEPT ![c] = movedWith(caller[c], NoReservation, p, w)]
  BY DEF again, movedWith, TypeOK, CallersOK
<1>2. NoReservation \in [tokens : Int, act : Int] /\ p \in PCs \ Sleeping /\ w \in Int
  BY DEF NoReservation, PCs
<1> HIDE DEF p, w
<1> QED
  BY <1>1, <1>2, ReserveMoveTyped

LEMMA WentTyped ==
  ASSUME TypeOK, NEW c \in Callers, caller[c].pc # "idle", NEW p \in Running, go(c, p),
         now' = now, mix' = mix
  PROVE  CallersOK'
<1> DEFINE w == 0
<1>1. caller' = [caller EXCEPT ![c] = moved(caller[c], p, w)]
  BY DEF go, moved, TypeOK, CallersOK
<1>2. p \in PCs \ Sleeping /\ w \in Int
  BY DEF PCs
<1> HIDE DEF w
<1> QED
  BY <1>1, <1>2, GoTyped

LEMMA FaultTyped ==
  ASSUME TypeOK, Fault PROVE faults' \in 0..MaxFaults
BY AdmissionAssumption DEF TypeOK, Fault, AdmissionAssumption

LEMMA GiveUpTypes ==
  ASSUME TypeOK, NEW c \in Callers, GiveUp(c) PROVE TypeOK'
<1>1. /\ UNCHANGED <<now, paused, obs, times, mix, calls, debt, pausedAt>>
      /\ leave(c) /\ Fault
  BY DEF GiveUp
<1>2. CallersOK'
  BY <1>1, LeaveTyped
<1>3. BucketsOK'
  BY <1>1, CancelTyped, PartsKept DEF GiveUp
<1>4. faults' \in 0..MaxFaults
  BY <1>1, FaultTyped
<1> QED
  BY <1>1, <1>2, <1>3, <1>4, PartsKept DEF TypeOK

LEMMA RecheckPauseTypes ==
  ASSUME TypeOK, NEW c \in Callers, RecheckPause(c) PROVE TypeOK'
<1>1. /\ UNCHANGED <<now, paused, obs, times, mix, calls, faults, debt, pausedAt>>
      /\ caller[c].pc # "idle"
      /\ (again(c) /\ Cancelled(c)) \/ (go(c, "repress") /\ UNCHANGED lim)
  BY DEF RecheckPause, woken, bounds
<1>2. CallersOK'
  BY <1>1, AgainTyped, WentTyped
<1>3. BucketsOK'
  BY <1>1, CancelTyped, PartsKept
<1> QED
  BY <1>1, <1>2, <1>3, PartsKept DEF TypeOK

LEMMA RecheckLimitTypes ==
  ASSUME TypeOK, NEW c \in Callers, RecheckLimit(c) PROVE TypeOK'
<1>1. /\ UNCHANGED <<now, paused, obs, mix, calls, faults, pausedAt>>
      /\ caller[c].pc # "idle"
  BY DEF RecheckLimit, bounds
<1>2. CASE Refused(mix[c])
  <2>1. again(c) /\ Cancelled(c) /\ UNCHANGED <<times, debt>>
    BY <1>2 DEF RecheckLimit
  <2>2. CallersOK' /\ BucketsOK'
    BY <1>1, <2>1, AgainTyped, CancelTyped
  <2> QED
    BY <1>1, <2>1, <2>2, PartsKept DEF TypeOK
<1>3. CASE ~Refused(mix[c])
  <2>1. /\ caller' = [caller EXCEPT ![c].resv = NoReservation, ![c].wake = 0,
                                    ![c].pc = "respond"]
        /\ debt' = [debt EXCEPT ![mix[c]] = @ + caller[c].weight]
        /\ times' = IF mix[c] = "data" THEN Append(times, now) ELSE times
        /\ UNCHANGED lim
    BY <1>3 DEF RecheckLimit
  <2> DEFINE p == "respond"
             w == 0
  <2>2. caller' = [caller EXCEPT ![c] = movedWith(caller[c], NoReservation, p, w)]
    BY <2>1 DEF movedWith, TypeOK, CallersOK
  <2>3. NoReservation \in [tokens : Int, act : Int] /\ p \in PCs \ Sleeping /\ w \in Int
    BY DEF NoReservation, PCs
  <2> HIDE DEF p, w
  <2>4. CallersOK'
    BY <1>1, <2>2, <2>3, ReserveMoveTyped
  <2>5. TimesOK'
    BY <1>1, <2>1 DEF TypeOK, TimesOK
  <2>6. caller[c].weight \in Nat /\ mix[c] \in Classes
    BY <1>1, BusyTyped
  <2>7. debt' \in [Classes -> Nat]
    BY <2>1, <2>6 DEF TypeOK
  <2> QED
    BY <1>1, <2>1, <2>4, <2>5, <2>7, PartsKept DEF TypeOK
<1> QED
  BY <1>2, <1>3

LEMMA RespondTypes ==
  ASSUME TypeOK, NEW c \in Callers, Respond(c) PROVE TypeOK'
<1>1. /\ UNCHANGED <<now, paused, times, lim, mix, calls, debt, pausedAt>>
      /\ caller[c].pc # "idle" /\ obs' \in Observed(c)
  BY DEF Respond
<1>2. PausesOK'
  BY <1>1, AdmissionAssumption DEF TypeOK, PausesOK, Observed, AdmissionAssumption
<1>3. faults' \in 0..MaxFaults
  <2>1. (UNCHANGED faults) \/ Fault
    BY DEF Respond
  <2> QED
    BY <2>1, FaultTyped DEF TypeOK
<1>4. CASE leave(c)
  BY <1>1, <1>2, <1>3, <1>4, LeaveTyped, PartsKept DEF TypeOK
<1>5. CASE \E d \in Retry : caller' = [caller EXCEPT ![c].pc = "load", ![c].until = now + d]
  <2>1. PICK d \in Retry :
          caller' = [caller EXCEPT ![c].pc = "load", ![c].until = now + d]
    BY <1>5
  <2> DEFINE u == now + d
             r == told(caller[c], u)
  <2>2. u \in Int
    BY BusyTyped, AdmissionAssumption DEF AdmissionAssumption
  <2>3. caller' = [caller EXCEPT ![c] = r]
    BY <2>1 DEF told, TypeOK, CallersOK
  <2> HIDE DEF u
  <2>4. r \in Caller /\ r.pc = "load" /\ r.weight = caller[c].weight
    BY <2>2, BusyTyped, Told
  <2> HIDE DEF r
  <2>5. CallersOK'
    BY <1>1, <2>3, <2>4, MoveTyped
  <2> QED
    BY <1>1, <1>2, <1>3, <2>5, PartsKept DEF TypeOK
<1> QED
  BY <1>4, <1>5 DEF Respond

LEMMA PauseLoadTypes ==
  ASSUME TypeOK, NEW c \in Callers, PauseLoad(c) PROVE TypeOK'
<1>1. /\ UNCHANGED <<now, paused, obs, times, lim, mix, calls, faults, debt, pausedAt>>
      /\ caller[c].pc # "idle"
  BY DEF PauseLoad, limits, bounds
<1>2. CASE leave(c)
  BY <1>1, <1>2, LeaveTyped, PartsKept DEF TypeOK
<1>3. CASE caller' = [caller EXCEPT ![c].pc = "cas", ![c].cur = paused[poolOf(c)]]
  <2> DEFINE u == paused[poolOf(c)]
             r == loaded(caller[c], u)
  <2>1. u \in Int
    BY DEF TypeOK, PausesOK
  <2>2. caller' = [caller EXCEPT ![c] = r]
    BY <1>3 DEF loaded, TypeOK, CallersOK
  <2> HIDE DEF u
  <2>3. r \in Caller /\ r.pc = "cas" /\ r.weight = caller[c].weight
    BY <2>1, BusyTyped, Told
  <2> HIDE DEF r
  <2>4. CallersOK'
    BY <1>1, <2>2, <2>3, MoveTyped
  <2> QED
    BY <1>1, <2>4, PartsKept DEF TypeOK
<1> QED
  BY <1>2, <1>3 DEF PauseLoad

\* What a pause lasts until is a time: this needs that the swap lengthens it.
LEMMA PauseSwapTypes ==
  ASSUME TypeOK, SwapLengthens, NEW c \in Callers, PauseSwap(c) PROVE TypeOK'
<1>1. /\ UNCHANGED <<now, obs, times, lim, mix, calls, faults, debt>>
      /\ caller[c].pc = "cas"
  BY DEF PauseSwap, bounds
<1>2. CASE SwapSucceeds(c)
  <2> DEFINE p == poolOf(c)
  <2>1. /\ paused' = [paused EXCEPT ![p] = caller[c].until]
        /\ pausedAt' = IF paused[p] > now THEN pausedAt ELSE [pausedAt EXCEPT ![p] = now]
        /\ leave(c)
    BY <1>2 DEF PauseSwap
  <2>2. caller[c].until \in Int /\ caller[c].cur < caller[c].until
    BY <1>1, BusyTyped DEF SwapLengthens, Caller
  <2>3. caller[c].until \in Nat
    BY <1>2, <2>2 DEF SwapSucceeds, TypeOK, PausesOK
  <2>4. PausesOK'
    BY <1>1, <2>1, <2>3 DEF TypeOK, PausesOK
  <2> QED
    BY <1>1, <2>1, <2>4, LeaveTyped, PartsKept DEF TypeOK
<1>3. CASE ~SwapSucceeds(c)
  <2>1. go(c, "load") /\ UNCHANGED <<paused, pausedAt>>
    BY <1>3 DEF PauseSwap
  <2>2. CallersOK'
    BY <1>1, <2>1, WentTyped
  <2> QED
    BY <1>1, <2>1, <2>2, PartsKept DEF TypeOK
<1> QED
  BY <1>2, <1>3

\* Nobody oversleeps a tick, and a bucket is refilled up to its burst.
LEMMA TickTypes ==
  ASSUME TypeOK, Tick PROVE TypeOK'
<1>1. /\ now' = now + 1 /\ prune(now + 1)
      /\ UNCHANGED <<paused, obs, caller, mix, calls, faults, pausedAt>>
      /\ lim' = [k \in Classes |-> refilled(k)]
      /\ debt' = [k \in Classes |-> IF debt[k] = 0 THEN 0 ELSE debt[k] - 1]
      /\ \A c \in Callers : caller[c].pc \in Sleeping => caller[c].wake > now
  BY DEF Tick, bounds
<1>2. now \in Nat /\ now' \in Nat /\ now <= now'
  BY <1>1 DEF TypeOK
<1>3. TimesOK'
  BY <1>1, <1>2, PruneTyped
<1>4. PausesOK'
  BY <1>1, <1>2 DEF TypeOK, PausesOK
<1>5. CallersOK'
  <2>1. \A c \in Callers : caller[c].wake \in Int
    BY BusyTyped DEF Caller
  <2> QED
    BY <1>1, <1>2, <2>1 DEF TypeOK, CallersOK
<1>6. BucketsOK'
  <2>1. ASSUME NEW k \in Classes
        PROVE  refilled(k) \in [tokens : Int, event : Int] /\ refilled(k).tokens <= Burst[k]
    <3>1. lim[k] \in [tokens : Int, event : Int] /\ Burst[k] \in Nat
      BY AdmissionAssumption DEF TypeOK, BucketsOK, AdmissionAssumption
    <3> QED
      BY <1>2, <3>1 DEF refilled, least
  <2> QED
    BY <1>1, <2>1 DEF BucketsOK
<1>7. debt' \in [Classes -> Nat]
  BY <1>1 DEF TypeOK
<1> QED
  BY <1>1, <1>2, <1>3, <1>4, <1>5, <1>6, <1>7 DEF TypeOK

LEMMA TypeStep == TypeOK /\ SwapLengthens /\ [Next]_vars => TypeOK'
<1> SUFFICES ASSUME TypeOK, SwapLengthens, [Next]_vars PROVE TypeOK'
  OBVIOUS
<1>1. CASE Tick
  BY <1>1, TickTypes
<1>2. ASSUME NEW c \in Callers, Call(c) \/ GiveUp(c) \/ Step(c) PROVE TypeOK'
  BY <1>2, CallTypes, GiveUpTypes, CheckTypes, RecheckPauseTypes, RecheckLimitTypes,
     RespondTypes, PauseLoadTypes, PauseSwapTypes DEF Step
<1>3. CASE UNCHANGED vars
  BY <1>3 DEF vars, limits, bounds, TypeOK, PausesOK, TimesOK, BucketsOK, CallersOK
<1> QED
  BY <1>1, <1>2, <1>3 DEF Next

-----------------------------------------------------------------------------
(* The rest of the invariant. *)

\* Where a step may lead its caller; nobody else moves.
LEMMA Moves ==
  ASSUME TypeOK, NEW c \in Callers, Call(c) \/ GiveUp(c) \/ Step(c)
  PROVE  /\ now' = now /\ mix' = mix
         /\ \A d \in Callers \ {c} : caller'[d] = caller[d]
         /\ caller'[c].pc = "repress" => RecheckPause(c)
         /\ caller'[c].pc = "cas" => PauseLoad(c)
         /\ UNCHANGED <<paused, pausedAt>> \/ PauseSwap(c)
         /\ UNCHANGED times \/ RecheckLimit(c)
<1>1. caller \in [Callers -> Caller]
  BY DEF TypeOK, CallersOK
<1>2. CASE Call(c)
  BY <1>1, <1>2 DEF Call, limits, Caller, Idle
<1>3. CASE GiveUp(c)
  BY <1>1, <1>3 DEF GiveUp, leave, Caller, Idle
<1>4. CASE Check(c)
  BY <1>1, <1>4 DEF Check, nap, bounds, Caller
<1>5. CASE RecheckPause(c)
  BY <1>1, <1>5 DEF RecheckPause, go, again, bounds, Caller
<1>6. CASE RecheckLimit(c)
  BY <1>1, <1>6 DEF RecheckLimit, again, bounds, Caller
<1>7. CASE Respond(c)
  BY <1>1, <1>7 DEF Respond, leave, Caller, Idle
<1>8. CASE PauseLoad(c)
  BY <1>1, <1>8 DEF PauseLoad, leave, limits, bounds, Caller, Idle
<1>9. CASE PauseSwap(c)
  BY <1>1, <1>9 DEF PauseSwap, leave, go, bounds, Caller, Idle
<1> QED
  BY <1>2, <1>3, <1>4, <1>5, <1>6, <1>7, <1>8, <1>9 DEF Step

LEMMA SwapStep == TypeOK /\ SwapLengthens /\ [Next]_vars => SwapLengthens'
<1> SUFFICES ASSUME TypeOK, SwapLengthens, [Next]_vars PROVE SwapLengthens'
  OBVIOUS
<1>1. CASE UNCHANGED caller
  BY <1>1 DEF SwapLengthens
<1>2. ASSUME NEW c \in Callers, Call(c) \/ GiveUp(c) \/ Step(c) PROVE SwapLengthens'
  <2> SUFFICES ASSUME NEW d \in Callers, caller'[d].pc = "cas"
               PROVE  caller'[d].cur < caller'[d].until
    BY DEF SwapLengthens
  <2>1. CASE d # c
    BY <1>2, <2>1, Moves DEF SwapLengthens
  <2>2. CASE d = c
    <3>1. PauseLoad(c)
      BY <1>2, <2>2, Moves
    <3> DEFINE u == paused[poolOf(c)]
               r == loaded(caller[c], u)
    <3>2. u \in Int /\ caller[c].until \in Int /\ caller[c] \in Caller
      BY BusyTyped DEF TypeOK, PausesOK, Caller
    <3>3. ~(caller[c].until <= u)
      <4>1. CASE leave(c)
        BY <2>2, <4>1, IdleTyped DEF leave, TypeOK, CallersOK, Idle
      <4> QED
        BY <3>1, <4>1 DEF PauseLoad
    <3>4. caller' = [caller EXCEPT ![c] = r]
      BY <3>1, <3>3 DEF PauseLoad, loaded, TypeOK, CallersOK
    <3>5. caller'[c] = r
      BY <3>4 DEF TypeOK, CallersOK
    <3> HIDE DEF u
    <3>6. r.cur = u /\ r.until = caller[c].until
      BY <3>2, Told
    <3> QED
      BY <2>2, <3>2, <3>3, <3>5, <3>6
  <2> QED
    BY <2>1, <2>2
<1> QED
  BY <1>1, <1>2 DEF Next, Tick, vars

LEMMA FreshStep == IInv /\ [Next]_vars => PauseIsFresh'
<1> SUFFICES ASSUME IInv, [Next]_vars PROVE PauseIsFresh'
  OBVIOUS
<1>1. TypeOK /\ SwapLengthens /\ PauseIsFresh
  BY DEF IInv
<1>2. CASE Tick
  \* A clock that ticks finds nobody between two looks.
  BY <1>2 DEF Tick, PauseIsFresh, bounds
<1>3. CASE UNCHANGED vars
  BY <1>1, <1>3 DEF vars, limits, bounds, PauseIsFresh
<1>4. ASSUME NEW c \in Callers, Call(c) \/ GiveUp(c) \/ Step(c) PROVE PauseIsFresh'
  <2>1. /\ now' = now /\ mix' = mix /\ now \in Nat
        /\ paused \in [Pools -> Nat] /\ pausedAt \in [Pools -> Nat]
        /\ \A d \in Callers \ {c} : caller'[d] = caller[d]
        /\ caller'[c].pc = "repress" => RecheckPause(c)
        /\ UNCHANGED <<paused, pausedAt>> \/ PauseSwap(c)
    BY <1>1, <1>4, Moves DEF TypeOK, PausesOK
  <2>2. CASE UNCHANGED <<paused, pausedAt>>
    <3> SUFFICES ASSUME NEW d \in Callers, caller'[d].pc = "repress",
                        paused[poolOf(d)] > now
                 PROVE  pausedAt[poolOf(d)] = now
      BY <2>1, <2>2 DEF PauseIsFresh
    <3>1. CASE d # c
      BY <1>1, <2>1, <3>1 DEF PauseIsFresh
    <3>2. CASE d = c
      <4>1. RecheckPause(c) /\ PausedMeanwhile(c)
        BY <2>1, <3>2 DEF PausedMeanwhile
      <4>2. again(c)
        BY <4>1 DEF RecheckPause
      <4> QED
        BY <1>1, <3>2, <4>2 DEF again, TypeOK, CallersOK, Caller
    <3> QED
      BY <3>1, <3>2
  <2>3. CASE PauseSwap(c) /\ ~UNCHANGED <<paused, pausedAt>>
    <3> DEFINE p == poolOf(c)
    <3>1. /\ paused' = [paused EXCEPT ![p] = caller[c].until]
          /\ pausedAt' = IF paused[p] > now THEN pausedAt ELSE [pausedAt EXCEPT ![p] = now]
          /\ leave(c)
      BY <2>3 DEF PauseSwap
    <3> SUFFICES ASSUME NEW d \in Callers, caller'[d].pc = "repress",
                        paused'[poolOf(d)] > now
                 PROVE  pausedAt'[poolOf(d)] = now
      BY <2>1 DEF PauseIsFresh
    <3>2. caller[d].pc = "repress"
      <4>1. CASE d = c
        BY <1>1, <3>1, <4>1, IdleTyped DEF leave, TypeOK, CallersOK
      <4> QED
        BY <2>1, <4>1
    <3>3. CASE poolOf(d) # p
      BY <1>1, <2>1, <3>1, <3>2, <3>3 DEF PauseIsFresh
    <3>4. CASE poolOf(d) = p
      BY <1>1, <2>1, <3>1, <3>2, <3>4 DEF PauseIsFresh
    <3> QED
      BY <3>3, <3>4
  <2> QED
    BY <2>1, <2>2, <2>3
<1> QED
  BY <1>2, <1>3, <1>4 DEF Next

LEMMA CapStep == IInv /\ [Next]_vars => WithinCap'
<1> SUFFICES ASSUME IInv, [Next]_vars PROVE WithinCap'
  OBVIOUS
<1>1. TypeOK /\ Len(times) <= Cap /\ Len(times) \in Nat /\ times \in Seq(Nat) /\ Cap \in Nat
      /\ now \in Nat
  BY AdmissionAssumption DEF IInv, WithinCap, TypeOK, TimesOK, AdmissionAssumption
<1>2. CASE UNCHANGED times
  BY <1>1, <1>2 DEF WithinCap
<1>3. CASE Tick
  <2>1. /\ now + 1 \in Nat /\ prune(now + 1) /\ now' \in Nat /\ now <= now'
    BY <1>1, <1>3 DEF Tick
  <2>2. TimesOK' /\ Len(times') <= Len(times)
    BY <1>1, <2>1, PruneTyped
  <2>3. Len(times') \in Nat
    BY <2>2 DEF TimesOK
  <2> QED
    BY <1>1, <2>2, <2>3 DEF WithinCap
<1>4. ASSUME NEW c \in Callers, RecheckLimit(c), ~UNCHANGED times PROVE WithinCap'
  <2>1. ~Refused(mix[c]) /\ mix[c] = "data" /\ times' = Append(times, now)
    BY <1>4 DEF RecheckLimit
  <2>2. ~(Len(times) >= Cap)
    BY <2>1 DEF Refused
  <2>3. Len(times') = Len(times) + 1
    BY <1>1, <2>1
  <2> QED
    BY <1>1, <2>2, <2>3 DEF WithinCap
<1> QED
  BY <1>1, <1>2, <1>3, <1>4, Moves DEF Next, vars, limits

LEMMA InitInv == Init => IInv
<1> SUFFICES ASSUME Init PROVE IInv
  OBVIOUS
<1>1. \A c \in Callers : caller[c] = Idle /\ caller[c] \in Caller /\ caller[c].pc = "idle"
  BY IdleTyped DEF Init
<1>2. CallersOK
  BY <1>1, IdleTyped DEF Init, CallersOK
<1>3. PausesOK
  BY DEF Init, PausesOK, NoObservation
<1>4. TimesOK /\ Len(times) = 0
  BY DEF Init, TimesOK
<1>5. BucketsOK
  <2>1. \A k \in Classes : Burst[k] \in Nat
    BY AdmissionAssumption DEF AdmissionAssumption
  <2> QED
    BY <2>1 DEF Init, BucketsOK
<1>6. TypeOK
  BY <1>2, <1>3, <1>4, <1>5, AdmissionAssumption DEF Init, TypeOK, AdmissionAssumption
<1> QED
  BY <1>1, <1>4, <1>6, AdmissionAssumption
  DEF IInv, SwapLengthens, PauseIsFresh, WithinCap, AdmissionAssumption

LEMMA InvStep == IInv /\ [Next]_vars => IInv'
<1> SUFFICES ASSUME IInv, [Next]_vars PROVE IInv'
  OBVIOUS
<1>1. TypeOK /\ SwapLengthens
  BY DEF IInv
<1> QED
  BY <1>1, TypeStep, SwapStep, FreshStep, CapStep DEF IInv

LEMMA Invariance == Spec => []IInv
<1> QED
  BY InitInv, InvStep, PTL DEF Spec

-----------------------------------------------------------------------------

(* Clocks, pauses, buckets, callers and counters are well typed; no bucket *)
(* holds more than its burst, the times of the window are in order and     *)
(* nobody oversleeps.                                                      *)
THEOREM TypeCorrect == Spec => []TypeOK
<1>1. IInv => TypeOK
  BY DEF IInv
<1> QED
  BY <1>1, Invariance, PTL

(* The window of the pool never holds more requests than the cap           *)
(* (DataPool.record looks again under the lock before it counts).          *)
THEOREM CapKept == Spec => []WindowCapKept
<1>1. IInv => WindowCapKept
  BY DEF IInv, WithinCap, WindowCapKept
<1> QED
  BY <1>1, Invariance, PTL

(* PauseFor: whoever loses the compare-and-swap compares again, so that a  *)
(* pause in force is never shortened.                                      *)
THEOREM PausesOnlyGrow == Spec => PauseNeverShortened
<1>1. IInv /\ [Next]_vars => [\A p \in Pools : paused'[p] >= paused[p]]_vars
  <2> SUFFICES ASSUME IInv, [Next]_vars, NEW p \in Pools
               PROVE  paused'[p] >= paused[p]
    OBVIOUS
  <2>1. TypeOK /\ SwapLengthens /\ paused[p] \in Nat /\ paused \in [Pools -> Nat]
    BY DEF IInv, TypeOK, PausesOK
  <2>2. CASE UNCHANGED paused
    BY <2>1, <2>2
  <2>3. ASSUME NEW c \in Callers, PauseSwap(c), ~UNCHANGED paused
        PROVE  paused'[p] >= paused[p]
    <3>1. /\ paused' = [paused EXCEPT ![poolOf(c)] = caller[c].until]
          /\ paused[poolOf(c)] = caller[c].cur /\ caller[c].pc = "cas"
      BY <2>3 DEF PauseSwap, SwapSucceeds
    <3>2. caller[c].cur < caller[c].until /\ caller[c].until \in Int
      BY <2>1, <3>1, BusyTyped DEF SwapLengthens, Caller
    <3> QED
      BY <2>1, <3>1, <3>2
  <2> QED
    BY <2>1, <2>2, <2>3, Moves DEF Next, Tick, vars, limits
<1> QED
  BY <1>1, Invariance, PTL DEF Spec, PauseNeverShortened

(* Whoever slept for tokens looks again before it sends: only a pause that *)
(* began in the same tick is missed, and no backpressure is.               *)
THEOREM NothingSent == Spec => NothingSentIntoBackoff
<1> DEFINE Careful ==
      \A c \in Callers : at(c, "repress") /\ caller'[c].pc = "respond" =>
        /\ paused[poolOf(c)] > now => pausedAt[poolOf(c)] = now
        /\ mix[c] # "data" /\ backpressure(mix[c]) => obs.at = now
<1>1. IInv /\ [Next]_vars => [Careful]_vars
  <2> SUFFICES ASSUME IInv, [Next]_vars, NEW c \in Callers,
                      caller[c].pc = "repress", caller'[c].pc = "respond"
               PROVE  /\ paused[poolOf(c)] > now => pausedAt[poolOf(c)] = now
                      /\ mix[c] # "data" /\ backpressure(mix[c]) => obs.at = now
    OBVIOUS
  <2>1. TypeOK /\ PauseIsFresh
    BY DEF IInv
  <2>2. PICK d \in Callers : Call(d) \/ GiveUp(d) \/ Step(d)
    BY DEF Next, Tick, vars
  <2>3. d = c
    BY <2>1, <2>2, Moves
  <2>4. RecheckLimit(c)
    BY <2>1, <2>2, <2>3 DEF Step, Call, GiveUp, Check, RecheckPause, Respond, PauseLoad,
       PauseSwap, woken
  <2>5. ~Refused(mix[c])
    <3>1. CASE Refused(mix[c])
      <4>1. again(c)
        BY <2>4, <3>1 DEF RecheckLimit
      <4> QED
        BY <2>1, <4>1 DEF again, TypeOK, CallersOK, Caller
    <3> QED
      BY <3>1
  <2> QED
    BY <2>1, <2>5 DEF PauseIsFresh, Refused
<1> QED
  BY <1>1, Invariance, PTL DEF Spec, NothingSentIntoBackoff
-----------------------------------------------------------------------------
(* The bucket of a class whose requests weigh one.  H are the callers that *)
(* hold a reservation and a its times; t and e are the bucket's tokens and *)
(* its last event, d is the debt, n the clock and B the burst.             *)

due(H, a, n) == {c \in H : a[c] <= n}
room(t) == IF t > 0 THEN t ELSE 0

\* No reservation lies behind the last event; those still to come have a tick
\* each, which the bucket owes; those that are due, the tokens and the debt are
\* within the burst.
Fits(H, a, t, e, d, n, B) ==
  /\ \A c \in H : a[c] \in Int /\ n <= a[c] /\ a[c] <= e
  /\ \A c \in H : a[c] > n => t <= n - a[c]
  /\ \A c, x \in H : a[c] > n /\ a[c] = a[x] => c = x
  /\ IsFiniteSet(due(H, a, n)) /\ d + Cardinality(due(H, a, n)) + room(t) <= B

\* Only the times of the holders count.
LEMMA FitsSame ==
  ASSUME NEW H, NEW a, NEW b, \A c \in H : b[c] = a[c], NEW t, NEW e, NEW d, NEW n, NEW B,
         Fits(H, a, t, e, d, n, B)
  PROVE  Fits(H, b, t, e, d, n, B)
<1>1. due(H, b, n) = due(H, a, n)
  BY DEF due
<1> QED
  BY <1>1 DEF Fits

\* A reservation (ReserveN): of a token there is, or of one to come.
LEMMA FitsReserve ==
  ASSUME NEW H, NEW a, NEW t \in Int, NEW e \in Int, NEW d \in Nat, NEW n \in Nat, NEW B \in Nat,
         Fits(H, a, t, e, d, n, B), NEW c, c \notin H, NEW b, \A x \in H : b[x] = a[x],
         NEW s \in Int, s = t - 1, b[c] = n + (IF s < 0 THEN -s ELSE 0)
  PROVE  Fits(H \cup {c}, b, s, b[c], d, n, B)
<1>1. Fits(H, b, t, e, d, n, B)
  BY FitsSame
<1>2. /\ \A x \in H : b[x] \in Int /\ n <= b[x] /\ (b[x] > n => t <= n - b[x])
      /\ IsFiniteSet(due(H, b, n)) /\ Cardinality(due(H, b, n)) \in Nat
      /\ d + Cardinality(due(H, b, n)) + room(t) <= B
      /\ \A x, y \in H : b[x] > n /\ b[x] = b[y] => x = y
  BY <1>1, FS_CardinalityType DEF Fits
<1>3. CASE t >= 1
  <2>1. b[c] = n /\ s >= 0
    BY <1>3
  <2>2. \A x \in H : b[x] = n
    BY <1>2, <1>3
  <2>3. due(H \cup {c}, b, n) = due(H, b, n) \cup {c} /\ c \notin due(H, b, n)
    BY <2>1 DEF due
  <2>f. IsFiniteSet(due(H, b, n))
    BY <1>2
  <2>4. /\ IsFiniteSet(due(H \cup {c}, b, n))
        /\ Cardinality(due(H \cup {c}, b, n)) = Cardinality(due(H, b, n)) + 1
    <3> DEFINE Q == due(H, b, n)
    <3>1. IsFiniteSet(Q) /\ c \notin Q
      BY <2>3, <2>f
    <3> HIDE DEF Q
    <3>2. IsFiniteSet(Q \cup {c}) /\ Cardinality(Q \cup {c}) = Cardinality(Q) + 1
      BY <3>1, FS_AddElement
    <3> QED
      BY <2>3, <3>2 DEF Q
  <2>5. room(s) = room(t) - 1 /\ room(t) \in Int
    BY <1>3 DEF room
  <2>6. d + Cardinality(due(H \cup {c}, b, n)) + room(s) <= B
    BY <1>2, <2>4, <2>5
  <2> QED
    BY <2>1, <2>2, <2>4, <2>6 DEF Fits
<1>4. CASE t <= 0
  <2>1. b[c] = n - s /\ b[c] \in Int /\ b[c] > n
    BY <1>4
  <2>2. \A x \in H : b[x] < b[c] /\ (b[x] > n => s <= n - b[x])
    BY <1>2, <1>4, <2>1
  <2>3. due(H \cup {c}, b, n) = due(H, b, n)
    BY <2>1 DEF due
  <2>4. room(s) = room(t)
    BY <1>4 DEF room
  <2>5. \A x \in H \cup {c} : b[x] \in Int /\ n <= b[x] /\ b[x] <= b[c]
    BY <1>2, <2>1, <2>2
  <2>6. \A x \in H \cup {c} : b[x] > n => s <= n - b[x]
    BY <1>2, <2>1, <2>2
  <2>7. \A x, y \in H \cup {c} : b[x] > n /\ b[x] = b[y] => x = y
    BY <1>2, <2>2
  <2> QED
    BY <1>2, <2>3, <2>4, <2>5, <2>6, <2>7 DEF Fits
<1> QED
  BY <1>3, <1>4

\* A caller that leaves and gives nothing back.
LEMMA FitsLeave ==
  ASSUME NEW H, NEW a, NEW t \in Int, NEW e \in Int, NEW d \in Nat, NEW n \in Nat, NEW B \in Nat,
         Fits(H, a, t, e, d, n, B), NEW c \in H
  PROVE  /\ Fits(H \ {c}, a, t, e, d, n, B)
         /\ a[c] <= n => Fits(H \ {c}, a, t, e, d + 1, n, B)
<1>1. /\ \A x \in H : a[x] \in Int /\ n <= a[x] /\ a[x] <= e /\ (a[x] > n => t <= n - a[x])
      /\ IsFiniteSet(due(H, a, n)) /\ Cardinality(due(H, a, n)) \in Nat
      /\ d + Cardinality(due(H, a, n)) + room(t) <= B
      /\ \A x, y \in H : a[x] > n /\ a[x] = a[y] => x = y
  BY FS_CardinalityType DEF Fits
<1>2. room(t) \in Int
  BY DEF room
<1>3. due(H \ {c}, a, n) = due(H, a, n) \ {c}
  BY DEF due
<1>4. CASE a[c] <= n
  <2>1. c \in due(H, a, n)
    BY <1>4 DEF due
  <2>f. IsFiniteSet(due(H, a, n))
    BY <1>1
  <2>2. /\ IsFiniteSet(due(H \ {c}, a, n))
        /\ Cardinality(due(H \ {c}, a, n)) = Cardinality(due(H, a, n)) - 1
    <3> DEFINE Q == due(H, a, n)
    <3>1. IsFiniteSet(Q) /\ c \in Q /\ due(H \ {c}, a, n) = Q \ {c}
      BY <1>3, <2>1, <2>f
    <3> HIDE DEF Q
    <3>2. IsFiniteSet(Q \ {c}) /\ Cardinality(Q \ {c}) = Cardinality(Q) - 1
      BY <3>1, FS_RemoveElement
    <3> QED
      BY <3>1, <3>2 DEF Q
  <2>3. /\ d + Cardinality(due(H \ {c}, a, n)) + room(t) <= B
        /\ (d + 1) + Cardinality(due(H \ {c}, a, n)) + room(t) <= B
    BY <1>1, <1>2, <2>2
  <2> QED
    BY <1>1, <2>2, <2>3 DEF Fits
<1>5. CASE ~(a[c] <= n)
  <2>1. due(H \ {c}, a, n) = due(H, a, n)
    BY <1>3, <1>5 DEF due
  <2> QED
    BY <1>1, <1>5, <2>1 DEF Fits
<1> QED
  BY <1>4, <1>5

\* A cancelled reservation (CancelAt): it gives something back only when it was
\* the last one, and then its one token.
LEMMA FitsCancel ==
  ASSUME NEW H, NEW a, NEW t \in Int, NEW e \in Int, NEW d \in Nat, NEW n \in Nat, NEW B \in Nat,
         Fits(H, a, t, e, d, n, B), NEW c \in H, NEW back \in Int, back = 1 - (e - a[c]), back > 0,
         t <= B
  PROVE  Fits(H \ {c}, a, least(B, t + back),
              IF a[c] = e /\ a[c] - 1 >= n THEN a[c] - 1 ELSE e, d, n, B)
<1> DEFINE s == least(B, t + back)
           g == IF a[c] = e /\ a[c] - 1 >= n THEN a[c] - 1 ELSE e
<1>1. /\ \A x \in H : a[x] \in Int /\ n <= a[x] /\ a[x] <= e /\ (a[x] > n => t <= n - a[x])
      /\ IsFiniteSet(due(H, a, n)) /\ Cardinality(due(H, a, n)) \in Nat
      /\ d + Cardinality(due(H, a, n)) + room(t) <= B
      /\ \A x, y \in H : a[x] > n /\ a[x] = a[y] => x = y
  BY FS_CardinalityType DEF Fits
<1>2. a[c] = e /\ back = 1
  BY <1>1
<1>3. Fits(H \ {c}, a, t, e, d, n, B)
  BY FitsLeave
<1>4. s \in Int /\ room(t) \in Int /\ room(s) \in Int /\ s <= t + 1
  BY <1>2 DEF least, room
<1>5. CASE a[c] > n
  <2>1. t <= n - e /\ t < 0
    BY <1>1, <1>2, <1>5
  <2>2. room(s) = 0 /\ room(t) = 0
    BY <1>4, <2>1 DEF room
  <2>3. g = e - 1
    BY <1>1, <1>2, <1>5
  <2>4. \A x \in H \ {c} : a[x] <= e - 1
    BY <1>1, <1>2, <1>5
  <2>5. \A x \in H \ {c} : a[x] > n => s <= n - a[x]
    BY <1>1, <1>4, <2>1, <2>4
  <2> HIDE DEF s, g
  <2>6. \A x \in H \ {c} : a[x] \in Int /\ n <= a[x] /\ a[x] <= g
    BY <1>1, <2>3, <2>4
  <2>7. d + Cardinality(due(H \ {c}, a, n)) + room(s) <= B
    BY <1>3, <2>2 DEF Fits
  <2>8. Fits(H \ {c}, a, s, g, d, n, B)
    BY <1>3, <2>5, <2>6, <2>7 DEF Fits
  <2> QED
    BY <2>8 DEF s, g
<1>6. CASE a[c] <= n
  <2>1. e = n /\ g = e
    BY <1>1, <1>2, <1>6
  <2>2. \A x \in H : a[x] = n
    BY <1>1, <2>1
  <2>3. c \in due(H, a, n) /\ due(H \ {c}, a, n) = due(H, a, n) \ {c}
    BY <1>6 DEF due
  <2>f. IsFiniteSet(due(H, a, n))
    BY <1>1
  <2>4. /\ IsFiniteSet(due(H \ {c}, a, n))
        /\ Cardinality(due(H \ {c}, a, n)) = Cardinality(due(H, a, n)) - 1
    <3> DEFINE Q == due(H, a, n)
    <3>1. IsFiniteSet(Q) /\ c \in Q /\ due(H \ {c}, a, n) = Q \ {c}
      BY <2>3, <2>f
    <3> HIDE DEF Q
    <3>2. IsFiniteSet(Q \ {c}) /\ Cardinality(Q \ {c}) = Cardinality(Q) - 1
      BY <3>1, FS_RemoveElement
    <3> QED
      BY <3>1, <3>2 DEF Q
  <2>5. room(s) <= room(t) + 1
    BY <1>4 DEF room
  <2> HIDE DEF s, g
  <2>6. d + Cardinality(due(H \ {c}, a, n)) + room(s) <= B
    BY <1>1, <1>4, <2>4, <2>5
  <2>7. Fits(H \ {c}, a, s, g, d, n, B)
    BY <2>1, <2>2, <2>4, <2>6 DEF Fits
  <2> QED
    BY <2>7 DEF s, g
<1> QED
  BY <1>1, <1>5, <1>6

\* A tick finds nobody due, and at most one is due after it.
LEMMA FitsTick ==
  ASSUME NEW H, NEW a, NEW t \in Int, NEW e \in Int, NEW d \in Nat, NEW n \in Nat,
         NEW B \in Nat \ {0}, Fits(H, a, t, e, d, n, B), \A c \in H : a[c] > n, t <= B,
         NEW g \in Int, H # {} => g = e
  PROVE  Fits(H, a, least(B, t + 1), g, IF d = 0 THEN 0 ELSE d - 1, n + 1, B)
<1> DEFINE s == least(B, t + 1)
           f == IF d = 0 THEN 0 ELSE d - 1
           P == due(H, a, n + 1)
<1>1. /\ \A x \in H : a[x] \in Int /\ n + 1 <= a[x] /\ a[x] <= g /\ t <= n - a[x]
      /\ d + Cardinality(due(H, a, n)) + room(t) <= B
      /\ \A x, y \in H : a[x] = a[y] => x = y
  BY DEF Fits
<1>2. due(H, a, n) = {}
  <2>1. \A x \in H : a[x] \in Int /\ a[x] > n
    BY <1>1
  <2>2. \A x \in H : ~(a[x] <= n)
    BY <2>1
  <2> QED
    BY <2>2 DEF due
<1>3. d + room(t) <= B /\ room(t) \in Int
  <2>1. Cardinality(due(H, a, n)) = 0
    BY <1>2, FS_EmptySet
  <2>2. room(t) \in Int
    BY DEF room
  <2> QED
    BY <1>1, <2>1, <2>2
<1>4. s \in Int /\ s <= t + 1 /\ s <= B /\ f \in Nat
  BY DEF least
<1>5. \A x \in H : s <= (n + 1) - a[x]
  BY <1>1, <1>4
<1>6. IsFiniteSet(P) /\ f + Cardinality(P) + room(s) <= B
  <2>1. CASE P = {}
    <3>1. IsFiniteSet(P) /\ Cardinality(P) = 0
      BY <2>1, FS_EmptySet
    <3>2. f + room(s) <= B /\ room(s) \in Int
      BY <1>3, <1>4 DEF room
    <3> QED
      BY <1>4, <3>1, <3>2
  <2>2. ASSUME NEW x \in P
        PROVE  IsFiniteSet(P) /\ f + Cardinality(P) + room(s) <= B
    <3>1. P = {x}
      <4>1. \A y \in P : y \in H /\ a[y] = n + 1
        BY <1>1 DEF due
      <4> QED
        BY <1>1, <2>2, <4>1
    <3> HIDE DEF P
    <3>2. IsFiniteSet(P) /\ Cardinality(P) = 1
      BY <3>1, FS_Singleton
    <3>3. room(s) = 0
      <4>1. x \in H
        BY <2>2 DEF P, due
      <4>2. s <= 0
        BY <1>1, <1>4, <1>5, <4>1
      <4> QED
        BY <1>4, <4>2 DEF room
    <3>4. f + 1 <= B
      <4>1. d <= B
        BY <1>3 DEF room
      <4> QED
        BY <4>1
    <3> QED
      BY <1>4, <3>2, <3>3, <3>4
  <2> QED
    BY <2>1, <2>2
<1> HIDE DEF s, f
<1>7. Fits(H, a, s, g, f, n + 1, B)
  BY <1>1, <1>5, <1>6 DEF Fits
<1> QED
  BY <1>7 DEF s, f

-----------------------------------------------------------------------------
(* The budgets of the classes that ask for one. *)

Single  == Classes \ {"bulk"}
Holding == {"token", "repause", "repress"}

Holders(k) == {c \in Callers : mix[c] = k /\ caller[c].pc \in Holding}
acts       == [c \in Callers |-> caller[c].resv.act]

BucketFits(k) == Fits(Holders(k), acts, lim[k].tokens, lim[k].event, debt[k], now, Burst[k])

\* A caller that weighs one reserves one, sleeps until its reservation may be
\* used, and looks again no earlier.
WaitsRight(r) ==
  /\ r.pc # "idle" => r.weight = 1
  /\ r.pc \in Holding => r.resv.tokens = 1
  /\ r.pc = "token" => r.wake = r.resv.act
  /\ r.pc \in {"repause", "repress"} => r.resv.act <= now

SinglesWait == \A c \in Callers : mix[c] # "bulk" => WaitsRight(caller[c])

BInv == TypeOK /\ SwapLengthens /\ SinglesWait /\ \A k \in Single : BucketFits(k)

\* What is known of the bucket of a class.
LEMMA BucketTyped ==
  ASSUME TypeOK, NEW k \in Classes
  PROVE  /\ lim[k].tokens \in Int /\ lim[k].event \in Int /\ lim[k].tokens <= Burst[k]
         /\ debt[k] \in Nat /\ now \in Nat /\ Burst[k] \in Nat \ {0}
         /\ lim \in [Classes -> [tokens : Int, event : Int]] /\ debt \in [Classes -> Nat]
BY AdmissionAssumption DEF AdmissionAssumption, TypeOK, BucketsOK

LEMMA CallerParts ==
  ASSUME TypeOK, NEW c \in Callers
  PROVE  /\ caller \in [Callers -> Caller]
         /\ caller[c].resv \in [tokens : Int, act : Int] /\ caller[c].wake \in Int /\ now \in Nat
BY DEF TypeOK, CallersOK, Caller

\* What a step of Wait leaves in the record of its caller.
LEMMA CheckLeaves ==
  ASSUME TypeOK, NEW c \in Callers, Check(c)
  PROVE  LET k == mix[c]
             v == ReserveN(k, caller[c].weight)
             r == caller'[c]
         IN  /\ caller[c].pc \in {"check", "nap"} /\ UNCHANGED <<now, mix, debt>>
             /\ r.weight = caller[c].weight
             /\ \/ r.pc = "nap" /\ UNCHANGED lim
                \/ /\ lim' = [lim EXCEPT ![k] = v.bucket] /\ r.resv = v.resv
                   /\ \/ r.pc = "token" /\ r.wake = v.resv.act
                      \/ r.pc = "repause" /\ ~(v.resv.act > now)
<1> DEFINE k == mix[c]
           v == ReserveN(k, caller[c].weight)
<1>1. caller \in [Callers -> Caller] /\ caller[c].pc \in {"check", "nap"} /\ UNCHANGED <<now, mix, debt>>
  BY CallerParts DEF Check, woken, bounds
<1>2. ASSUME NEW t, nap(c, t)
      PROVE  caller'[c].pc = "nap" /\ caller'[c].weight = caller[c].weight
  BY <1>1, <1>2 DEF nap, Caller
<1> DEFINE w == IF Delayed(v.resv) THEN v.resv.act ELSE 0
           p == IF Delayed(v.resv) THEN "token" ELSE "repause"
<1>3. ASSUME caller' = [caller EXCEPT ![c].resv = v.resv, ![c].wake = w, ![c].pc = p]
      PROVE  /\ caller'[c].resv = v.resv /\ caller'[c].weight = caller[c].weight
             /\ \/ caller'[c].pc = "token" /\ caller'[c].wake = v.resv.act
                \/ caller'[c].pc = "repause" /\ ~(v.resv.act > now)
  <2> DEFINE x == v.resv
  <2>1. caller' = [caller EXCEPT ![c] = movedWith(caller[c], x, p, w)]
    BY <1>1, <1>3 DEF movedWith
  <2> HIDE DEF x
  <2>2. caller'[c] = movedWith(caller[c], x, p, w)
    BY <1>1, <2>1
  <2>3. /\ movedWith(caller[c], x, p, w).resv = x /\ movedWith(caller[c], x, p, w).pc = p
        /\ movedWith(caller[c], x, p, w).wake = w
        /\ movedWith(caller[c], x, p, w).weight = caller[c].weight
    <3> HIDE DEF p, w
    <3> QED
      BY <1>1 DEF movedWith, Caller
  <2> QED
    BY <2>2, <2>3 DEF Delayed, x
<1>4. \/ nap(c, paused[pool(k)]) /\ UNCHANGED lim
      \/ nap(c, busyUntil(k)) /\ UNCHANGED lim
      \/ /\ lim' = [lim EXCEPT ![k] = v.bucket]
         /\ caller' = [caller EXCEPT ![c].resv = v.resv, ![c].wake = w, ![c].pc = p]
  BY Zenon DEF Check
<1> HIDE DEF v, w, p
<1> QED
  BY <1>1, <1>2, <1>3, <1>4 DEF v

\* The other steps of a caller.
LEMMA StepLeaves ==
  ASSUME TypeOK, NEW c \in Callers, Call(c) \/ GiveUp(c) \/ Step(c), ~Check(c)
  PROVE  /\ UNCHANGED <<now, mix>>
         /\ \/ /\ caller'[c].pc \in {"idle", "check", "respond", "load", "cas"}
               /\ \/ caller[c].pc \notin Holding /\ UNCHANGED <<lim, debt>>
                  \/ caller[c].pc \in Holding /\ Cancelled(c) /\ UNCHANGED debt
                  \/ /\ caller[c].pc = "repress" /\ UNCHANGED lim
                     /\ debt' = [debt EXCEPT ![mix[c]] = @ + caller[c].weight]
            \/ /\ RecheckPause(c) /\ caller'[c].pc = "repress" /\ UNCHANGED <<lim, debt>>
               /\ woken(c, "token", "repause") /\ caller'[c].resv = caller[c].resv
         /\ \/ caller'[c].weight = caller[c].weight /\ caller[c].pc # "idle"
            \/ caller'[c].pc = "idle"
            \/ \E w \in Weights : caller'[c].weight = charged(c, w)
<1>1. caller \in [Callers -> Caller]
  BY CallerParts
<1>2. CASE Call(c)
  <2>1. PICK w \in Weights :
          caller' = [caller EXCEPT ![c] = [Idle EXCEPT !.pc = "check", !.weight = charged(c, w)]]
    BY <1>2 DEF Call
  <2>2. caller[c].pc = "idle" /\ UNCHANGED <<now, mix, lim, debt>>
    BY <1>2 DEF Call, limits
  <2>3. caller'[c] = [Idle EXCEPT !.pc = "check", !.weight = charged(c, w)]
    BY <1>1, <2>1
  <2>4. caller'[c].pc = "check" /\ caller'[c].weight = charged(c, w)
    BY <2>3, IdleTyped DEF Idle
  <2> QED
    BY <2>2, <2>4 DEF Holding
<1>3. CASE GiveUp(c)
  BY <1>1, <1>3, IdleTyped DEF GiveUp, leave, Holding
<1>4. CASE RecheckPause(c)
  <2>1. caller[c].pc \in Holding /\ UNCHANGED <<now, mix, debt>> /\ woken(c, "token", "repause")
    BY <1>4 DEF RecheckPause, woken, Holding, bounds
  <2>2. CASE again(c) /\ Cancelled(c)
    <3>1. caller'[c].pc = "check" /\ caller'[c].weight = caller[c].weight
      BY <1>1, <2>2 DEF again, Caller
    <3> QED
      BY <2>1, <2>2, <3>1 DEF Holding
  <2>3. CASE go(c, "repress") /\ UNCHANGED lim
    <3>1. caller'[c].pc = "repress" /\ caller'[c].weight = caller[c].weight /\ caller'[c].resv = caller[c].resv
      BY <1>1, <2>3 DEF go, Caller
    <3> QED
      BY <1>4, <2>1, <2>3, <3>1 DEF Holding
  <2> QED
    BY <1>4, <2>2, <2>3 DEF RecheckPause
<1>5. CASE RecheckLimit(c)
  <2>1. caller[c].pc = "repress" /\ UNCHANGED <<now, mix>>
    BY <1>5 DEF RecheckLimit, bounds
  <2>2. CASE again(c) /\ Cancelled(c) /\ UNCHANGED <<times, debt>>
    <3>1. caller'[c].pc = "check" /\ caller'[c].weight = caller[c].weight
      BY <1>1, <2>2 DEF again, Caller
    <3> QED
      BY <2>1, <2>2, <3>1 DEF Holding
  <2>3. CASE ~(again(c) /\ Cancelled(c) /\ UNCHANGED <<times, debt>>)
    <3>1. /\ caller' = [caller EXCEPT ![c].resv = NoReservation, ![c].wake = 0, ![c].pc = "respond"]
          /\ debt' = [debt EXCEPT ![mix[c]] = @ + caller[c].weight] /\ UNCHANGED lim
      BY <1>5, <2>3 DEF RecheckLimit
    <3>2. caller'[c].pc = "respond" /\ caller'[c].weight = caller[c].weight
      BY <1>1, <3>1 DEF Caller
    <3> QED
      BY <2>1, <3>1, <3>2
  <2> QED
    BY <2>2, <2>3
<1>6. CASE Respond(c)
  BY <1>1, <1>6, IdleTyped DEF Respond, leave, Caller, Holding
<1>7. CASE PauseLoad(c)
  BY <1>1, <1>7, IdleTyped DEF PauseLoad, leave, limits, bounds, Caller, Holding
<1>8. CASE PauseSwap(c)
  BY <1>1, <1>8, IdleTyped DEF PauseSwap, leave, go, bounds, Caller, Holding
<1> QED
  BY <1>2, <1>3, <1>4, <1>5, <1>6, <1>7, <1>8 DEF Step

\* ReserveN of one token.
LEMMA ReservesOne ==
  ASSUME TypeOK, NEW k \in Classes
  PROVE  LET s == lim[k].tokens - 1
             v == ReserveN(k, 1)
         IN  /\ s \in Int /\ v.resv.tokens = 1 /\ v.resv.act = now + (IF s < 0 THEN -s ELSE 0)
             /\ v.resv.act \in Int /\ v.bucket.tokens = s /\ v.bucket.event = v.resv.act
BY BucketTyped DEF ReserveN

LEMMA SinglesStep ==
  ASSUME TypeOK, SinglesWait, [Next]_vars
  PROVE  SinglesWait'
<1>1. CASE UNCHANGED vars
  BY <1>1 DEF vars, bounds, SinglesWait, WaitsRight
<1>2. CASE Tick
  \* Whoever is between two looks lets no tick pass.
  <2>1. /\ UNCHANGED <<caller, mix>>
        /\ \A c \in Callers : caller[c].pc \notin {"repause", "repress"}
    BY <1>2 DEF Tick, bounds
  <2> QED
    BY <2>1 DEF SinglesWait, WaitsRight
<1>3. ASSUME NEW c \in Callers, Call(c) \/ GiveUp(c) \/ Step(c)
      PROVE  SinglesWait'
  <2>1. now' = now /\ mix' = mix /\ \A d \in Callers \ {c} : caller'[d] = caller[d]
    BY <1>3, Moves
  <2> SUFFICES ASSUME mix[c] # "bulk"
               PROVE  WaitsRight(caller[c])'
    BY <2>1 DEF SinglesWait, WaitsRight
  <2>2. WaitsRight(caller[c]) /\ mix[c] \in Classes /\ now \in Nat
    BY BusyTyped DEF SinglesWait
  <2> DEFINE r == caller'[c]
  <2>3. CASE Check(c)
    <3>1. caller[c].weight = 1
      BY <2>2, <2>3, CheckLeaves DEF WaitsRight
    <3> DEFINE v == ReserveN(mix[c], 1)
    <3>2. v.resv.tokens = 1 /\ v.resv.act \in Int
      BY <2>2, ReservesOne
    <3>3. /\ r.weight = 1
          /\ \/ r.pc = "nap"
             \/ r.resv = v.resv /\ r.pc = "token" /\ r.wake = v.resv.act
             \/ r.resv = v.resv /\ r.pc = "repause" /\ ~(v.resv.act > now)
      BY <2>3, <3>1, CheckLeaves
    <3> HIDE DEF v
    <3> QED
      BY <2>1, <2>2, <3>2, <3>3 DEF WaitsRight, Holding
  <2>4. CASE ~Check(c)
    <3>1. r.pc # "idle" => r.weight = 1
      <4>1. \/ r.weight = caller[c].weight /\ caller[c].pc # "idle"
            \/ r.pc = "idle"
            \/ \E w \in Weights : r.weight = charged(c, w)
        BY <1>3, <2>4, StepLeaves
      <4> QED
        BY <2>2, <4>1 DEF WaitsRight, charged
    <3>2. \/ r.pc \in {"idle", "check", "respond", "load", "cas"}
          \/ r.pc = "repress" /\ woken(c, "token", "repause") /\ r.resv = caller[c].resv
      BY <1>3, <2>4, StepLeaves
    <3>3. CASE r.pc = "repress" /\ woken(c, "token", "repause") /\ r.resv = caller[c].resv
      <4>1. caller[c].resv.tokens = 1 /\ caller[c].resv.act <= now
        BY <2>2, <3>3, CallerParts DEF WaitsRight, woken, Holding
      <4> QED
        BY <2>1, <3>1, <3>3, <4>1 DEF WaitsRight
    <3> QED
      BY <3>1, <3>2, <3>3 DEF WaitsRight, Holding
  <2> QED
    BY <2>3, <2>4
<1> QED
  BY <1>1, <1>2, <1>3 DEF Next

-----------------------------------------------------------------------------

\* A class none of whose reservations, nor its bucket, changes.
LEMMA BucketStays ==
  ASSUME NEW k \in Single, BucketFits(k), Holders(k)' = Holders(k), now' = now,
         \A c \in Holders(k) : caller'[c].resv = caller[c].resv,
         lim'[k] = lim[k], debt'[k] = debt[k]
  PROVE  BucketFits(k)'
<1> DEFINE b == [c \in Callers |-> caller'[c].resv.act]
<1>1. \A c \in Holders(k) : b[c] = acts[c]
  BY DEF Holders, acts
<1>2. acts' = b
  BY DEF acts
<1> HIDE DEF b
<1>3. Fits(Holders(k), acts, lim[k].tokens, lim[k].event, debt[k], now, Burst[k])
  BY DEF BucketFits
<1>4. Fits(Holders(k), b, lim[k].tokens, lim[k].event, debt[k], now, Burst[k])
  BY <1>1, <1>3, FitsSame
<1> QED
  BY <1>2, <1>4 DEF BucketFits

\* Another class than the caller's.
LEMMA OtherBucket ==
  ASSUME TypeOK, NEW c \in Callers, now' = now, mix' = mix,
         \A d \in Callers \ {c} : caller'[d] = caller[d],
         NEW k \in Single, BucketFits(k), k # mix[c], lim'[k] = lim[k], debt'[k] = debt[k]
  PROVE  BucketFits(k)'
<1>1. c \notin Holders(k)
  BY DEF Holders
<1>2. \A d \in Callers : d \in Holders(k)' <=> d \in Holders(k)
  BY DEF Holders
<1>3. Holders(k)' = Holders(k)
  BY <1>2 DEF Holders
<1>4. \A d \in Holders(k) : caller'[d].resv = caller[d].resv
  BY <1>1 DEF Holders
<1> QED
  BY <1>3, <1>4, BucketStays

\* The caller's class, when the caller is none of its holders after the step, or
\* was none before.
LEMMA HoldersMove ==
  ASSUME TypeOK, NEW c \in Callers, now' = now, mix' = mix,
         \A d \in Callers \ {c} : caller'[d] = caller[d]
  PROVE  LET k == mix[c] IN
         /\ caller'[c].pc \notin Holding => Holders(k)' = Holders(k) \ {c}
         /\ caller'[c].pc \in Holding => Holders(k)' = Holders(k) \cup {c}
         /\ \A d \in Holders(k) \ {c} : acts'[d] = acts[d]
         /\ acts'[c] = caller'[c].resv.act /\ acts[c] = caller[c].resv.act
         /\ c \in Holders(k) <=> caller[c].pc \in Holding
<1> DEFINE k == mix[c]
<1>1. \A d \in Callers \ {c} : d \in Holders(k)' <=> d \in Holders(k)
  BY DEF Holders
<1>2. c \in Holders(k)' <=> caller'[c].pc \in Holding
  BY DEF Holders
<1>3. c \in Holders(k) <=> caller[c].pc \in Holding
  BY DEF Holders
<1>4. Holders(k) \subseteq Callers /\ Holders(k)' \subseteq Callers
  BY DEF Holders
<1>5. caller'[c].pc \notin Holding => Holders(k)' = Holders(k) \ {c}
  BY <1>1, <1>2, <1>4
<1>6. caller'[c].pc \in Holding => Holders(k)' = Holders(k) \cup {c}
  BY <1>1, <1>2, <1>4
<1>7. \A d \in Callers : acts'[d] = caller'[d].resv.act /\ acts[d] = caller[d].resv.act
  BY DEF acts
<1>8. \A d \in Holders(k) \ {c} : acts'[d] = acts[d]
  BY <1>4, <1>7
<1> QED
  BY <1>3, <1>5, <1>6, <1>7, <1>8

LEMMA CheckFits ==
  ASSUME BInv, NEW c \in Callers, Check(c), NEW k \in Single
  PROVE  BucketFits(k)'
<1>1. /\ TypeOK /\ BucketFits(k) /\ k \in Classes /\ now' = now /\ mix' = mix /\ UNCHANGED debt
      /\ \A d \in Callers \ {c} : caller'[d] = caller[d]
      /\ caller[c].pc \notin Holding
  BY Moves, CheckLeaves DEF BInv, Single, Step, Holding
<1>2. mix[c] \in Classes /\ lim \in [Classes -> [tokens : Int, event : Int]]
  BY <1>1, BusyTyped, BucketTyped
<1>3. CASE k # mix[c]
  <2>1. lim'[k] = lim[k]
    BY <1>1, <1>2, <1>3, CheckLeaves
  <2> QED
    BY <1>1, <1>3, <2>1, OtherBucket
<1>4. CASE k = mix[c] /\ caller'[c].pc = "nap" /\ UNCHANGED lim
  <2>1. Holders(k)' = Holders(k) /\ c \notin Holders(k)
    <3>1. caller'[c].pc \notin Holding
      BY <1>4 DEF Holding
    <3>2. Holders(k)' = Holders(k) \ {c}
      BY <1>1, <1>4, <3>1, HoldersMove
    <3>3. c \notin Holders(k)
      BY <1>1 DEF Holders
    <3> QED
      BY <3>2, <3>3
  <2>2. \A d \in Holders(k) : caller'[d].resv = caller[d].resv
    BY <1>1, <2>1 DEF Holders
  <2> QED
    BY <1>1, <1>4, <2>1, <2>2, BucketStays
<1>5. CASE k = mix[c] /\ ~(caller'[c].pc = "nap" /\ UNCHANGED lim)
  <2> DEFINE v == ReserveN(k, 1)
             s == lim[k].tokens - 1
             H == Holders(k)
             b == acts'
  <2>1. caller[c].weight = 1
    BY <1>1, <1>5, CheckLeaves DEF BInv, SinglesWait, WaitsRight, Single
  <2>2. /\ lim' = [lim EXCEPT ![k] = v.bucket] /\ caller'[c].resv = v.resv
        /\ caller'[c].pc \in Holding
    BY <1>1, <1>5, <2>1, CheckLeaves DEF Holding
  <2>3. /\ s \in Int /\ v.resv.act = now + (IF s < 0 THEN -s ELSE 0)
        /\ v.bucket.tokens = s /\ v.bucket.event = v.resv.act
    BY <1>1, ReservesOne
  <2>4. /\ H' = H \cup {c} /\ c \notin H /\ b[c] = v.resv.act
        /\ \A d \in H : b[d] = acts[d]
    BY <1>1, <1>5, <2>2, HoldersMove
  <2>5. lim'[k] = v.bucket
    BY <1>1, <1>2, <2>2
  <2>6. /\ lim[k].tokens \in Int /\ lim[k].event \in Int /\ debt[k] \in Nat /\ now \in Nat
        /\ Burst[k] \in Nat
    BY <1>1, BucketTyped
  <2>7. Fits(H, acts, lim[k].tokens, lim[k].event, debt[k], now, Burst[k])
    BY <1>1 DEF BucketFits
  <2> HIDE DEF v, s, H, b
  <2>8. Fits(H \cup {c}, b, s, b[c], debt[k], now, Burst[k])
    BY <2>3, <2>4, <2>6, <2>7, FitsReserve DEF s
  <2>9. lim'[k].tokens = s /\ lim'[k].event = b[c]
    BY <2>3, <2>4, <2>5
  <2> QED
    BY <1>1, <2>4, <2>8, <2>9 DEF BucketFits, H, b
<1> QED
  BY <1>3, <1>4, <1>5

\* A reservation that is cancelled, by a caller that gives up or starts over.
LEMMA CancelFits ==
  ASSUME BInv, NEW c \in Callers, mix[c] \in Single, caller[c].pc \in Holding, Cancelled(c),
         caller'[c].pc \notin Holding, now' = now, mix' = mix, UNCHANGED debt,
         \A d \in Callers \ {c} : caller'[d] = caller[d]
  PROVE  BucketFits(mix[c])'
<1> DEFINE k == mix[c]
           H == Holders(k)
           r == caller[c].resv
           t == lim[k].tokens
           e == lim[k].event
           back == r.tokens - (e - r.act)
<1>1. TypeOK /\ BucketFits(k) /\ k \in Classes /\ WaitsRight(caller[c])
  BY DEF BInv, Single, SinglesWait
<1>2. r.tokens = 1 /\ acts[c] = r.act /\ r.act \in Int
  BY <1>1, CallerParts DEF WaitsRight, acts
<1>3. /\ t \in Int /\ e \in Int /\ debt[k] \in Nat /\ now \in Nat /\ Burst[k] \in Nat /\ t <= Burst[k]
      /\ lim \in [Classes -> [tokens : Int, event : Int]]
  BY <1>1, BucketTyped
<1>4. Fits(H, acts, t, e, debt[k], now, Burst[k])
  BY <1>1 DEF BucketFits
<1>5. H' = H \ {c} /\ c \in H /\ \A d \in H \ {c} : acts'[d] = acts[d]
  BY <1>1, HoldersMove
<1>6. PICK late \in BOOLEAN : lim' = CancelAt(k, r, late)
  BY DEF Cancelled
<1> HIDE DEF H
<1>7. CASE lim' = lim
  <2>1. Fits(H \ {c}, acts, t, e, debt[k], now, Burst[k])
    BY <1>3, <1>4, <1>5, FitsLeave
  <2>2. Fits(H \ {c}, acts', t, e, debt[k], now, Burst[k])
    BY <1>5, <2>1, FitsSame
  <2> QED
    BY <1>5, <1>7, <2>2 DEF BucketFits, H
<1>8. CASE lim' # lim
  <2> DEFINE g == IF r.act = e /\ r.act - r.tokens >= now THEN r.act - r.tokens ELSE e
             s == least(Burst[k], t + back)
  <2>1. back > 0 /\ lim' = [lim EXCEPT ![k] = [tokens |-> s, event |-> g]]
    <3>1. ~(back <= 0) /\ lim' = [lim EXCEPT ![k] = [tokens |-> s, event |-> g]]
      BY <1>6, <1>8 DEF CancelAt
    <3> QED
      BY <1>2, <1>3, <3>1
  <2>2. lim'[k].tokens = s /\ lim'[k].event = g
    BY <1>1, <1>3, <2>1
  <2>3. back \in Int /\ back = 1 - (e - acts[c])
    BY <1>2, <1>3
  <2>4. Fits(H \ {c}, acts, least(Burst[k], t + back),
             IF acts[c] = e /\ acts[c] - 1 >= now THEN acts[c] - 1 ELSE e, debt[k], now, Burst[k])
    <3> HIDE DEF back, t, e, r, k
    <3> QED
      BY <1>3, <1>4, <1>5, <2>1, <2>3, FitsCancel
  <2>5. g = IF acts[c] = e /\ acts[c] - 1 >= now THEN acts[c] - 1 ELSE e
    BY <1>2
  <2>6. Fits(H \ {c}, acts', s, g, debt[k], now, Burst[k])
    <3> HIDE DEF back, t, e, r, k
    <3>1. Fits(H \ {c}, acts, s, g, debt[k], now, Burst[k])
      <4> HIDE DEF g
      <4> QED
        BY <2>4, <2>5
    <3> HIDE DEF s, g
    <3> QED
      BY <1>5, <3>1, FitsSame
  <2> HIDE DEF s, g
  <2> QED
    BY <1>5, <2>2, <2>6 DEF BucketFits, H
<1> QED
  BY <1>7, <1>8

\* A request that is sent: its reservation is due.
LEMMA SendFits ==
  ASSUME BInv, NEW c \in Callers, mix[c] \in Single, caller[c].pc = "repress",
         caller'[c].pc \notin Holding, now' = now, mix' = mix, UNCHANGED lim,
         debt' = [debt EXCEPT ![mix[c]] = @ + caller[c].weight],
         \A d \in Callers \ {c} : caller'[d] = caller[d]
  PROVE  BucketFits(mix[c])'
<1> DEFINE k == mix[c]
           H == Holders(k)
           t == lim[k].tokens
           e == lim[k].event
<1>1. TypeOK /\ BucketFits(k) /\ k \in Classes /\ WaitsRight(caller[c])
  BY DEF BInv, Single, SinglesWait
<1>2. acts[c] <= now /\ caller[c].weight = 1
  BY <1>1 DEF WaitsRight, acts
<1>3. t \in Int /\ e \in Int /\ debt[k] \in Nat /\ now \in Nat /\ Burst[k] \in Nat
  BY <1>1, BucketTyped
<1>4. debt'[k] = debt[k] + 1
  BY <1>1, <1>2, BucketTyped
<1>5. Fits(H, acts, t, e, debt[k], now, Burst[k])
  BY <1>1 DEF BucketFits
<1>6. H' = H \ {c} /\ c \in H /\ \A d \in H \ {c} : acts'[d] = acts[d]
  BY <1>1, HoldersMove DEF Holding
<1> HIDE DEF H
<1>7. Fits(H \ {c}, acts, t, e, debt[k] + 1, now, Burst[k])
  BY <1>2, <1>3, <1>5, <1>6, FitsLeave
<1>8. Fits(H \ {c}, acts', t, e, debt[k] + 1, now, Burst[k])
  BY <1>6, <1>7, FitsSame
<1> QED
  BY <1>4, <1>6, <1>8 DEF BucketFits, H

\* A caller that holds nothing, before the step or after it.
LEMMA EmptyHandFits ==
  ASSUME TypeOK, NEW c \in Callers, mix[c] \in Single, BucketFits(mix[c]),
         caller[c].pc \notin Holding, caller'[c].pc \notin Holding,
         now' = now, mix' = mix, UNCHANGED <<lim, debt>>,
         \A d \in Callers \ {c} : caller'[d] = caller[d]
  PROVE  BucketFits(mix[c])'
<1> DEFINE k == mix[c]
<1>1. Holders(k)' = Holders(k) \ {c} /\ c \notin Holders(k)
  BY HoldersMove
<1>2. Holders(k)' = Holders(k)
  BY <1>1
<1>3. \A d \in Holders(k) : caller'[d].resv = caller[d].resv
  BY <1>1 DEF Holders
<1> QED
  BY <1>2, <1>3, BucketStays

\* The second look at the pause, passed: the reservation is kept.
LEMMA PassFits ==
  ASSUME TypeOK, NEW c \in Callers, mix[c] \in Single, BucketFits(mix[c]),
         caller[c].pc \in Holding, caller'[c].pc \in Holding, caller'[c].resv = caller[c].resv,
         now' = now, mix' = mix, UNCHANGED <<lim, debt>>,
         \A d \in Callers \ {c} : caller'[d] = caller[d]
  PROVE  BucketFits(mix[c])'
<1> DEFINE k == mix[c]
<1>1. Holders(k)' = Holders(k) \cup {c} /\ c \in Holders(k)
  BY HoldersMove
<1>2. Holders(k)' = Holders(k)
  BY <1>1
<1>3. \A d \in Holders(k) : caller'[d].resv = caller[d].resv
  BY DEF Holders
<1> QED
  BY <1>2, <1>3, BucketStays

LEMMA StepFits ==
  ASSUME BInv, NEW c \in Callers, Call(c) \/ GiveUp(c) \/ Step(c), NEW k \in Single
  PROVE  BucketFits(k)'
<1>1. CASE Check(c)
  BY <1>1, CheckFits
<1>2. CASE ~Check(c)
  <2>1. /\ TypeOK /\ BucketFits(k) /\ k \in Classes /\ now' = now /\ mix' = mix
        /\ \A d \in Callers \ {c} : caller'[d] = caller[d]
    BY Moves DEF BInv, Single
  <2>2. /\ lim \in [Classes -> [tokens : Int, event : Int]] /\ debt \in [Classes -> Nat]
        /\ mix[c] \in Classes
    BY <2>1, BucketTyped, BusyTyped
  <2>3. CASE caller[c].pc \notin Holding /\ caller'[c].pc \notin Holding /\ UNCHANGED <<lim, debt>>
    <3>1. CASE k = mix[c]
      BY <2>1, <2>3, <3>1, EmptyHandFits
    <3>2. CASE k # mix[c]
      <4>1. lim'[k] = lim[k] /\ debt'[k] = debt[k]
        BY <2>3
      <4> QED
        BY <2>1, <3>2, <4>1, OtherBucket
    <3> QED
      BY <3>1, <3>2
  <2>4. CASE caller[c].pc \in Holding /\ caller'[c].pc \notin Holding /\ Cancelled(c) /\ UNCHANGED debt
    <3>1. CASE k = mix[c]
      BY <2>1, <2>4, <3>1, CancelFits
    <3>2. CASE k # mix[c]
      <4>1. PICK late \in BOOLEAN : lim' = CancelAt(mix[c], caller[c].resv, late)
        BY <2>4 DEF Cancelled
      <4>2. lim'[k] = lim[k]
        BY <2>1, <2>2, <3>2, <4>1 DEF CancelAt
      <4>3. debt'[k] = debt[k]
        BY <2>4
      <4> QED
        BY <2>1, <3>2, <4>2, <4>3, OtherBucket
    <3> QED
      BY <3>1, <3>2
  <2>5. CASE /\ caller[c].pc = "repress" /\ caller'[c].pc \notin Holding /\ UNCHANGED lim
             /\ debt' = [debt EXCEPT ![mix[c]] = @ + caller[c].weight]
    <3>1. CASE k = mix[c]
      BY <2>1, <2>5, <3>1, SendFits
    <3>2. CASE k # mix[c]
      <4>1. lim'[k] = lim[k] /\ debt'[k] = debt[k]
        BY <2>1, <2>2, <2>5, <3>2
      <4> QED
        BY <2>1, <3>2, <4>1, OtherBucket
    <3> QED
      BY <3>1, <3>2
  <2>6. CASE /\ caller'[c].pc = "repress" /\ UNCHANGED <<lim, debt>>
             /\ woken(c, "token", "repause") /\ caller'[c].resv = caller[c].resv
    <3>1. caller[c].pc \in Holding /\ caller'[c].pc \in Holding
      BY <2>6 DEF woken, Holding
    <3>2. CASE k = mix[c]
      BY <2>1, <2>6, <3>1, <3>2, PassFits
    <3>3. CASE k # mix[c]
      <4>1. lim'[k] = lim[k] /\ debt'[k] = debt[k]
        BY <2>6
      <4> QED
        BY <2>1, <3>3, <4>1, OtherBucket
    <3> QED
      BY <3>2, <3>3
  <2>7. \/ /\ caller'[c].pc \in {"idle", "check", "respond", "load", "cas"}
           /\ \/ caller[c].pc \notin Holding /\ UNCHANGED <<lim, debt>>
              \/ caller[c].pc \in Holding /\ Cancelled(c) /\ UNCHANGED debt
              \/ /\ caller[c].pc = "repress" /\ UNCHANGED lim
                 /\ debt' = [debt EXCEPT ![mix[c]] = @ + caller[c].weight]
        \/ /\ caller'[c].pc = "repress" /\ UNCHANGED <<lim, debt>>
           /\ woken(c, "token", "repause") /\ caller'[c].resv = caller[c].resv
    BY <1>2, <2>1, StepLeaves
  <2>8. \A p \in {"idle", "check", "respond", "load", "cas"} : p \notin Holding
    BY DEF Holding
  <2> QED
    BY <2>3, <2>4, <2>5, <2>6, <2>7, <2>8
<1> QED
  BY <1>1, <1>2

\* A tick: nobody's reservation is due, or the tick would wait for its holder.
LEMMA TickFits ==
  ASSUME BInv, Tick, NEW k \in Single
  PROVE  BucketFits(k)'
<1> DEFINE H == Holders(k)
           t == lim[k].tokens
           e == lim[k].event
           d == debt[k]
           g == IF relied(k) THEN e ELSE 0
           f == IF d = 0 THEN 0 ELSE d - 1
<1>1. TypeOK /\ SinglesWait /\ BucketFits(k) /\ k \in Classes
  BY DEF BInv, Single
<1>2. /\ now' = now + 1 /\ UNCHANGED <<caller, mix>> /\ lim' = [x \in Classes |-> refilled(x)]
      /\ debt' = [x \in Classes |-> IF debt[x] = 0 THEN 0 ELSE debt[x] - 1]
      /\ \A c \in Callers : caller[c].pc \notin Running /\ (caller[c].pc \in Sleeping => caller[c].wake > now)
  BY DEF Tick, bounds
<1>3. /\ t \in Int /\ e \in Int /\ t <= Burst[k] /\ d \in Nat /\ now \in Nat
      /\ Burst[k] \in Nat \ {0}
  BY <1>1, BucketTyped
<1>4. Fits(H, acts, t, e, d, now, Burst[k])
  BY <1>1 DEF BucketFits
<1>5. \A c \in H : mix[c] = k /\ caller[c].pc = "token" /\ acts[c] > now
  <2> SUFFICES ASSUME NEW c \in H
               PROVE  mix[c] = k /\ caller[c].pc = "token" /\ acts[c] > now
    OBVIOUS
  <2>1. c \in Callers /\ mix[c] = k /\ caller[c].pc = "token"
    BY <1>2 DEF Holders, Holding
  <2>2. caller[c].wake = caller[c].resv.act
    BY <1>1, <2>1 DEF SinglesWait, WaitsRight, Single
  <2> QED
    BY <1>2, <2>1, <2>2 DEF acts
<1>6. H # {} => relied(k)
  BY <1>5 DEF relied, Holders
<1>7. /\ lim'[k].tokens = least(Burst[k], t + 1) /\ lim'[k].event = g
      /\ debt'[k] = f
  BY <1>1, <1>2 DEF refilled
<1>8. H' = H /\ acts' = acts
  BY <1>2 DEF Holders, acts
<1>9. g \in Int /\ (H # {} => g = e)
  BY <1>3, <1>6
<1>10. \A c \in H : acts[c] > now
  BY <1>5
<1> HIDE DEF H, g, f
<1>11. Fits(H, acts, least(Burst[k], t + 1), g, f, now + 1, Burst[k])
  BY <1>3, <1>4, <1>9, <1>10, FitsTick DEF f
<1> QED
  BY <1>2, <1>7, <1>8, <1>11 DEF BucketFits, H

LEMMA BucketsStep == BInv /\ [Next]_vars => \A k \in Single : BucketFits(k)'
<1> SUFFICES ASSUME BInv, [Next]_vars, NEW k \in Single
             PROVE  BucketFits(k)'
  OBVIOUS
<1>1. CASE UNCHANGED vars
  <2>1. UNCHANGED <<now, lim, caller, mix, debt>>
    BY <1>1 DEF vars, limits, bounds
  <2>2. Holders(k)' = Holders(k)
    BY <2>1 DEF Holders
  <2> QED
    BY <2>1, <2>2, BucketStays DEF BInv
<1>2. CASE Tick
  BY <1>2, TickFits
<1>3. ASSUME NEW c \in Callers, Call(c) \/ GiveUp(c) \/ Step(c)
      PROVE  BucketFits(k)'
  BY <1>3, StepFits
<1> QED
  BY <1>1, <1>2, <1>3 DEF Next

LEMMA InitBudget == Init => BInv
<1> SUFFICES ASSUME Init
             PROVE  BInv
  OBVIOUS
<1>1. TypeOK /\ SwapLengthens
  BY InitInv DEF IInv
<1>2. /\ now = 0 /\ caller = [c \in Callers |-> Idle] /\ debt = [k \in Classes |-> 0]
      /\ lim = [k \in Classes |-> [tokens |-> Burst[k], event |-> 0]]
  BY DEF Init
<1>3. \A c \in Callers : caller[c].pc = "idle"
  BY <1>2 DEF Idle
<1>4. SinglesWait
  BY <1>3 DEF SinglesWait, WaitsRight, Holding
<1>5. ASSUME NEW k \in Single
      PROVE  BucketFits(k)
  <2>1. k \in Classes /\ Burst[k] \in Nat \ {0}
    BY AdmissionAssumption DEF AdmissionAssumption, Single
  <2>2. Holders(k) = {}
    BY <1>3 DEF Holders, Holding
  <2>3. lim[k].tokens = Burst[k] /\ debt[k] = 0
    BY <1>2, <2>1
  <2>4. due({}, acts, now) = {}
    BY DEF due
  <2>5. IsFiniteSet({}) /\ Cardinality({}) = 0
    BY FS_EmptySet
  <2>6. room(Burst[k]) = Burst[k]
    BY <2>1 DEF room
  <2>7. Fits({}, acts, Burst[k], lim[k].event, 0, now, Burst[k])
    <3>1. IsFiniteSet(due({}, acts, now)) /\ Cardinality(due({}, acts, now)) = 0
      BY <2>4, <2>5
    <3>2. 0 + Cardinality(due({}, acts, now)) + room(Burst[k]) <= Burst[k]
      BY <2>1, <2>6, <3>1
    <3> QED
      BY <3>1, <3>2 DEF Fits
  <2> QED
    BY <2>2, <2>3, <2>7 DEF BucketFits
<1> QED
  BY <1>1, <1>4, <1>5 DEF BInv

LEMMA BudgetOfInv == BInv => BudgetKept
<1> SUFFICES ASSUME BInv, NEW k \in Classes \ {"bulk"}
             PROVE  debt[k] <= Burst[k]
  BY DEF BInv, BudgetKept
<1> DEFINE Q == due(Holders(k), acts, now)
<1>1. IsFiniteSet(Q) /\ debt[k] + Cardinality(Q) + room(lim[k].tokens) <= Burst[k]
  BY DEF BInv, BucketFits, Fits, Single
<1>2. /\ lim[k].tokens \in Int /\ debt[k] \in Nat /\ Burst[k] \in Nat
  BY BucketTyped DEF BInv
<1> HIDE DEF Q
<1>3. Cardinality(Q) \in Nat
  BY <1>1, FS_CardinalityType
<1>4. room(lim[k].tokens) \in Nat
  BY <1>2 DEF room
<1> QED
  BY <1>1, <1>2, <1>3, <1>4

(* The buckets: whatever is reserved, cancelled and abandoned in whatever  *)
(* order, a class whose requests weigh one sends over no period more than  *)
(* its burst and what was refilled in it.                                  *)
THEOREM WithinBudget == Spec => []BudgetKept
<1>1. Init => BInv
  BY InitBudget
<1>2. BInv /\ [Next]_vars => BInv'
  <2> SUFFICES ASSUME BInv, [Next]_vars
               PROVE  BInv'
    OBVIOUS
  <2>1. TypeOK /\ SwapLengthens /\ SinglesWait
    BY DEF BInv
  <2>2. TypeOK' /\ SwapLengthens'
    BY <2>1, TypeStep, SwapStep
  <2>3. SinglesWait'
    BY <2>1, SinglesStep
  <2>4. \A k \in Single : BucketFits(k)'
    BY BucketsStep
  <2>5. Single' = Single
    BY DEF Single, Classes
  <2> QED
    BY <2>2, <2>3, <2>4, <2>5 DEF BInv
<1>3. BInv => BudgetKept
  BY BudgetOfInv
<1> QED
  BY <1>1, <1>2, <1>3, PTL DEF Spec
=============================================================================
