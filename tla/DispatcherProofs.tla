-------------------------- MODULE DispatcherProofs --------------------------
(***************************************************************************)
(* The dispatcher handles no closed bar twice, announces each section at   *)
(* most once and a coarser bucket only after its last base bar, for any    *)
(* symbols, callers, workers and served intervals and any queue size.      *)
(***************************************************************************)
EXTENDS Dispatcher, FiniteSetTheorems, SequenceTheorems, TLAPS

-----------------------------------------------------------------------------
(* The constants. *)

LEMMA Constants ==
  /\ Times \subseteq Int /\ NoEvent.t \in Times /\ Bars # {}
  /\ \A b \in Bars : b[1] \in Symbols /\ b[2] \in Times /\ b = <<b[1], b[2]>>
  /\ QueueSize \in Nat /\ MaxDeliveries \in Nat
  /\ \A d \in Derived : d \in Int /\ d # 1
  /\ \A U \in Universes : U \in SUBSET Symbols
<1>1. Times \subseteq Int /\ Times # {}
  BY DispatcherAssumption DEF DispatcherAssumption
<1>6. NoEvent.t \in Times
  BY <1>1 DEF NoEvent
<1>2. PICK s \in Symbols : TRUE
  BY DispatcherAssumption DEF DispatcherAssumption
<1>3. <<s, NoEvent.t>> \in Bars
  BY <1>2, <1>6 DEF Bars
<1>4. \A b \in Bars : b[1] \in Symbols /\ b[2] \in Times /\ b = <<b[1], b[2]>>
  BY DEF Bars
<1>5. /\ QueueSize \in Nat /\ MaxDeliveries \in Nat
      /\ \A d \in Derived : d \in Int /\ d # 1
      /\ \A U \in Universes : U \in SUBSET Symbols
  BY DispatcherAssumption DEF DispatcherAssumption
<1> QED
  BY <1>1, <1>3, <1>4, <1>5, <1>6

LEMMA NoBarIsBar == NoBar \in Bars
BY Constants DEF NoBar

LEMMA TimersApart ==
  \A t \in Times : /\ <<"timer", t>> \in Publishers /\ <<"timer", t>> \notin Workers
                   /\ \A u \in Times : <<"timer", t>> = <<"timer", u>> => t = u
BY DispatcherAssumption DEF DispatcherAssumption, Timers, Publishers

\* The bucket that base bar t closes in interval d.
bucket(d, t) == <<d, t - d + 1>>

LEMMA BucketsApart ==
  /\ \A t \in Times : <<1, t>> \in Buckets
  /\ \A d \in Derived, t \in Times :
       /\ bucket(d, t) \in Buckets
       /\ \A u \in Times : bucket(d, t) # <<1, u>>
       /\ \A e \in Derived, u \in Times : bucket(d, t) = bucket(e, u) => d = e /\ t = u
<1>1. ASSUME NEW d \in Derived, NEW t \in Times, NEW e \in Derived, NEW u \in Times,
             bucket(d, t) = bucket(e, u)
      PROVE  d = e /\ t = u
  <2>1. d = e /\ t - d + 1 = u - e + 1
    BY <1>1 DEF bucket
  <2>2. d \in Int /\ t \in Int /\ u \in Int
    BY Constants
  <2> QED
    BY <2>1, <2>2
<1>2. \A d \in Derived, t, u \in Times : bucket(d, t) \in Buckets /\ bucket(d, t) # <<1, u>>
  BY Constants DEF bucket, Buckets
<1>3. \A t \in Times : <<1, t>> \in Buckets
  BY DEF Buckets
<1> QED
  BY <1>1, <1>2, <1>3

-----------------------------------------------------------------------------
(* The invariant. *)

\* acceptClosed has let b or a newer bar of its symbol pass.
Guarded(b) == b[2] <= lastClosed[b[1]]

\* Every bar behind the guard is one the guard has seen.
AllGuarded ==
  /\ \A c \in Callers : cpc[c] = "send" => Guarded(cbar[c])
  /\ \A i \in 1..Len(closedCh) : Guarded(closedCh[i])
  /\ \A w \in Workers : wpc[w] = "push" => Guarded(wbar[w])
  /\ \A b \in pushed : Guarded(b)

\* A bar behind the guard is in one place.
QueueApart ==
  /\ \A i, j \in 1..Len(closedCh) : i # j => closedCh[i] # closedCh[j]
  /\ \A i \in 1..Len(closedCh) :
       /\ closedCh[i] \notin pushed
       /\ \A w \in Workers : wpc[w] = "push" => wbar[w] # closedCh[i]

HandApart ==
  /\ \A w \in Workers : wpc[w] = "push" => wbar[w] \notin pushed
  /\ \A v, w \in Workers : v # w /\ wpc[v] = "push" /\ wpc[w] = "push" => wbar[v] # wbar[w]

SendApart ==
  \A c \in Callers : cpc[c] = "send" =>
    /\ cbar[c] \notin pushed
    /\ \A i \in 1..Len(closedCh) : cbar[c] # closedCh[i]
    /\ \A w \in Workers : wpc[w] = "push" => cbar[c] # wbar[w]
    /\ \A d \in Callers : c # d /\ cpc[d] = "send" => cbar[c] # cbar[d]

\* A goroutine inside publish holds its section: published, no timer, and no
\* other goroutine publishes the same base bar.
PublishShape ==
  /\ \A w \in Workers : wpc[w] = "publish" <=> ppc[w] # "none"
  /\ \A t \in Times : ppc[<<"timer", t>>] # "none" => pev[<<"timer", t>>].t = t
  /\ \A p \in Publishers : ppc[p] # "none" =>
       LET st == sections[pev[p].t] IN st.open /\ st.published /\ st.timer = "none"
  /\ \A p, q \in Publishers :
       p # q /\ ppc[p] # "none" /\ ppc[q] # "none" => pev[p].t # pev[q].t

TimerShape ==
  \A t \in Times : /\ sections[t].timer = "completion" => sections[t].open /\ ~sections[t].published
                   /\ sections[t].timer = "retention"  => sections[t].open /\ sections[t].published

\* The opening of t has room for an event: it is not published, or the
\* goroutine that publishes it has not sent it.
Unsent(t) == \/ sections[t].open /\ ~sections[t].published
             \/ \E p \in Publishers : ppc[p] \in {"check", "send"} /\ pev[p].t = t

CountShape ==
  \A t \in Times : /\ ready[<<1, t>>] <= opened[t]
                   /\ Unsent(t) => ready[<<1, t>>] < opened[t]

\* A derived event still to be sent is one behind its base event.
CascadeShape ==
  /\ DerivedFollowsBase
  /\ \A p \in Publishers : ppc[p] \in {"derive", "sendDerived"} =>
       \A d \in pev[p].todo : /\ (pev[p].t + 1) % d = 0
                              /\ ready[bucket(d, pev[p].t)] < ready[<<1, pev[p].t>>]

BarsApart == AllGuarded /\ QueueApart /\ HandApart /\ SendApart

IInv == /\ TypeOK /\ BarsApart
        /\ PublishShape /\ TimerShape /\ CountShape /\ CascadeShape

-----------------------------------------------------------------------------
(* Types. *)

LEMMA CallersStep == TypeOK /\ [Next]_vars => CallersOK'
<1> SUFFICES ASSUME TypeOK, [Next]_vars PROVE CallersOK'
  OBVIOUS
<1> USE DEF TypeOK
<1>1. ASSUME UNCHANGED <<callerVars, closedCh>> PROVE CallersOK'
  BY <1>1 DEF callerVars, CallersOK
<1>2. ASSUME NEW c \in Callers, LeaveCall(c)
      PROVE  cpc' \in [Callers -> {"idle", "guard", "send"}] /\ cbar' \in [Callers -> Bars]
  BY <1>2, NoBarIsBar DEF LeaveCall, CallersOK
<1>3. ASSUME NEW c \in Callers, NEW b \in Bars, Arrive(c, b) PROVE CallersOK'
  <2>1. sent[b] + 1 \in 0..MaxDeliveries
    BY <1>3, Constants DEF Arrive, CallersOK
  <2> QED
    BY <1>3, <2>1 DEF Arrive, CallersOK
<1>4. ASSUME NEW c \in Callers, acceptClosed(c) PROVE CallersOK'
  <2>1. cbar[c][1] \in Symbols /\ cbar[c][2] \in Times
    BY Constants DEF CallersOK
  <2>2. CASE LeaveCall(c) /\ UNCHANGED lastClosed
    BY <1>2, <1>4, <2>2 DEF acceptClosed, CallersOK
  <2>3. CASE lastClosed' = [lastClosed EXCEPT ![cbar[c][1]] = cbar[c][2]]
             /\ cpc' = [cpc EXCEPT ![c] = "send"] /\ UNCHANGED cbar
    BY <1>4, <2>1, <2>3 DEF acceptClosed, CallersOK
  <2> QED
    BY <1>4, <2>2, <2>3 DEF acceptClosed
<1>5. ASSUME NEW c \in Callers, SendJob(c) PROVE CallersOK'
  <2>1. /\ Append(closedCh, cbar[c]) \in Seq(Bars)
        /\ Len(Append(closedCh, cbar[c])) = Len(closedCh) + 1 /\ Len(closedCh) \in Int
    BY AppendProperties, LenProperties DEF CallersOK
  <2>2. closedCh' \in Seq(Bars) /\ Len(closedCh') <= QueueSize
    <3>1. CASE Len(closedCh) < QueueSize /\ closedCh' = Append(closedCh, cbar[c])
      BY <2>1, <3>1, Constants
    <3>2. CASE UNCHANGED closedCh
      BY <3>2 DEF CallersOK
    <3> QED
      BY <1>5, <3>1, <3>2 DEF SendJob
  <2> QED
    BY <1>2, <1>5, <2>2 DEF SendJob, CallersOK
<1>6. ASSUME NEW w \in Workers, TakeJob(w) PROVE CallersOK'
  <2>1. Tail(closedCh) \in Seq(Bars) /\ Len(Tail(closedCh)) = Len(closedCh) - 1
    BY <1>6, HeadTailProperties DEF TakeJob, CallersOK
  <2>2. Len(closedCh) \in Int /\ Len(closedCh) <= QueueSize
    BY LenProperties DEF CallersOK
  <2>3. closedCh' \in Seq(Bars) /\ Len(closedCh') <= QueueSize
    BY <1>6, <2>1, <2>2, Constants DEF TakeJob
  <2> QED
    BY <1>6, <2>3 DEF TakeJob, callerVars, CallersOK
<1>7. ASSUME NEW w \in Workers,
             WorkerStop(w) \/ WorkerExit(w) \/ PushWindow(w) \/ MarkHas(w) \/ Mark(w)
      PROVE  CallersOK'
  BY <1>1, <1>7 DEF WorkerStop, WorkerExit, PushWindow, MarkHas, Mark
<1>8. ASSUME NEW p \in Publishers, PublishStep(p) PROVE CallersOK'
  BY <1>1, <1>8 DEF PublishStep, PublishCheck, PublishSend, DeriveCheck, DeriveSend, Retain
<1>9. ASSUME NEW t \in Times, onTimeout(t) \/ evict(t) PROVE CallersOK'
  BY <1>1, <1>9 DEF onTimeout, evict
<1>10. CASE Refresh \/ CancelContext \/ CloseStore \/ CloseSignal \/ CloseReturn
  BY <1>1, <1>10 DEF Refresh, CancelContext, CloseStore, CloseSignal, CloseReturn
<1>11. CASE UNCHANGED vars
  BY <1>1, <1>11 DEF vars
<1> QED
  BY <1>3, <1>4, <1>5, <1>6, <1>7, <1>8, <1>9, <1>10, <1>11 DEF Next, Caller, WorkerStep

LEMMA WorkersStep == TypeOK /\ [Next]_vars => WorkersOK'
<1> SUFFICES ASSUME TypeOK, [Next]_vars PROVE WorkersOK'
  OBVIOUS
<1> USE DEF TypeOK
<1>1. ASSUME UNCHANGED workerVars PROVE WorkersOK'
  BY <1>1 DEF workerVars, WorkersOK
<1>2. ASSUME NEW w \in Workers, JobDone(w)
      PROVE  /\ wpc' \in [Workers -> {"idle", "push", "mark", "locked", "publish", "exited"}]
             /\ wbar' \in [Workers -> Bars]
  BY <1>2, NoBarIsBar DEF JobDone, WorkersOK
<1>3. ASSUME NEW c \in Callers, Caller(c) PROVE WorkersOK'
  BY <1>1, <1>3 DEF Caller, acceptClosed, SendJob
<1>4. ASSUME NEW c \in Callers, NEW b \in Bars, Arrive(c, b) PROVE WorkersOK'
  BY <1>1, <1>4 DEF Arrive
<1>5. ASSUME NEW w \in Workers, TakeJob(w) PROVE WorkersOK'
  <2>1. Head(closedCh) \in Bars
    BY <1>5 DEF TakeJob, CallersOK
  <2> QED
    BY <1>5, <2>1 DEF TakeJob, WorkersOK
<1>6. ASSUME NEW w \in Workers, WorkerStop(w) \/ WorkerExit(w) \/ PushWindow(w) PROVE WorkersOK'
  BY <1>6 DEF WorkerStop, WorkerExit, PushWindow, WorkersOK
<1>7. ASSUME NEW w \in Workers, MarkHas(w) PROVE WorkersOK'
  BY <1>2, <1>7 DEF MarkHas, WorkersOK
<1>8. ASSUME NEW w \in Workers, Mark(w) PROVE WorkersOK'
  <2>1. CASE JobDone(w)
    BY <1>2, <1>8, <2>1 DEF Mark, WorkersOK
  <2>2. CASE wpc' = [wpc EXCEPT ![w] = "publish"] /\ UNCHANGED wbar
    BY <1>8, <2>2 DEF Mark, WorkersOK
  <2> QED
    BY <1>8, <2>1, <2>2 DEF Mark
<1>9. ASSUME NEW p \in Publishers, Return(p), UNCHANGED draining PROVE WorkersOK'
  BY <1>2, <1>9 DEF Return, WorkersOK
<1>10. ASSUME NEW p \in Publishers, PublishStep(p) PROVE WorkersOK'
  <2>1. CASE Return(p) /\ UNCHANGED draining
    BY <1>9, <2>1
  <2>2. CASE UNCHANGED <<wpc, wbar, draining>>
    BY <1>1, <2>2 DEF workerVars
  <2> QED
    BY <1>10, <2>1, <2>2
      DEF PublishStep, PublishCheck, PublishSend, DeriveCheck, DeriveSend, Retain, workerVars
<1>11. ASSUME NEW t \in Times, onTimeout(t) \/ evict(t) PROVE WorkersOK'
  BY <1>1, <1>11 DEF onTimeout, evict
<1>12. CASE Refresh \/ CancelContext \/ CloseStore \/ CloseSignal \/ CloseReturn
  BY <1>1, <1>12 DEF Refresh, CancelContext, CloseStore, CloseSignal, CloseReturn
<1>13. CASE UNCHANGED vars
  BY <1>1, <1>13 DEF vars
<1> QED
  BY <1>3, <1>4, <1>5, <1>6, <1>7, <1>8, <1>10, <1>11, <1>12, <1>13 DEF Next, WorkerStep

LEMMA NoEventIsEvent == NoEvent \in Event /\ NoSection \in Section
BY Constants DEF NoEvent, Event, NoSection, Section

\* Announcing a bucket moves its count and no other.
LEMMA AnnounceMoves ==
  ASSUME PublishersOK, NEW p \in Publishers, NEW b \in Buckets, Announce(p, b)
  PROVE  /\ ready' \in [Buckets -> Nat]
         /\ ready'[b] = ready[b] + 1
         /\ \A c \in Buckets : c # b => ready'[c] = ready[c]
BY DEF Announce, PublishersOK

LEMMA PublishersStep == TypeOK /\ [Next]_vars => PublishersOK'
<1> SUFFICES ASSUME TypeOK, [Next]_vars PROVE PublishersOK'
  OBVIOUS
<1> USE DEF TypeOK
<1> DEFINE Places == {"none", "check", "send", "derive", "sendDerived", "retain"}
           Frame  == UNCHANGED <<sections, opened, ppc, pev, ready>>
<1>1. ASSUME Frame PROVE PublishersOK'
  BY <1>1 DEF PublishersOK
<1>2. ASSUME NEW p \in Publishers, NEW t \in Times, NEW S \in SUBSET Symbols, Publish(p, t, S)
      PROVE  ppc' \in [Publishers -> Places] /\ pev' \in [Publishers -> Event]
  <2>1. [t |-> t, symbols |-> S, todo |-> {}] \in Event
    BY DEF Event
  <2> QED
    BY <1>2, <2>1 DEF Publish, PublishersOK
<1>3. ASSUME NEW p \in Publishers, Return(p)
      PROVE  ppc' \in [Publishers -> Places] /\ pev' \in [Publishers -> Event]
  BY <1>3, NoEventIsEvent DEF Return, PublishersOK
<1>4. ASSUME NEW p \in Publishers, NEW D \in SUBSET Derived, pev' = [pev EXCEPT ![p].todo = D]
      PROVE  pev' \in [Publishers -> Event]
  <2>1. [pev[p] EXCEPT !.todo = D] \in Event
    BY DEF PublishersOK, Event
  <2> QED
    BY <1>4, <2>1 DEF PublishersOK
<1>5. \A p \in Publishers : pev[p].t \in Times /\ pev[p].todo \in SUBSET Derived
  BY DEF PublishersOK, Event
<1>6. ASSUME NEW c \in Callers, Caller(c) PROVE PublishersOK'
  BY <1>1, <1>6 DEF Caller, acceptClosed, SendJob, aggVars, pubVars
<1>7. ASSUME NEW c \in Callers, NEW b \in Bars, Arrive(c, b) PROVE PublishersOK'
  BY <1>1, <1>7 DEF Arrive, aggVars, pubVars
<1>8. ASSUME NEW w \in Workers,
             TakeJob(w) \/ WorkerStop(w) \/ WorkerExit(w) \/ PushWindow(w) \/ MarkHas(w)
      PROVE  PublishersOK'
  BY <1>1, <1>8 DEF TakeJob, WorkerStop, WorkerExit, PushWindow, MarkHas, aggVars, pubVars
<1>9. ASSUME NEW w \in Workers, Mark(w) PROVE PublishersOK'
  <2> DEFINE s == wbar[w][1]
             t == wbar[w][2]
             st == SectionAt(t)
             syms == st.symbols \cup {s}
  <2>1. s \in Symbols /\ t \in Times
    BY Constants DEF WorkersOK
  <2>2. st \in Section /\ syms \in SUBSET Symbols
    BY <2>1 DEF SectionAt, Section, PublishersOK
  <2>3. opened' \in [Times -> Nat] /\ ready' \in [Buckets -> Nat]
    BY <1>9, <2>1 DEF Mark, PublishersOK
  <2>4. w \in Publishers
    BY DEF Publishers
  <2> HIDE DEF s, t, st, syms
  <2>5. CASE UNCHANGED <<sections, ppc, pev>>
    BY <2>3, <2>5 DEF PublishersOK
  <2>6. CASE sections' = [sections EXCEPT ![t] = [st EXCEPT !.symbols = syms]]
             /\ UNCHANGED <<ppc, pev>>
    <3>1. [st EXCEPT !.symbols = syms] \in Section
      BY <2>2 DEF Section
    <3> QED
      BY <2>1, <2>3, <2>6, <3>1 DEF PublishersOK
  <2>7. CASE /\ sections' = [sections EXCEPT ![t] =
                    [st EXCEPT !.symbols = syms, !.published = TRUE, !.timer = "none"]]
             /\ Publish(w, t, syms)
    <3>1. [st EXCEPT !.symbols = syms, !.published = TRUE, !.timer = "none"] \in Section
      BY <2>2 DEF Section
    <3>2. sections' \in [Times -> Section]
      BY <2>1, <2>7, <3>1 DEF PublishersOK
    <3> QED
      BY <1>2, <2>1, <2>2, <2>3, <2>4, <2>7, <3>2 DEF PublishersOK
  <2> QED
    BY <1>9, <2>5, <2>6, <2>7 DEF Mark, s, t, st, syms
<1>10. ASSUME NEW p \in Publishers, PublishCheck(p) PROVE PublishersOK'
  <2>1. CASE Return(p)
    BY <1>3, <1>10, <2>1 DEF PublishCheck, aggVars, PublishersOK
  <2>2. CASE ppc' = [ppc EXCEPT ![p] = "send"] /\ UNCHANGED pev
    BY <1>10, <2>2 DEF PublishCheck, aggVars, PublishersOK
  <2> QED
    BY <1>10, <2>1, <2>2 DEF PublishCheck
<1>11. ASSUME NEW p \in Publishers, PublishSend(p) PROVE PublishersOK'
  <2>1. ClosedBy(pev[p].t) \in SUBSET Derived /\ <<1, pev[p].t>> \in Buckets
    BY <1>5, BucketsApart DEF ClosedBy
  <2>2. ready' \in [Buckets -> Nat]
    BY <1>11, <2>1, AnnounceMoves DEF PublishSend, PublishersOK
  <2>3. pev' \in [Publishers -> Event]
    BY <1>4, <1>11, <2>1 DEF PublishSend, PublishersOK
  <2> QED
    BY <1>11, <2>2, <2>3 DEF PublishSend, aggVars, PublishersOK
<1>12. ASSUME NEW p \in Publishers, DeriveCheck(p) PROVE PublishersOK'
  BY <1>12 DEF DeriveCheck, aggVars, PublishersOK
<1>13. ASSUME NEW p \in Publishers, DeriveSend(p) PROVE PublishersOK'
  <2>1. PICK d \in pev[p].todo : /\ Announce(p, bucket(d, pev[p].t)) \/ UNCHANGED <<ready, strays>>
                                 /\ pev' = [pev EXCEPT ![p].todo = @ \ {d}]
    BY <1>13 DEF DeriveSend, bucket
  <2>2. ready' \in [Buckets -> Nat]
    BY <1>5, <2>1, BucketsApart, AnnounceMoves DEF PublishersOK
  <2>3. pev' \in [Publishers -> Event]
    <3> DEFINE D == pev[p].todo \ {d}
    <3>1. D \in SUBSET Derived
      BY <1>5
    <3>2. pev' = [pev EXCEPT ![p].todo = D]
      BY <2>1
    <3> HIDE DEF D
    <3> QED
      BY <1>4, <3>1, <3>2
  <2> QED
    BY <1>13, <2>2, <2>3 DEF DeriveSend, aggVars, PublishersOK
<1>14. ASSUME NEW p \in Publishers, Retain(p) PROVE PublishersOK'
  <2> DEFINE t == pev[p].t
             st == [sections[t] EXCEPT !.timer = "retention"]
  <2>1. sections' \in [Times -> Section]
    <3>1. t \in Times /\ sections \in [Times -> Section]
      BY <1>5 DEF PublishersOK
    <3>2. st \in Section
      BY <3>1 DEF Section
    <3>3. sections' = sections \/ sections' = [sections EXCEPT ![t] = st]
      BY <1>14 DEF Retain
    <3> HIDE DEF t, st
    <3> QED
      BY <3>1, <3>2, <3>3
  <2> QED
    BY <1>3, <1>14, <2>1 DEF Retain, PublishersOK
<1>15. ASSUME NEW t \in Times, onTimeout(t) PROVE PublishersOK'
  <2>1. sections[t].symbols \in SUBSET Symbols /\ <<"timer", t>> \in Publishers
    BY TimersApart DEF PublishersOK, Section
  <2>2. sections' \in [Times -> Section]
    <3>1. [sections[t] EXCEPT !.timer = "none", !.published = TRUE] \in Section
      BY DEF PublishersOK, Section
    <3> QED
      BY <1>15, <3>1 DEF onTimeout, PublishersOK
  <2> QED
    BY <1>2, <1>15, <2>1, <2>2 DEF onTimeout, PublishersOK
<1>16. ASSUME NEW t \in Times, evict(t) PROVE PublishersOK'
  BY <1>16, NoEventIsEvent DEF evict, pubVars, PublishersOK
<1>17. CASE Refresh \/ CancelContext \/ CloseStore \/ CloseSignal
  BY <1>1, <1>17 DEF Refresh, CancelContext, CloseStore, CloseSignal, aggVars, pubVars
<1>18. CASE CloseReturn
  <2>1. sections' \in [Times -> Section]
    BY <1>18 DEF CloseReturn, StopTimers, PublishersOK, Section
  <2> QED
    BY <1>18, <2>1 DEF CloseReturn, pubVars, PublishersOK
<1>19. CASE UNCHANGED vars
  BY <1>1, <1>19 DEF vars, aggVars, pubVars
<1> QED
  BY <1>6, <1>7, <1>8, <1>9, <1>10, <1>11, <1>12, <1>13, <1>14, <1>15, <1>16, <1>17, <1>18, <1>19
    DEF Next, WorkerStep, PublishStep

LEMMA FlagsStep == TypeOK /\ [Next]_vars => FlagsOK'
<1> SUFFICES ASSUME TypeOK, [Next]_vars PROVE FlagsOK'
  OBVIOUS
<1> USE DEF TypeOK
<1>1. ASSUME UNCHANGED <<universe, stopVars, missed, left, strays, pushed, late>> PROVE FlagsOK'
  BY <1>1 DEF stopVars, FlagsOK
<1>2. ASSUME NEW c \in Callers, NEW b \in Bars, Arrive(c, b) PROVE FlagsOK'
  BY <1>1, <1>2 DEF Arrive, aggVars, pubVars
<1>3. ASSUME NEW c \in Callers, Caller(c) PROVE FlagsOK'
  <2>1. late' \subseteq Bars
    BY <1>3 DEF Caller, acceptClosed, SendJob, CallersOK, FlagsOK
  <2> QED
    BY <1>3, <2>1 DEF Caller, acceptClosed, SendJob, aggVars, pubVars, stopVars, FlagsOK
<1>4. ASSUME NEW w \in Workers, WorkerStep(w) PROVE FlagsOK'
  <2>1. pushed' \subseteq Bars /\ UNCHANGED <<late, strays>>
    BY <1>4 DEF WorkerStep, TakeJob, WorkerStop, WorkerExit, PushWindow, MarkHas, Mark, pubVars,
         WorkersOK, FlagsOK
  <2>2. closed' \in BOOLEAN /\ UNCHANGED <<universe, stopped, cancelled, closeDone>>
    BY <1>4 DEF WorkerStep, TakeJob, WorkerStop, WorkerExit, PushWindow, MarkHas, Mark, stopVars, FlagsOK
  <2>3. missed' \in [Times -> SUBSET Symbols] /\ UNCHANGED left
    <3>1. CASE Mark(w)
      <4>1. wbar[w][2] \in Times
        BY Constants DEF WorkersOK
      <4>2. UNCHANGED left
        BY <3>1 DEF Mark
      <4>3. UNCHANGED missed \/ \E S : missed' = [missed EXCEPT ![wbar[w][2]] = universe \ S]
        BY <3>1 DEF Mark
      <4> QED
        BY <4>1, <4>2, <4>3 DEF FlagsOK
    <3>2. CASE UNCHANGED aggVars
      BY <3>2 DEF aggVars, FlagsOK
    <3> QED
      BY <1>4, <3>1, <3>2 DEF WorkerStep, TakeJob, WorkerStop, WorkerExit, PushWindow, MarkHas
  <2> QED
    BY <2>1, <2>2, <2>3 DEF FlagsOK
<1>5. ASSUME NEW p \in Publishers, PublishStep(p) PROVE FlagsOK'
  <2>1. UNCHANGED <<universe, stopVars, missed, left, pushed, late>>
    BY <1>5 DEF PublishStep, PublishCheck, PublishSend, DeriveCheck, DeriveSend, Retain, aggVars
  <2>2. UNCHANGED strays \/ strays' = [strays EXCEPT ![p] = @ + 1]
    BY <1>5 DEF PublishStep, PublishCheck, PublishSend, DeriveCheck, DeriveSend, Retain, Announce
  <2>3. strays' \in [Publishers -> Nat]
    BY <2>2 DEF FlagsOK
  <2> QED
    BY <2>1, <2>3 DEF stopVars, FlagsOK
<1>6. ASSUME NEW t \in Times, onTimeout(t) \/ evict(t) PROVE FlagsOK'
  BY <1>1, <1>6 DEF onTimeout, evict, pubVars
<1>7. CASE Refresh
  <2>1. left' \subseteq Bars
    BY <1>7 DEF Refresh, Counted, WorkersOK, FlagsOK
  <2>2. universe' \in SUBSET Symbols
    BY <1>7, Constants DEF Refresh
  <2> QED
    BY <1>7, <2>1, <2>2 DEF Refresh, pubVars, stopVars, FlagsOK
<1>8. CASE CancelContext \/ CloseStore \/ CloseSignal \/ CloseReturn
  BY <1>8 DEF CancelContext, CloseStore, CloseSignal, CloseReturn,
       aggVars, pubVars, stopVars, FlagsOK
<1>9. CASE UNCHANGED vars
  BY <1>1, <1>9 DEF vars, aggVars, pubVars
<1> QED
  BY <1>2, <1>3, <1>4, <1>5, <1>6, <1>7, <1>8, <1>9 DEF Next

-----------------------------------------------------------------------------
(* No bar is in two places. *)

\* A step that leaves the queue, the guard and the pushed bars alone, and at
\* most takes a goroutine out of its send or its push.
BarsFrame ==
  /\ UNCHANGED <<lastClosed, closedCh, pushed>>
  /\ \A c \in Callers : cpc'[c] = "send" => cpc[c] = "send" /\ cbar'[c] = cbar[c]
  /\ \A w \in Workers : wpc'[w] = "push" => wpc[w] = "push" /\ wbar'[w] = wbar[w]

LEMMA FrameKeepsBars == BarsApart /\ BarsFrame => BarsApart'
<1> SUFFICES ASSUME BarsApart, BarsFrame PROVE BarsApart'
  OBVIOUS
<1>1. AllGuarded'
  BY DEF BarsApart, BarsFrame, AllGuarded, Guarded
<1>2. QueueApart'
  BY DEF BarsApart, BarsFrame, QueueApart
<1>3. HandApart'
  BY DEF BarsApart, BarsFrame, HandApart
<1>4. SendApart'
  BY DEF BarsApart, BarsFrame, SendApart
<1> QED
  BY <1>1, <1>2, <1>3, <1>4 DEF BarsApart

\* The guard lets a bar pass that is in no place yet.
LEMMA GuardKeepsBars ==
  ASSUME IInv, NEW c \in Callers, acceptClosed(c)
  PROVE  BarsApart'
<1> DEFINE b == cbar[c]
<1>1. b[1] \in Symbols /\ b[2] \in Times /\ Times \subseteq Int
  BY Constants DEF IInv, TypeOK, CallersOK
<1>2. CASE LeaveCall(c) /\ UNCHANGED lastClosed
  <2>1. BarsFrame
    BY <1>2 DEF acceptClosed, LeaveCall, BarsFrame, workerVars, IInv, TypeOK, CallersOK
  <2> QED
    BY <2>1, FrameKeepsBars DEF IInv
<1>3. CASE /\ b[2] > lastClosed[b[1]]
           /\ lastClosed' = [lastClosed EXCEPT ![b[1]] = b[2]]
           /\ cpc' = [cpc EXCEPT ![c] = "send"]
           /\ UNCHANGED cbar
  <2>1. /\ \A s \in Symbols : lastClosed[s] \in Int /\ lastClosed'[s] \in Int
                              /\ lastClosed[s] <= lastClosed'[s]
        /\ lastClosed'[b[1]] = b[2]
    <3>1. lastClosed \in [Symbols -> {-1} \cup Times]
      BY DEF IInv, TypeOK, CallersOK
    <3>2. \A s \in Symbols : lastClosed[s] \in Int
      <4>1. \A x \in {-1} \cup Times : x \in Int
        BY <1>1
      <4>2. \A s \in Symbols : lastClosed[s] \in {-1} \cup Times
        BY <3>1
      <4> QED
        BY <4>1, <4>2
    <3>3. \A s \in Symbols : lastClosed'[s] = IF s = b[1] THEN b[2] ELSE lastClosed[s]
      BY <1>3, <3>1
    <3>4. b[2] \in Int /\ b[2] > lastClosed[b[1]]
      BY <1>1, <1>3
    <3> HIDE DEF b
    <3> QED
      BY <1>1, <3>2, <3>3, <3>4
  <2>2. UNCHANGED <<closedCh, wpc, wbar, pushed>>
    BY DEF acceptClosed, workerVars
  <2>3. \A d \in Callers : d # c => cpc'[d] = cpc[d]
    BY <1>3 DEF IInv, TypeOK, CallersOK
  <2>4. ASSUME NEW x \in Bars, Guarded(x) PROVE Guarded(x)' /\ x # b
    <3>1. x[1] \in Symbols /\ x[2] \in Int
      BY Constants
    <3> QED
      BY <1>1, <1>3, <2>1, <2>4, <3>1 DEF Guarded
  <2>5. /\ \A i \in 1..Len(closedCh) : closedCh[i] \in Bars
        /\ \A w \in Workers : wbar[w] \in Bars
        /\ \A d \in Callers : cbar[d] \in Bars
        /\ pushed \subseteq Bars
    BY DEF IInv, TypeOK, CallersOK, WorkersOK, FlagsOK
  <2>6. Guarded(b)'
    BY <1>1, <1>3, <2>1 DEF Guarded
  <2> HIDE DEF b
  <2>7. AllGuarded'
    <3>1. ASSUME NEW d \in Callers, cpc'[d] = "send" PROVE Guarded(cbar[d])'
      <4>1. CASE d = c
        BY <2>6, <4>1 DEF b
      <4>2. CASE d # c
        <5>1. Guarded(cbar[d]) /\ cbar[d] \in Bars /\ UNCHANGED cbar
          BY <1>3, <2>3, <2>5, <3>1, <4>2 DEF IInv, BarsApart, AllGuarded
        <5> QED
          BY <2>4, <5>1 DEF Guarded
      <4> QED
        BY <4>1, <4>2
    <3> QED
      BY <1>3, <2>2, <2>4, <2>5, <3>1 DEF IInv, BarsApart, AllGuarded
  <2>8. QueueApart' /\ HandApart'
    BY <2>2 DEF IInv, BarsApart, QueueApart, HandApart
  <2>9. /\ b \notin pushed
        /\ \A i \in 1..Len(closedCh) : b # closedCh[i]
        /\ \A w \in Workers : wpc[w] = "push" => b # wbar[w]
        /\ \A d \in Callers : cpc[d] = "send" => b # cbar[d]
    BY <2>4, <2>5 DEF IInv, BarsApart, AllGuarded
  <2>10. SendApart'
    BY <1>3, <2>2, <2>3, <2>9 DEF b, IInv, BarsApart, SendApart
  <2> QED
    BY <2>7, <2>8, <2>10 DEF BarsApart
<1> QED
  BY <1>2, <1>3 DEF acceptClosed

\* A bar that is sent leaves its caller and enters the queue.
LEMMA SendKeepsBars ==
  ASSUME IInv, NEW c \in Callers, SendJob(c)
  PROVE  BarsApart'
<1> DEFINE n == Len(closedCh)
           b == cbar[c]
<1>1. /\ cpc[c] = "send" /\ cpc'[c] = "idle"
      /\ \A d \in Callers : d # c => cpc'[d] = cpc[d] /\ cbar'[d] = cbar[d]
      /\ UNCHANGED <<lastClosed, wpc, wbar, pushed>>
  BY DEF SendJob, LeaveCall, workerVars, IInv, TypeOK, CallersOK
<1>2. CASE UNCHANGED closedCh
  BY <1>1, <1>2, FrameKeepsBars DEF BarsFrame, IInv
<1>3. CASE closedCh' = Append(closedCh, b)
  <2>1. /\ n \in Nat /\ Len(closedCh') = n + 1
        /\ \A i \in 1..n : closedCh'[i] = closedCh[i]
        /\ closedCh'[n + 1] = b
    BY <1>3, AppendProperties, LenProperties DEF IInv, TypeOK, CallersOK
  <2> HIDE DEF n
  <2>2. \A i \in 1..Len(closedCh') : i \in 1..n \/ i = n + 1
    BY <2>1
  <2> HIDE DEF b
  <2>3. AllGuarded'
    BY <1>1, <2>1, <2>2 DEF n, b, IInv, BarsApart, AllGuarded, Guarded
  <2>4. /\ b \notin pushed
        /\ \A i \in 1..n : b # closedCh[i]
        /\ \A w \in Workers : wpc[w] = "push" => b # wbar[w]
        /\ \A d \in Callers : c # d /\ cpc[d] = "send" => b # cbar[d]
    BY <1>1 DEF n, b, IInv, BarsApart, SendApart
  <2>5. QueueApart'
    BY <1>1, <2>1, <2>2, <2>4 DEF n, IInv, BarsApart, QueueApart
  <2>6. HandApart'
    BY <1>1 DEF IInv, BarsApart, HandApart
  <2>7. SendApart'
    BY <1>1, <2>1, <2>2, <2>4 DEF n, IInv, BarsApart, SendApart
  <2> QED
    BY <2>3, <2>5, <2>6, <2>7 DEF BarsApart
<1> QED
  BY <1>2, <1>3 DEF SendJob

\* A bar that is taken leaves the queue for the worker's hand.
LEMMA TakeKeepsBars ==
  ASSUME IInv, NEW w \in Workers, TakeJob(w)
  PROVE  BarsApart'
<1> DEFINE n == Len(closedCh)
<1>1. /\ wpc'[w] = "push" /\ wbar'[w] = closedCh[1]
      /\ \A v \in Workers : v # w => wpc'[v] = wpc[v] /\ wbar'[v] = wbar[v]
      /\ UNCHANGED <<lastClosed, cpc, cbar, pushed>>
  BY HeadTailProperties DEF TakeJob, callerVars, IInv, TypeOK, WorkersOK, CallersOK
<1>2. /\ n \in Nat /\ Len(closedCh') = n - 1 /\ n >= 1
      /\ \A i \in 1..(n - 1) : closedCh'[i] = closedCh[i + 1]
  <2>1. closedCh \in Seq(Bars) /\ closedCh # <<>> /\ closedCh' = Tail(closedCh)
    BY DEF TakeJob, IInv, TypeOK, CallersOK
  <2> QED
    BY <2>1, HeadTailProperties, LenProperties, EmptySeq
<1> HIDE DEF n
<1>3. /\ \A i \in 1..Len(closedCh') : i + 1 \in 1..n /\ i + 1 # 1 /\ closedCh'[i] = closedCh[i + 1]
      /\ \A i, j \in 1..Len(closedCh') : i # j => i + 1 # j + 1
      /\ 1 \in 1..n
  BY <1>2
<1>4. AllGuarded'
  BY <1>1, <1>3 DEF n, IInv, BarsApart, AllGuarded, Guarded
<1>5. QueueApart'
  <2>1. \A i, j \in 1..Len(closedCh') : i # j => closedCh'[i] # closedCh'[j]
    BY <1>3 DEF n, IInv, BarsApart, QueueApart
  <2>2. \A i \in 1..Len(closedCh') : closedCh'[i] \notin pushed /\ closedCh'[i] # closedCh[1]
    BY <1>3 DEF n, IInv, BarsApart, QueueApart
  <2>3. \A i \in 1..Len(closedCh'), v \in Workers : wpc[v] = "push" => wbar[v] # closedCh'[i]
    BY <1>3 DEF n, IInv, BarsApart, QueueApart
  <2> QED
    BY <1>1, <2>1, <2>2, <2>3 DEF QueueApart
<1>6. HandApart'
  BY <1>1, <1>3 DEF n, IInv, BarsApart, QueueApart, HandApart
<1>7. SendApart'
  <2>1. \A c \in Callers : cpc[c] = "send" =>
          cbar[c] # closedCh[1] /\ \A i \in 1..Len(closedCh') : cbar[c] # closedCh'[i]
    BY <1>3 DEF n, IInv, BarsApart, SendApart
  <2> QED
    BY <1>1, <2>1 DEF IInv, BarsApart, SendApart
<1> QED
  BY <1>4, <1>5, <1>6, <1>7 DEF BarsApart

\* A bar that is pushed leaves the hand.
LEMMA PushKeepsBars ==
  ASSUME IInv, NEW w \in Workers, PushWindow(w)
  PROVE  BarsApart'
<1>1. /\ wpc[w] = "push" /\ wpc'[w] = "mark" /\ pushed' = pushed \cup {wbar[w]}
      /\ \A v \in Workers : v # w => wpc'[v] = wpc[v]
      /\ UNCHANGED <<lastClosed, cpc, cbar, closedCh, wbar>>
  BY DEF PushWindow, callerVars, IInv, TypeOK, WorkersOK
<1>2. AllGuarded'
  BY <1>1 DEF IInv, BarsApart, AllGuarded, Guarded
<1>3. QueueApart'
  BY <1>1 DEF IInv, BarsApart, QueueApart
<1>4. HandApart'
  BY <1>1 DEF IInv, BarsApart, HandApart
<1>5. SendApart'
  BY <1>1 DEF IInv, BarsApart, SendApart
<1> QED
  BY <1>2, <1>3, <1>4, <1>5 DEF BarsApart

LEMMA BarsStep == IInv /\ [Next]_vars => BarsApart'
<1> SUFFICES ASSUME IInv, [Next]_vars PROVE BarsApart'
  OBVIOUS
<1>1. ASSUME UNCHANGED <<callerVars, closedCh, pushed>>,
             \A w \in Workers : wpc'[w] = "push" => wpc[w] = "push" /\ wbar'[w] = wbar[w]
      PROVE  BarsApart'
  BY <1>1, FrameKeepsBars DEF BarsFrame, callerVars, IInv
<1>2. ASSUME NEW w \in Workers, JobDone(w), NEW v \in Workers, wpc'[v] = "push"
      PROVE  wpc[v] = "push" /\ wbar'[v] = wbar[v]
  BY <1>2 DEF JobDone, IInv, TypeOK, WorkersOK
<1>3. ASSUME NEW c \in Callers, NEW b \in Bars, Arrive(c, b) PROVE BarsApart'
  <2>1. BarsFrame
    BY <1>3 DEF Arrive, BarsFrame, workerVars, IInv, TypeOK, CallersOK
  <2> QED
    BY <2>1, FrameKeepsBars DEF IInv
<1>4. ASSUME NEW c \in Callers, Caller(c) PROVE BarsApart'
  BY <1>4, GuardKeepsBars, SendKeepsBars DEF Caller
<1>5. ASSUME NEW w \in Workers, WorkerStop(w) \/ WorkerExit(w) PROVE BarsApart'
  BY <1>1, <1>5 DEF WorkerStop, WorkerExit, IInv, TypeOK, WorkersOK
<1>6. ASSUME NEW w \in Workers, MarkHas(w) PROVE BarsApart'
  <2>1. CASE JobDone(w)
    BY <1>1, <1>2, <1>6, <2>1 DEF MarkHas
  <2>2. CASE wpc' = [wpc EXCEPT ![w] = "locked"] /\ UNCHANGED wbar
    BY <1>1, <1>6, <2>2 DEF MarkHas, IInv, TypeOK, WorkersOK
  <2> QED
    BY <1>6, <2>1, <2>2 DEF MarkHas
<1>7. ASSUME NEW w \in Workers, Mark(w) PROVE BarsApart'
  <2>1. CASE JobDone(w)
    BY <1>1, <1>2, <1>7, <2>1 DEF Mark
  <2>2. CASE wpc' = [wpc EXCEPT ![w] = "publish"] /\ UNCHANGED wbar
    BY <1>1, <1>7, <2>2 DEF Mark, IInv, TypeOK, WorkersOK
  <2> QED
    BY <1>7, <2>1, <2>2 DEF Mark
<1>8. ASSUME NEW w \in Workers, WorkerStep(w) PROVE BarsApart'
  BY <1>5, <1>6, <1>7, <1>8, TakeKeepsBars, PushKeepsBars DEF WorkerStep
<1>9. ASSUME NEW p \in Publishers, PublishStep(p) PROVE BarsApart'
  <2>1. UNCHANGED <<callerVars, closedCh, pushed>>
    BY <1>9 DEF PublishStep, PublishCheck, PublishSend, DeriveCheck, DeriveSend, Retain
  <2>2. CASE Return(p)
    BY <1>1, <1>2, <2>1, <2>2 DEF Return
  <2>3. CASE UNCHANGED <<wpc, wbar>>
    BY <1>1, <2>1, <2>3
  <2> QED
    BY <1>9, <2>2, <2>3
      DEF PublishStep, PublishCheck, PublishSend, DeriveCheck, DeriveSend, Retain, workerVars
<1>10. ASSUME NEW t \in Times, onTimeout(t) \/ evict(t) PROVE BarsApart'
  BY <1>1, <1>10 DEF onTimeout, evict, workerVars
<1>11. CASE Refresh \/ CancelContext \/ CloseStore \/ CloseSignal \/ CloseReturn
  BY <1>1, <1>11 DEF Refresh, CancelContext, CloseStore, CloseSignal, CloseReturn, workerVars
<1>12. CASE UNCHANGED vars
  BY <1>1, <1>12 DEF vars, workerVars
<1> QED
  BY <1>3, <1>4, <1>8, <1>9, <1>10, <1>11, <1>12 DEF Next

-----------------------------------------------------------------------------
(* Publishing. *)

Active(p) == ppc[p] # "none"

\* Every section that is not published, or has a timer, has no publisher.
LEMMA NotPublishing ==
  ASSUME PublishShape, NEW t \in Times,
         sections[t].open => ~sections[t].published \/ sections[t].timer # "none"
  PROVE  \A p \in Publishers : Active(p) => pev[p].t # t
BY DEF PublishShape, Active

\* Goroutines leave publish or stay with their section, which stays published.
LEMMA FrameKeepsPublish ==
  ASSUME PublishShape,
         \A w \in Workers : wpc'[w] = "publish" <=> Active(w)',
         \A p \in Publishers : Active(p)' =>
           /\ Active(p) /\ pev'[p].t = pev[p].t
           /\ LET st == sections'[pev[p].t] IN st.open /\ st.published /\ st.timer = "none"
  PROVE  PublishShape'
<1>1. \A t \in Times : <<"timer", t>> \in Publishers
  BY TimersApart
<1> QED
  BY <1>1 DEF PublishShape, Active

\* A goroutine begins to publish a section nobody publishes.
LEMMA BeginPublish ==
  ASSUME TypeOK, PublishShape, NEW p \in Publishers, NEW t \in Times, NEW S, Publish(p, t, S),
         \A q \in Publishers : Active(q) => pev[q].t # t,
         p \in Workers \/ p = <<"timer", t>>,
         \A w \in Workers : wpc'[w] = "publish" <=> wpc[w] = "publish" \/ w = p,
         \A u \in Times : u # t => sections'[u] = sections[u],
         sections'[t].open /\ sections'[t].published /\ sections'[t].timer = "none"
  PROVE  PublishShape'
<1>1. /\ ppc'[p] = "check" /\ pev'[p].t = t
      /\ \A q \in Publishers : q # p => ppc'[q] = ppc[q] /\ pev'[q] = pev[q]
  BY DEF Publish, TypeOK, PublishersOK
<1>2. \A q \in Publishers : pev[q].t \in Times
  BY DEF TypeOK, PublishersOK, Event
<1>3. \A w \in Workers : w \in Publishers
  BY DEF Publishers
<1>4. \A u \in Times : /\ <<"timer", u>> \in Publishers /\ <<"timer", u>> \notin Workers
                       /\ <<"timer", u>> = <<"timer", t>> => u = t
  BY TimersApart
<1>5. (\A w \in Workers : wpc[w] = "publish" <=> ppc[w] # "none")'
  BY <1>1, <1>3 DEF PublishShape
<1>6. (\A u \in Times : ppc[<<"timer", u>>] # "none" => pev[<<"timer", u>>].t = u)'
  BY <1>1, <1>4 DEF PublishShape
<1>7. (\A q \in Publishers : ppc[q] # "none" =>
         LET st == sections[pev[q].t] IN st.open /\ st.published /\ st.timer = "none")'
  BY <1>1, <1>2 DEF PublishShape, Active
<1>8. (\A q, r \in Publishers :
         q # r /\ ppc[q] # "none" /\ ppc[r] # "none" => pev[q].t # pev[r].t)'
  BY <1>1 DEF PublishShape, Active
<1> QED
  BY <1>5, <1>6, <1>7, <1>8 DEF PublishShape

\* What Return does to the goroutines.
LEMMA ReturnLeaves ==
  ASSUME TypeOK, PublishShape, NEW p \in Publishers, Return(p)
  PROVE  /\ ~Active(p)' /\ \A q \in Publishers : q # p => ppc'[q] = ppc[q] /\ pev'[q] = pev[q]
         /\ \A w \in Workers : wpc'[w] = "publish" <=> Active(w)'
<1>1. ~Active(p)' /\ \A q \in Publishers : q # p => ppc'[q] = ppc[q] /\ pev'[q] = pev[q]
  BY DEF Return, Active, TypeOK, PublishersOK
<1>2. \A w \in Workers : w \in Publishers
  BY DEF Publishers
<1>3. CASE p \in Workers /\ JobDone(p)
  <2>1. wpc'[p] = "idle" /\ \A w \in Workers : w # p => wpc'[w] = wpc[w]
    BY <1>3 DEF JobDone, TypeOK, WorkersOK
  <2> QED
    BY <1>1, <1>2, <2>1 DEF PublishShape, Active
<1>4. CASE p \notin Workers /\ UNCHANGED wpc
  BY <1>1, <1>2, <1>4 DEF PublishShape, Active
<1> QED
  BY <1>1, <1>3, <1>4 DEF Return

\* The steps of a worker outside mark and publish.
LEMMA WorkerAside ==
  ASSUME TypeOK, NEW w \in Workers,
         TakeJob(w) \/ WorkerStop(w) \/ WorkerExit(w) \/ PushWindow(w) \/ MarkHas(w)
  PROVE  /\ UNCHANGED <<sections, opened, ppc, pev, ready>>
         /\ \A v \in Workers : wpc'[v] = "publish" <=> wpc[v] = "publish"
<1>1. UNCHANGED <<sections, opened, ppc, pev, ready>>
  BY DEF TakeJob, WorkerStop, WorkerExit, PushWindow, MarkHas, aggVars, pubVars
<1>2. wpc[w] # "publish" /\ wpc'[w] # "publish" /\ \A v \in Workers : v # w => wpc'[v] = wpc[v]
  BY DEF TakeJob, WorkerStop, WorkerExit, PushWindow, MarkHas, JobDone, TypeOK, WorkersOK
<1> QED
  BY <1>1, <1>2

\* What mark does to the section of its bar.
LEMMA MarkCases ==
  ASSUME TypeOK, TimerShape, NEW w \in Workers, Mark(w), NEW t, t = wbar[w][2]
  PROVE  /\ t \in Times /\ w \in Publishers /\ wpc[w] = "locked" /\ UNCHANGED ready
         /\ \A u \in Times : u # t => opened'[u] = opened[u] /\ sections'[u] = sections[u]
         /\ opened'[t] = IF sections[t].open THEN opened[t] ELSE opened[t] + 1
         /\ \/ /\ JobDone(w) /\ UNCHANGED <<sections, opened, ppc, pev>>
            \/ /\ sections[t].open => ~sections[t].published
               /\ sections'[t].open /\ ~sections'[t].published /\ sections'[t].timer # "retention"
               /\ JobDone(w) /\ UNCHANGED <<ppc, pev>>
            \/ /\ sections[t].open => ~sections[t].published
               /\ sections'[t].open /\ sections'[t].published /\ sections'[t].timer = "none"
               /\ wpc' = [wpc EXCEPT ![w] = "publish"]
               /\ \E S : Publish(w, t, S)
<1> DEFINE st == SectionAt(t)
           syms == st.symbols \cup {wbar[w][1]}
<1>1. t \in Times /\ w \in Publishers /\ wpc[w] = "locked" /\ UNCHANGED ready
  BY Constants DEF Mark, TypeOK, WorkersOK, Publishers
<1>2. /\ \A u \in Times : u # t => opened'[u] = opened[u]
      /\ opened'[t] = IF sections[t].open THEN opened[t] ELSE opened[t] + 1
  BY <1>1 DEF Mark, TypeOK, PublishersOK
<1>3. /\ st \in Section /\ st.open
      /\ sections[t].open => st = sections[t]
      /\ ~sections[t].open => ~st.published /\ st.timer = "completion"
  BY <1>1 DEF SectionAt, TypeOK, PublishersOK, Section
<1>4. CASE st.published /\ JobDone(w) /\ UNCHANGED <<sections, ppc, pev>>
  <2>1. sections[t].open
    BY <1>3, <1>4
  <2>2. UNCHANGED opened
    BY <1>1, <2>1 DEF Mark, TypeOK, PublishersOK
  <2> QED
    BY <1>1, <1>2, <1>4, <2>2
<1>5. ~st.published => st.timer # "retention"
  BY <1>1, <1>3 DEF TimerShape
<1>6. CASE /\ ~st.published /\ JobDone(w) /\ UNCHANGED <<ppc, pev>>
           /\ sections' = [sections EXCEPT ![t] = [st EXCEPT !.symbols = syms]]
  <2>1. [st EXCEPT !.symbols = syms].open /\ ~[st EXCEPT !.symbols = syms].published
        /\ [st EXCEPT !.symbols = syms].timer = st.timer
    BY <1>3, <1>6 DEF Section
  <2>2. sections'[t] = [st EXCEPT !.symbols = syms]
        /\ \A u \in Times : u # t => sections'[u] = sections[u]
    BY <1>1, <1>6 DEF TypeOK, PublishersOK
  <2> QED
    BY <1>1, <1>2, <1>3, <1>5, <1>6, <2>1, <2>2
<1>7. CASE /\ ~st.published /\ Publish(w, t, syms) /\ wpc' = [wpc EXCEPT ![w] = "publish"]
           /\ sections' = [sections EXCEPT ![t] =
                  [st EXCEPT !.symbols = syms, !.published = TRUE, !.timer = "none"]]
  <2> DEFINE new == [st EXCEPT !.symbols = syms, !.published = TRUE, !.timer = "none"]
  <2>1. new.open /\ new.published /\ new.timer = "none"
    BY <1>3 DEF Section
  <2>2. sections'[t] = new /\ \A u \in Times : u # t => sections'[u] = sections[u]
    BY <1>1, <1>7 DEF TypeOK, PublishersOK
  <2> QED
    BY <1>1, <1>2, <1>3, <1>7, <2>1, <2>2
<1> QED
  BY <1>4, <1>6, <1>7 DEF Mark

\* What a goroutine inside publish does, but for its events.
LEMMA PublisherCases ==
  ASSUME TypeOK, PublishShape, NEW p \in Publishers, PublishStep(p)
  PROVE  /\ Active(p) /\ pev[p].t \in Times /\ UNCHANGED opened
         /\ \A q \in Publishers : q # p => ppc'[q] = ppc[q] /\ pev'[q] = pev[q]
         /\ \A w \in Workers : wpc'[w] = "publish" <=> Active(w)'
         /\ Active(p)' => pev'[p].t = pev[p].t /\ UNCHANGED sections
         /\ \A u \in Times : u # pev[p].t => sections'[u] = sections[u]
         /\ LET t == pev[p].t IN
              /\ sections'[t].open /\ sections'[t].published
              /\ sections'[t].timer \in {"none", "retention"}
<1> DEFINE t == pev[p].t
<1>1. t \in Times /\ sections[t] \in Section
  BY DEF TypeOK, PublishersOK, Event
<1>2. Active(p)
  BY DEF PublishStep, PublishCheck, PublishSend, DeriveCheck, DeriveSend, Retain, Active
<1>3. sections[t].open /\ sections[t].published /\ sections[t].timer = "none"
  BY <1>2 DEF PublishShape, Active
<1>4. \A w \in Workers : w \in Publishers
  BY DEF Publishers
<1>5. CASE Retain(p)
  <2>1. Return(p) /\ UNCHANGED opened /\ sections' = [sections EXCEPT ![t].timer = "retention"]
    BY <1>3, <1>5 DEF Retain
  <2>2. sections'[t] = [sections[t] EXCEPT !.timer = "retention"]
        /\ \A u \in Times : u # t => sections'[u] = sections[u]
    BY <1>1, <2>1 DEF TypeOK, PublishersOK
  <2>3. sections'[t].open /\ sections'[t].published /\ sections'[t].timer = "retention"
    BY <1>1, <1>3, <2>2 DEF Section
  <2> QED
    BY <1>1, <1>2, <2>1, <2>2, <2>3, ReturnLeaves
<1>6. CASE Return(p) /\ UNCHANGED <<sections, opened>>
  BY <1>1, <1>2, <1>3, <1>6, ReturnLeaves
<1>7. CASE /\ ppc'[p] # "none" /\ \A q \in Publishers : q # p => ppc'[q] = ppc[q]
           /\ pev'[p].t = t /\ \A q \in Publishers : q # p => pev'[q] = pev[q]
           /\ UNCHANGED <<sections, opened, wpc>>
  <2>1. \A w \in Workers : wpc'[w] = "publish" <=> Active(w)'
    BY <1>2, <1>4, <1>7 DEF PublishShape, Active
  <2> QED
    BY <1>1, <1>2, <1>3, <1>7, <2>1
<1>8. ASSUME NEW x \in {"send", "derive", "sendDerived", "retain"}, ppc' = [ppc EXCEPT ![p] = x],
             UNCHANGED pev \/ \E D : pev' = [pev EXCEPT ![p].todo = D],
             UNCHANGED <<sections, opened, wpc>>
      PROVE  /\ ppc'[p] # "none" /\ \A q \in Publishers : q # p => ppc'[q] = ppc[q]
             /\ pev'[p].t = t /\ \A q \in Publishers : q # p => pev'[q] = pev[q]
             /\ UNCHANGED <<sections, opened, wpc>>
  BY <1>8 DEF TypeOK, PublishersOK, Event
<1>9. CASE PublishCheck(p)
  BY <1>6, <1>7, <1>8, <1>9 DEF PublishCheck, aggVars
<1>10. CASE PublishSend(p)
  BY <1>7, <1>8, <1>10 DEF PublishSend, aggVars, workerVars
<1>11. CASE DeriveCheck(p)
  <2>1. PICK x \in {"retain", "sendDerived"} : ppc' = [ppc EXCEPT ![p] = x]
    BY <1>11 DEF DeriveCheck
  <2> QED
    BY <1>7, <1>8, <1>11, <2>1 DEF DeriveCheck, aggVars, workerVars
<1>12. CASE DeriveSend(p)
  BY <1>7, <1>8, <1>12 DEF DeriveSend, aggVars, workerVars
<1> QED
  BY <1>5, <1>9, <1>10, <1>11, <1>12 DEF PublishStep

LEMMA PublishKept == IInv /\ [Next]_vars => PublishShape'
<1> SUFFICES ASSUME IInv, [Next]_vars PROVE PublishShape'
  OBVIOUS
<1> USE DEF IInv
<1>1. ASSUME UNCHANGED <<sections, ppc, pev>>,
             \A w \in Workers : wpc'[w] = "publish" <=> wpc[w] = "publish"
      PROVE  PublishShape'
  BY <1>1 DEF PublishShape
<1>2. ASSUME NEW c \in Callers, Caller(c) PROVE PublishShape'
  BY <1>1, <1>2 DEF Caller, acceptClosed, SendJob, workerVars, aggVars, pubVars
<1>3. ASSUME NEW c \in Callers, NEW b \in Bars, Arrive(c, b) PROVE PublishShape'
  BY <1>1, <1>3 DEF Arrive, workerVars, aggVars, pubVars
<1>4. ASSUME NEW w \in Workers,
             TakeJob(w) \/ WorkerStop(w) \/ WorkerExit(w) \/ PushWindow(w) \/ MarkHas(w)
      PROVE  PublishShape'
  BY <1>1, <1>4, WorkerAside
<1>5. ASSUME NEW w \in Workers, Mark(w) PROVE PublishShape'
  <2> DEFINE t == wbar[w][2]
  <2>1. t \in Times /\ w \in Publishers /\ wpc[w] = "locked"
    BY <1>5, MarkCases
  <2>2. \A u \in Times : u # t => sections'[u] = sections[u]
    BY <1>5, MarkCases
  <2>3. \A q \in Publishers : pev[q].t \in Times
    BY DEF TypeOK, PublishersOK, Event
  <2>4. CASE JobDone(w) /\ UNCHANGED <<sections, ppc, pev>>
    <3>1. \A v \in Workers : wpc'[v] = "publish" <=> wpc[v] = "publish"
      BY <2>1, <2>4 DEF JobDone, TypeOK, WorkersOK
    <3> QED
      BY <1>1, <2>4, <3>1
  <2>5. CASE /\ sections[t].open => ~sections[t].published
             /\ JobDone(w) /\ UNCHANGED <<ppc, pev>>
    <3>1. \A v \in Workers : wpc'[v] = "publish" <=> wpc[v] = "publish"
      BY <2>1, <2>5 DEF JobDone, TypeOK, WorkersOK
    <3>2. \A q \in Publishers : Active(q) => pev[q].t # t
      BY <2>1, <2>5, NotPublishing
    <3> HIDE DEF t
    <3> QED
      BY <2>2, <2>3, <2>5, <3>1, <3>2 DEF PublishShape, Active
  <2>6. CASE /\ sections[t].open => ~sections[t].published
             /\ sections'[t].open /\ sections'[t].published /\ sections'[t].timer = "none"
             /\ wpc' = [wpc EXCEPT ![w] = "publish"]
             /\ \E S : Publish(w, t, S)
    <3>1. \A q \in Publishers : Active(q) => pev[q].t # t
      BY <2>1, <2>6, NotPublishing
    <3>2. \A v \in Workers : wpc'[v] = "publish" <=> wpc[v] = "publish" \/ v = w
      BY <2>6 DEF TypeOK, WorkersOK
    <3> HIDE DEF t
    <3> QED
      BY <2>1, <2>2, <2>6, <3>1, <3>2, BeginPublish
  <2> QED
    BY <1>5, <2>4, <2>5, <2>6, MarkCases
<1>6. ASSUME NEW p \in Publishers, PublishStep(p) PROVE PublishShape'
  <2>1. \A w \in Workers : wpc'[w] = "publish" <=> Active(w)'
    BY <1>6, PublisherCases
  <2>2. ASSUME NEW q \in Publishers, Active(q)'
        PROVE  /\ Active(q) /\ pev'[q].t = pev[q].t
               /\ LET st == sections'[pev[q].t] IN st.open /\ st.published /\ st.timer = "none"
    <3>1. CASE q = p
      BY <1>6, <2>2, <3>1, PublisherCases DEF PublishShape, Active
    <3>2. CASE q # p
      <4>1. Active(q) /\ pev'[q] = pev[q] /\ Active(p)
        BY <1>6, <2>2, <3>2, PublisherCases DEF Active
      <4>2. pev[q].t # pev[p].t /\ pev[q].t \in Times
        BY <3>2, <4>1 DEF PublishShape, Active, TypeOK, PublishersOK, Event
      <4>3. sections'[pev[q].t] = sections[pev[q].t]
        BY <1>6, <4>2, PublisherCases
      <4> QED
        BY <4>1, <4>3 DEF PublishShape, Active
    <3> QED
      BY <3>1, <3>2
  <2> QED
    BY <2>1, <2>2, FrameKeepsPublish
<1>7. ASSUME NEW t \in Times, onTimeout(t) PROVE PublishShape'
  <2>1. sections[t].timer = "completion" /\ sections[t].open /\ ~sections[t].published
    BY <1>7 DEF onTimeout, TimerShape
  <2>2. \A q \in Publishers : Active(q) => pev[q].t # t
    BY <2>1, NotPublishing
  <2>3. sections'[t] = [sections[t] EXCEPT !.timer = "none", !.published = TRUE]
        /\ \A u \in Times : u # t => sections'[u] = sections[u]
    BY <1>7 DEF onTimeout, TypeOK, PublishersOK
  <2>4. sections'[t].open /\ sections'[t].published /\ sections'[t].timer = "none"
    BY <2>1, <2>3 DEF TypeOK, PublishersOK, Section
  <2>5. <<"timer", t>> \in Publishers /\ \A w \in Workers : w # <<"timer", t>>
    BY TimersApart
  <2>6. Publish(<<"timer", t>>, t, sections[t].symbols) /\ UNCHANGED wpc
    BY <1>7 DEF onTimeout, workerVars
  <2>7. \A w \in Workers : wpc'[w] = "publish" <=> wpc[w] = "publish" \/ w = <<"timer", t>>
    BY <2>5, <2>6
  <2>8. \A u \in Times : u # t => sections'[u] = sections[u]
    BY <2>3
  <2>9. PICK p \in Publishers : p = <<"timer", t>>
    BY <2>5
  <2> QED
    BY <2>2, <2>4, <2>6, <2>7, <2>8, <2>9, BeginPublish
<1>8. ASSUME NEW t \in Times, evict(t) PROVE PublishShape'
  <2>1. \A q \in Publishers : Active(q) => pev[q].t # t
    BY <1>8, NotPublishing DEF evict
  <2>2. \A u \in Times : u # t => sections'[u] = sections[u]
    BY <1>8 DEF evict, TypeOK, PublishersOK
  <2>3. \A q \in Publishers : pev[q].t \in Times
    BY DEF TypeOK, PublishersOK, Event
  <2>4. UNCHANGED <<wpc, ppc, pev>>
    BY <1>8 DEF evict, workerVars, pubVars
  <2>5. ASSUME NEW q \in Publishers, Active(q)
        PROVE  LET st == sections'[pev[q].t] IN st.open /\ st.published /\ st.timer = "none"
    <3>1. sections'[pev[q].t] = sections[pev[q].t]
      BY <2>1, <2>2, <2>3, <2>5
    <3> QED
      BY <2>5, <3>1 DEF PublishShape, Active
  <2>6. \A w \in Workers : wpc'[w] = "publish" <=> Active(w)'
    BY <2>4 DEF PublishShape, Active
  <2> QED
    BY <2>4, <2>5, <2>6, FrameKeepsPublish DEF Active
<1>9. CASE Refresh \/ CancelContext \/ CloseStore \/ CloseSignal
  BY <1>1, <1>9 DEF Refresh, CancelContext, CloseStore, CloseSignal, workerVars, aggVars, pubVars
<1>10. CASE CloseReturn
  <2>1. \A u \in Times : sections'[u] = [sections[u] EXCEPT !.timer = "none"]
    BY <1>10 DEF CloseReturn, StopTimers
  <2>2. \A u \in Times : /\ sections'[u].open = sections[u].open
                         /\ sections'[u].published = sections[u].published
                         /\ sections'[u].timer = "none"
    <3>1. \A u \in Times : sections[u] \in Section
      BY DEF TypeOK, PublishersOK
    <3> QED
      BY <2>1, <3>1 DEF Section
  <2>3. \A q \in Publishers : pev[q].t \in Times
    BY DEF TypeOK, PublishersOK, Event
  <2>4. UNCHANGED <<wpc, ppc, pev>>
    BY <1>10 DEF CloseReturn, workerVars, pubVars
  <2> QED
    BY <2>2, <2>3, <2>4 DEF PublishShape
<1>11. CASE UNCHANGED vars
  BY <1>1, <1>11 DEF vars, workerVars, aggVars, pubVars
<1> QED
  BY <1>2, <1>3, <1>4, <1>5, <1>6, <1>7, <1>8, <1>9, <1>10, <1>11 DEF Next, WorkerStep

LEMMA TimerKept == IInv /\ [Next]_vars => TimerShape'
<1> SUFFICES ASSUME IInv, [Next]_vars PROVE TimerShape'
  OBVIOUS
<1> USE DEF IInv
<1>1. ASSUME UNCHANGED sections PROVE TimerShape'
  BY <1>1 DEF TimerShape
<1>2. ASSUME NEW t \in Times, \A u \in Times : u # t => sections'[u] = sections[u],
             /\ sections'[t].timer = "completion" => sections'[t].open /\ ~sections'[t].published
             /\ sections'[t].timer = "retention"  => sections'[t].open /\ sections'[t].published
      PROVE  TimerShape'
  BY <1>2 DEF TimerShape
<1>3. ASSUME NEW c \in Callers, Caller(c) PROVE TimerShape'
  BY <1>1, <1>3 DEF Caller, acceptClosed, SendJob, aggVars
<1>4. ASSUME NEW c \in Callers, NEW b \in Bars, Arrive(c, b) PROVE TimerShape'
  BY <1>1, <1>4 DEF Arrive, aggVars
<1>5. ASSUME NEW w \in Workers,
             TakeJob(w) \/ WorkerStop(w) \/ WorkerExit(w) \/ PushWindow(w) \/ MarkHas(w)
      PROVE  TimerShape'
  BY <1>1, <1>5, WorkerAside
<1>6. ASSUME NEW w \in Workers, Mark(w) PROVE TimerShape'
  <2> DEFINE t == wbar[w][2]
  <2>1. t \in Times /\ \A u \in Times : u # t => sections'[u] = sections[u]
    BY <1>6, MarkCases
  <2>2. \/ UNCHANGED sections
        \/ sections'[t].open /\ ~sections'[t].published /\ sections'[t].timer # "retention"
        \/ sections'[t].timer = "none"
    BY <1>6, MarkCases
  <2> HIDE DEF t
  <2> QED
    BY <1>1, <1>2, <2>1, <2>2
<1>7. ASSUME NEW p \in Publishers, PublishStep(p) PROVE TimerShape'
  BY <1>2, <1>7, PublisherCases
<1>8. ASSUME NEW t \in Times, onTimeout(t) \/ evict(t) PROVE TimerShape'
  <2>1. \A u \in Times : u # t => sections'[u] = sections[u]
    BY <1>8 DEF onTimeout, evict, TypeOK, PublishersOK
  <2>2. sections'[t].timer = "none"
    <3>1. sections[t] \in Section
      BY DEF TypeOK, PublishersOK
    <3> QED
      BY <1>8, <3>1 DEF onTimeout, evict, NoSection, TypeOK, PublishersOK, Section
  <2> QED
    BY <1>2, <2>1, <2>2
<1>9. CASE Refresh \/ CancelContext \/ CloseStore \/ CloseSignal
  BY <1>1, <1>9 DEF Refresh, CancelContext, CloseStore, CloseSignal, aggVars
<1>10. CASE CloseReturn
  <2>1. \A u \in Times : sections'[u].timer = "none"
    <3>1. \A u \in Times : sections[u] \in Section
      BY DEF TypeOK, PublishersOK
    <3> QED
      BY <1>10, <3>1 DEF CloseReturn, StopTimers, Section
  <2> QED
    BY <2>1 DEF TimerShape
<1>11. CASE UNCHANGED vars
  BY <1>1, <1>11 DEF vars, aggVars
<1> QED
  BY <1>3, <1>4, <1>5, <1>6, <1>7, <1>8, <1>9, <1>10, <1>11 DEF Next, WorkerStep

-----------------------------------------------------------------------------
(* Events. *)

LEMMA CountKept == IInv /\ TypeOK' /\ [Next]_vars => CountShape'
<1> SUFFICES ASSUME IInv, TypeOK', [Next]_vars PROVE CountShape'
  OBVIOUS
<1> USE DEF IInv
<1>1. \A t \in Times : /\ ready[<<1, t>>] \in Int /\ opened[t] \in Int
                       /\ ready[<<1, t>>] <= opened[t]
                       /\ Unsent(t) => ready[<<1, t>>] < opened[t]
  <2>1. \A t \in Times : <<1, t>> \in Buckets
    BY BucketsApart
  <2>2. ready \in [Buckets -> Nat] /\ opened \in [Times -> Nat]
    BY DEF TypeOK, PublishersOK
  <2>3. (\A b \in Buckets : ready[b] \in Int) /\ \A t \in Times : opened[t] \in Int
    BY <2>2
  <2> QED
    BY <2>1, <2>3 DEF CountShape
<1>2. (\A t \in Times : /\ ready[<<1, t>>] <= opened[t]
                        /\ Unsent(t) => ready[<<1, t>>] < opened[t])' => CountShape'
  BY DEF CountShape
<1>3. ASSUME UNCHANGED <<sections, opened, ppc, pev, ready>> PROVE CountShape'
  BY <1>3 DEF CountShape, Unsent
<1>4. ASSUME UNCHANGED <<ready, opened>>, \A t \in Times : Unsent(t)' => Unsent(t) PROVE CountShape'
  BY <1>1, <1>4 DEF CountShape
<1>5. ASSUME NEW c \in Callers, Caller(c) PROVE CountShape'
  BY <1>3, <1>5 DEF Caller, acceptClosed, SendJob, aggVars, pubVars
<1>6. ASSUME NEW c \in Callers, NEW b \in Bars, Arrive(c, b) PROVE CountShape'
  BY <1>3, <1>6 DEF Arrive, aggVars, pubVars
<1>7. ASSUME NEW w \in Workers,
             TakeJob(w) \/ WorkerStop(w) \/ WorkerExit(w) \/ PushWindow(w) \/ MarkHas(w)
      PROVE  CountShape'
  BY <1>3, <1>7, WorkerAside
<1>8. ASSUME NEW w \in Workers, Mark(w) PROVE CountShape'
  <2> DEFINE t == wbar[w][2]
  <2>1. /\ t \in Times /\ UNCHANGED ready
        /\ \A u \in Times : u # t => opened'[u] = opened[u] /\ sections'[u] = sections[u]
        /\ opened'[t] = IF sections[t].open THEN opened[t] ELSE opened[t] + 1
    BY <1>8, MarkCases
  <2>2. CASE UNCHANGED <<sections, opened, ppc, pev>>
    BY <1>3, <2>1, <2>2
  <2>3. CASE /\ sections[t].open => ~sections[t].published
             /\ UNCHANGED <<ppc, pev>> \/ \E S : Publish(w, t, S)
    <3>1. ready[<<1, t>>] < opened'[t]
      BY <1>1, <2>1, <2>3 DEF Unsent
    <3>2. ASSUME NEW u \in Times, u # t, Unsent(u)' PROVE Unsent(u)
      <4>1. CASE (sections[u].open /\ ~sections[u].published)'
        BY <2>1, <3>2, <4>1 DEF Unsent
      <4>2. ASSUME NEW p \in Publishers, (ppc[p] \in {"check", "send"} /\ pev[p].t = u)'
            PROVE  Unsent(u)
        <5>1. CASE UNCHANGED <<ppc, pev>>
          BY <4>2, <5>1 DEF Unsent
        <5>2. CASE \E S : Publish(w, t, S)
          <6>1. w \in Publishers
            BY DEF Publishers
          <6>2. p # w
            BY <3>2, <4>2, <5>2, <6>1 DEF Publish, TypeOK, PublishersOK
          <6>3. ppc'[p] = ppc[p] /\ pev'[p] = pev[p]
            BY <5>2, <6>2 DEF Publish, TypeOK, PublishersOK
          <6> QED
            BY <4>2, <6>3 DEF Unsent
        <5> QED
          BY <2>3, <5>1, <5>2
      <4> QED
        BY <3>2, <4>1, <4>2 DEF Unsent
    <3> HIDE DEF t
    <3>3. ASSUME NEW u \in Times
          PROVE  ready'[<<1, u>>] <= opened'[u] /\ (Unsent(u)' => ready'[<<1, u>>] < opened'[u])
      <4>1. CASE u = t
        <5>1. ready[<<1, t>>] \in Int /\ opened'[t] \in Int
          BY <1>1, <2>1
        <5> QED
          BY <2>1, <3>1, <4>1, <5>1
      <4>2. CASE u # t
        BY <1>1, <2>1, <3>2, <4>2
      <4> QED
        BY <4>1, <4>2
    <3> QED
      BY <1>2, <3>3
  <2> QED
    BY <1>8, <2>2, <2>3, MarkCases
<1>9. ASSUME NEW p \in Publishers, PublishStep(p) PROVE CountShape'
  <2>0. PICK t \in Times : t = pev[p].t
    BY DEF TypeOK, PublishersOK, Event
  <2>1. /\ t \in Times /\ Active(p) /\ UNCHANGED opened
        /\ \A q \in Publishers : q # p => ppc'[q] = ppc[q] /\ pev'[q] = pev[q]
        /\ Active(p)' => pev'[p].t = t
        /\ \A u \in Times : u # t => sections'[u] = sections[u]
        /\ sections'[t].open /\ sections'[t].published
    BY <1>9, <2>0, PublisherCases
  <2>2. ppc'[p] \in {"check", "send"} => ppc[p] \in {"check", "send"} /\ UNCHANGED ready
    BY <1>9 DEF PublishStep, PublishCheck, PublishSend, DeriveCheck, DeriveSend, Retain, Return,
                TypeOK, PublishersOK
  <2>3. ASSUME NEW u \in Times, Unsent(u)' PROVE Unsent(u)
    <3>1. CASE (sections[u].open /\ ~sections[u].published)'
      BY <2>1, <3>1 DEF Unsent
    <3>2. ASSUME NEW q \in Publishers, (ppc[q] \in {"check", "send"} /\ pev[q].t = u)' PROVE Unsent(u)
      <4>1. CASE q = p
        BY <2>0, <2>1, <2>2, <3>2, <4>1 DEF Unsent, Active
      <4>2. CASE q # p
        BY <2>1, <3>2, <4>2 DEF Unsent
      <4> QED
        BY <4>1, <4>2
    <3> QED
      BY <2>3, <3>1, <3>2 DEF Unsent
  <2>4. CASE UNCHANGED ready
    BY <1>4, <2>1, <2>3, <2>4
  <2>5. CASE PublishSend(p) /\ Announce(p, <<1, t>>)
    <3>1. ready'[<<1, t>>] = ready[<<1, t>>] + 1
          /\ \A u \in Times : u # t => ready'[<<1, u>>] = ready[<<1, u>>]
      BY <2>1, <2>5, BucketsApart, AnnounceMoves DEF TypeOK
    <3>2. Unsent(t) /\ ready[<<1, t>>] + 1 <= opened[t]
      <4>1. Unsent(t)
        BY <2>0, <2>5 DEF PublishSend, Unsent
      <4> QED
        BY <1>1, <2>1, <4>1
    <3>3. ~Unsent(t)'
      <4>1. ready'[<<1, t>>] # ready[<<1, t>>]
        BY <1>1, <2>1, <3>1
      <4>2. ~(ppc'[p] \in {"check", "send"})
        BY <2>2, <4>1
      <4>3. ASSUME NEW q \in Publishers, q # p, Active(q)' PROVE pev'[q].t # t
        BY <2>0, <2>1, <4>3 DEF PublishShape, Active
      <4>4. \A q \in Publishers : ppc'[q] \in {"check", "send"} => pev'[q].t # t
        BY <4>2, <4>3 DEF Active
      <4>5. sections'[t].published
        BY <2>1
      <4> QED
        BY <4>4, <4>5 DEF Unsent
    <3>4. ASSUME NEW u \in Times
          PROVE  ready'[<<1, u>>] <= opened'[u] /\ (Unsent(u)' => ready'[<<1, u>>] < opened'[u])
      <4>1. CASE u = t
        <5>1. ready'[<<1, t>>] <= opened'[t]
          BY <2>1, <3>1, <3>2
        <5> QED
          BY <3>3, <4>1, <5>1
      <4>2. CASE u # t
        <5>1. ready'[<<1, u>>] = ready[<<1, u>>] /\ opened'[u] = opened[u]
          BY <2>1, <3>1, <4>2
        <5>2. ready[<<1, u>>] <= opened[u] /\ (Unsent(u)' => ready[<<1, u>>] < opened[u])
          BY <1>1, <2>3
        <5> QED
          BY <5>1, <5>2
      <4> QED
        BY <4>1, <4>2
    <3> QED
      BY <1>2, <3>4
  <2>6. CASE \E d \in Derived : Announce(p, bucket(d, t))
    <3>1. PICK d \in Derived : Announce(p, bucket(d, t))
      BY <2>6
    <3>2. \A u \in Times : ready'[<<1, u>>] = ready[<<1, u>>]
      BY <2>1, <3>1, BucketsApart, AnnounceMoves DEF TypeOK
    <3>3. \A u \in Times : /\ ready'[<<1, u>>] <= opened'[u]
                           /\ Unsent(u)' => ready'[<<1, u>>] < opened'[u]
      BY <1>1, <2>1, <2>3, <3>2
    <3> QED
      BY <1>2, <3>3
  <2>7. \A d \in pev[p].todo : d \in Derived
    BY DEF TypeOK, PublishersOK, Event
  <2> QED
    BY <1>9, <2>0, <2>4, <2>5, <2>6, <2>7
      DEF bucket, PublishStep, PublishCheck, PublishSend, DeriveCheck, DeriveSend, Retain
<1>10. ASSUME NEW t \in Times, onTimeout(t) PROVE CountShape'
  <2>1. sections[t].open /\ ~sections[t].published
    BY <1>10 DEF onTimeout, TimerShape
  <2>2. \A u \in Times : u # t => sections'[u] = sections[u]
    BY <1>10 DEF onTimeout, TypeOK, PublishersOK
  <2>3. UNCHANGED <<ready, opened>>
    BY <1>10 DEF onTimeout
  <2>4. ASSUME NEW u \in Times, Unsent(u)' PROVE Unsent(u)
    <3>1. CASE u = t
      BY <2>1, <3>1 DEF Unsent
    <3>2. CASE u # t /\ (sections[u].open /\ ~sections[u].published)'
      BY <2>2, <3>2 DEF Unsent
    <3>3. ASSUME u # t, NEW q \in Publishers, (ppc[q] \in {"check", "send"} /\ pev[q].t = u)'
          PROVE  Unsent(u)
      <4>1. <<"timer", t>> \in Publishers
        BY TimersApart
      <4>2. q # <<"timer", t>>
        BY <1>10, <3>3, <4>1 DEF onTimeout, Publish, TypeOK, PublishersOK
      <4>3. ppc'[q] = ppc[q] /\ pev'[q] = pev[q]
        BY <1>10, <4>1, <4>2 DEF onTimeout, Publish, TypeOK, PublishersOK
      <4> QED
        BY <3>3, <4>3 DEF Unsent
    <3> QED
      BY <2>4, <3>1, <3>2, <3>3 DEF Unsent
  <2> QED
    BY <1>4, <2>3, <2>4
<1>11. ASSUME NEW t \in Times, evict(t) PROVE CountShape'
  <2>1. ~sections'[t].open /\ \A u \in Times : u # t => sections'[u] = sections[u]
    BY <1>11 DEF evict, NoSection, TypeOK, PublishersOK
  <2>2. UNCHANGED <<ready, opened, ppc, pev>>
    BY <1>11 DEF evict, pubVars
  <2> QED
    BY <1>4, <2>1, <2>2 DEF Unsent
<1>12. CASE Refresh \/ CancelContext \/ CloseStore \/ CloseSignal
  BY <1>3, <1>12 DEF Refresh, CancelContext, CloseStore, CloseSignal, aggVars, pubVars
<1>13. CASE CloseReturn
  <2>1. \A u \in Times : sections[u] \in Section
    BY DEF TypeOK, PublishersOK
  <2>2. \A u \in Times : sections'[u].open = sections[u].open
                         /\ sections'[u].published = sections[u].published
    BY <1>13, <2>1 DEF CloseReturn, StopTimers, Section
  <2>3. UNCHANGED <<ready, opened, ppc, pev>>
    BY <1>13 DEF CloseReturn, pubVars
  <2> QED
    BY <1>4, <2>2, <2>3 DEF Unsent
<1>14. CASE UNCHANGED vars
  BY <1>3, <1>14 DEF vars, aggVars, pubVars
<1> QED
  BY <1>5, <1>6, <1>7, <1>8, <1>9, <1>10, <1>11, <1>12, <1>13, <1>14 DEF Next, WorkerStep

\* p is between its base event and the last of the derived ones.
Cascading(p) == ppc[p] \in {"derive", "sendDerived"}

LEMMA CascadeKept == IInv /\ [Next]_vars => CascadeShape'
<1> SUFFICES ASSUME IInv, [Next]_vars PROVE CascadeShape'
  OBVIOUS
<1> USE DEF IInv
<1>1. ASSUME UNCHANGED ready,
             \A p \in Publishers : Cascading(p)' => Cascading(p) /\ pev'[p] = pev[p]
      PROVE  CascadeShape'
  BY <1>1 DEF CascadeShape, Cascading, DerivedFollowsBase
<1>2. (\A b \in Buckets : ready[b] \in Int) /\ \A t \in Times : <<1, t>> \in Buckets
  BY BucketsApart DEF TypeOK, PublishersOK
<1>3. \A p \in Publishers : pev[p].t \in Times /\ pev[p].todo \subseteq Derived
  BY DEF TypeOK, PublishersOK, Event
<1>4. ASSUME NEW c \in Callers, Caller(c) PROVE CascadeShape'
  BY <1>1, <1>4 DEF Caller, acceptClosed, SendJob, pubVars, Cascading
<1>5. ASSUME NEW c \in Callers, NEW b \in Bars, Arrive(c, b) PROVE CascadeShape'
  BY <1>1, <1>5 DEF Arrive, pubVars, Cascading
<1>6. ASSUME NEW w \in Workers,
             TakeJob(w) \/ WorkerStop(w) \/ WorkerExit(w) \/ PushWindow(w) \/ MarkHas(w)
      PROVE  CascadeShape'
  BY <1>1, <1>6, WorkerAside DEF Cascading
<1>7. ASSUME NEW q \in Publishers, NEW t, NEW S, Publish(q, t, S), UNCHANGED ready PROVE CascadeShape'
  BY <1>1, <1>7 DEF Publish, Cascading, TypeOK, PublishersOK
<1>8. ASSUME NEW w \in Workers, Mark(w) PROVE CascadeShape'
  <2>1. w \in Publishers /\ UNCHANGED ready
    BY <1>8, MarkCases
  <2>2. UNCHANGED <<ppc, pev>> \/ \E S : Publish(w, wbar[w][2], S)
    BY <1>8, MarkCases
  <2> QED
    BY <1>1, <1>7, <2>1, <2>2 DEF Cascading
<1>9. ASSUME NEW p \in Publishers, PublishStep(p) PROVE CascadeShape'
  <2>1. PICK t \in Times : t = pev[p].t
    BY <1>3
  <2>2. \A q \in Publishers : q # p => ppc'[q] = ppc[q] /\ pev'[q] = pev[q]
    BY <1>9, PublisherCases
  <2>3. ASSUME NEW q \in Publishers, q # p, Cascading(q)
        PROVE  pev[q].t \in Times /\ pev[q].t # t
    BY <1>3, <1>9, <2>1, <2>3, PublisherCases DEF Cascading, PublishShape, Active
  <2>4. CASE UNCHANGED ready /\ (Cascading(p)' => Cascading(p) /\ pev'[p] = pev[p])
    BY <1>1, <2>2, <2>4 DEF Cascading
  <2>5. CASE PublishSend(p) /\ Announce(p, <<1, t>>)
    <3>1. /\ ready'[<<1, t>>] = ready[<<1, t>>] + 1
          /\ \A u \in Times : u # t => ready'[<<1, u>>] = ready[<<1, u>>]
          /\ \A d \in Derived, u \in Times : bucket(d, u) \in Buckets
                                           /\ ready'[bucket(d, u)] = ready[bucket(d, u)]
      BY <1>2, <2>5, BucketsApart, AnnounceMoves DEF TypeOK
    <3>2. pev'[p].t = t /\ pev'[p].todo \subseteq ClosedBy(t)
      <4>1. ready'[<<1, t>>] # ready[<<1, t>>]
        BY <1>2, <3>1
      <4>2. pev' = [pev EXCEPT ![p].todo = ClosedBy(t)]
        BY <2>1, <2>5, <4>1 DEF PublishSend
      <4> QED
        BY <2>1, <4>2 DEF TypeOK, PublishersOK, Event
    <3>3. ASSUME NEW d \in Derived, NEW u \in Times, (u + 1) % d = 0
          PROVE  ready[bucket(d, u)] <= ready[<<1, u>>]
      BY <3>3 DEF CascadeShape, DerivedFollowsBase, bucket
    <3>4. ASSUME NEW d \in Derived, NEW u \in Times, (u + 1) % d = 0
          PROVE  /\ ready'[bucket(d, u)] <= ready'[<<1, u>>]
                 /\ u = t => ready'[bucket(d, u)] < ready'[<<1, u>>]
      BY <1>2, <3>1, <3>3, <3>4
    <3>5. DerivedFollowsBase'
      BY <3>4 DEF DerivedFollowsBase, bucket
    <3>6. ASSUME NEW q \in Publishers, Cascading(q)', NEW d \in pev'[q].todo
          PROVE  /\ (pev'[q].t + 1) % d = 0
                 /\ ready'[bucket(d, pev'[q].t)] < ready'[<<1, pev'[q].t>>]
      <4>1. CASE q = p
        <5>1. d \in Derived /\ (t + 1) % d = 0
          BY <3>2, <3>6, <4>1 DEF ClosedBy
        <5> QED
          BY <3>2, <3>4, <4>1, <5>1
      <4>2. CASE q # p
        <5>1. Cascading(q) /\ pev'[q] = pev[q]
          BY <2>2, <3>6, <4>2 DEF Cascading
        <5>2. d \in Derived /\ pev[q].t \in Times /\ pev[q].t # t
          BY <1>3, <2>3, <3>6, <4>2, <5>1
        <5>3. (pev[q].t + 1) % d = 0 /\ ready[bucket(d, pev[q].t)] < ready[<<1, pev[q].t>>]
          BY <3>6, <5>1 DEF CascadeShape, Cascading
        <5> QED
          BY <3>1, <5>1, <5>2, <5>3
      <4> QED
        BY <4>1, <4>2
    <3> QED
      BY <3>5, <3>6 DEF CascadeShape, Cascading
  <2>6. CASE DeriveSend(p)
    <3>1. PICK d \in pev[p].todo : /\ Announce(p, bucket(d, t)) \/ UNCHANGED <<ready, strays>>
                                   /\ pev' = [pev EXCEPT ![p].todo = @ \ {d}]
      BY <2>1, <2>6 DEF DeriveSend, bucket
    <3>2. d \in Derived /\ (t + 1) % d = 0 /\ ready[bucket(d, t)] < ready[<<1, t>>]
      BY <1>3, <2>1, <2>6, <3>1 DEF DeriveSend, CascadeShape
    <3>3. /\ ready'[bucket(d, t)] <= ready[bucket(d, t)] + 1
          /\ \A b \in Buckets : b # bucket(d, t) => ready'[b] = ready[b]
      BY <1>2, <3>1, <3>2, BucketsApart, AnnounceMoves DEF TypeOK
    <3>4. /\ \A u \in Times : ready'[<<1, u>>] = ready[<<1, u>>]
          /\ \A e \in Derived, u \in Times : e # d \/ u # t => ready'[bucket(e, u)] = ready[bucket(e, u)]
          /\ \A e \in Derived, u \in Times : ready[bucket(e, u)] \in Int
      BY <1>2, <3>2, <3>3, BucketsApart
    <3>5. ASSUME NEW e \in Derived, NEW u \in Times, (u + 1) % e = 0
          PROVE  ready'[bucket(e, u)] <= ready'[<<1, u>>]
      <4>1. ready[bucket(e, u)] <= ready[<<1, u>>]
        BY <3>5 DEF CascadeShape, DerivedFollowsBase, bucket
      <4>2. CASE e = d /\ u = t
        <5>1. ready[bucket(d, t)] \in Int /\ ready[<<1, t>>] \in Int /\ ready'[bucket(d, t)] \in Int
          <6>1. ready'[bucket(d, t)] \in Int
            BY <3>1, <3>2, <3>4, BucketsApart, AnnounceMoves DEF TypeOK
          <6> QED
            BY <1>2, <3>2, <3>4, <6>1
        <5> QED
          BY <3>2, <3>3, <3>4, <4>2, <5>1
      <4>3. CASE ~(e = d /\ u = t)
        BY <3>4, <4>1, <4>3
      <4> QED
        BY <4>2, <4>3
    <3>6. DerivedFollowsBase'
      BY <3>5 DEF DerivedFollowsBase, bucket
    <3>7. ASSUME NEW q \in Publishers, Cascading(q)', NEW e \in pev'[q].todo
          PROVE  /\ (pev'[q].t + 1) % e = 0
                 /\ ready'[bucket(e, pev'[q].t)] < ready'[<<1, pev'[q].t>>]
      <4>1. CASE q = p
        <5>1. pev'[p].t = t /\ pev'[p].todo = pev[p].todo \ {d}
          BY <2>1, <3>1 DEF TypeOK, PublishersOK, Event
        <5>2. e \in pev[p].todo /\ e # d /\ e \in Derived
          BY <1>3, <3>7, <4>1, <5>1
        <5>3. (t + 1) % e = 0 /\ ready[bucket(e, t)] < ready[<<1, t>>]
          BY <2>1, <2>6, <5>2 DEF DeriveSend, CascadeShape
        <5> QED
          BY <3>4, <4>1, <5>1, <5>2, <5>3
      <4>2. CASE q # p
        <5>1. Cascading(q) /\ pev'[q] = pev[q]
          BY <2>2, <3>7, <4>2 DEF Cascading
        <5>2. e \in Derived /\ pev[q].t \in Times /\ pev[q].t # t
          BY <1>3, <2>3, <3>7, <4>2, <5>1
        <5>3. (pev[q].t + 1) % e = 0 /\ ready[bucket(e, pev[q].t)] < ready[<<1, pev[q].t>>]
          BY <3>7, <5>1 DEF CascadeShape, Cascading
        <5> QED
          BY <3>4, <5>1, <5>2, <5>3
      <4> QED
        BY <4>1, <4>2
    <3> QED
      BY <3>6, <3>7 DEF CascadeShape, Cascading
  <2>7. CASE PublishCheck(p) \/ Retain(p)
    <3>1. UNCHANGED ready /\ ppc'[p] \in {"send", "none"}
      BY <2>7 DEF PublishCheck, Retain, Return, TypeOK, PublishersOK
    <3> QED
      BY <2>4, <3>1 DEF Cascading
  <2>8. CASE DeriveCheck(p)
    <3>1. UNCHANGED <<ready, pev>> /\ ppc[p] = "derive"
      BY <2>8 DEF DeriveCheck
    <3> QED
      BY <2>4, <3>1 DEF Cascading
  <2>9. CASE PublishSend(p) /\ UNCHANGED ready /\ ppc'[p] = "retain"
    BY <2>4, <2>9 DEF Cascading
  <2>10. ppc' = [ppc EXCEPT ![p] = "retain"] => ppc'[p] = "retain"
    BY DEF TypeOK, PublishersOK
  <2>11. PublishSend(p) => \/ Announce(p, <<1, t>>)
                           \/ ppc' = [ppc EXCEPT ![p] = "retain"] /\ UNCHANGED ready
    BY <2>1 DEF PublishSend, Announce
  <2> QED
    BY <1>9, <2>5, <2>6, <2>7, <2>8, <2>9, <2>10, <2>11 DEF PublishStep
<1>10. ASSUME NEW t \in Times, onTimeout(t) PROVE CascadeShape'
  BY <1>7, <1>10, TimersApart DEF onTimeout
<1>11. ASSUME NEW t \in Times, evict(t) PROVE CascadeShape'
  BY <1>1, <1>11 DEF evict, pubVars, Cascading
<1>12. CASE Refresh \/ CancelContext \/ CloseStore \/ CloseSignal \/ CloseReturn
  BY <1>1, <1>12 DEF Refresh, CancelContext, CloseStore, CloseSignal, CloseReturn, pubVars, Cascading
<1>13. CASE UNCHANGED vars
  BY <1>1, <1>13 DEF vars, pubVars, Cascading
<1> QED
  BY <1>4, <1>5, <1>6, <1>8, <1>9, <1>10, <1>11, <1>12, <1>13 DEF Next, WorkerStep

-----------------------------------------------------------------------------
(* The theorems. *)

LEMMA Initially == Init => IInv
<1> SUFFICES ASSUME Init PROVE IInv
  OBVIOUS
<1>1. <<>> \in Seq(Bars) /\ Len(<<>>) = 0 /\ 1..Len(<<>>) = {}
  BY EmptySeq
<1>2. TypeOK
  <2>1. universe \in SUBSET Symbols
    BY Constants DEF Init
  <2>2. CallersOK
    BY <1>1, NoBarIsBar, Constants DEF Init, CallersOK
  <2> QED
    BY <2>1, <2>2, NoBarIsBar, NoEventIsEvent DEF Init, TypeOK, WorkersOK, PublishersOK, FlagsOK
<1>3. BarsApart
  BY <1>1 DEF Init, BarsApart, AllGuarded, QueueApart, HandApart, SendApart
<1>4. PublishShape
  BY TimersApart DEF Init, PublishShape, Publishers
<1>5. TimerShape
  BY DEF Init, TimerShape, NoSection
<1>6. CountShape
  <2>1. \A t \in Times : ready[<<1, t>>] = 0 /\ opened[t] = 0 /\ ~sections[t].open
    BY BucketsApart DEF Init, NoSection
  <2>2. \A p \in Publishers : ppc[p] = "none"
    BY DEF Init
  <2> QED
    <3>1. \A t \in Times : ~Unsent(t)
      BY <2>1, <2>2 DEF Unsent
    <3>2. ASSUME NEW t \in Times PROVE ready[<<1, t>>] <= opened[t]
      <4>1. ready[<<1, t>>] = 0 /\ opened[t] = 0
        BY <2>1
      <4> QED
        BY <4>1
    <3> QED
      BY <3>1, <3>2 DEF CountShape
<1>7. CascadeShape
  <2>1. \A d \in Derived, t \in Times : ready[<<d, t - d + 1>>] = 0 /\ ready[<<1, t>>] = 0
    BY BucketsApart DEF Init, bucket
  <2>2. DerivedFollowsBase
    BY <2>1 DEF DerivedFollowsBase
  <2> QED
    BY <2>2 DEF Init, CascadeShape
<1> QED
  BY <1>2, <1>3, <1>4, <1>5, <1>6, <1>7 DEF IInv

LEMMA Step == IInv /\ [Next]_vars => IInv'
<1> SUFFICES ASSUME IInv, [Next]_vars PROVE IInv'
  OBVIOUS
<1>1. TypeOK'
  BY CallersStep, WorkersStep, PublishersStep, FlagsStep DEF IInv, TypeOK
<1> QED
  BY <1>1, BarsStep, PublishKept, TimerKept, CountKept, CascadeKept DEF IInv

LEMMA Invariance == Spec => []IInv
<1> QED
  BY Initially, Step, PTL DEF Spec

(* No closed bar is handled twice, however often it is replayed and        *)
(* however the callbacks interleave (acceptClosed): it is in one place of  *)
(* the queue, a worker's hand and the bars that were pushed.               *)
THEOREM HandledOnce == Spec => []NoBarHandledTwice
<1>1. IInv => NoBarHandledTwice
  <2> SUFFICES ASSUME IInv PROVE NoBarHandledTwice
    OBVIOUS
  <2>1. QueueApart /\ HandApart
    BY DEF IInv, BarsApart
  <2>2. Queued \cap (InHand \cup pushed) = {}
    BY <2>1 DEF QueueApart, Queued, InHand
  <2>3. InHand \cap pushed = {}
    BY <2>1 DEF HandApart, InHand
  <2> QED
    BY <2>1, <2>2, <2>3 DEF NoBarHandledTwice, QueueApart, HandApart
<1> QED
  BY <1>1, Invariance, PTL

(* Completion and the fallback timer never both announce a section         *)
(* (aggregator.mark, onTimeout).                                           *)
THEOREM AnnouncedOnce == Spec => []OneReadyPerSection
<1>1. IInv => OneReadyPerSection
  BY DEF IInv, CountShape, OneReadyPerSection
<1> QED
  BY <1>1, Invariance, PTL

(* A coarser bucket is announced at most once for each announcement of its *)
(* last base bar, and after it (publishDerived).                           *)
THEOREM CascadeFollows == Spec => []DerivedFollowsBase
<1>1. IInv => DerivedFollowsBase
  BY DEF IInv, CascadeShape
<1> QED
  BY <1>1, Invariance, PTL

-----------------------------------------------------------------------------
(* Complete sections.                                                      *)

\* A bar counted for a section that is not published, or past Has, is of a
\* symbol of the universe or of one delisted since.
Accounted ==
  /\ \A t \in Times : ~sections[t].published =>
       \A s \in sections[t].symbols : s \in universe \/ <<s, t>> \in left
  /\ \A w \in Workers : wpc[w] = "locked" => wbar[w][1] \in universe \/ wbar[w] \in left

\* The symbols delisted while their bar at t was counted.
Replacements(t) == {s \in Symbols : <<s, t>> \in left}

LEMMA ReplacementsFinite ==
  ASSUME NEW S \in SUBSET Symbols
  PROVE  IsFiniteSet(S) /\ Cardinality(S) \in Nat
<1>1. IsFiniteSet(Symbols)
  BY DispatcherAssumption DEF DispatcherAssumption
<1>2. IsFiniteSet(S)
  BY <1>1, FS_Subset
<1> QED
  BY <1>2, FS_CardinalityType

\* A set at least as large as U lacks no more of U than it has besides.
LEMMA LackOfLarger ==
  ASSUME NEW U \in SUBSET Symbols, NEW S \in SUBSET Symbols,
         Cardinality(S) >= Cardinality(U)
  PROVE  Cardinality(U \ S) <= Cardinality(S \ U)
<1>1. IsFiniteSet(U) /\ Cardinality(U) \in Nat /\ IsFiniteSet(S) /\ Cardinality(S) \in Nat
  BY ReplacementsFinite
<1>2. Cardinality(U \ S) = Cardinality(U) - Cardinality(U \cap S)
  BY <1>1, FS_Difference
<1>3. Cardinality(S \ U) = Cardinality(S) - Cardinality(S \cap U)
  BY <1>1, FS_Difference
<1>4. U \cap S \in SUBSET Symbols /\ S \cap U = U \cap S
  OBVIOUS
<1>5. Cardinality(U \cap S) \in Nat
  BY <1>4, ReplacementsFinite
<1>6. Cardinality(U) - Cardinality(U \cap S) <= Cardinality(S) - Cardinality(U \cap S)
  BY <1>1, <1>5
<1>7. Cardinality(S \cap U) = Cardinality(U \cap S)
  BY <1>4
<1> QED
  BY <1>2, <1>3, <1>6, <1>7

\* A step that moves no bar into a section and no worker past Has.
LEMMA FrameKeepsAccounted ==
  ASSUME Accounted, UNCHANGED <<universe, left>>,
         \A t \in Times : \/ sections'[t].published
                          \/ sections'[t].symbols = {}
                          \/ /\ ~sections[t].published
                             /\ sections'[t].symbols = sections[t].symbols,
         \A w \in Workers : wpc'[w] = "locked" => wpc[w] = "locked" /\ wbar'[w] = wbar[w]
  PROVE  Accounted'
BY DEF Accounted

\* A worker that is done with its bar leaves the others where they are.
LEMMA JobDoneUnlocks ==
  ASSUME TypeOK, NEW w \in Workers, JobDone(w)
  PROVE  \A v \in Workers : wpc'[v] = "locked" => wpc[v] = "locked" /\ wbar'[v] = wbar[v]
BY DEF JobDone, TypeOK, WorkersOK

LEMMA AccountedMarkHas ==
  ASSUME TypeOK, Accounted, NEW w \in Workers, MarkHas(w)
  PROVE  Accounted'
<1>1. UNCHANGED <<universe, left, sections>>
  BY DEF MarkHas, aggVars
<1>2. \A t \in Times : sections'[t].published \/ sections'[t].symbols = {}
         \/ (~sections[t].published /\ sections'[t].symbols = sections[t].symbols)
  BY <1>1
<1>3. CASE JobDone(w)
  BY <1>1, <1>2, <1>3, JobDoneUnlocks, FrameKeepsAccounted
<1>4. CASE wbar[w][1] \in universe /\ wpc' = [wpc EXCEPT ![w] = "locked"] /\ UNCHANGED wbar
  <2>1. \A v \in Workers : v # w => wpc'[v] = wpc[v]
    BY <1>4 DEF TypeOK, WorkersOK
  <2> QED
    BY <1>1, <1>4, <2>1 DEF Accounted
<1> QED
  BY <1>3, <1>4 DEF MarkHas

\* What a mark leaves in its section is accounted for.
LEMMA AccountedMark ==
  ASSUME TypeOK, Accounted, NEW w \in Workers, Mark(w)
  PROVE  /\ Accounted'
         /\ \A s \in SectionAt(wbar[w][2]).symbols \cup {wbar[w][1]} :
              ~SectionAt(wbar[w][2]).published => s \in universe \/ <<s, wbar[w][2]>> \in left
<1>1. PICK t \in Times : t = wbar[w][2]
  BY Constants DEF TypeOK, WorkersOK
<1>2. PICK x \in Symbols : x = wbar[w][1] /\ wbar[w] = <<x, t>>
  BY <1>1, Constants DEF TypeOK, WorkersOK
<1>3. PICK st \in Section : st = SectionAt(t)
  BY DEF SectionAt, TypeOK, PublishersOK, Section
<1>4. \A s \in st.symbols \cup {x} : ~st.published => s \in universe \/ <<s, t>> \in left
  <2>1. x \in universe \/ <<x, t>> \in left
    BY <1>2 DEF Mark, Accounted
  <2>2. \A s \in st.symbols : ~st.published => s \in universe \/ <<s, t>> \in left
    BY <1>3 DEF SectionAt, Accounted
  <2> QED
    BY <2>1, <2>2
<1>5. UNCHANGED <<universe, left>>
  BY DEF Mark
<1>6. \A v \in Workers : wpc'[v] = "locked" => wpc[v] = "locked" /\ wbar'[v] = wbar[v]
  <2>1. CASE JobDone(w)
    BY <2>1, JobDoneUnlocks
  <2>2. CASE wpc' = [wpc EXCEPT ![w] = "publish"] /\ UNCHANGED wbar
    BY <2>2 DEF TypeOK, WorkersOK
  <2> QED
    BY <2>1, <2>2 DEF Mark
<1>7. \A u \in Times : ~sections'[u].published =>
        \A s \in sections'[u].symbols : s \in universe \/ <<s, u>> \in left
  <2>1. CASE UNCHANGED sections
    BY <2>1 DEF Accounted
  <2>2. CASE ~st.published /\ sections' = [sections EXCEPT ![t] = [st EXCEPT !.symbols = st.symbols \cup {x}]]
    <3>1. sections'[t].symbols = st.symbols \cup {x} /\ \A u \in Times : u # t => sections'[u] = sections[u]
      BY <2>2 DEF TypeOK, PublishersOK, Section
    <3> QED
      BY <1>4, <2>2, <3>1 DEF Accounted
  <2>3. CASE sections' = [sections EXCEPT ![t] =
               [st EXCEPT !.symbols = st.symbols \cup {x}, !.published = TRUE, !.timer = "none"]]
    <3>1. sections'[t].published /\ \A u \in Times : u # t => sections'[u] = sections[u]
      BY <2>3 DEF TypeOK, PublishersOK, Section
    <3> QED
      BY <3>1 DEF Accounted
  <2> QED
    BY <1>1, <1>2, <1>3, <2>1, <2>2, <2>3 DEF Mark
<1>8. Accounted'
  BY <1>5, <1>6, <1>7 DEF Accounted
<1> QED
  BY <1>1, <1>2, <1>3, <1>4, <1>8

\* Refresh remembers the bars of what it delists.
LEMMA AccountedRefresh ==
  ASSUME TypeOK, Accounted, Refresh
  PROVE  Accounted'
<1>1. UNCHANGED <<sections, wpc, wbar>>
  BY DEF Refresh, workerVars
<1>2. left' = left \cup {b \in Counted : b[1] \in universe \ universe'}
  BY DEF Refresh
<1>3. ASSUME NEW t \in Times, ~sections[t].published, NEW s \in sections[t].symbols
      PROVE  s \in universe' \/ <<s, t>> \in left'
  <2>1. <<s, t>> \in Counted
    BY <1>3 DEF Counted, Bars, TypeOK, PublishersOK, Section
  <2>2. s \in universe \/ <<s, t>> \in left
    BY <1>3 DEF Accounted
  <2> QED
    BY <1>2, <2>1, <2>2
<1>4. ASSUME NEW w \in Workers, wpc[w] = "locked"
      PROVE  wbar[w][1] \in universe' \/ wbar[w] \in left'
  <2>1. wbar[w] \in Counted
    BY <1>4 DEF Counted
  <2>2. wbar[w][1] \in universe \/ wbar[w] \in left
    BY <1>4 DEF Accounted
  <2> QED
    BY <1>2, <2>1, <2>2
<1> QED
  BY <1>1, <1>3, <1>4 DEF Accounted

\* A publisher's section is published and stays so while it is open.
LEMMA AccountedPublish ==
  ASSUME TypeOK, PublishShape, Accounted, NEW p \in Publishers, PublishStep(p)
  PROVE  Accounted'
<1>1. UNCHANGED <<universe, left>>
  BY DEF PublishStep, PublishCheck, PublishSend, DeriveCheck, DeriveSend, Retain, aggVars
<1>2. \A t \in Times : /\ sections'[t].symbols = sections[t].symbols
                       /\ sections'[t].published = sections[t].published
  <2>1. CASE UNCHANGED sections
    BY <2>1
  <2>2. CASE sections' = [sections EXCEPT ![pev[p].t].timer = "retention"]
    BY <2>2 DEF TypeOK, PublishersOK, Section
  <2> QED
    BY <2>1, <2>2
      DEF PublishStep, PublishCheck, PublishSend, DeriveCheck, DeriveSend, Retain, aggVars
<1>3. \A v \in Workers : wpc'[v] = "locked" => wpc[v] = "locked" /\ wbar'[v] = wbar[v]
  <2>1. CASE Return(p)
    BY <2>1, JobDoneUnlocks DEF Return
  <2>2. CASE UNCHANGED <<wpc, wbar>>
    BY <2>2
  <2> QED
    BY <2>1, <2>2
      DEF PublishStep, PublishCheck, PublishSend, DeriveCheck, DeriveSend, Retain, workerVars
<1> QED
  BY <1>1, <1>2, <1>3, FrameKeepsAccounted

LEMMA AccountedStep == IInv /\ Accounted /\ [Next]_vars => Accounted'
<1> SUFFICES ASSUME IInv, Accounted, [Next]_vars PROVE Accounted'
  OBVIOUS
<1>0. TypeOK /\ PublishShape
  BY DEF IInv
<1>1. ASSUME UNCHANGED <<universe, left, sections, wpc, wbar>> PROVE Accounted'
  BY <1>1 DEF Accounted
<1>2. ASSUME NEW c \in Callers, Caller(c) PROVE Accounted'
  BY <1>1, <1>2 DEF Caller, acceptClosed, SendJob, workerVars, aggVars
<1>3. ASSUME NEW c \in Callers, NEW b \in Bars, Arrive(c, b) PROVE Accounted'
  BY <1>1, <1>3 DEF Arrive, workerVars, aggVars
<1>4. ASSUME NEW w \in Workers, TakeJob(w) \/ WorkerStop(w) \/ WorkerExit(w) \/ PushWindow(w)
      PROVE  Accounted'
  <2>1. UNCHANGED <<universe, left, sections>>
    BY <1>4 DEF TakeJob, WorkerStop, WorkerExit, PushWindow, aggVars
  <2>2. \A v \in Workers : wpc'[v] = "locked" => wpc[v] = "locked" /\ wbar'[v] = wbar[v]
    BY <1>0, <1>4 DEF TakeJob, WorkerStop, WorkerExit, PushWindow, TypeOK, WorkersOK
  <2> QED
    BY <2>1, <2>2 DEF Accounted
<1>5. ASSUME NEW w \in Workers, MarkHas(w) \/ Mark(w) PROVE Accounted'
  BY <1>0, <1>5, AccountedMarkHas, AccountedMark
<1>6. ASSUME NEW p \in Publishers, PublishStep(p) PROVE Accounted'
  BY <1>0, <1>6, AccountedPublish
<1>7. ASSUME NEW t \in Times, onTimeout(t) PROVE Accounted'
  <2>1. /\ UNCHANGED <<universe, left, wpc, wbar>>
        /\ sections'[t].published /\ \A u \in Times : u # t => sections'[u] = sections[u]
    BY <1>0, <1>7 DEF onTimeout, workerVars, TypeOK, PublishersOK, Section
  <2> QED
    BY <2>1 DEF Accounted
<1>8. ASSUME NEW t \in Times, evict(t) PROVE Accounted'
  <2>1. /\ UNCHANGED <<universe, left, wpc, wbar>>
        /\ sections'[t].symbols = {} /\ \A u \in Times : u # t => sections'[u] = sections[u]
    BY <1>0, <1>8 DEF evict, NoSection, workerVars, TypeOK, PublishersOK
  <2> QED
    BY <2>1 DEF Accounted
<1>9. CASE Refresh
  BY <1>0, <1>9, AccountedRefresh
<1>10. CASE CancelContext \/ CloseStore \/ CloseSignal
  BY <1>1, <1>10 DEF CancelContext, CloseStore, CloseSignal, workerVars, aggVars
<1>11. CASE CloseReturn
  <2>1. /\ UNCHANGED <<universe, left, wpc, wbar>>
        /\ \A t \in Times : /\ sections'[t].symbols = sections[t].symbols
                            /\ sections'[t].published = sections[t].published
    BY <1>0, <1>11 DEF CloseReturn, StopTimers, workerVars, TypeOK, PublishersOK, Section
  <2> QED
    BY <2>1 DEF Accounted
<1>12. CASE UNCHANGED vars
  BY <1>1, <1>12 DEF vars, workerVars, aggVars
<1> QED
  BY <1>2, <1>3, <1>4, <1>5, <1>6, <1>7, <1>8, <1>9, <1>10, <1>11, <1>12 DEF Next, WorkerStep

\* left only grows, and only a mark that completes a section writes missed.
LEMMA MissedWritten ==
  ASSUME [Next]_vars
  PROVE  left \subseteq left' /\ (UNCHANGED missed \/ \E w \in Workers : Mark(w))
<1>1. CASE \E w \in Workers : Mark(w)
  BY <1>1 DEF Mark
<1>2. CASE \E w \in Workers : \/ TakeJob(w) \/ WorkerStop(w) \/ WorkerExit(w)
                              \/ PushWindow(w) \/ MarkHas(w)
  BY <1>2 DEF TakeJob, WorkerStop, WorkerExit, PushWindow, MarkHas, aggVars
<1>3. CASE \E c \in Callers : Caller(c) \/ \E b \in Bars : Arrive(c, b)
  BY <1>3 DEF Caller, acceptClosed, SendJob, Arrive, aggVars
<1>4. CASE \E p \in Publishers : PublishStep(p)
  BY <1>4 DEF PublishStep, PublishCheck, PublishSend, DeriveCheck, DeriveSend, Retain, aggVars
<1>5. CASE \E t \in Times : onTimeout(t) \/ evict(t)
  BY <1>5 DEF onTimeout, evict
<1>6. CASE Refresh
  BY <1>6 DEF Refresh
<1>7. CASE CancelContext \/ CloseStore \/ CloseSignal \/ CloseReturn \/ UNCHANGED vars
  BY <1>7 DEF CancelContext, CloseStore, CloseSignal, CloseReturn, vars, aggVars
<1> QED
  BY <1>1, <1>2, <1>3, <1>4, <1>5, <1>6, <1>7 DEF Next, WorkerStep

\* What a section lacks when a mark completes it was replaced.
LEMMA MarkMisses ==
  ASSUME TypeOK, Accounted, NEW w \in Workers, Mark(w), NEW t \in Times
  PROVE  \/ missed'[t] = missed[t]
         \/ Cardinality(missed'[t]) <= Cardinality(Replacements(t))
<1>1. CASE UNCHANGED missed
  BY <1>1
<1>2. CASE ~UNCHANGED missed
  <2>1. PICK u \in Times : u = wbar[w][2]
    BY Constants DEF TypeOK, WorkersOK
  <2>2. PICK S : /\ S = SectionAt(u).symbols \cup {wbar[w][1]} /\ ~SectionAt(u).published
                 /\ Cardinality(S) >= Cardinality(universe)
                 /\ missed' = [missed EXCEPT ![u] = universe \ S]
    BY <1>2, <2>1 DEF Mark, Completes
  <2>3. S \in SUBSET Symbols /\ universe \in SUBSET Symbols
    <3>1. wbar[w][1] \in Symbols
      BY Constants DEF TypeOK, WorkersOK
    <3>2. SectionAt(u).symbols \subseteq Symbols
      BY DEF SectionAt, TypeOK, PublishersOK, Section
    <3> QED
      BY <2>2, <3>1, <3>2 DEF TypeOK, FlagsOK
  <2>4. CASE t # u
    BY <2>2, <2>4 DEF TypeOK, FlagsOK
  <2>5. CASE t = u
    <3>1. missed'[t] = universe \ S
      BY <2>2, <2>5 DEF TypeOK, FlagsOK
    <3>2. Cardinality(universe \ S) <= Cardinality(S \ universe)
      BY <2>2, <2>3, LackOfLarger
    <3>3. S \ universe \subseteq Replacements(t)
      BY <2>1, <2>2, <2>3, <2>5, AccountedMark DEF Replacements
    <3>4. Replacements(t) \in SUBSET Symbols /\ S \ universe \in SUBSET Symbols
          /\ universe \ S \in SUBSET Symbols
      BY <2>3 DEF Replacements
    <3>5. IsFiniteSet(Replacements(t))
      BY <3>4, ReplacementsFinite
    <3>6. Cardinality(S \ universe) <= Cardinality(Replacements(t))
      BY <3>3, <3>5, FS_Subset
    <3>7. /\ Cardinality(S \ universe) \in Nat /\ Cardinality(Replacements(t)) \in Nat
          /\ Cardinality(universe \ S) \in Nat
      BY <3>4, ReplacementsFinite
    <3> QED
      BY <3>1, <3>2, <3>6, <3>7
  <2> QED
    BY <2>4, <2>5
<1> QED
  BY <1>1, <1>2

(* A section published for completeness lacks no more symbols of the       *)
(* universe than were counted for it and delisted before (aggregator.mark, *)
(* Monitor.Refresh), whatever sets the universe takes: without a delisting *)
(* it has every symbol.                                                    *)
THEOREM MissedReplaced == Spec => []MissedAreReplaced
<1>1. Init => Accounted /\ MissedAreReplaced
  <2> SUFFICES ASSUME Init PROVE Accounted /\ MissedAreReplaced
    OBVIOUS
  <2>1. /\ \A t \in Times : sections[t].symbols = {} /\ missed[t] = {}
        /\ \A w \in Workers : wpc[w] = "idle"
    BY DEF Init, NoSection
  <2>2. \A t \in Times : Replacements(t) \in SUBSET Symbols
    BY DEF Replacements
  <2>3. \A t \in Times : Cardinality(Replacements(t)) \in Nat
    BY <2>2, ReplacementsFinite
  <2>4. Cardinality({}) = 0
    BY FS_EmptySet
  <2>5. \A t \in Times : Cardinality(missed[t]) <= Cardinality(Replacements(t))
    BY <2>1, <2>3, <2>4
  <2> QED
    BY <2>1, <2>5 DEF Accounted, MissedAreReplaced, Replacements
<1>2. IInv /\ IInv' /\ Accounted /\ MissedAreReplaced /\ [Next]_vars => MissedAreReplaced'
  <2> SUFFICES ASSUME IInv, IInv', Accounted, MissedAreReplaced, [Next]_vars, NEW t \in Times
               PROVE  Cardinality(missed'[t]) <= Cardinality(Replacements(t)')
    BY DEF MissedAreReplaced, Replacements
  <2>1. TypeOK /\ TypeOK'
    BY DEF IInv
  <2>2. Replacements(t) \subseteq Replacements(t)' /\ Replacements(t)' \in SUBSET Symbols
        /\ Replacements(t) \in SUBSET Symbols /\ missed'[t] \in SUBSET Symbols
    BY <2>1, MissedWritten DEF Replacements, TypeOK, FlagsOK
  <2>3. IsFiniteSet(Replacements(t)')
    BY <2>2, ReplacementsFinite
  <2>4. Cardinality(Replacements(t)) <= Cardinality(Replacements(t)')
    BY <2>2, <2>3, FS_Subset
  <2>5. /\ Cardinality(Replacements(t)) \in Nat /\ Cardinality(Replacements(t)') \in Nat
        /\ Cardinality(missed'[t]) \in Nat
    BY <2>2, ReplacementsFinite
  <2>6. Cardinality(missed[t]) <= Cardinality(Replacements(t))
    BY DEF MissedAreReplaced, Replacements
  <2>7. Cardinality(missed'[t]) <= Cardinality(Replacements(t))
    BY <2>1, <2>6, MissedWritten, MarkMisses
  <2> QED
    BY <2>4, <2>5, <2>7
<1> QED
  BY <1>1, <1>2, AccountedStep, Invariance, PTL DEF Spec

-----------------------------------------------------------------------------
(* Events after Close has begun.                                           *)

\* A publisher that is to send looked at closed while it had sent none since.
StraysShape ==
  \A p \in Publishers : /\ strays[p] <= 1
                        /\ ~closed => strays[p] = 0
                        /\ ppc[p] \in {"send", "sendDerived"} => strays[p] = 0

\* A publisher's own step, and one of another goroutine.
LEMMA StraysOfPublisher ==
  ASSUME TypeOK, StraysShape, NEW p \in Publishers, PublishStep(p)
  PROVE  StraysShape'
<1>1. UNCHANGED closed
  BY DEF PublishStep, PublishCheck, PublishSend, DeriveCheck, DeriveSend, Retain, stopVars
<1>2. \A q \in Publishers : q # p => ppc'[q] = ppc[q] /\ strays'[q] = strays[q]
  <2>1. \E x : ppc' = [ppc EXCEPT ![p] = x]
    BY DEF PublishStep, PublishCheck, PublishSend, DeriveCheck, DeriveSend, Retain, Return
  <2>2. UNCHANGED strays \/ strays' = [strays EXCEPT ![p] = @ + 1]
    BY DEF PublishStep, PublishCheck, PublishSend, DeriveCheck, DeriveSend, Retain, Announce
  <2> QED
    BY <2>1, <2>2 DEF TypeOK, PublishersOK, FlagsOK
<1>3. strays[p] \in Nat
  BY DEF TypeOK, FlagsOK
<1>4. CASE PublishCheck(p)
  <2>1. UNCHANGED strays /\ (ppc'[p] = "send" => ~closed) /\ ppc'[p] # "sendDerived"
    BY <1>4 DEF PublishCheck, Return, TypeOK, PublishersOK
  <2> QED
    BY <1>1, <1>2, <2>1 DEF StraysShape
<1>5. CASE DeriveCheck(p)
  <2>1. UNCHANGED strays /\ (ppc'[p] = "sendDerived" => ~closed) /\ ppc'[p] # "send"
    BY <1>5 DEF DeriveCheck, TypeOK, PublishersOK
  <2> QED
    BY <1>1, <1>2, <2>1 DEF StraysShape
<1>6. CASE PublishSend(p) \/ DeriveSend(p)
  <2>1. /\ ppc[p] \in {"send", "sendDerived"} /\ ppc'[p] \in {"derive", "retain"}
        /\ \/ UNCHANGED strays
           \/ strays' = IF closed THEN [strays EXCEPT ![p] = @ + 1] ELSE strays
    BY <1>6 DEF PublishSend, DeriveSend, Announce, TypeOK, PublishersOK
  <2>2. strays[p] = 0
    BY <2>1 DEF StraysShape
  <2>3. strays'[p] <= 1 /\ (~closed => strays'[p] = 0)
    BY <2>1, <2>2 DEF TypeOK, FlagsOK
  <2> QED
    BY <1>1, <1>2, <2>1, <2>3 DEF StraysShape
<1>7. CASE Retain(p)
  <2>1. UNCHANGED strays /\ ppc'[p] = "none"
    BY <1>7 DEF Retain, Return, TypeOK, PublishersOK
  <2> QED
    BY <1>1, <1>2, <2>1 DEF StraysShape
<1> QED
  BY <1>4, <1>5, <1>6, <1>7 DEF PublishStep

LEMMA StraysStep == IInv /\ StraysShape /\ [Next]_vars => StraysShape'
<1> SUFFICES ASSUME IInv, StraysShape, [Next]_vars PROVE StraysShape'
  OBVIOUS
<1>0. TypeOK
  BY DEF IInv
<1>1. ASSUME UNCHANGED strays, closed => closed',
             \A p \in Publishers : ppc'[p] \in {"send", "sendDerived"} => ppc'[p] = ppc[p]
      PROVE  StraysShape'
  BY <1>1 DEF StraysShape
<1>2. ASSUME NEW c \in Callers, Caller(c) \/ \E b \in Bars : Arrive(c, b) PROVE StraysShape'
  BY <1>1, <1>2 DEF Caller, acceptClosed, SendJob, Arrive, pubVars, stopVars
<1>3. ASSUME NEW w \in Workers,
             TakeJob(w) \/ WorkerStop(w) \/ WorkerExit(w) \/ PushWindow(w) \/ MarkHas(w)
      PROVE  StraysShape'
  BY <1>1, <1>3 DEF TakeJob, WorkerStop, WorkerExit, PushWindow, MarkHas, pubVars, stopVars
<1>4. ASSUME NEW w \in Workers, Mark(w) PROVE StraysShape'
  <2>1. UNCHANGED <<strays, closed>> /\ (UNCHANGED ppc \/ ppc' = [ppc EXCEPT ![w] = "check"])
    BY <1>4 DEF Mark, Publish, stopVars
  <2> QED
    BY <1>0, <1>1, <2>1 DEF TypeOK, PublishersOK
<1>5. ASSUME NEW t \in Times, onTimeout(t) PROVE StraysShape'
  <2>1. UNCHANGED <<strays, closed>> /\ ppc' = [ppc EXCEPT ![<<"timer", t>>] = "check"]
    BY <1>5 DEF onTimeout, Publish, stopVars
  <2> QED
    BY <1>0, <1>1, <2>1 DEF TypeOK, PublishersOK
<1>6. ASSUME NEW t \in Times, evict(t) PROVE StraysShape'
  BY <1>1, <1>6 DEF evict, pubVars, stopVars
<1>7. ASSUME NEW p \in Publishers, PublishStep(p) PROVE StraysShape'
  BY <1>0, <1>7, StraysOfPublisher
<1>8. CASE Refresh \/ CancelContext \/ CloseStore \/ CloseSignal \/ CloseReturn
  BY <1>1, <1>8 DEF Refresh, CancelContext, CloseStore, CloseSignal, CloseReturn, pubVars, stopVars
<1>9. CASE UNCHANGED vars
  BY <1>1, <1>9 DEF vars, pubVars, stopVars
<1> QED
  BY <1>2, <1>3, <1>4, <1>5, <1>6, <1>7, <1>8, <1>9 DEF Next, WorkerStep

(* However many derived buckets a base bar closes, a goroutine that Close  *)
(* finds in publish sends at most one more event: the cascade looks at     *)
(* closed before each (publish, publishDerived).                           *)
THEOREM OneAfterClosed == Spec => []OneEventAfterClosed
<1>1. Init => StraysShape
  BY DEF Init, StraysShape
<1>2. StraysShape => OneEventAfterClosed
  BY DEF StraysShape, OneEventAfterClosed
<1> QED
  BY <1>1, <1>2, StraysStep, Invariance, PTL DEF Spec

-----------------------------------------------------------------------------
(* Sections and bars at rest.                                              *)

\* Somebody will announce, or has armed the timer of, what is open at t.
Publishing(t) == \E p \in Publishers : Active(p) /\ pev[p].t = t
OnItsWay(t) ==
  sections[t].open =>
    /\ ~sections[t].published => sections[t].timer = "completion" \/ closeDone
    /\ sections[t].published => sections[t].timer = "retention" \/ closed \/ Publishing(t)

\* A step that leaves the section of t and whoever publishes it.
LEMMA FrameKeepsWay ==
  ASSUME NEW t \in Times, OnItsWay(t), sections'[t] = sections[t],
         closed => closed', closeDone => closeDone', Publishing(t) => Publishing(t)'
  PROVE  OnItsWay(t)'
BY DEF OnItsWay

LEMMA WayStep ==
  ASSUME IInv, \A t \in Times : OnItsWay(t), stopped => closed, [Next]_vars,
         closeDone => \A w \in Workers : wpc[w] = "exited"
  PROVE  \A t \in Times : OnItsWay(t)'
<1> SUFFICES ASSUME NEW t \in Times PROVE OnItsWay(t)'
  OBVIOUS
<1>0. TypeOK /\ PublishShape /\ TimerShape /\ OnItsWay(t) /\ t \in Times
  BY DEF IInv
<1>1. ASSUME UNCHANGED <<sections, ppc, pev>>, closed => closed', closeDone => closeDone'
      PROVE  OnItsWay(t)'
  <2>1. Publishing(t) => Publishing(t)'
    BY <1>1 DEF Publishing, Active
  <2> QED
    BY <1>0, <1>1, <2>1, FrameKeepsWay
<1>2. ASSUME NEW c \in Callers, Caller(c) \/ \E b \in Bars : Arrive(c, b) PROVE OnItsWay(t)'
  BY <1>1, <1>2 DEF Arrive, Caller, acceptClosed, SendJob, aggVars, pubVars, stopVars
<1>3. ASSUME NEW w \in Workers,
             TakeJob(w) \/ WorkerStop(w) \/ WorkerExit(w) \/ PushWindow(w) \/ MarkHas(w)
      PROVE  OnItsWay(t)'
  BY <1>1, <1>3
    DEF TakeJob, WorkerStop, WorkerExit, PushWindow, MarkHas, aggVars, pubVars, stopVars
<1>4. ASSUME NEW w \in Workers, Mark(w) PROVE OnItsWay(t)'
  <2>1. PICK u \in Times : u = wbar[w][2]
    BY <1>0, Constants DEF TypeOK, WorkersOK
  <2>2. w \in Publishers /\ ppc[w] = "none"
    BY <1>0, <1>4 DEF Publishers, Mark, PublishShape
  <2>3. UNCHANGED <<closed, closeDone>> /\ ~closeDone
    BY <1>4 DEF Mark, stopVars
  <2> DEFINE st == SectionAt(u)
             syms == st.symbols \cup {wbar[w][1]}
  <2>4. /\ st \in Section /\ st.open
        /\ ~st.published => st.timer = "completion"
    BY <1>0, <2>3 DEF SectionAt, TypeOK, PublishersOK, Section, OnItsWay
  <2>5. CASE UNCHANGED <<sections, ppc, pev>>
    BY <1>1, <2>3, <2>5
  <2>6. CASE /\ ~st.published /\ UNCHANGED <<ppc, pev>>
             /\ sections' = [sections EXCEPT ![u] = [st EXCEPT !.symbols = syms]]
    <3>1. CASE t = u
      <4>1. sections'[t].timer = "completion" /\ ~sections'[t].published
        BY <1>0, <2>4, <2>6, <3>1 DEF TypeOK, PublishersOK, Section
      <4> QED
        BY <4>1 DEF OnItsWay
    <3>2. CASE t # u
      <4>1. sections'[t] = sections[t]
        BY <1>0, <2>6, <3>2 DEF TypeOK, PublishersOK
      <4>2. Publishing(t) => Publishing(t)'
        BY <2>6 DEF Publishing, Active
      <4> QED
        BY <1>0, <2>3, <4>1, <4>2, FrameKeepsWay
    <3> QED
      BY <3>1, <3>2
  <2>7. CASE /\ Publish(w, u, syms)
             /\ sections' = [sections EXCEPT ![u] =
                    [st EXCEPT !.symbols = syms, !.published = TRUE, !.timer = "none"]]
    <3>1. /\ ppc'[w] = "check" /\ pev'[w].t = u
          /\ \A q \in Publishers : q # w => ppc'[q] = ppc[q] /\ pev'[q] = pev[q]
      BY <1>0, <2>2, <2>7 DEF Publish, TypeOK, PublishersOK
    <3>2. CASE t = u
      <4>1. sections'[t].published
        BY <1>0, <2>4, <2>7, <3>2 DEF TypeOK, PublishersOK, Section
      <4>2. Publishing(t)'
        BY <2>2, <3>1, <3>2 DEF Publishing, Active
      <4> QED
        BY <4>1, <4>2 DEF OnItsWay
    <3>3. CASE t # u
      <4>1. sections'[t] = sections[t]
        BY <1>0, <2>7, <3>3 DEF TypeOK, PublishersOK
      <4>2. Publishing(t) => Publishing(t)'
        BY <2>2, <3>1 DEF Publishing, Active
      <4> QED
        BY <1>0, <2>3, <4>1, <4>2, FrameKeepsWay
    <3> QED
      BY <3>2, <3>3
  <2> QED
    BY <1>4, <2>1, <2>5, <2>6, <2>7 DEF Mark
<1>5. ASSUME NEW p \in Publishers, PublishStep(p) PROVE OnItsWay(t)'
  <2>1. /\ Active(p) /\ \A q \in Publishers : q # p => ppc'[q] = ppc[q] /\ pev'[q] = pev[q]
        /\ Active(p)' => pev'[p].t = pev[p].t /\ UNCHANGED sections
        /\ \A u \in Times : u # pev[p].t => sections'[u] = sections[u]
        /\ sections'[pev[p].t].published
    BY <1>0, <1>5, PublisherCases
  <2>2. UNCHANGED <<closed, closeDone>>
    BY <1>5 DEF PublishStep, PublishCheck, PublishSend, DeriveCheck, DeriveSend, Retain, stopVars
  <2>3. CASE t # pev[p].t
    <3>1. Publishing(t) => Publishing(t)'
      BY <2>1, <2>3 DEF Publishing, Active
    <3> QED
      BY <1>0, <2>1, <2>2, <2>3, <3>1, FrameKeepsWay
  <2>4. CASE t = pev[p].t /\ Active(p)'
    <3>1. Publishing(t)'
      BY <2>1, <2>4 DEF Publishing
    <3> QED
      BY <2>1, <2>4, <3>1 DEF OnItsWay
  <2>5. CASE t = pev[p].t /\ ~Active(p)'
    <3>1. CASE Retain(p)
      <4>1. sections[t].open
        BY <1>0, <2>1, <2>5 DEF PublishShape, Active
      <4>2. sections' = [sections EXCEPT ![t].timer = "retention"]
        BY <2>5, <3>1, <4>1 DEF Retain
      <4>3. sections'[t].timer = "retention"
        BY <1>0, <4>2 DEF TypeOK, PublishersOK, Section
      <4> QED
        BY <2>1, <2>5, <4>3 DEF OnItsWay
    <3>2. CASE PublishCheck(p) /\ closed
      BY <2>1, <2>2, <2>5, <3>2 DEF OnItsWay
    <3>3. CASE \E x \in {"send", "derive", "sendDerived", "retain"} : ppc' = [ppc EXCEPT ![p] = x]
      BY <1>0, <2>5, <3>3 DEF Active, TypeOK, PublishersOK
    <3> QED
      BY <1>5, <3>1, <3>2, <3>3 DEF PublishStep, PublishCheck, PublishSend, DeriveCheck, DeriveSend
  <2> QED
    BY <2>3, <2>4, <2>5
<1>6. ASSUME NEW u \in Times, onTimeout(u) PROVE OnItsWay(t)'
  <2> DEFINE p == <<"timer", u>>
  <2>1. p \in Publishers /\ UNCHANGED <<closed, closeDone>>
    BY <1>6, TimersApart DEF onTimeout, stopVars
  <2>2. /\ ppc'[p] = "check" /\ pev'[p].t = u
        /\ \A q \in Publishers : q # p => ppc'[q] = ppc[q] /\ pev'[q] = pev[q]
    BY <1>0, <1>6, <2>1 DEF onTimeout, Publish, TypeOK, PublishersOK
  <2>3. sections' = [sections EXCEPT ![u].timer = "none", ![u].published = TRUE]
    BY <1>6 DEF onTimeout
  <2>4. Active(p) => pev[p].t = u
    BY <1>0 DEF PublishShape, Active
  <2> HIDE DEF p
  <2>5. CASE t = u
    <3>1. sections'[t].published
      BY <1>0, <2>3, <2>5 DEF TypeOK, PublishersOK, Section
    <3>2. Publishing(t)'
      BY <2>1, <2>2, <2>5 DEF Publishing, Active
    <3> QED
      BY <3>1, <3>2 DEF OnItsWay
  <2>6. CASE t # u
    <3>1. sections'[t] = sections[t]
      BY <1>0, <2>3, <2>6 DEF TypeOK, PublishersOK
    <3>2. Publishing(t) => Publishing(t)'
      BY <2>2, <2>4, <2>6 DEF Publishing, Active
    <3> QED
      BY <1>0, <2>1, <2>6, <3>1, <3>2, FrameKeepsWay
  <2> QED
    BY <2>5, <2>6
<1>7. ASSUME NEW u \in Times, evict(u) PROVE OnItsWay(t)'
  <2>1. CASE t = u
    <3>1. ~sections'[t].open
      BY <1>0, <1>7, <2>1 DEF evict, NoSection, TypeOK, PublishersOK
    <3> QED
      BY <3>1 DEF OnItsWay
  <2>2. CASE t # u
    <3>1. sections'[t] = sections[t] /\ UNCHANGED <<ppc, pev, closed, closeDone>>
      BY <1>0, <1>7, <2>2 DEF evict, TypeOK, PublishersOK, pubVars, stopVars
    <3>2. Publishing(t) => Publishing(t)'
      BY <3>1 DEF Publishing, Active
    <3> QED
      BY <1>0, <3>1, <3>2, FrameKeepsWay
  <2> QED
    BY <2>1, <2>2
<1>8. CASE Refresh \/ CancelContext \/ CloseStore \/ CloseSignal
  BY <1>1, <1>8 DEF Refresh, CancelContext, CloseStore, CloseSignal, aggVars, pubVars, stopVars
<1>9. CASE CloseReturn
  <2>1. closed' /\ closeDone'
    BY <1>9 DEF CloseReturn
  <2> QED
    BY <2>1 DEF OnItsWay
<1>10. CASE UNCHANGED vars
  BY <1>1, <1>10 DEF vars, aggVars, pubVars, stopVars
<1> QED
  BY <1>2, <1>3, <1>4, <1>5, <1>6, <1>7, <1>8, <1>9, <1>10 DEF Next, WorkerStep

\* A worker exits only once closed is set and the queue is empty; what comes
\* after it is late.
DrainShape ==
  /\ stopped => closed
  /\ draining # {} => closed
  /\ \A w \in Workers : wpc[w] = "exited" =>
       /\ w \in draining
       /\ \A i \in 1..Len(closedCh) : closedCh[i] \in late
  /\ closeDone => \A w \in Workers : wpc[w] = "exited"

LEMMA FrameKeepsDrain ==
  ASSUME DrainShape, UNCHANGED <<closedCh, draining, stopped, closeDone, late>>, closed => closed',
         \A w \in Workers : wpc'[w] = "exited" <=> wpc[w] = "exited"
  PROVE  DrainShape'
BY DEF DrainShape

\* A worker that leaves a bar or a section behind was not one that had exited.
LEMMA JobDoneKeepsDrain ==
  ASSUME TypeOK, NEW w \in Workers, wpc[w] # "exited", JobDone(w)
  PROVE  \A v \in Workers : wpc'[v] = "exited" <=> wpc[v] = "exited"
BY DEF JobDone, TypeOK, WorkersOK

LEMMA DrainStep ==
  ASSUME IInv, DrainShape, [Next]_vars
  PROVE  DrainShape'
<1>0. /\ TypeOK /\ PublishShape /\ wpc \in [Workers -> {"idle", "push", "mark", "locked", "publish", "exited"}]
      /\ closedCh \in Seq(Bars) /\ draining \subseteq Workers
  BY DEF IInv, TypeOK, WorkersOK, CallersOK
<1>1. ASSUME NEW c \in Callers, acceptClosed(c) \/ \E b \in Bars : Arrive(c, b) PROVE DrainShape'
  BY <1>1, FrameKeepsDrain DEF Arrive, acceptClosed, workerVars, stopVars
<1>2. ASSUME NEW c \in Callers, SendJob(c) PROVE DrainShape'
  <2>1. UNCHANGED <<draining, wpc, stopped, closed, closeDone>>
    BY <1>2 DEF SendJob, workerVars, stopVars
  <2>2. CASE UNCHANGED <<closedCh, late>>
    BY <2>1, <2>2, FrameKeepsDrain
  <2>3. CASE /\ closedCh' = Append(closedCh, cbar[c])
             /\ late' = IF closed THEN late \cup {cbar[c]} ELSE late
    <3>1. cbar[c] \in Bars
      BY <1>0, <1>2 DEF TypeOK, CallersOK
    <3>2. /\ \A i \in 1..Len(closedCh) : closedCh'[i] = closedCh[i]
          /\ \A i \in 1..Len(closedCh') : i \in 1..Len(closedCh) \/ closedCh'[i] = cbar[c]
      BY <1>0, <2>3, <3>1
    <3>3. ASSUME NEW w \in Workers, wpc'[w] = "exited"
          PROVE  w \in draining' /\ \A i \in 1..Len(closedCh') : closedCh'[i] \in late'
      <4>1. wpc[w] = "exited" /\ w \in draining /\ closed
        BY <2>1, <3>3 DEF DrainShape
      <4>2. late' = late \cup {cbar[c]}
        BY <2>3, <4>1
      <4>3. \A i \in 1..Len(closedCh) : closedCh[i] \in late
        BY <4>1 DEF DrainShape
      <4> QED
        BY <2>1, <3>2, <4>1, <4>2, <4>3
    <3> QED
      BY <2>1, <3>3 DEF DrainShape
  <2> QED
    BY <1>2, <2>2, <2>3 DEF SendJob
<1>3. ASSUME NEW w \in Workers, TakeJob(w) PROVE DrainShape'
  <2>1. /\ UNCHANGED <<draining, stopped, closed, closeDone, late>>
        /\ \A v \in Workers : wpc'[v] = "exited" <=> wpc[v] = "exited"
    BY <1>0, <1>3 DEF TakeJob, stopVars
  <2>2. \A i \in 1..Len(closedCh') : i + 1 \in 1..Len(closedCh) /\ closedCh'[i] = closedCh[i + 1]
    BY <1>0, <1>3 DEF TakeJob
  <2>3. ASSUME NEW v \in Workers, wpc'[v] = "exited"
        PROVE  v \in draining' /\ \A i \in 1..Len(closedCh') : closedCh'[i] \in late'
    BY <2>1, <2>2, <2>3 DEF DrainShape
  <2> QED
    BY <2>1, <2>3 DEF DrainShape
<1>4. ASSUME NEW w \in Workers, WorkerStop(w) PROVE DrainShape'
  <2>1. /\ UNCHANGED <<closedCh, wpc, stopped, closeDone, late>> /\ closed'
        /\ draining' = draining \cup {w}
    BY <1>4 DEF WorkerStop, DrainShape
  <2> QED
    BY <2>1 DEF DrainShape
<1>5. ASSUME NEW w \in Workers, WorkerExit(w) PROVE DrainShape'
  <2>1. /\ UNCHANGED <<closedCh, draining, stopped, closed, closeDone, late>>
        /\ closedCh = <<>> /\ w \in draining /\ wpc[w] = "idle"
        /\ wpc' = [wpc EXCEPT ![w] = "exited"]
    BY <1>5 DEF WorkerExit, stopVars
  <2>2. ~closeDone
    BY <2>1 DEF DrainShape
  <2>3. \A i \in 1..Len(closedCh') : closedCh'[i] \in late'
    BY <2>1
  <2>4. \A v \in Workers : wpc'[v] = "exited" => v \in draining'
    BY <1>0, <2>1 DEF DrainShape
  <2> QED
    BY <2>1, <2>2, <2>3, <2>4 DEF DrainShape
<1>6. ASSUME NEW w \in Workers, PushWindow(w) \/ MarkHas(w) \/ Mark(w) PROVE DrainShape'
  <2>1. /\ UNCHANGED <<closedCh, draining, stopped, closed, closeDone, late>>
        /\ wpc[w] \in {"push", "mark", "locked"}
        /\ \/ JobDone(w)
           \/ \E x \in {"mark", "locked", "publish"} : wpc' = [wpc EXCEPT ![w] = x]
    BY <1>6 DEF PushWindow, MarkHas, Mark, stopVars
  <2>2. \A v \in Workers : wpc'[v] = "exited" <=> wpc[v] = "exited"
    BY <1>0, <2>1, JobDoneKeepsDrain
  <2> QED
    BY <2>1, <2>2, FrameKeepsDrain
<1>7. ASSUME NEW p \in Publishers, PublishStep(p) PROVE DrainShape'
  <2>1. UNCHANGED <<closedCh, draining, stopped, closed, closeDone, late>>
    BY <1>7
      DEF PublishStep, PublishCheck, PublishSend, DeriveCheck, DeriveSend, Retain, stopVars, workerVars
  <2>2. (p \in Workers /\ JobDone(p)) \/ UNCHANGED wpc
    BY <1>7
      DEF PublishStep, PublishCheck, PublishSend, DeriveCheck, DeriveSend, Retain, Return, workerVars
  <2>3. p \in Workers => wpc[p] # "exited"
    <3>1. ppc[p] # "none"
      BY <1>7 DEF PublishStep, PublishCheck, PublishSend, DeriveCheck, DeriveSend, Retain
    <3> QED
      BY <1>0, <3>1 DEF PublishShape
  <2>4. \A v \in Workers : wpc'[v] = "exited" <=> wpc[v] = "exited"
    BY <1>0, <2>2, <2>3, JobDoneKeepsDrain
  <2> QED
    BY <2>1, <2>4, FrameKeepsDrain
<1>8. ASSUME NEW t \in Times, onTimeout(t) \/ evict(t) PROVE DrainShape'
  BY <1>8, FrameKeepsDrain DEF onTimeout, evict, workerVars, stopVars
<1>9. CASE Refresh \/ CancelContext \/ CloseStore
  BY <1>9, FrameKeepsDrain DEF Refresh, CancelContext, CloseStore, workerVars, stopVars
<1>10. CASE CloseSignal \/ CloseReturn
  BY <1>10 DEF CloseSignal, CloseReturn, workerVars, DrainShape
<1>11. CASE UNCHANGED vars
  BY <1>11, FrameKeepsDrain DEF vars, workerVars, stopVars
<1> QED
  BY <1>1, <1>2, <1>3, <1>4, <1>5, <1>6, <1>7, <1>8, <1>9, <1>10, <1>11
    DEF Next, Caller, WorkerStep

RestShape == DrainShape /\ \A t \in Times : OnItsWay(t)

LEMMA RestInvariance == Spec => []RestShape
<1>1. Init => RestShape
  BY DEF Init, RestShape, DrainShape, OnItsWay, NoSection
<1>2. IInv /\ RestShape /\ [Next]_vars => RestShape'
  <2> SUFFICES ASSUME IInv, RestShape, [Next]_vars PROVE RestShape'
    OBVIOUS
  <2>1. DrainShape /\ \A t \in Times : OnItsWay(t)
    BY DEF RestShape
  <2>2. DrainShape'
    BY <2>1, DrainStep
  <2>3. \A t \in Times : OnItsWay(t)'
    BY <2>1, WayStep DEF DrainShape
  <2> QED
    BY <2>2, <2>3 DEF RestShape
<1> QED
  BY <1>1, <1>2, Invariance, PTL DEF Spec

(* No section is forgotten: it has a timer or somebody publishes it until  *)
(* Close takes its timers away (aggregator.mark, publish, stop).           *)
THEOREM SectionsNotForgotten == Spec => []SectionsOnTheirWay
<1>1. RestShape => SectionsOnTheirWay
  BY DEF RestShape, OnItsWay, Publishing, Active, SectionsOnTheirWay
<1> QED
  BY <1>1, RestInvariance, PTL

(* Close returns with every bar pushed that was queued before closed was   *)
(* set, however the workers that drain the queue interleave (drain, Close).*)
THEOREM CloseDrains == Spec => []ClosedIsDrained
<1>1. RestShape => ClosedIsDrained
  <2> SUFFICES ASSUME RestShape, closeDone PROVE InHand = {} /\ Queued \subseteq late
    BY DEF ClosedIsDrained
  <2>1. \A w \in Workers : wpc[w] = "exited"
    BY DEF RestShape, DrainShape
  <2>2. PICK w \in Workers : TRUE
    BY DispatcherAssumption DEF DispatcherAssumption
  <2>3. \A i \in 1..Len(closedCh) : closedCh[i] \in late
    BY <2>1, <2>2 DEF RestShape, DrainShape
  <2> QED
    BY <2>1, <2>3 DEF InHand, Queued
<1> QED
  BY <1>1, RestInvariance, PTL
=============================================================================
