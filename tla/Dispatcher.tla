----------------------------- MODULE Dispatcher -----------------------------
(***************************************************************************)
(* internal/dispatcher: HandleKlineEvent, the closed-bar queue and its     *)
(* workers, the cross-section aggregator with its timers and the derived   *)
(* cascade, and Close, as concurrent goroutines.                           *)
(*                                                                         *)
(* A closed bar of the base interval is <<symbol, t>>: t counts base       *)
(* intervals.  A bucket is <<d, t>>: interval of d base intervals, opened  *)
(* at t; <<1, t>> is the base interval itself.  Live frames reach only the *)
(* live sink and change nothing here.  The window sink, the archive sink   *)
(* and the ready publisher are the gate-wrapped writers the app injects;   *)
(* here a call to one of them has an outcome.                              *)
(***************************************************************************)
EXTENDS Integers, Sequences, FiniteSets

CONSTANTS
  Symbols,        (* subscribed symbols                                    *)
  Times,          (* the base bars, by open time in base intervals         *)
  Derived,        (* ServeIntervals, in base intervals                     *)
  Universes,      (* the symbol sets the universe monitor can hold         *)
  Callers,        (* goroutines the collector calls HandleKlineEvent from  *)
  Workers,        (* closed-bar workers                                    *)
  QueueSize,      (* capacity of closedCh                                  *)
  MaxDeliveries,  (* how often one bar is delivered: replays + 1           *)
  MayStop         (* whether Close and cancellation of the context occur   *)

ASSUME DispatcherAssumption ==
  /\ IsFiniteSet(Symbols) /\ Symbols # {}
  /\ Times # {} /\ Times \subseteq Nat /\ \A t \in Times : <<"timer", t>> \notin Workers
  /\ Derived \subseteq Nat \ {0, 1}
  /\ Universes # {} /\ Universes \subseteq SUBSET Symbols
  /\ Workers # {} /\ QueueSize \in Nat \ {0}
  /\ MaxDeliveries \in Nat
  /\ MayStop \in BOOLEAN

Bars   == Symbols \X Times
Timers == {<<"timer", t>> : t \in Times}   \* the goroutine of a section's timer
Publishers == Workers \cup Timers

VARIABLES
  universe,     (* UniverseProvider: what Has and Size read                *)
  sent,         (* deliveries so far of each bar                           *)
  cpc, cbar,    (* callers inside HandleKlineEvent                         *)
  lastClosed,   (* Dispatcher.lastClosed, absent = -1                      *)
  closedCh,     (* Dispatcher.closedCh                                     *)
  wpc, wbar,    (* workers                                                 *)
  draining,     (* workers in drain                                        *)
  sections,     (* aggregator.sections                                     *)
  ppc, pev,     (* goroutines inside aggregator.publish                    *)
  closed,       (* Dispatcher.closed                                       *)
  stopped,      (* stopCh closed                                           *)
  cancelled,    (* the context given to New is done                        *)
  closeDone,    (* Close has returned                                      *)
  pushed,       (* history: bars whose window push has returned            *)
  opened,       (* history: sections opened for each base bar              *)
  ready,        (* history: kline_ready events sent for each bucket        *)
  strays,       (* history: events each publisher sent once closed was set *)
  missed,       (* history: universe symbols a complete section had not    *)
  left,         (* history: bars counted while their symbol was listed,    *)
                (* which was delisted before the section was published     *)
  late          (* history: bars queued after closed was set               *)

callerVars == <<sent, cpc, cbar, lastClosed>>
workerVars == <<wpc, wbar, draining>>
aggVars    == <<sections, opened, missed, left>>
pubVars    == <<ppc, pev, ready, strays>>
stopVars   == <<closed, stopped, cancelled, closeDone>>
vars == <<universe, callerVars, closedCh, workerVars, aggVars, pubVars, stopVars, pushed, late>>

NoSection == [open |-> FALSE, symbols |-> {}, published |-> FALSE, timer |-> "none"]
Section   == [open : BOOLEAN, symbols : SUBSET Symbols, published : BOOLEAN,
              timer : {"none", "completion", "retention"}]

Buckets == {<<1, t>> : t \in Times} \cup
           {<<d, t - d + 1>> : d \in Derived, t \in Times}

NoEvent == [t |-> CHOOSE t \in Times : TRUE, symbols |-> {}, todo |-> {}]
Event   == [t : Times, symbols : SUBSET Symbols, todo : SUBSET Derived]

CallersOK ==
  /\ sent \in [Bars -> 0..MaxDeliveries]
  /\ cpc \in [Callers -> {"idle", "guard", "send"}]
  /\ cbar \in [Callers -> Bars]
  /\ lastClosed \in [Symbols -> {-1} \cup Times]
  /\ closedCh \in Seq(Bars) /\ Len(closedCh) <= QueueSize

WorkersOK ==
  /\ wpc \in [Workers -> {"idle", "push", "mark", "locked", "publish", "exited"}]
  /\ wbar \in [Workers -> Bars]
  /\ draining \subseteq Workers

PublishersOK ==
  /\ sections \in [Times -> Section]
  /\ ppc \in [Publishers -> {"none", "check", "send", "derive", "sendDerived", "retain"}]
  /\ pev \in [Publishers -> Event]
  /\ opened \in [Times -> Nat]
  /\ ready \in [Buckets -> Nat]

FlagsOK ==
  /\ universe \in SUBSET Symbols
  /\ {closed, stopped, cancelled, closeDone} \subseteq BOOLEAN
  /\ pushed \subseteq Bars /\ late \subseteq Bars /\ left \subseteq Bars
  /\ missed \in [Times -> SUBSET Symbols]
  /\ strays \in [Publishers -> Nat]

TypeOK == CallersOK /\ WorkersOK /\ PublishersOK /\ FlagsOK

\* Locals of a goroutine that is not in a call.
NoBar == CHOOSE b \in Bars : TRUE

Init ==
  /\ universe \in Universes
  /\ sent = [b \in Bars |-> 0]
  /\ cpc = [c \in Callers |-> "idle"] /\ cbar = [c \in Callers |-> NoBar]
  /\ lastClosed = [s \in Symbols |-> -1]
  /\ closedCh = <<>>
  /\ wpc = [w \in Workers |-> "idle"] /\ wbar = [w \in Workers |-> NoBar]
  /\ draining = {}
  /\ sections = [t \in Times |-> NoSection]
  /\ ppc = [p \in Publishers |-> "none"] /\ pev = [p \in Publishers |-> NoEvent]
  /\ closed = FALSE /\ stopped = FALSE /\ cancelled = FALSE /\ closeDone = FALSE
  /\ pushed = {} /\ late = {}
  /\ opened = [t \in Times |-> 0]
  /\ ready = [b \in Buckets |-> 0]
  /\ strays = [p \in Publishers |-> 0]
  /\ missed = [t \in Times |-> {}] /\ left = {}

-----------------------------------------------------------------------------
(* HandleKlineEvent for a final frame. *)

\* The closed check, then the live snapshot.  A bar is redelivered after a
\* reconnect, and callbacks of one stream may overtake each other.
Arrive(c, b) ==
  /\ cpc[c] = "idle" /\ ~closed
  /\ sent[b] < MaxDeliveries
  /\ sent' = [sent EXCEPT ![b] = @ + 1]
  /\ cpc'  = [cpc EXCEPT ![c] = "guard"]
  /\ cbar' = [cbar EXCEPT ![c] = b]
  /\ UNCHANGED <<universe, lastClosed, closedCh, workerVars, aggVars, pubVars, stopVars,
                 pushed, late>>

LeaveCall(c) ==
  /\ cpc'  = [cpc EXCEPT ![c] = "idle"]
  /\ cbar' = [cbar EXCEPT ![c] = NoBar]

\* Mutant: a replay of the last bar passes the guard.
AcceptReplays(c) ==
  LET s == cbar[c][1]  t == cbar[c][2] IN
    /\ cpc[c] = "guard"
    /\ \/ t < lastClosed[s] /\ LeaveCall(c) /\ UNCHANGED lastClosed
       \/ /\ t >= lastClosed[s]
          /\ lastClosed' = [lastClosed EXCEPT ![s] = t]
          /\ cpc' = [cpc EXCEPT ![c] = "send"]
          /\ UNCHANGED cbar
    /\ UNCHANGED <<universe, sent, closedCh, workerVars, aggVars, pubVars, stopVars,
                   pushed, late>>

\* acceptClosed: under guardMu, a bar not newer than the last one is dropped.
acceptClosed(c) ==
  LET s == cbar[c][1]  t == cbar[c][2] IN
    /\ cpc[c] = "guard"
    /\ \/ t <= lastClosed[s] /\ LeaveCall(c) /\ UNCHANGED lastClosed
       \/ /\ t > lastClosed[s]
          /\ lastClosed' = [lastClosed EXCEPT ![s] = t]
          /\ cpc' = [cpc EXCEPT ![c] = "send"]
          /\ UNCHANGED cbar
    /\ UNCHANGED <<universe, sent, closedCh, workerVars, aggVars, pubVars, stopVars,
                   pushed, late>>

\* Mutant: the capacity of the queue is exceeded by one.
SendOverfills(c) ==
  /\ cpc[c] = "send"
  /\ LeaveCall(c)
  /\ closedCh' = IF Len(closedCh) <= QueueSize THEN Append(closedCh, cbar[c]) ELSE closedCh
  /\ late' = IF closed THEN late \cup {cbar[c]} ELSE late
  /\ UNCHANGED <<universe, sent, lastClosed, workerVars, aggVars, pubVars, stopVars,
                 pushed>>

\* The non-blocking send; on a full queue the bar is dropped (ErrBusy), and
\* the guard has already moved past it.  The parse error before it cannot
\* occur: toLiveBar has parsed the same fields, in the same way, for Arrive.
SendJob(c) ==
  /\ cpc[c] = "send"
  /\ LeaveCall(c)
  /\ \/ /\ Len(closedCh) < QueueSize
        /\ closedCh' = Append(closedCh, cbar[c])
        /\ late' = IF closed THEN late \cup {cbar[c]} ELSE late
     \/ Len(closedCh) >= QueueSize /\ UNCHANGED <<closedCh, late>>
  /\ UNCHANGED <<universe, sent, lastClosed, workerVars, aggVars, pubVars, stopVars,
                 pushed>>

-----------------------------------------------------------------------------
(* A worker. *)

\* Receive from closedCh, in the select loop or in drain.
TakeJob(w) ==
  /\ wpc[w] = "idle" /\ closedCh # <<>>
  /\ wbar' = [wbar EXCEPT ![w] = Head(closedCh)]
  /\ closedCh' = Tail(closedCh)
  /\ wpc' = [wpc EXCEPT ![w] = "push"]
  /\ UNCHANGED <<universe, callerVars, draining, aggVars, pubVars, stopVars, pushed, late>>

\* Mutant: a worker that sees stopCh exits at once.
WorkerStopExits(w) ==
  /\ wpc[w] = "idle" /\ w \notin draining
  /\ stopped \/ cancelled
  /\ closed' = (closed \/ ~stopped)
  /\ wpc' = [wpc EXCEPT ![w] = "exited"]
  /\ UNCHANGED <<universe, callerVars, closedCh, wbar, draining, aggVars, pubVars, stopped,
                 cancelled, closeDone, pushed, late>>

\* Mutant: a worker waits for the end of the context alone.
WorkerStopByContext(w) ==
  /\ wpc[w] = "idle" /\ w \notin draining
  /\ cancelled /\ closed' = TRUE
  /\ draining' = draining \cup {w}
  /\ UNCHANGED <<universe, callerVars, closedCh, wpc, wbar, aggVars, pubVars, stopped,
                 cancelled, closeDone, pushed, late>>

\* The select picks stopCh, or ctx.Done, which also sets closed.
WorkerStop(w) ==
  /\ wpc[w] = "idle" /\ w \notin draining
  /\ \/ stopped /\ UNCHANGED closed
     \/ cancelled /\ closed' = TRUE
  /\ draining' = draining \cup {w}
  /\ UNCHANGED <<universe, callerVars, closedCh, wpc, wbar, aggVars, pubVars, stopped,
                 cancelled, closeDone, pushed, late>>

WorkerExit(w) ==
  /\ wpc[w] = "idle" /\ w \in draining /\ closedCh = <<>>
  /\ wpc' = [wpc EXCEPT ![w] = "exited"]
  /\ UNCHANGED <<universe, callerVars, closedCh, wbar, draining, aggVars, pubVars, stopVars,
                 pushed, late>>

\* PushBarAndTrim, bounded by 5s.  Written, suppressed by the gate or failed,
\* the bar is archived and counted all the same.  The archive's
\* TryPush that follows changes nothing here: a full buffer is only counted.
PushWindow(w) ==
  /\ wpc[w] = "push"
  /\ wpc' = [wpc EXCEPT ![w] = "mark"]
  /\ pushed' = pushed \cup {wbar[w]}
  /\ UNCHANGED <<universe, callerVars, closedCh, wbar, draining, aggVars, pubVars, stopVars,
                 late>>

JobDone(w) ==
  /\ wpc'  = [wpc EXCEPT ![w] = "idle"]
  /\ wbar' = [wbar EXCEPT ![w] = NoBar]

\* Mutant: a symbol outside the universe is counted as well.
MarkCountsAll(w) ==
  /\ wpc[w] = "mark"
  /\ wpc' = [wpc EXCEPT ![w] = "locked"]
  /\ UNCHANGED <<universe, callerVars, closedCh, wbar, draining, aggVars, pubVars, stopVars,
                 pushed, late>>

\* mark, before the lock: a symbol outside the universe is not counted.
MarkHas(w) ==
  /\ wpc[w] = "mark"
  /\ \/ wbar[w][1] \notin universe /\ JobDone(w)
     \/ /\ wbar[w][1] \in universe
        /\ wpc' = [wpc EXCEPT ![w] = "locked"]
        /\ UNCHANGED wbar
  /\ UNCHANGED <<universe, callerVars, closedCh, draining, aggVars, pubVars, stopVars,
                 pushed, late>>

Publish(p, t, syms) ==
  /\ ppc' = [ppc EXCEPT ![p] = "check"]
  /\ pev' = [pev EXCEPT ![p] = [t |-> t, symbols |-> syms, todo |-> {}]]

\* Mutant: the fallback timer of a new section is never started.
SectionWithoutTimer(t) ==
  IF sections[t].open THEN sections[t]
  ELSE [open |-> TRUE, symbols |-> {}, published |-> FALSE, timer |-> "none"]

\* The section a mark finds, or creates with its fallback timer.
SectionAt(t) ==
  IF sections[t].open THEN sections[t]
  ELSE [open |-> TRUE, symbols |-> {}, published |-> FALSE, timer |-> "completion"]

\* The test counts symbols; it does not compare them with the universe.
Completes(syms) == universe # {} /\ Cardinality(syms) >= Cardinality(universe)

\* mark, under aggregator.mu.
Mark(w) ==
  LET s == wbar[w][1]  t == wbar[w][2]
      st == SectionAt(t)
      syms == st.symbols \cup {s}
  IN
    /\ wpc[w] = "locked"
    /\ opened' = [opened EXCEPT ![t] = IF sections[t].open THEN @ ELSE @ + 1]
    /\ \/ /\ st.published
          /\ JobDone(w)
          /\ UNCHANGED <<sections, missed, ppc, pev>>
       \/ /\ ~st.published /\ ~Completes(syms)
          /\ sections' = [sections EXCEPT ![t] = [st EXCEPT !.symbols = syms]]
          /\ JobDone(w)
          /\ UNCHANGED <<missed, ppc, pev>>
       \/ /\ ~st.published /\ Completes(syms)
          /\ sections' = [sections EXCEPT ![t] =
                 [st EXCEPT !.symbols = syms, !.published = TRUE, !.timer = "none"]]
          /\ missed' = [missed EXCEPT ![t] = universe \ syms]
          /\ Publish(w, t, syms)
          /\ wpc' = [wpc EXCEPT ![w] = "publish"]
          /\ UNCHANGED wbar
    /\ UNCHANGED <<universe, left, callerVars, closedCh, draining, ready, strays, stopVars,
                   pushed, late>>

-----------------------------------------------------------------------------
(* The timers of the aggregator. *)

\* Mutant: the fallback publishes without closing the section.
TimeoutLeavesOpen(t) ==
  /\ sections[t].timer = "completion"
  /\ sections' = [sections EXCEPT ![t].timer = "none"]
  /\ Publish(<<"timer", t>>, t, sections[t].symbols)
  /\ UNCHANGED <<universe, callerVars, closedCh, workerVars, opened, missed, left, ready,
                 strays, stopVars, pushed, late>>

\* A completion timer that fires on a published section finds it published
\* and returns, so only the unpublished case is a step.
onTimeout(t) ==
  /\ sections[t].timer = "completion"
  /\ sections' = [sections EXCEPT ![t].timer = "none", ![t].published = TRUE]
  /\ Publish(<<"timer", t>>, t, sections[t].symbols)
  /\ UNCHANGED <<universe, callerVars, closedCh, workerVars, opened, missed, left, ready,
                 strays, stopVars, pushed, late>>

evict(t) ==
  /\ sections[t].timer = "retention"
  /\ sections' = [sections EXCEPT ![t] = NoSection]
  /\ UNCHANGED <<universe, callerVars, closedCh, workerVars, opened, missed, left, pubVars,
                 stopVars, pushed, late>>

-----------------------------------------------------------------------------
(* publish and publishDerived, by the worker that completed the section or *)
(* by the timer's goroutine.                                               *)

\* publish returns to mark or ends the timer's goroutine.
Return(p) ==
  /\ ppc' = [ppc EXCEPT ![p] = "none"]
  /\ pev' = [pev EXCEPT ![p] = NoEvent]
  /\ \/ p \in Workers /\ JobDone(p)
     \/ p \notin Workers /\ UNCHANGED <<wpc, wbar>>

PublishCheck(p) ==
  /\ ppc[p] = "check"
  /\ \/ closed /\ Return(p)
     \/ /\ ~closed
        /\ ppc' = [ppc EXCEPT ![p] = "send"]
        /\ UNCHANGED <<wpc, wbar, pev>>
  /\ UNCHANGED <<universe, callerVars, closedCh, draining, aggVars, ready, strays,
                 stopVars, pushed, late>>

\* The coarser intervals whose bucket the base bar at t closes.
ClosedBy(t) == {d \in Derived : (t + 1) % d = 0}

Announce(p, b) ==
  /\ ready'  = [ready EXCEPT ![b] = @ + 1]
  /\ strays' = IF closed THEN [strays EXCEPT ![p] = @ + 1] ELSE strays

\* Mutant: the cascade also follows a base event the gate suppressed.
PublishSendAlwaysCascades(p) ==
  LET t == pev[p].t IN
    /\ ppc[p] = "send"
    /\ Announce(p, <<1, t>>) \/ UNCHANGED <<ready, strays>>
    /\ pev' = [pev EXCEPT ![p].todo = ClosedBy(t)]
    /\ ppc' = [ppc EXCEPT ![p] = "derive"]
    /\ UNCHANGED <<universe, callerVars, closedCh, workerVars, aggVars, stopVars, pushed,
                   late>>

\* PublishKlineReady for the base interval: sent, or suppressed by the gate
\* (empty id), or failed.  Neither of the last two is tried again.
PublishSend(p) ==
  LET t == pev[p].t IN
    /\ ppc[p] = "send"
    /\ \/ /\ Announce(p, <<1, t>>)
          /\ pev' = [pev EXCEPT ![p].todo = ClosedBy(t)]
          /\ ppc' = [ppc EXCEPT ![p] = "derive"]
       \/ /\ ppc' = [ppc EXCEPT ![p] = "retain"]
          /\ UNCHANGED <<pev, ready, strays>>
    /\ UNCHANGED <<universe, callerVars, closedCh, workerVars, aggVars, stopVars, pushed,
                   late>>

\* Mutant: the cascade does not look at closed.
DeriveUnchecked(p) ==
  /\ ppc[p] = "derive"
  /\ ppc' = [ppc EXCEPT ![p] = IF pev[p].todo = {} THEN "retain" ELSE "sendDerived"]
  /\ UNCHANGED <<universe, callerVars, closedCh, workerVars, aggVars, pev, ready, strays,
                 stopVars, pushed, late>>

\* publishDerived checks closed before each event.
DeriveCheck(p) ==
  /\ ppc[p] = "derive"
  /\ ppc' = [ppc EXCEPT ![p] =
               IF pev[p].todo = {} \/ closed THEN "retain" ELSE "sendDerived"]
  /\ UNCHANGED <<universe, callerVars, closedCh, workerVars, aggVars, pev, ready, strays,
                 stopVars, pushed, late>>

DeriveSend(p) ==
  LET t == pev[p].t IN
    /\ ppc[p] = "sendDerived"
    /\ \E d \in pev[p].todo :
         /\ Announce(p, <<d, t - d + 1>>) \/ UNCHANGED <<ready, strays>>
         /\ pev' = [pev EXCEPT ![p].todo = @ \ {d}]
    /\ ppc' = [ppc EXCEPT ![p] = "derive"]
    /\ UNCHANGED <<universe, callerVars, closedCh, workerVars, aggVars, stopVars, pushed,
                   late>>

\* The retention timer starts, under aggregator.mu.
Retain(p) ==
  LET t == pev[p].t IN
    /\ ppc[p] = "retain"
    /\ sections' = IF sections[t].open
                   THEN [sections EXCEPT ![t].timer = "retention"] ELSE sections
    /\ Return(p)
    /\ UNCHANGED <<universe, callerVars, closedCh, draining, opened, missed, left, ready,
                   strays, stopVars, pushed, late>>

-----------------------------------------------------------------------------
(* The environment and Close. *)

\* The bars of the sections not yet published, and those past Has.
Counted ==
  {b \in Bars : ~sections[b[2]].published /\ b[1] \in sections[b[2]].symbols}
    \cup {wbar[w] : w \in {v \in Workers : wpc[v] = "locked"}}

\* Monitor.Refresh replaces the set that Has and Size read.
Refresh ==
  /\ universe' \in Universes \ {universe}
  /\ left' = left \cup {b \in Counted : b[1] \in universe \ universe'}
  /\ UNCHANGED <<sections, opened, missed, callerVars, closedCh, workerVars, pubVars, stopVars,
                 pushed, late>>

CancelContext ==
  /\ MayStop /\ ~cancelled
  /\ cancelled' = TRUE
  /\ UNCHANGED <<universe, callerVars, closedCh, workerVars, aggVars, pubVars, closed,
                 stopped, closeDone, pushed, late>>

CloseStore ==
  /\ MayStop /\ ~closed
  /\ closed' = TRUE
  /\ UNCHANGED <<universe, callerVars, closedCh, workerVars, aggVars, pubVars, stopped,
                 cancelled, closeDone, pushed, late>>

\* After a cancelled context Close finds closed already stored.
CloseSignal ==
  /\ closed /\ ~stopped
  /\ stopped' = TRUE
  /\ UNCHANGED <<universe, callerVars, closedCh, workerVars, aggVars, pubVars, closed,
                 cancelled, closeDone, pushed, late>>

StopTimers == sections' = [t \in Times |-> [sections[t] EXCEPT !.timer = "none"]]

\* wg.Wait, then agg.stop.
CloseReturn ==
  /\ stopped /\ ~closeDone
  /\ \A w \in Workers : wpc[w] = "exited"
  /\ StopTimers
  /\ closeDone' = TRUE
  /\ UNCHANGED <<universe, callerVars, closedCh, workerVars, opened, missed, left, pubVars,
                 closed, stopped, cancelled, pushed, late>>

-----------------------------------------------------------------------------

Caller(c) == acceptClosed(c) \/ SendJob(c)

WorkerStep(w) ==
  \/ TakeJob(w) \/ WorkerStop(w) \/ WorkerExit(w)
  \/ PushWindow(w) \/ MarkHas(w) \/ Mark(w)

PublishStep(p) ==
  PublishCheck(p) \/ PublishSend(p) \/ DeriveCheck(p) \/ DeriveSend(p) \/ Retain(p)

Next ==
  \/ \E c \in Callers, b \in Bars : Arrive(c, b)
  \/ \E c \in Callers : Caller(c)
  \/ \E w \in Workers : WorkerStep(w)
  \/ \E p \in Publishers : PublishStep(p)
  \/ \E t \in Times : onTimeout(t) \/ evict(t)
  \/ Refresh
  \/ CancelContext \/ CloseStore \/ CloseSignal \/ CloseReturn

Spec == Init /\ [][Next]_vars

\* Goroutines that can run do run, every sink call is bounded by a timeout of
\* 5s, and the runtime fires timers.
Fairness ==
  /\ \A c \in Callers : WF_vars(Caller(c))
  /\ \A w \in Workers : WF_vars(WorkerStep(w))
  /\ \A p \in Publishers : WF_vars(PublishStep(p))
  /\ \A t \in Times : WF_vars(onTimeout(t))
  /\ WF_vars(CloseSignal) /\ WF_vars(CloseReturn)

FairSpec == Spec /\ Fairness

-----------------------------------------------------------------------------
Queued     == {closedCh[i] : i \in 1..Len(closedCh)}
InHand     == {wbar[w] : w \in {v \in Workers : wpc[v] = "push"}}

(* A closed bar is handled at most once, however often it is replayed and  *)
(* however the callbacks interleave: it is not queued twice, not queued    *)
(* while a worker has it, and not queued again after it was pushed.        *)
NoBarHandledTwice ==
  /\ \A i, j \in 1..Len(closedCh) : i # j => closedCh[i] # closedCh[j]
  /\ Queued \cap (InHand \cup pushed) = {}
  /\ InHand \cap pushed = {}
  /\ \A v, w \in Workers :
       v # w /\ wpc[v] = "push" /\ wpc[w] = "push" => wbar[v] # wbar[w]

(* One section sends at most one kline_ready: completion and the fallback  *)
(* timer never both publish it.  (The state is well typed besides.)        *)
OneReadyPerSection == TypeOK /\ \A t \in Times : ready[<<1, t>>] <= opened[t]

(* A coarser kline_ready is sent only on the heels of one that was sent    *)
(* for the base bar that closes its bucket, and at most once for each.     *)
DerivedFollowsBase ==
  \A d \in Derived, t \in Times :
    (t + 1) % d = 0 => ready[<<d, t - d + 1>>] <= ready[<<1, t>>]

(* A section that is open is published in the end, or Close has returned:  *)
(* neither a missing symbol nor a stuck worker silences it.                *)
SectionsArePublished ==
  \A t \in Times :
    (sections[t].open /\ ~sections[t].published) ~> (sections[t].published \/ closeDone)

(* A queued bar reaches the window push: Close and the end of the context  *)
(* drain the queue before Close returns.  What they leave was sent by a    *)
(* callback that passed the closed check before and reached the queue      *)
(* after.                                                                  *)
QueuedBarsArePushed ==
  \A b \in Bars : (b \in Queued) ~> (b \in pushed \/ (closeDone /\ b \in late))

(* The safety half of SectionsArePublished, and what keeps sections from   *)
(* piling up: until Close has returned an unpublished section has its      *)
(* fallback timer, and until Close begins a published one has its          *)
(* retention timer or a goroutine in publish that is to start it (mark,    *)
(* publish, stop).                                                         *)
SectionsOnTheirWay ==
  \A t \in Times : sections[t].open =>
    /\ ~sections[t].published => sections[t].timer = "completion" \/ closeDone
    /\ sections[t].published =>
         \/ sections[t].timer = "retention" \/ closed
         \/ \E p \in Publishers : ppc[p] # "none" /\ pev[p].t = t

(* The safety half of QueuedBarsArePushed: when Close has returned no      *)
(* worker holds a bar that is still to be pushed, and what the queue       *)
(* holds was sent by a callback after closed was set.  A worker that       *)
(* drained early does not leave behind what was queued in time.            *)
ClosedIsDrained == closeDone => InHand = {} /\ Queued \subseteq late

(* Close returns: the workers see stopCh, drain what callers that had       *)
(* passed the closed check still queue, and leave publish.                 *)
CloseReturns == stopped ~> closeDone

(* mark compares how many symbols a section has with how many the universe *)
(* has now.  A complete section may so lack symbols of the universe, but   *)
(* no more of them than were counted for it and delisted while it was      *)
(* open: listings alone never complete it early, and a symbol outside the  *)
(* universe does not count.                                                *)
MissedAreReplaced ==
  \A t \in Times :
    Cardinality(missed[t]) <= Cardinality({s \in Symbols : <<s, t>> \in left})

(* What aggregator.go:31-33 says: without the timer an event is sent when  *)
(* every symbol of the universe is in.                                     *)
CompleteMeansEverySymbol == \A t \in Times : missed[t] = {}

(* The goroutines of timers and the callers of publish look at closed      *)
(* before each event but send it after that, and Close does not wait for   *)
(* the timers': each of them sends at most one event once closed is set.   *)
OneEventAfterClosed == \A p \in Publishers : strays[p] <= 1

(* What aggregator.go:228 says of stop: no timer is left after Close.      *)
NothingFiresAfterClose == closeDone => \A t \in Times : sections[t].timer = "none"
=============================================================================
