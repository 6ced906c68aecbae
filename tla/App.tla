--------------------------------- MODULE App ---------------------------------
(***************************************************************************)
(* The wiring of the service (internal/app/app.go) with the universe       *)
(* monitor (internal/universe/monitor.go) and the live bar writer: New,    *)
(* Run or runBackfillOnly, the refreshes of the universe and what they set *)
(* off, and Shutdown, from wherever it is called.                          *)
(*                                                                         *)
(* Of the other components the model keeps whether the goroutines that     *)
(* their Close waits for run ("on"), from the step that starts them to the *)
(* return of that Close; modules of their own describe what they do, and   *)
(* Dispatcher and LiveBarWriter what no Close waits for (the aggregator's  *)
(* timers, a callback of the connector).  One root context reaches all     *)
(* of them (cmd/chomosyncer-go/main.go gives New and Run the same).        *)
(***************************************************************************)
EXTENDS LiveBarWriter, SequencesExt

CONSTANTS
  Symbols,
  Modes,        (* "live", "plain" (live without backfill) or "offline"    *)
  Hangs,        (* sets of components whose Close may never return         *)
  Listed,       (* the symbols listed at first                             *)
  MaxEvents,    (* bound on listings and live snapshots together           *)
  MaxAbandoned  (* bound on the steps of Shutdown that time out            *)

ASSUME AppAssumption ==
  /\ Modes \subseteq {"live", "plain", "offline"}
  /\ Listed \subseteq Symbols
  /\ MaxEvents \in Nat /\ MaxAbandoned \in Nat

VARIABLES
  mode,
  main,       (* where New, Run and Shutdown stand                         *)
  built,      (* the components New has made                               *)
  on,         (* those whose goroutines or connections are there           *)
  step,       (* Shutdown's current step                                   *)
  expired,    (* Shutdown's deadline has passed                            *)
  abandoned,  (* the steps it did not wait for                             *)
  hangs,
  listing,    (* the symbols the exchange lists                            *)
  snap,       (* Monitor.snap                                              *)
  mon,        (* the refresh: where it stands, its symbols, the new ones   *)
  stop,       (* Monitor.stopCh                                            *)
  desired,    (* what the collector was told to subscribe                  *)
  prevSymbols, coldStartSubmitted,
  coldKeys,   (* Run's syms                                                *)
  coldDone,   (* the backfiller's coldStartDone                            *)
  events,
  asked,      (* history: the listed symbols a backfill was asked for      *)
  raced       (* history: those a refresh added between Snapshot and Store *)

lifeVars == <<main, on, step, expired, abandoned, stop>>
monVars  == <<listing, snap, mon, desired, prevSymbols, asked, raced>>
coldVars == <<coldStartSubmitted, coldKeys, coldDone>>
fixed    == <<mode, built, hangs>>
vars == <<ctx, liveVars, fixed, lifeVars, monVars, coldVars, events>>

Clients == {"redis_closed", "redis_live", "clickhouse_store"}

\* The order in which New makes the components.
BuildOrder ==
  CASE mode = "offline" ->
         <<"metrics", "redis_closed", "redis_live", "clickhouse_writer", "universe",
           "clickhouse_store", "backfiller">>
    [] mode = "plain" ->
         <<"metrics", "redis_closed", "redis_live", "clickhouse_writer", "live_writer", "universe",
           "dispatcher", "collector", "openinterest">>
    [] mode = "live" ->
         <<"metrics", "redis_closed", "redis_live", "clickhouse_writer", "live_writer", "universe",
           "dispatcher", "clickhouse_store", "backfiller", "sweeper", "collector", "openinterest">>

\* The order in which Shutdown closes them.
ShutdownOrder ==
  <<"collector", "sweeper", "openinterest", "backfiller", "dispatcher", "live_writer",
    "clickhouse_writer", "universe", "clickhouse_store", "redis_closed", "redis_live", "metrics">>

NoRefresh == [at |-> "off", symbols |-> {}, added |-> {}]

TypeOK ==
  /\ LiveTypeOK
  /\ mode \in Modes /\ hangs \in Hangs
  /\ main \in {"new", "metrics", "universe", "snapshot", "flag", "coldstart", "openinterest",
               "wait", "waitcold", "close", "closing", "done"}
  /\ built \subseteq ToSet(ShutdownOrder) /\ on \subseteq built /\ abandoned \subseteq built
  /\ step \in 0..Len(ShutdownOrder)
  /\ expired \in BOOLEAN /\ stop \in BOOLEAN
  /\ {listing, snap, desired, prevSymbols, coldKeys, asked, raced} \subseteq SUBSET Symbols
  /\ mon.at \in {"off", "wait", "fetch", "notify", "diff", "submit", "gone"}
  /\ mon.symbols \subseteq Symbols /\ mon.added \subseteq mon.symbols
  /\ {coldStartSubmitted, coldDone} \subseteq BOOLEAN
  /\ events \in 0..MaxEvents

Init ==
  /\ LiveInit
  /\ mode \in Modes /\ hangs \in Hangs
  /\ main = "new" /\ built = {} /\ on = {} /\ step = 0
  /\ expired = FALSE /\ abandoned = {} /\ stop = FALSE
  /\ listing = Listed
  /\ snap = {} /\ mon = NoRefresh
  /\ desired = {} /\ prevSymbols = {} /\ asked = {} /\ raced = {}
  /\ coldStartSubmitted = FALSE /\ coldKeys = {} /\ coldDone = FALSE
  /\ events = 0

Event == events < MaxEvents /\ events' = events + 1

-----------------------------------------------------------------------------
(* New. *)

made(comps) ==
  /\ built' = comps
  /\ on' = comps \cap (Clients \cup {"clickhouse_writer", "live_writer", "dispatcher", "collector"})
  /\ IF "live_writer" \in comps THEN StartWorkers ELSE UNCHANGED worker
  /\ UNCHANGED <<ctx, lClosed, lStop, input, sending, mode, hangs, step, expired,
                 abandoned, stop, monVars, coldVars, events>>

New ==
  /\ main = "new"
  /\ made(ToSet(BuildOrder))
  /\ main' = "metrics"

\* A constructor fails: Shutdown gets what there is, some of the ClickHouse
\* writers perhaps.  Clients and the monitor do no I/O when they are made.
NewFails ==
  /\ main = "new"
  /\ \E k \in DOMAIN BuildOrder :
       /\ BuildOrder[k] \notin {"redis_closed", "redis_live", "universe"}
       /\ \/ made(ToSet(SubSeq(BuildOrder, 1, k - 1)))
          \/ BuildOrder[k] = "clickhouse_writer" /\ made(ToSet(SubSeq(BuildOrder, 1, k)))
  /\ main' = "close"

-----------------------------------------------------------------------------
(* Run and runBackfillOnly. *)

\* What Run does next when a step of its own has succeeded or failed.
proceed(next) == main' = next /\ UNCHANGED <<step, expired, abandoned, stop>>

\* metrics.Start, backfiller.Start and the first refresh of univ.Start.
StartMetrics ==
  /\ main = "metrics"
  /\ \/ proceed("close") /\ UNCHANGED <<on, mon>>
     \/ /\ proceed("universe")
        /\ on' = on \cup {"metrics"} \cup (built \cap {"backfiller"})
        /\ mon' = [mon EXCEPT !.at = "fetch"]
  /\ UNCHANGED <<ctx, liveVars, fixed, listing, snap, desired, prevSymbols, asked, raced, coldVars, events>>

\* The first refresh is done: the loop starts.
StartUniverse ==
  /\ main = "universe" /\ mon.at = "wait"
  /\ on' = on \cup {"universe"}
  /\ proceed(IF "backfiller" \in built THEN "snapshot" ELSE "openinterest")
  /\ UNCHANGED <<ctx, liveVars, fixed, monVars, coldVars, events>>

TakeSnapshot ==
  /\ main = "snapshot"
  /\ coldKeys' = snap
  /\ proceed("flag")
  /\ UNCHANGED <<ctx, liveVars, fixed, on, monVars, coldStartSubmitted, coldDone, events>>

SetFlag ==
  /\ main = "flag"
  /\ coldStartSubmitted' = TRUE
  /\ proceed("coldstart")
  /\ UNCHANGED <<ctx, liveVars, fixed, on, monVars, coldKeys, coldDone, events>>

\* SubmitColdStart; the sweeper starts.
SubmitColdStart ==
  /\ main = "coldstart"
  /\ asked' = asked \cup coldKeys
  /\ coldDone' = (coldKeys = {})
  /\ on' = on \cup (built \cap {"sweeper"})
  /\ proceed(IF mode = "offline" THEN "waitcold" ELSE "openinterest")
  /\ UNCHANGED <<ctx, liveVars, fixed, listing, snap, mon, desired, prevSymbols, raced,
                 coldStartSubmitted, coldKeys, events>>

StartOpenInterest ==
  /\ main = "openinterest"
  /\ \/ proceed("close") /\ UNCHANGED on
     \/ on' = on \cup {"openinterest"} /\ proceed("wait")
  /\ UNCHANGED <<ctx, liveVars, fixed, monVars, coldVars, events>>

\* The runner has processed the cold start, or left it when its context ended;
\* only offline does anybody here wait for that.
EndColdStart ==
  /\ main = "waitcold" /\ ~coldDone
  /\ coldDone' = TRUE
  /\ UNCHANGED <<ctx, liveVars, fixed, lifeVars, monVars, coldStartSubmitted, coldKeys, events>>

\* <-ctx.Done(), or WaitColdStart returns.
StopRunning ==
  /\ \/ main = "wait" /\ ctx
     \/ main = "waitcold" /\ (ctx \/ coldDone)
  /\ proceed("close")
  /\ UNCHANGED <<ctx, liveVars, fixed, on, monVars, coldVars, events>>

Main == New \/ NewFails \/ StartMetrics \/ StartUniverse \/ TakeSnapshot \/ SetFlag \/ SubmitColdStart
        \/ StartOpenInterest \/ StopRunning

-----------------------------------------------------------------------------
(* Refresh and onUniverseChange. *)

refresh(at) == mon' = [mon EXCEPT !.at = at]

\* The timer of the loop (a select that begins with the context done leaves
\* long before it fires); a refresh that would find nothing new is left out.
RefreshDue ==
  /\ mon.at = "wait" /\ "universe" \in on /\ ~ctx /\ ~stop
  /\ listing # snap
  /\ refresh("fetch")
  /\ UNCHANGED <<ctx, liveVars, fixed, lifeVars, listing, snap, desired, prevSymbols, asked, raced, coldVars, events>>

\* The exchange does not answer, or the context ends: the first refresh fails
\* Run, a later one leaves everything as it is.
FetchFails ==
  /\ mon.at = "fetch"
  /\ IF main = "universe" /\ "universe" \notin on
     THEN mon' = NoRefresh /\ main' = "close"
     ELSE refresh("wait") /\ UNCHANGED main
  /\ UNCHANGED <<ctx, liveVars, fixed, on, step, expired, abandoned, stop, listing, snap, desired,
                 prevSymbols, asked, raced, coldVars, events>>

\* The answer is stored.
Fetched ==
  /\ mon.at = "fetch"
  /\ snap' = listing
  /\ mon' = [at |-> "notify", symbols |-> listing, added |-> {}]
  /\ UNCHANGED <<ctx, liveVars, fixed, lifeVars, listing, desired, prevSymbols, asked, raced, coldVars, events>>

\* No subscriber in offline mode does anything; SetSymbols ignores the call when
\* the collector has been closed.
SetSymbols ==
  /\ mon.at = "notify"
  /\ desired' = IF "collector" \in on /\ step = 0 THEN mon.symbols ELSE desired
  /\ IF mode = "live" THEN refresh("diff") ELSE mon' = [NoRefresh EXCEPT !.at = "wait"]
  /\ UNCHANGED <<ctx, liveVars, fixed, lifeVars, listing, snap, prevSymbols, asked, raced, coldVars, events>>

\* Mutant: a symbol that was delisted is still known.
nextGrowing == prevSymbols \cup mon.symbols

next == mon.symbols

added == mon.symbols \ prevSymbols

Diff ==
  /\ mon.at = "diff"
  /\ mon' = [mon EXCEPT !.at = "submit", !.added = added]
  /\ prevSymbols' = next
  /\ asked' = asked \cap mon.symbols
  /\ UNCHANGED <<ctx, liveVars, fixed, lifeVars, listing, snap, desired, raced, coldVars, events>>

\* The backfill of what was added, once the cold start has its symbols.
SubmitAdded ==
  /\ mon.at = "submit"
  /\ asked' = IF coldStartSubmitted THEN asked \cup mon.added ELSE asked
  /\ raced' = IF main = "flag" THEN raced \cup (mon.added \ coldKeys) ELSE raced
  /\ mon' = [NoRefresh EXCEPT !.at = "wait"]
  /\ UNCHANGED <<ctx, liveVars, fixed, lifeVars, listing, snap, desired, prevSymbols, coldVars, events>>

\* The context, or Close, ends the loop.
LoopEnds ==
  /\ mon.at = "wait" /\ "universe" \in on
  /\ ctx \/ stop
  /\ refresh("gone")
  /\ UNCHANGED <<ctx, liveVars, fixed, lifeVars, listing, snap, desired, prevSymbols, asked, raced, coldVars, events>>

Refresh == FetchFails \/ Fetched \/ SetSymbols \/ Diff \/ SubmitAdded \/ LoopEnds

-----------------------------------------------------------------------------
(* Shutdown. *)

\* The next component that was made, 0 when there is none.
nextStep ==
  LET left == {i \in DOMAIN ShutdownOrder : i > step /\ ShutdownOrder[i] \in built}
  IN  IF left = {} THEN 0 ELSE CHOOSE i \in left : \A j \in left : i <= j

\* closeStep calls Close in a goroutine.
CloseNext ==
  /\ main = "close"
  /\ IF nextStep = 0
     THEN main' = "done" /\ UNCHANGED <<step, stop, lClosed, lStop>>
     ELSE /\ main' = "closing" /\ step' = nextStep
          /\ stop' = (stop \/ ShutdownOrder[nextStep] = "universe")
          /\ IF ShutdownOrder[nextStep] = "live_writer" THEN CloseLive ELSE UNCHANGED <<lClosed, lStop>>
  /\ UNCHANGED <<ctx, input, worker, sending, fixed, on, expired, abandoned, monVars, coldVars, events>>

\* Mutant: Monitor.Close does not wait for the loop.
GoneUnwaited(c) == c \notin hangs /\ (c = "live_writer" => WorkersGone)

\* The goroutines Close waits for have gone.
Gone(c) ==
  /\ c \notin hangs
  /\ c = "live_writer" => WorkersGone
  /\ c = "universe" => mon.at = "gone" \/ c \notin on

CloseDone ==
  /\ main = "closing"
  /\ Gone(ShutdownOrder[step])
  /\ on' = on \ {ShutdownOrder[step]}
  /\ main' = "close"
  /\ UNCHANGED <<ctx, liveVars, fixed, step, expired, abandoned, stop, monVars, coldVars, events>>

\* Mutant: Close is called again.
AbandonRetries ==
  /\ main = "closing" /\ expired
  /\ main' = "close" /\ step' = step - 1
  /\ UNCHANGED <<ctx, liveVars, fixed, on, expired, abandoned, stop, monVars, coldVars, events>>

\* The deadline has passed: the goroutine of the step is left alone.
Abandon ==
  /\ main = "closing" /\ expired
  /\ Cardinality(abandoned) < MaxAbandoned
  /\ abandoned' = abandoned \cup {ShutdownOrder[step]}
  /\ main' = "close"
  /\ UNCHANGED <<ctx, liveVars, fixed, on, step, expired, stop, monVars, coldVars, events>>

Deadline ==
  /\ main \in {"close", "closing"} /\ ~expired
  /\ expired' = TRUE
  /\ UNCHANGED <<ctx, liveVars, fixed, main, on, step, abandoned, stop, monVars, coldVars, events>>

Shutdown == CloseNext \/ CloseDone \/ Abandon

-----------------------------------------------------------------------------

\* SIGINT or SIGTERM.
Signal ==
  /\ ~ctx /\ main # "done"
  /\ ctx' = TRUE
  /\ UNCHANGED <<liveVars, fixed, lifeVars, monVars, coldVars, events>>

\* A symbol is listed or delisted.
List ==
  /\ main # "done"
  /\ Event
  /\ \E s \in Symbols : listing' = IF s \in listing THEN listing \ {s} ELSE listing \cup {s}
  /\ UNCHANGED <<ctx, liveVars, fixed, lifeVars, snap, mon, desired, prevSymbols, asked, raced, coldVars>>

\* A frame arrives while the collector runs and has something to subscribe; one
\* that is in a callback when Close returns may still be sent.
Receive(p) ==
  /\ "collector" \in on /\ desired # {}
  /\ TryEnqueue(p)
  /\ Event
  /\ UNCHANGED <<fixed, lifeVars, monVars, coldVars>>

Live ==
  /\ \E p \in Producers : Send(p)
  /\ UNCHANGED <<fixed, lifeVars, monVars, coldVars, events>>

LiveWorker(w) ==
  /\ LiveStep(w)
  /\ UNCHANGED <<fixed, lifeVars, monVars, coldVars, events>>

\* The process has ended.
Exited == main = "done" /\ UNCHANGED vars

Next ==
  \/ Main \/ EndColdStart \/ Refresh \/ RefreshDue \/ Shutdown \/ Deadline
  \/ Signal \/ List \/ Live \/ Exited
  \/ \E p \in Producers : Receive(p)
  \/ \E w \in Workers : LiveWorker(w)

Spec == Init /\ [][Next]_vars

\* The goroutines run, the clock reaches the deadline, and a refresh that has
\* begun ends within its two minutes.
FairSpec ==
  /\ Spec
  /\ WF_vars(Main) /\ WF_vars(Refresh) /\ WF_vars(Shutdown) /\ WF_vars(Deadline)
  /\ \A w \in Workers : WF_vars(LiveWorker(w))

-----------------------------------------------------------------------------

(* Wherever Shutdown is called, from New with half of the components made, *)
(* from Run or after a signal, it stops all that runs but what it says it  *)
(* has abandoned.                                                          *)
(* The state is well typed besides.                                        *)
ShutdownStopsAll ==
  /\ TypeOK
  /\ main = "done" =>
       /\ on \subseteq abandoned
       /\ ~WorkersGone => "live_writer" \in abandoned
       /\ mon.at \notin {"off", "gone"} => "universe" \in abandoned

(* A symbol the collector subscribes has been given to the backfiller, in  *)
(* the cold start or when it was added, once or again after it was         *)
(* delisted; but for a refresh that falls between Run's Snapshot and the   *)
(* Store after it.                                                         *)
SubscribedIsRepaired ==
  mode = "live" /\ main \in {"openinterest", "wait"} /\ mon.at = "wait" =>
    desired \subseteq asked \cup raced

(* What docs/DATA_FLOW_AND_STRUCTURES.md:634 and app.go:425-426 say: a     *)
(* symbol that comes into the universe is submitted, or the cold start     *)
(* covers it.                                                              *)
EverySymbolIsSubmitted ==
  mode = "live" /\ main \in {"openinterest", "wait"} /\ mon.at = "wait" =>
    desired \subseteq asked

(* A signal ends the process although a Close hangs, and so does an error  *)
(* of New or Run.                                                          *)
ShutdownReturns == <>[](ctx \/ main = "close" => main = "done")
=============================================================================
