# Verification of ChomoSyncer-go

ChomoSyncer-go takes closed and open candlesticks of every Binance USD-M
perpetual from websockets, keeps a fixed-length window of the newest closed bars
of each (symbol, interval) in Redis, archives every closed bar in ClickHouse,
and announces on a Redis stream when all symbols of a cross-section are in.
When a connection was lost, or at start, it refills the archive over REST and
rebuilds the windows from the archive while live data keeps coming. A second
set of components archives open interest and long/short ratios.

This directory holds TLA+ modules of that program, the TLC configurations that
model-check them and proofs for the TLA+ proof system (tlapm).

## 1. Inventory

Paths are under `src/internal/`. "Hard" names what a test would hardly reach.

| component | state | operations | talks to | hard | should hold |
|---|---|---|---|---|---|
| window gate `windowgate/` | hold count per (symbol, interval), held keys per interval | Hold, Release, HeldWindow, HeldInterval; gated writer and publisher | held by backfill, read by dispatcher workers | overlapping holders; a check that is stale when it is used | the two counts agree; a key under rebuild is held, and held no longer |
| backfill requests `backfill/backfill.go` | inflight set, queue, gapSeen, cold-start flags | Submit, SubmitColdStart, HandleGap, run, process, drain, Close | gate, REST, archive writer, ClickHouse, Redis | duplicates, full queue, shutdown between two steps | one owner per key, every hold returned, every sweep answered, readiness not wedged |
| dispatcher `dispatcher/dispatcher.go` | last bar per symbol, queue, workers | HandleKlineEvent, worker, drain, Close | gate-wrapped Redis writer, archive writer, aggregator | replayed and concurrent bars, full queue, shutdown | no bar twice, no bar forgotten, Close ends |
| aggregator `dispatcher/aggregator.go` | sections with symbols and timers | mark, onTimeout, publish, publishDerived, evict, stop | ready publisher, universe | completion against timeout, eviction, universe change, shutdown | one event per section, after the windows |
| Redis window writer `rediswin/writer.go` | the list of each key | PushBarAndTrim, RebuildWindow, PublishKlineReady | Redis | pushes out of order, rebuild against push | newest first, bounded |
| archive writer `chwriter/writer.go` | channel, batch, barrier | TryPush, Push, Flush, Close, run loop | ClickHouse | retries under another caller's context, shutdown | each row once, Flush is a barrier |
| live bar writer `rediswin/livebar_writer.go` | queue | TryEnqueue, Enqueue, Close, workers | Redis | closed-check against drain; frames of one key out of order | drains on Close |
| REST pager `backfill/rest.go` | none | FetchStream | exchange, weight gate | page boundaries, partial page, a cursor between bars | a range that was fetched is whole |
| archive sweep `backfill/sweep.go` | known-empty ranges | SweepOnce, FindGaps | ClickHouse, backfill requests | a failing hole at the cap, an empty range suppressed | every hole is repaired in the end |
| collector and shards `collector/` | desired and applied streams per shard | SetSymbols, supervise, connect, pump, report gap | exchange, dispatcher, backfill | reconnect storms, a delta during a reconnect | streams follow the universe, each outage is reported |
| universe monitor `universe/` | symbol set | Refresh, loop | exchange, collector, dispatcher, app | failed or shrunken refresh, a refresh that races the start | what is subscribed has been backfilled |
| weight gate `weightgate/` | token buckets, used weight, pause | Wait, Observe, PauseFor | every REST caller | pause during a sleep, tokens given back | nothing is sent into a pause, budget holds |
| open-interest pool `openinterest/limiter.go` | bucket, sliding window, pause | Wait, PauseFor | open-interest callers | window fills while waiting | never more than the exchange limit in any window |
| open-interest writers `openinterest/writer.go` | channel, batch, dropped | Push, Flush, Close | ClickHouse | a drop between two barriers | a drop is reported by the next Flush |
| open-interest history `openinterest/hist.go`, `lsratio_hist.go` | newest calibrated bar per symbol | LoadState, pass, fetchSymbol, emit | pool, exchange, writers | crash between pages, partial failure | no hole behind the recorded progress |
| open-interest live `openinterest/live.go` | next round | Run, cycle | pool, exchange, writers | an overlong round | no boundary twice |
| app `app/app.go` | wiring | New, Run, onUniverseChange, Shutdown | all | a constructor that fails half-way, order of shutdown, a Close that hangs, a symbol listed during start | all that was started is stopped, what is subscribed is backfilled, the process ends |

Configuration, the ClickHouse schema and the test tools keep no state that a
component reads back and are not modelled; of the metrics endpoint and of the
command only the start, the end and the one context are.

How they meet. A shard delivers a frame to the dispatcher. A closed bar passes
the monotonic guard and the queue, and a worker pushes it to the Redis window
(unless the gate holds the key), gives it to the archive writer and counts its
symbol in the section of its open time; the last symbol, or a timer, publishes
`kline_ready` (unless the gate holds a key of the interval). A gap, the cold
start, a listing or a sweep submits a backfill request: its keys are held, its
bars fetched and given to the same archive writer, the writer flushed, the tail
of the archive read back and the window replaced, and the keys released.

## 2. Plan

The order follows the weight of what can go wrong. First the repair of a key and
what it meets: the gate; the backfill requests that hold it; the dispatcher with
its aggregator; the archive writer whose Flush the backfill relies on; the seam
between the live path and the repair of one key, which composes the gate with an
abstraction of the other three. Then what feeds and paces them: the shards with
their subscription deltas and gap reports; the sweep with the pager that serves
it; the weight gate and the request pool. Then the open-interest history over
its own writer and across restarts, and last the composition: construction, Run,
the universe, the live writer and Shutdown.

Abstract specifications. `BarrierWriter` says what the archive writer promises,
and `BatchWriter` is shown to implement it. Worth stating too: a repair of a key
("held, rebuilt, released"), to be implemented by `Backfiller`.

Left: the rounds of the live open interest; the other half of the live bar
(which of two snapshots of a symbol is written last).

## 3. Modules

| module | models | state |
|---|---|---|
| `WindowGate` | `windowgate/gate.go` | `keys`, `byInterv` as in `Gate` |
| `Backfiller` (extends `WindowGate`) | `backfill/backfill.go` without the body of `process` | the fields of `Backfiller`; `pc[r]` is where the goroutine that owns request r stands |
| `Dispatcher` | `dispatcher/dispatcher.go`, `aggregator.go` | the fields of `Dispatcher` and `aggregator`; `cpc`, `wpc`, `ppc` are callers, workers and goroutines inside `publish` |
| `BatchWriter` | `chwriter/writer.go` | the channel, the batch of `loop`, `lpc` where `loop` stands, `fl` the flush in progress, `fpc` the callers of Flush |
| `BarrierWriter` | the promise of `chwriter/writer.go`: Flush as a barrier over rows that are pending, written or given up | `pending`, `written`, `lost`; `call`, `mark` and `failed` of each call of Flush |
| `Collector` | `collector/collector.go`, `sharding.go`, `shard.go`, and of `binanceclient.go` and `silentreconnect.go` what the shard sees | `sh[i]` is the shard, its supervisor and its connection with the watcher of silent reconnects; `owed` (frames lost and not yet reported) is history |
| `Sweeper` | `backfill/sweep.go`, `FindGaps` of `clickhouse.go`, the repair body of `backfill.go`, the paging of `rest.go` | the archive as sets of bars, the known-empty ranges, the request with its cursor and outcomes |
| `Admission` | `weightgate/gate.go`, `openinterest/limiter.go`, and of `client.go` what a response does to them | the end of the pause, the last observation, the sliding window, the token buckets, `caller[c]` the local variables of Wait and PauseFor; `debt`, `pausedAt` are history |
| `LiveBarWriter` | `rediswin/livebar_writer.go` | the channel, `closed`, the workers, the producers between check and send |
| `App` (extends `LiveBarWriter`) | `app/app.go`, `universe/monitor.go`, `main.go` | `main` is where New, Run and Shutdown stand, `built` and `on` the components made and running, `mon` the refresh; `asked`, `raced` are history |
| `HistReconciler` | `openinterest/hist.go`, `lsratio_hist.go` over `writer.go` and the table, across restarts | `last`, the jobs of a pass (`jpc`, `since`, `upto`, `limit`), the writer's queue and `dropped`, the rows in the table; `base`, `open`, `torn` and `lossy` are history |
| `WindowSeam` (extends `WindowGate`) | `handleClosed` against `processInterval` for one key | the websocket, the queue, the workers, the archive and its buffer, the window, `pc` where the repair stands |
| `MC*` | the constants of the runs | |
| `BackfillerProofs` (also `WindowGate` and `Sweeper`), `AdmissionProofs`, `CollectorProofs`, `BatchWriterProofs`, `WindowSeamProofs`, `DispatcherProofs`, `HistReconcilerProofs`, `AppProofs` | theorems and proofs | |

One action is one atomic step of the code: a critical section, a channel
operation, or one call to another system. Where the code reads a value, unlocks
and uses it later (Submit's closed check, the gate's checks, `releaseKeys`),
the model has two actions. Definitions called "Mutant" are plausible bugs; they
are in no specification and only show that a property can be broken.

## 4. Runs

Deadlock is checked in `app`, where only an ended process may stand still. In
the other runs it is not: those models stop when their bounded inputs are used
up and the service has been closed; what must not get stuck in them is stated as
liveness. Symmetry (workers, callers) is used only in
runs without liveness properties.

### Runs that pass

| run | bounds | what it shows |
|---|---|---|
| `backfiller` | two requests over the overlapping key lists {btc} and {BTC, ETH}, one shard, queue of one, a call that hangs until the request's deadline, Close and cancellation at any point | `KeysOwnedOnce`: no key is repaired twice at once; `GateCountsHolders`, `IntervalCountExact`: the counts are exact on every way out (duplicate, full queue, shutdown); `RepairAnswered`: a sweep gets its answer; `ColdStartEndsReady`: readiness is not wedged; `HoldsReleased`: no hold is leaked, whether the queue is full, a call hangs or the service closes |
| `dispatcher_refresh` | three symbols, refreshes between {a,b}, {b,c}, {a,b,c} and the empty universe at any time, one cross-section that closes a bucket of a derived interval, two workers, one caller, Close and cancellation at any point | `OneReadyPerSection`: completion and timer never both announce an opening of a section; `MissedAreReplaced`: a section announced complete lacks at most as many symbols as were counted for it and delisted while it was open; `DerivedFollowsBase`: the order of base event and derived event; `OneEventAfterClosed`: publishers, those of timers among them, look at `closed` before each event |
| `dispatcher_progress` | two symbols, one base bar, two callers that deliver each bar twice, queue of one | `NoBarHandledTwice` under replay; under fairness `QueuedBarsArePushed`: Close and cancellation drain the queue, `SectionsArePublished`, and `CloseReturns` |
| `batch_writer` | three rows, two producers, channel and batch of two, one retry, one call of Flush | `RowsAccountedOnce`: no row lost without being counted, repeated or reordered by retries, barriers and shutdown, whether or not a failed insert was applied; `ImplementsBarrier`: the writer refines `BarrierWriter`; `FlushReturns` and `RowsLeaveTheBuffer` under fairness: when `loop` has ended, only rows accepted after the close are left |
| `window_seam` | two bars, two workers, window of two, queue and buffer of one, every call may fail, disconnects | `WindowNewestFirst`: pushes and rebuilds in any order leave the window sorted; `RepairShows`: a repair without errors shows its range |
| `hist_reconciler` | one symbol, at most four bars, pages of two bars, cold start of three, two lives, either reconciler | `ProgressOfCommittedIsStored`: failed pages, background drops and barriers never let the progress run ahead of the table; `OldestFirstSurvivesCrash`: the order in which the ratios are written keeps this over a crash; `BarsGetCalibrated` under fairness |
| `collector` | two shards at most, three calls of SetSymbols, time up to three frames, two faults, a stale timeout of one frame, a gap channel of one | `LostFramesAccounted`: through failed connects, errors, silent reconnects and half-open sockets each frame a subscribed stream missed is in a reported gap or in one still to come; `LossIsReported`: it is reported in the end; `SubscriptionsFollow`: a delta during a reconnect is neither lost nor applied twice; `NoShardAfterClose` |
| `sweeper` | two symbols, of which one does not trade in some bars, two milliseconds to a bar, a window of four bars, pages of one bar, one range per sweep, nine bars, two losses and two faults | `SuppressedInVain`: no range the exchange can fill is suppressed; `EmptyAskedOnce`; `FetchedIsWhole`: page boundaries lose nothing; `HolesGetRepaired` in spite of the cap |
| `admission` | three callers, as live and bulk callers of the gate or as callers of the pool, three requests, three ticks and as many more as callers still sleep, two faults | `BudgetKept`, `WindowCapKept`: the budgets of live callers and of the pool and the exchange's cap hold at every instant; `NothingSentIntoBackoff`; `PauseNeverShortened`; `CallersReturn` under fairness |
| `app` | the three modes, one producer and two workers of live snapshots, a channel of one, two symbols, two listings or snapshots, at most one step of Shutdown that times out, a collector that may hang | `ShutdownStopsAll`: from any failure of New or Run and after a signal at any point, all that was started is stopped; `SubscribedIsRepaired`; `OnlyLateFramesLeft`; `ShutdownReturns` under fairness |

The type invariant of each module is a conjunct of its first invariant.

Why the bounds are enough. Two requests whose key lists overlap in a key spelled
in two ways are the smallest case with a duplicate, a partial duplicate, a full
queue and a release that meets a new hold. Two workers and two symbols are the
smallest case in which a section is completed by a worker other than the one
that opened it while its timer fires; the base bar is the last of its
derived bucket, so every publication of it cascades; with a
third symbol a refresh can replace one symbol and leave another, add one to a
full section, or take one from it.
Three rows with a batch of two give a full batch and a rest, so a barrier meets
both an empty and a partly filled batch, and a channel of two fills up. Two bars
and two workers are the smallest case of pushes out of order; the archive
writer's buffer of one row makes it refuse a row. A page of two bars against a
cold start of three makes the reconciler page back; one bar more closes during
the run and gives an incremental pass; two lives give one restart. Two shards are the
smallest case in which one shard is dropped and its successor of the same id
starts while the old one is still stopping, and two faults a failed connect after
a drop. A page of one bar makes every bar of a range a page boundary; one range
per sweep and two symbols make the cap bite. In `admission` three callers are a
caller that sleeps for tokens, one that spends them and one whose response
begins a backoff; a burst of one makes the second live caller sleep, and the bulk
caller weighs one or its whole burst. In `app` the collector is the component whose Close may hang
because it is the first and has the most users of others behind it. The queues
and counts are bounded by constants of the modules (`QueueSize`, `MaxRows`,
`MaxCalls`, `MaxDeliveries`, `MaxClock`, `MaxLives`), all of which appear in
guards of the actions they bound.

Fairness. `Backfiller`: each goroutine of a request and the runner take a step
when they can. A call in `process` may hang (`ProcessHang`, which nothing
obliges to happen or to end); what ends it is the context of the request, when
`gateTimeout` is over or the service stops. `GateTimeout` is TRUE as in the
service (app/config.go:200 puts the default in place of a value that is not
positive); only the backfill-only mode (app.go:384) runs without a bound. `Dispatcher`: callers, workers and publishers run, timers fire, and
sink calls return because `handleClosed` bounds each by five seconds.
`BatchWriter`: the loop runs (weak); the cases of its `select` that wait for a
barrier or for `stopCh` are strongly fair because Go chooses among ready cases
at random, and no producer can keep them from being chosen for ever.
`HistReconciler`: the process is restarted and its goroutine runs, and an outage
of the exchange or of ClickHouse ends. No fairness is put on the exchange (new
bars), on failures, on cancellation or on Close being called.
`WindowSeam` has no liveness property. `Collector`: the supervisor of a shard,
its watcher and a SetSymbols that has begun run, the connector ends a reconnect
it has begun, and frames go on coming; no fault is fair. `Sweeper`: the loop and
the worker of the request run, and no bar need be lost. `Admission`: time
passes, callers run, and a response comes because the client has a timeout.
`App`: the goroutines run, a refresh ends within its two minutes, and the clock
reaches the deadline of Shutdown; no signal, listing or frame is fair.

Refinement. `BatchWriter!Barrier` instantiates `BarrierWriter` with the rows of
the channel, of the batch and of the insert in progress for `pending`, the table
for `written`, the rows given up for `lost`, and the callers of Flush for
`call`. It says what a caller may conclude from nil and leaves out how: when the
batch is full, when the ticker fires, how often an insert is tried, and where
the rows wait. It is a safety specification; that calls return is `FlushReturns`.

### Runs that find a disagreement

Each checks one sentence of the repository's documents or comments, quoted in
`PROJECT.json` under "findings", and finds a behaviour of the code against it.

- `window_seam_zero_gap`: resuming after `max(start_time)` leaves no gap. A live
  bar of the new connection that is archived first moves the start past the gap.
- `hist_reconciler_hole`: "a gap longer than one page is paged back to the last
  calibrated bar". Pages of open interest are written newest first; when the
  process stops between two of them, the next life takes the newest row for its
  progress. The start-up pass then reads one page (500 bars, under 42 hours),
  and the rest of a 48-hour cold start or of a longer gap is never asked for
  again. The history shown needs no failing call, only the stop.

### Configurations beside the listed runs

Five more sentences of comments and documents do not hold of the code. Each has
a configuration that TLC ends with a counterexample; they are kept here for a
reader who wants to see the history, and no listed run depends on them.

- `DispatcherIncomplete.cfg`, `CompleteMeansEverySymbol`: one event "when every universe symbol is in"
  (aggregator.go:31-33). `mark` compares numbers, so a symbol counted and then
  delisted stands for one listed meanwhile. What holds of a complete section
  under every refresh is `MissedAreReplaced`.
- `DispatcherAfterClose.cfg`, `NothingFiresAfterClose`: "nothing fires after shutdown" (aggregator.go:228).
  Close does not wait for the goroutine of a timer that has fired; inside
  `publish` it may start the eviction timer of its section behind `stop`. An
  event it still sends may find the Redis client closed, which is an error it
  logs; `OneEventAfterClosed` bounds such events.
- `BatchWriterLost.cfg`, `FlushMeansWritten`: the flush before the read-back is "to guarantee all rows
  are on ClickHouse" (backfill.go:603). The error of a flush by the ticker or by
  a full batch is discarded (writer.go:225, 230), so the next Flush returns nil
  although rows accepted before it were dropped. `BarrierWriter` says what nil
  does mean; the open-interest writer remembers the drop.
- `WindowSeamSwallowed.cfg`, `SwallowedIsRebuilt`: bars suppressed while a key is held are picked up by
  the rebuild (windowgate/gate.go:11-12). One that closes between `LastBars`
  (backfill.go:635) and the release is neither in the rebuilt window nor pushed.
- `AppColdStart.cfg`, `EverySymbolIsSubmitted`: a listing submits a backfill for the new symbol, or the cold
  start covers it (app.go:425-426). A refresh whose callback runs between
  Snapshot (app.go:462) and the Store after it does neither. The window is two
  statements wide, and the sweep repairs what has an archived neighbour.

### Other differences

Met while modelling, each visible in the modules but in no configuration.

Backfill and the live path.
- aggregator.go:31-33 says "exactly one kline_ready per cross-section". `evict`
  (aggregator.go:221) deletes a section one bar period after it was published; a
  bar handled later opens it again, and it is announced a second time.
  `OneReadyPerSection` is about one opening.
- docs/DATA_FLOW_AND_STRUCTURES.md:222 says the data of an announced bar is
  readable. The gate is read once before the push and once before the event
  (gate.go:141, 154): a hold that ends in between suppresses the one and lets
  the other pass.
- The guard of `HandleKlineEvent` advances before the send to the queue
  (dispatcher.go:269), so a bar refused with ErrBusy is never taken from the live
  path again; a later repair or sweep brings it.
- A `Submit` that passed the closed check before `Close` can enqueue after the
  drain and keeps its keys held (`CheckClosed`, `Send`, `DrainExit`); it matters
  only while the process ends.
- A symbol is counted although the push of its bar failed (`PushWindow`).
- A caller's context given to `chwriter` Flush ends the retries of rows of every
  other producer (`CtxDone`), and a row accepted after the final drain stays in
  the channel (`RowsLeaveTheBuffer` names exactly those).

Collector and sweep.
- A silent gap is thrown away when the previous one has not been taken
  (silentreconnect.go:66) or when the connection ends before the shard takes it;
  the gap reported after the reconnect begins at the last frame, behind it.
  `forgone` records these frames, and the sweep is what finds them.
- Holes that fail in every sweep may use up `MaxRanges` for ever, since symbols
  are taken in order; the model bounds the faults. A range that the exchange
  answered empty by mistake is not asked again while it is in the window.

Admission.
- Tokens given back after a sleep are mostly not given back: `CancelAt` does
  nothing once the time of the reservation has passed. The bucket is safe and
  slower than the comment at gate.go:283 ("Give the tokens back and start over")
  suggests.
- A bucket of one minute's budget lets a class spend its burst and a minute's
  refill within one minute of the exchange, so that the comment at gate.go:79
  ("Budgets sum to 1900") bounds the rate and not the spending of each minute.
  `BudgetKept` states what the bucket does give.
- It states it of the classes whose requests all weigh one: live (client.go:133),
  misc (monitor.go:323) and the pool. Klines weigh 1 to 10 by their limit
  (rest.go:279). Among reservations of different weights `CancelAt` takes the time
  of the last one for what was reserved later; when the last reservation is
  cancelled, that time goes back by the last one's tokens, and an earlier one that
  is cancelled then may restore tokens that others hold. With the steps of
  `Admission` and several bulk callers of different weights TLC spends more than
  the burst in this way. In the program bulk callers
  share the context of the request they work for (backfill.go:456), which ends for
  all of them, so that it would take a new reservation between the
  cancellations; the model says nothing of the bulk budget.

App.
- docs/OPERATIONS.md:207 says that "`SIGTERM` triggers a graceful shutdown that
  drains and persists in-flight data". New and Run
  share one root context; on a signal all goroutines stop at once, the archive
  writers' loops among them, and bars that the dispatcher drains later are
  refused with ErrClosed. docs/ARCHITECTURE_MODULES.md:180-182 gives another
  order of shutdown than app.go:561.
- `runBackfillOnly` promises nil only for a cold start that ran to completion
  (app.go:498-501); the cold start also counts as finished when the runner left
  it because its context ended, or when fetches of it failed.

### Mutants

Every property of a passing run has a mutant, listed in `PROJECT.json`: a
definition changed as a slip in that code would change it (a duplicate key that
is not filtered, a hold that is a flag, a barrier that leaves a batch that is
not full, a page written before the pages below it were read, a failed connect
that forgets the drop, a cursor one bar too far, a store for a compare-and-swap,
a request without its deadline). Under the run's own configuration TLC finds
the property violated.

## 5. Proofs

The proofs hold for all values of the constants that satisfy the assumptions of
the modules. `GateAssumption`: finitely many spellings, an idempotent
upper-casing. `BackfillerAssumption`: finitely many requests, key lists over the
gate's keys, a queue of at least one. `AdmissionAssumption`: bursts, the cap and the
windows are positive, weights and used levels are numbers, the soft threshold is
not above the hard one.
`BatchWriterAssumption`: sizes are positive, bounds are numbers.
`SeamAssumption`: sizes are positive, the key is one of the gate's.
`DispatcherAssumption`: there are finitely many symbols and at least one, there
is a worker (dispatcher.go:144 puts a default in place of none), the queue holds
at least one bar, the bars that occur are a nonempty set of numbers, served intervals are longer than the base, and the
goroutine of a timer is no worker. `HistAssumption`: finitely many symbols, the
clock has a range, a page is longer than the margin added to what is needed, and
a cold start goes back no further than the limit of a backfill.
`AppAssumption` and `LiveBarWriterAssumption`: the modes are the three of Run,
the live writer has a worker and room for one snapshot. `SweeperAssumption`:
finitely many symbols, sizes and periods are positive, a bar takes more than a
millisecond. `CollectorAssumption`: finitely many symbols and intervals, the
channel of silent gaps has room for one. All are what the
code has: symbols, requests and callers are finite at any time,
`strings.ToUpper` is idempotent, and the constructors put defaults in place of
sizes that are not positive.

`BackfillerProofs`, first part: `GateTypeCorrect` (no hold count is negative) and
`GateCountsExact`: the counter of an interval, which decides whether a
`kline_ready` may pass, equals the number of its held keys. The invariant is
`GateInv`: types, finiteness of the set of held keys, and the equality. The step
of `Hold` is an argument about cardinality: a key that goes from zero to one
joins the set and the counter is increased, any other leaves both alone;
`Release` is the mirror image.

`BackfillerProofs`, second part: `TypeCorrect`, `OwnedOnce`, `CountsHolders`, `OwnedHeld` and
`NoHoldLeaked` for any number of submitters, keys and shards. None of them is
inductive alone. The invariant is

    IInv == GateInv /\ Shape /\ OwnedApart /\ GateCountsHolders

`Shape` ties the program counters to the data: the runner has the request it
works on, the queue holds exactly the requests that are queued and each of them
once, and `held[r]` is what the counter of r says (all of the keys after the
holding loop, a part during it). `GateCountsHolders` needs `HeldShape`, or
`Release` could take a hold that was never counted; `OwnedKeysHeld` follows from
`GateCountsHolders` because a non-empty set of holders means a positive count;
`NothingHeldAtRest` needs `GateCountsExact` besides, to pass from the counts of
keys to the counter of an interval. The preservation proof has one lemma or step
for each action, and under it one for each conjunct the action can disturb.

How a request ends is a third invariant over the same steps: `AnswersOnce` (a
repair gets exactly one result on its channel of one place, whichever of the five
deliveries its way out passes, and nothing else gets any) and
`ReadyNotForgotten` (until the service is ready or stops, the cold start is still
under way, so that no outcome of it leaves readiness wedged). `EndShape` says of
each place a request can stand how many answers it has been sent: none before it
is processed or released, and its due behind that. It also says that a request
is released as drained only when the runner was told to stop, and a cold start
as processed only when `coldStartDone` is set.

`BackfillerProofs`, third part, the archive sweep (`Sweeper`):
`FetchedWhole` (page boundaries lose nothing), `VainSuppressed` (no range the
exchange can fill is suppressed) and `AskedOnce`, for any symbols, windows, page
sizes and faults. The invariant is

    SweepInv == SweepTypeOK /\ RequestOK /\ RangesOK /\ JobOK /\ OutsOK /\ EmptyOK

`JobOK` is about the cursor: what the exchange has behind it is archived, unless
a page failed or a row was dropped, and if no page had a bar there is nothing
behind it; the limit of a page and the end of the range meet in `PageReaches`,
which takes the first bars from the cursor by their ranks (`FirstOnes`).
`RangesOK` says that each asked range ends at an archived bar older than the
settling time. This is what makes the known-empty list safe (`EmptyOK`): it is
kept by the start of a range only, and the hole that `FindGaps` reports from
that start later is the range that was asked, or a part of it. `AskedOnce`
assumes besides that `EmptyTTL` is at least the window, as the comment at
sweep.go:36 has it and the defaults are; its invariant `VainInv` says that what
was found empty is on the list until it has left the window, so no request has
it.

`AdmissionProofs`: `TypeCorrect`, `CapKept`, `PausesOnlyGrow`, `NothingSent` and
`WithinBudget` for any number of callers, any budgets and any thresholds. The invariant is

    IInv == TypeOK /\ SwapLengthens /\ PauseIsFresh /\ WithinCap

`SwapLengthens` is the comparison that `PauseFor` makes before its
compare-and-swap, kept until the swap: a swap that succeeds replaces what was
compared, so a pause only grows. `PauseIsFresh` says that a caller behind its
second look at the pause can have missed only a pause of the same tick, and
`WithinCap` that the sliding window is within the cap, which the recheck under
the lock preserves however many callers slept for tokens.

`WithinBudget` (`BudgetKept`) has an invariant of its own. A bucket below zero
has promised tokens that are not there yet, and a request is sent ticks after it
reserved, in an order of its own, or gives its token back; so the debt, the bucket
and the reservations in flight have to be counted together:

    Fits(H, a, t, e, d, n, B) ==
      /\ \A c \in H : a[c] \in Int /\ n <= a[c] /\ a[c] <= e
      /\ \A c \in H : a[c] > n => t <= n - a[c]
      /\ \A c, x \in H : a[c] > n /\ a[c] = a[x] => c = x
      /\ IsFiniteSet(due(H, a, n)) /\ d + Cardinality(due(H, a, n)) + room(t) <= B

for the callers `H` that hold a reservation of the class, its time `a[c]`, the
tokens `t` and last event `e` of the bucket, the debt `d`, the clock `n` and the
burst `B`. Reservations still to come have a tick of their own each, and the
bucket owes them all; those that are due, the tokens and the debt are within the
burst. `FitsReserve`, `FitsLeave`, `FitsCancel` and `FitsTick` are the lemmas
about the bucket alone; `FitsCancel` is where the weight of one is used: a
reservation gives back something only when it was the last.

`CollectorProofs`, the shards:
`LostAccounted` (each frame lost on a flowing stream is in a gap that was
reported, in one still to come, or in a silent gap thrown away) and
`NothingStartsAfterClose`, for any symbols, intervals, faults, polls and calls
of SetSymbols. The invariant is

    CInv == /\ TypeOK /\ ShardsFine /\ MapFine /\ SetFine
            /\ Accounted /\ NoShardAfterClose

`Accounted` is the property with its witness, a shard that carries the stream
and has the frame pending. What carries it over a step is `ShardsFine`: a flowing stream
is among those the shard asked for, so that the gap it reports on connecting, or
takes from the watcher, is reported for that stream too (`StreamsFine`); the
last frame, the drop that is carried forward and the start of a silent gap are
never ahead of the frames that flowed (`TimesFine`, `ConnFine`), so that each
window begins before the first frame that was lost. `MapFine` is needed for
SetSymbols: a supervisor that is up belongs to one id of the map and carries
streams of that id only, hence a stream that stays wanted stays with its shard;
`Numbering` and `SetFine` keep new shards apart from those that are still
stopping.

What the shards want is a second invariant, `PInv == AllTold /\ OnePlan`, with
`CInv` beside it. `VersionsTell`: a supervisor whose version is the current one
dials with, or carries, the current set; `pumpLoop` compares versions and never
sets, so a snapshot that paired an old set with a new version would go unnoticed
for ever. `MapKeepsOnePlan`: until the service ends the shards of the map run,
and they want together the plan of one set of symbols, never parts of two. That
a supervisor of the map runs is what makes the second inductive: it exits only
when told to, it is told to only under the lock that takes it off the map, and
`MapFine` gives the converse.

`BatchWriterProofs`: `RowsAccounted` (each accepted row exactly once, and in
order) and `BarrierKept` (the writer implements `BarrierWriter`), for every
channel and batch size, retry limit and number of callers. The invariant is

    IInv == /\ TypeOK /\ InOrder /\ Accounted /\ UnsureShape
            /\ LoopShape /\ ErrShape /\ MarkShape

`InOrder` says that rows ascend within the table, the batch and the channel and
from one to the next, so that taking, writing and accepting rows keep the whole
in order (`Taken`, `IncreasingConcat`, `Appended`). An insert that fails at Send
(clickhouse.go:115) may have been applied; `unsure` has its rows, and
`UnsureShape` says that each of them is in the batch and written again (the table
is a ReplacingMergeTree, which merges the copies) or counted as dropped. `LoopShape` says when the
batch has room, when it is empty and when `loop` serves a call; `ErrShape` that
`lastErr` is about that call only; `MarkShape` that once the barrier has found
the channel empty, the rows in it are younger than the call. In the refinement a
row that `loop` takes from the channel is a stutter; a flush that succeeds is an
insert of the oldest pending rows; the answer of `loop` needs all three shapes,
or nil would not mean what `BarrierWriter` says.

`ShutdownFlushes` says how `loop` ends: what was accepted before Close set
`closed` is written or counted as dropped, and the batch is empty. Its invariant
`StopShape` says that `loop` drains only with `closed` set, and that once it has
found the channel empty only rows accepted after that are in it; with the account
of `Accounted` and the last flush nothing older is left.

`WindowSeamProofs`: `SeamInOrder` (the window is newest first whatever pushes and
rebuilds come in whatever order) and `RepairVisible` (a repair that ran to its
end without an error shows its range), for any number of workers and bars and
all sizes. The invariant is

    IInv == TypeOK /\ WorkerShape /\ RangeShape /\ ListShape /\ RepairShape

`RepairShape` follows the bars of the range through the stages of the repair, as
long as nothing failed: fetched, they are in the archive, in its buffer or given
up; after the barrier no longer in the buffer; after the read-back in the list
that was read, or that list is full of newer ones; after the rebuild the same of
the window. `ListShape` says that the list read back and the window are in
order. What `LastBars` returns is shown by ranks, the number of bars that are
newer than one of a set: a rank is met by exactly one bar, an argument about
cardinality (`RankOnto`), so the list descends and holds all but the oldest
(`NewestDescends`). `PushDescends` shows that a push keeps the window in order
and goes on showing what it showed.

`DispatcherProofs`: `HandledOnce` (no bar is handled twice), `AnnouncedOnce` (one
event for each opening of a section), `CascadeFollows` (a coarser bucket follows
its last base bar), `MissedReplaced` and `OneAfterClosed`, for any callers, workers,
universes and served intervals. The invariant is

    IInv == /\ TypeOK /\ BarsApart
            /\ PublishShape /\ TimerShape /\ CountShape /\ CascadeShape

`BarsApart` adds to `NoBarHandledTwice` the callers between the guard and the
send, and that every bar behind the guard is one the guard has seen, so that the
next bar to pass is in no place yet. `PublishShape` says that a goroutine inside
`publish` holds its section: published, without a timer, and published by no
other. That is what keeps the section from being evicted and opened again under
it, and `CountShape` counts on it: an opening that has not been announced leaves
room for one event, whichever of the completing worker and the timer sends it.
`CascadeShape` keeps each derived event that is still to be sent one behind its
base event.

`MissedReplaced` says what a complete section is worth under every refresh. Its
invariant `Accounted`: a symbol in an open section is one of the universe, or was
delisted while it was counted (the history `left`). `mark` publishes when it has
counted at least as many symbols as the universe has now; the symbols it lacks
are then at most as many as those it has besides (`LackOfLarger`, cardinalities
of finite sets), and these are in `left`. `OneAfterClosed` is about the
goroutines that Close does not wait for: `StraysShape` counts an event sent
behind `closed` against the look at `closed` that has to come before the next.

Sections and bars at rest: `SectionsNotForgotten` (an open section has a timer,
or a goroutine inside `publish` that is to start one, until Close takes the
timers away) and `CloseDrains` (when Close has returned no worker has a bar in
hand, and the queue holds only what a callback sent after `closed` was set). The
invariant is `RestShape`: `OnItsWay` is the first of the two, for each section,
and rests on `PublishShape` and `TimerShape`; `DrainShape` says that a worker which
has returned was draining with `closed` set, and that behind it the queue holds
late bars only. That there is a worker is needed here, and only here.

`HistReconcilerProofs`: `ProgressKept` (below the recorded progress no bar is
missing from the table) and `OldestFirstKept` (for what is written oldest first
this survives a stop between any two rows), for any symbols, page sizes and
lives. The invariant is

    IInv == /\ TypeOK /\ PhaseShape /\ RowShape
            /\ NoHoles /\ Closed /\ Behind /\ Ordered
            /\ JobShape /\ FetchShape /\ DoneShape

`NoHoles` is the property; `Closed` is what `LoadState` will find after the next
start, which is why it is about the table and not about memory, and `Behind`
keeps the two together while a life lasts. `FetchShape` and `DoneShape` follow a
job through its pages: the bars from the cursor up have been given to the writer
(or, for the ratios, collected), so that when the cursor has reached `since`
nothing lies between the progress and the newest bar, unless a row was dropped,
and then the barrier before the commit fails. `Ordered` is about the ratios: a row in the queue
or in the table has every older row that is due before it.

`AppProofs`: `StopsAll`, `Repaired` and `LateOnly` for any
symbols, listings, hanging closes, producers and workers, from every point where
Shutdown can be called. The invariant is

    IInv == /\ TypeOK /\ MonOK /\ StepShape /\ GoroutineShape
            /\ BuiltShape /\ LiveShape /\ FrameShape /\ RepairShape

`StepShape` says that behind Shutdown's step nothing runs but what was
abandoned; when no step is left (`NextStep`) it is `ShutdownStopsAll`, to which `GoroutineShape` adds the
goroutines inside the writer and the monitor. `RepairShape` ties the five
places where a set of symbols is kept (the snapshot, the refresh under way,
`prevSymbols`, `desired` and what was asked for) to each other at every stage of
a refresh and of Run. `FrameShape` holds because a worker returns only behind an
empty channel with `closed` set, and a frame sent later is late.

Only model-checked: every liveness property (the prover does not reach liveness
under fairness). For those that could fail without any unfairness, by a state
from which nothing leads on, the safety half is proved:

| liveness property (TLC) | what is proved |
|---|---|
| `RepairAnswered` | `AnswersOnce`: never two answers, and none missing at the end |
| `ColdStartEndsReady` | `ReadyNotForgotten`: the cold start is under way until the service is ready |
| `SectionsArePublished` | `SectionsNotForgotten`: an unpublished section has its timer |
| `QueuedBarsArePushed` | `CloseDrains`: Close leaves no bar behind |
| `RowsLeaveTheBuffer` | `ShutdownFlushes`: the end of `loop` leaves no row behind |
| `SubscriptionsFollow` | `VersionsTell`, `MapKeepsOnePlan`: no difference goes unnoticed, no share is missing |

The definitions these theorems prove (`AnsweredOnce`, `ReadyOnItsWay`,
`SectionsOnTheirWay`, `ClosedIsDrained`, `EndedIsFlushed`, `VersionTells`,
`MapIsOnePlan`, as `OwnedKeysHeld` and `NothingHeldAtRest` before them) are
invariants that TLC has also found true on the instances of §4; no run lists them,
since the theorems say more.

## 6. What is not modelled

The data of a bar, its encoding, the Redis scripts' text, the SQL and the HTTP
requests: a call is its effect or an error. Sampling of partial bars, the fields
of a live snapshot and the order in which two workers write two snapshots of one
symbol. Metrics and logging.

`Collector`: the hash of a symbol is a constant, backoff and jitter are any
delay, and a frame is one tick of the clock on every stream. `Sweeper`: a query
takes less than a bar; the requests of a repair are one after the other, which
shows the same because their ranges are disjoint; the fetcher's own request rate
is left out. `Admission`: the steps between two sleeps take less than a tick, a
sleeper wakes in its tick, and the class misc is live with another budget. `App`:
the other components are running or closed, and `on` has only the goroutines a
Close waits for: the aggregator's timers (`OneEventAfterClosed` is about them) and
the callbacks of the connector (binanceclient.go:154-164), which no Close waits
for, may find what they call closed; all ClickHouse writers are one, a
refresh that finds nothing new is left out, and the blocking `Enqueue` of the
live writer, which nobody calls, is too. `HistReconciler`: labels that are
missing in the middle of what the exchange serves, a symbol that is delisted
between two of its pages, and the three ratio series apart from each other (a
bar counts as served when all three have reached it). `MaxLives` also bounds the
crashes, so the last life of a run goes on for ever.

The live rounds of open interest ask once for each symbol and boundary and
depend on nothing but their own clock; their rows are superseded by the history.
Configuration and the scripts have no behaviour over time. The components marked
`not_modelled` in `PROJECT.json` are left out for the reason given there.
