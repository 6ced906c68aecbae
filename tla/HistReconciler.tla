--------------------------- MODULE HistReconciler ---------------------------
(***************************************************************************)
(* internal/openinterest: the history reconcilers (hist.go and             *)
(* lsratio_hist.go) over their batching writer (writer.go) and the table   *)
(* they recover their progress from after a restart.                       *)
(*                                                                         *)
(* Bars of five minutes are numbered; bar b has closed when clock > b and  *)
(* can be read from the exchange when published[s] > b.  Only rows written *)
(* by the reconciler (src_rank 2) are modelled: those of the live          *)
(* snapshots do not count as progress.  The two reconcilers differ in one  *)
(* thing that matters here: open interest is written page by page, newest  *)
(* page first, while the ratios are written oldest first once every page   *)
(* has been read (buffered).                                               *)
(***************************************************************************)
EXTENDS Integers, Sequences, FiniteSetsExt, SequencesExt

CONSTANTS
  Symbols,
  FirstClock,     (* bars closed when the first life begins                *)
  MaxClock,       (* bound on the bars                                     *)
  MaxLives,       (* bound on the lives of the process                     *)
  MaxLimit,       (* HistConfig.MaxLimit: points in one page               *)
  LimitMargin,    (* HistConfig.LimitMargin                                *)
  ColdStart,      (* HistConfig.ColdStartWindow, in bars                   *)
  MaxBackfill     (* HistConfig.MaxBackfill, in bars                       *)

ASSUME HistAssumption ==
  /\ IsFiniteSet(Symbols)
  /\ {FirstClock, MaxClock, MaxLives, LimitMargin, ColdStart} \subseteq Nat
  /\ FirstClock <= MaxClock
  /\ MaxLimit \in Nat /\ MaxLimit > LimitMargin
  /\ MaxBackfill \in Nat /\ ColdStart <= MaxBackfill

Bars == 0..(MaxClock - 1)
Rows == Symbols \X Bars
None == -1

VARIABLES
  buffered,     (* this is the ratio reconciler                            *)
  clock,        (* bars that have closed                                   *)
  settled,      (* PublishLag has passed since the last of them closed     *)
  published,    (* bars of each symbol the exchange serves                 *)
  healthy,      (* from here on requests and inserts succeed               *)
  stored,       (* rows in the table                                       *)
  queue,        (* the writer: rows pushed, not yet written                *)
  dropped,      (* the writer's memory of a batch lost since a barrier     *)
  lives,        (* starts of the process so far                            *)
  phase,        (* "down", "load", "idle", "pass" or "retry"               *)
  full,         (* the next pass is the start-up pass                      *)
  last,         (* Reconciler.last                                         *)
  jpc,          (* where the job of each symbol stands                     *)
  since,        (* histJob.since                                           *)
  needed,       (* histJob.needed                                          *)
  upto,         (* end of the next page (exclusive)                        *)
  limit,        (* size of the next page                                   *)
  pages,        (* ratios: the points read so far                          *)
  newest,       (* jobResult.newest                                        *)
  base,         (* history: the oldest bar the passes had to cover         *)
  open,         (* history: symbols with rows written but not committed    *)
  torn,         (* history: symbols that were open when a life ended       *)
  lossy         (* history: the writer has given up a batch                *)

envVars    == <<clock, settled, published, healthy>>
writerVars == <<stored, queue, dropped, lossy>>
jobVars    == <<jpc, since, needed, upto, limit, pages, newest>>
memVars    == <<phase, full, last>>
histVars   == <<base, open, torn>>
vars == <<buffered, envVars, writerVars, lives, memVars, jobVars, histVars>>

WorldOK ==
  /\ {buffered, settled, healthy} \subseteq BOOLEAN
  /\ clock \in 0..MaxClock /\ lives \in 0..MaxLives
  /\ published \in [Symbols -> 0..MaxClock]

TableOK ==
  /\ {dropped, lossy} \subseteq BOOLEAN
  /\ stored \subseteq Rows /\ queue \in Seq(Rows)

MemoryOK ==
  /\ phase \in {"down", "load", "idle", "pass", "retry"} /\ full \in BOOLEAN
  /\ last \in [Symbols -> Bars \cup {None}]
  /\ base \in [Symbols -> 0..MaxClock]
  /\ {open, torn} \subseteq SUBSET Symbols

JobsOK ==
  /\ jpc \in [Symbols -> {"none", "todo", "fetch", "done", "failed"}]
  /\ {since, needed, upto} \subseteq [Symbols -> 0..MaxClock]
  /\ limit \in [Symbols -> 0..MaxLimit]
  /\ pages \in [Symbols -> SUBSET Bars]
  /\ newest \in [Symbols -> Bars \cup {None}]

TypeOK == WorldOK /\ TableOK /\ MemoryOK /\ JobsOK

NoJobs ==
  /\ jpc = [s \in Symbols |-> "none"]
  /\ since = [s \in Symbols |-> 0] /\ needed = [s \in Symbols |-> 0]
  /\ upto = [s \in Symbols |-> 0] /\ limit = [s \in Symbols |-> 0]
  /\ pages = [s \in Symbols |-> {}] /\ newest = [s \in Symbols |-> None]

\* The jobs of a pass are garbage once it has ended.
ForgetJobs ==
  /\ jpc' = [s \in Symbols |-> "none"]
  /\ since' = [s \in Symbols |-> 0] /\ needed' = [s \in Symbols |-> 0]
  /\ upto' = [s \in Symbols |-> 0] /\ limit' = [s \in Symbols |-> 0]
  /\ pages' = [s \in Symbols |-> {}] /\ newest' = [s \in Symbols |-> None]

\* The table holds no row of a symbol, or all of them up to some bar.
Init ==
  /\ buffered \in BOOLEAN
  /\ clock = FirstClock /\ settled = TRUE
  /\ published = [s \in Symbols |-> FirstClock] /\ healthy = FALSE
  /\ \E n \in [Symbols -> 0..FirstClock] : stored = {r \in Rows : r[2] < n[r[1]]}
  /\ queue = <<>> /\ dropped = FALSE /\ lossy = FALSE
  /\ lives = 0 /\ phase = "down" /\ full = TRUE
  /\ last = [s \in Symbols |-> None]
  /\ NoJobs
  /\ base = [s \in Symbols |-> 0] /\ open = {} /\ torn = {}

-----------------------------------------------------------------------------
(* The exchange. *)

Tick ==
  /\ clock < MaxClock
  /\ clock' = clock + 1 /\ settled' = FALSE
  /\ UNCHANGED <<buffered, published, healthy, writerVars, lives, memVars, jobVars, histVars>>

\* A label is expected PublishLag after its bar, and usually there by then.
Settle ==
  /\ ~settled /\ settled' = TRUE
  /\ UNCHANGED <<buffered, clock, published, healthy, writerVars, lives, memVars, jobVars, histVars>>

PublishBar(s) ==
  /\ published[s] < clock
  /\ published' = [published EXCEPT ![s] = @ + 1]
  /\ UNCHANGED <<buffered, clock, settled, healthy, writerVars, lives, memVars, jobVars,
                 histVars>>

\* The exchange and ClickHouse recover.
Heal ==
  /\ ~healthy /\ healthy' = TRUE
  /\ UNCHANGED <<buffered, clock, settled, published, writerVars, lives, memVars, jobVars,
                 histVars>>

-----------------------------------------------------------------------------
(* The writer. *)

\* The retries for these rows are used up.  An insert that reported an error
\* may still have been applied.
GaveUp(rows) ==
  /\ ~healthy /\ rows # {}
  /\ stored' \in {stored, stored \cup rows}
  /\ lossy' = TRUE

\* loop flushes on its own: the batch is full or the ticker has fired.
WriteBatch ==
  \E n \in 1..Len(queue) :
    /\ phase # "down"
    /\ \/ stored' = stored \cup ToSet(SubSeq(queue, 1, n)) /\ UNCHANGED <<dropped, lossy>>
       \/ GaveUp(ToSet(SubSeq(queue, 1, n))) /\ dropped' = TRUE
    /\ queue' = SubSeq(queue, n + 1, Len(queue))
    /\ UNCHANGED <<buffered, envVars, lives, memVars, jobVars, histVars>>

\* Mutant: the barrier answers for its own batch only.
BarrierOwnBatch(ok) ==
  /\ \/ stored' = stored \cup ToSet(queue) /\ ok = TRUE /\ UNCHANGED lossy
     \/ ok = FALSE /\ GaveUp(ToSet(queue))
  /\ queue' = <<>> /\ dropped' = FALSE

\* Flush: everything queued is written or given up; the answer is an error if
\* that, or any batch since the last answer, was given up.
Barrier(ok) ==
  /\ \/ stored' = stored \cup ToSet(queue) /\ ok = ~dropped /\ UNCHANGED lossy
     \/ ok = FALSE /\ GaveUp(ToSet(queue))
  /\ queue' = <<>> /\ dropped' = FALSE

\* A batch with rows of live snapshots only is given up.
LiveBatchDropped ==
  /\ phase # "down" /\ ~dropped /\ ~healthy
  /\ dropped' = TRUE
  /\ UNCHANGED <<buffered, envVars, stored, queue, lossy, lives, memVars, jobVars, histVars>>

-----------------------------------------------------------------------------
(* A life of the process. *)

Start ==
  /\ phase = "down" /\ lives < MaxLives
  /\ lives' = lives + 1
  /\ phase' = "load" /\ full' = TRUE
  /\ UNCHANGED <<buffered, envVars, writerVars, last, jobVars, histVars>>

BarsOf(s, rows) == {r[2] : r \in {q \in rows : q[1] = s}}

MaxOr(S, none) == IF S = {} THEN none ELSE Max(S)

\* LoadState: the newest calibrated row of each symbol.  A failed query is
\* tried again.
LoadState ==
  /\ phase = "load"
  /\ phase' = "idle"
  /\ last' = [s \in Symbols |-> MaxOr(BarsOf(s, stored), None)]
  /\ UNCHANGED <<buffered, envVars, writerVars, lives, full, jobVars, histVars>>

AtLeast(x, least) == IF x < least THEN least ELSE x
AtMost(x, most)   == IF x > most THEN most ELSE x

\* The newest bar whose label can be expected.
newestPublishedStart == IF settled THEN clock - 1 ELSE clock - 2

\* The oldest bar to fetch again: from the last calibrated bar on, a page back
\* at least in a start-up pass, never beyond MaxBackfill.
Since(s) ==
  LET from == IF last[s] = None THEN clock - ColdStart ELSE last[s]
      page == clock - (MaxLimit - LimitMargin)
  IN AtLeast(AtLeast(IF full THEN AtMost(from, page) ELSE from, clock - MaxBackfill), 0)

\* Mutant: a symbol that lacks its newest bar only is left for later.
PlannedLater == {s \in Symbols : /\ full \/ last[s] = None \/ last[s] + 1 < newestPublishedStart
                                 /\ clock - Since(s) >= 1}

\* planJobs: the symbols a pass has to fetch.
Planned == {s \in Symbols : /\ full \/ last[s] = None \/ last[s] < newestPublishedStart
                            /\ clock - Since(s) >= 1}

\* A pass begins: the start-up pass at once, the others every Interval.
Plan ==
  /\ phase = "idle"
  /\ phase' = "pass" /\ full' = FALSE
  /\ jpc' = [s \in Symbols |-> IF s \in Planned THEN "todo" ELSE "none"]
  /\ since' = [s \in Symbols |-> IF s \in Planned THEN Since(s) ELSE 0]
  /\ needed' = [s \in Symbols |-> IF s \in Planned THEN clock - Since(s) ELSE 0]
  /\ newest' = [s \in Symbols |-> None]
  /\ base' = [s \in Symbols |-> IF s \in Planned /\ Since(s) > last[s] THEN Since(s) ELSE base[s]]
  /\ UNCHANGED <<buffered, envVars, writerVars, lives, last, upto, limit, pages, open, torn>>

\* fetchSymbol begins: the range ends now, which is later than the plan.
BeginFetch(s) ==
  /\ phase \in {"pass", "retry"} /\ jpc[s] = "todo"
  /\ jpc' = [jpc EXCEPT ![s] = "fetch"]
  /\ upto' = [upto EXCEPT ![s] = clock]
  /\ limit' = [limit EXCEPT ![s] = AtMost(needed[s] + LimitMargin, MaxLimit)]
  /\ pages' = [pages EXCEPT ![s] = {}] /\ newest' = [newest EXCEPT ![s] = None]
  /\ UNCHANGED <<buffered, envVars, writerVars, lives, memVars, since, needed, histVars>>

\* History: the newest points of the range, at most limit of them.
PageOf(s) ==
  LET served == {b \in since[s]..(upto[s] - 1) : b < published[s]}
  IN {b \in served : Cardinality({c \in served : c > b}) < limit[s]}

\* The rows of bars B of s, oldest first.
RowsOf(s, B) ==
  [i \in 1..Cardinality(B) |-> <<s, CHOOSE b \in B : Cardinality({c \in B : c < b}) = i - 1>>]

Push(s, B) ==
  /\ queue' = queue \o RowsOf(s, B)
  /\ newest' = [newest EXCEPT ![s] = MaxOr(B \cup {@}, None)]
  /\ open' = open \cup {s}

\* Mutant: the page is written before the pages below it have been read.
EmitAtOnce(s, page, ends) ==
  /\ Push(s, page)
  /\ UNCHANGED pages

\* The points of a page go to the writer at once, or are kept until the last
\* page of the symbol has been read.
Emit(s, page, ends) ==
  \/ /\ ~buffered
     /\ Push(s, page)
     /\ UNCHANGED pages
  \/ /\ buffered /\ ~ends
     /\ pages' = [pages EXCEPT ![s] = @ \cup page]
     /\ UNCHANGED <<queue, newest, open>>
  \/ /\ buffered /\ ends
     /\ Push(s, pages[s] \cup page)
     /\ pages' = [pages EXCEPT ![s] = {}]

\* One request of fetchSymbol or pageBack, and what it leads to.
FetchPage(s) ==
  LET page == PageOf(s)
      low  == IF page = {} THEN 0 ELSE Min(page)
      ends == Cardinality(page) < limit[s] \/ low <= since[s]
  IN
    /\ jpc[s] = "fetch"
    /\ IF ends
       THEN /\ jpc' = [jpc EXCEPT ![s] = "done"]
            /\ UNCHANGED <<upto, limit>>
       ELSE /\ upto' = [upto EXCEPT ![s] = low]
            /\ limit' = [limit EXCEPT ![s] = AtMost(low - since[s] + 1 + LimitMargin, MaxLimit)]
            /\ UNCHANGED jpc
    /\ \/ page = {} /\ pages[s] = {} /\ UNCHANGED <<queue, newest, open, pages>>
       \/ page \cup pages[s] # {} /\ Emit(s, page, ends)
    /\ UNCHANGED <<buffered, envVars, stored, dropped, lossy, lives, memVars, since, needed, base,
                   torn>>

\* A request fails, or the paging does not come to an end.
FetchFails(s) ==
  /\ ~healthy /\ jpc[s] = "fetch"
  /\ jpc' = [jpc EXCEPT ![s] = "failed"]
  /\ pages' = [pages EXCEPT ![s] = {}]
  /\ UNCHANGED <<buffered, envVars, writerVars, lives, memVars, since, needed, upto, limit, newest,
                 histVars>>

JobsOver == \A s \in Symbols : jpc[s] \in {"none", "done", "failed"}

\* The failed symbols are tried once more.
Retry ==
  /\ phase = "pass" /\ JobsOver
  /\ \E s \in Symbols : jpc[s] = "failed"
  /\ phase' = "retry"
  /\ jpc' = [s \in Symbols |-> IF jpc[s] = "failed" THEN "todo" ELSE jpc[s]]
  /\ UNCHANGED <<buffered, envVars, writerVars, lives, full, last, since, needed, upto, limit,
                 pages, newest, histVars>>

\* The state advances only when the barrier has answered without an error, and
\* only for the symbols that were fetched to the end.
Commit(ok) ==
  LET done == {s \in Symbols : ok /\ jpc[s] = "done"} IN
    /\ last' = [s \in Symbols |-> IF s \in done THEN MaxOr({last[s], newest[s]}, None) ELSE last[s]]
    /\ open' = open \ done

\* The end of a pass.
EndPass ==
  /\ phase \in {"pass", "retry"} /\ JobsOver
  /\ phase = "pass" => \A s \in Symbols : jpc[s] # "failed"
  /\ \E ok \in BOOLEAN : Barrier(ok) /\ Commit(ok)
  /\ phase' = "idle"
  /\ ForgetJobs
  /\ UNCHANGED <<buffered, envVars, lives, full, base, torn>>

\* The life ends: by a crash, which loses the queue, or by Syncer.Close, which
\* cancels the pass wherever it stands and lets the writer flush its queue.
Down ==
  /\ phase # "down" /\ lives < MaxLives
  /\ \E n \in 0..Len(queue) : stored' = stored \cup ToSet(SubSeq(queue, 1, n))
  /\ queue' = <<>> /\ dropped' = FALSE /\ UNCHANGED lossy
  /\ phase' = "down" /\ full' = TRUE
  /\ last' = [s \in Symbols |-> None]
  /\ ForgetJobs
  /\ torn' = torn \cup open /\ open' = {}
  /\ UNCHANGED <<buffered, envVars, lives, base>>

-----------------------------------------------------------------------------

Reconcile ==
  \/ LoadState \/ Plan \/ Retry \/ EndPass
  \/ \E s \in Symbols : BeginFetch(s) \/ FetchPage(s) \/ FetchFails(s)

Next ==
  \/ Tick \/ Settle \/ Heal \/ (\E s \in Symbols : PublishBar(s))
  \/ WriteBatch \/ LiveBatchDropped
  \/ Start \/ Reconcile \/ Down

Spec == Init /\ [][Next]_vars

\* The process is started again, its reconciler runs, time passes, and outages
\* end.  At any moment only one of the steps of the first line is due, or the
\* fetches of several symbols, each of which ends.
FairSpec ==
  /\ Spec
  /\ WF_vars(Start \/ Reconcile)
  /\ WF_vars(Settle) /\ WF_vars(Heal)

-----------------------------------------------------------------------------
NoHole(s) == last[s] # None => \A b \in base[s]..last[s] : <<s, b>> \in stored

(* What the reconciler believes to be calibrated is in the table: every    *)
(* bar from the oldest it had to cover up to last, however often pages     *)
(* failed, batches were given up in the background and barriers reported   *)
(* it; otherwise the next pass would start behind a hole nobody fills.     *)
(* Symbols whose rows were written but not committed when a life ended are *)
(* left out: see ProgressMeansStored.                                      *)
(* The state is well typed besides.                                        *)
ProgressOfCommittedIsStored == TypeOK /\ \A s \in Symbols \ torn : NoHole(s)

(* The ratios are written oldest first, so that they keep the promise over *)
(* a crash or a stop at any moment, as long as no batch was given up.      *)
OldestFirstSurvivesCrash == buffered /\ ~lossy => \A s \in Symbols : NoHole(s)

(* A bar the exchange serves gets into the table, unless it is older than  *)
(* the reconciler had to look, its symbol was torn or the process is down: *)
(* neither the skipping of symbols that are up to date nor a failed pass   *)
(* leaves a bar behind for good.                                           *)
BarsGetCalibrated ==
  \A s \in Symbols, b \in Bars :
    (b < published[s]) ~> (<<s, b>> \in stored \/ b < base[s] \/ s \in torn \/ phase = "down")

(* "A gap longer than one page is paged back to the last calibrated bar"   *)
(* and last "is loaded from ClickHouse once at start-up" (hist.go:84-91):  *)
(* once the start-up pass of a life is over and committed, no hole is left *)
(* behind the progress, also when that was read back after a restart.      *)
ProgressMeansStored ==
  phase = "idle" /\ ~full /\ healthy => \A s \in Symbols : last[s] >= base[s] => NoHole(s)
=============================================================================
