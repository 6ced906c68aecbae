------------------------------- MODULE Sweeper -------------------------------
(***************************************************************************)
(* The integrity sweep (internal/backfill/sweep.go), the hole query it     *)
(* runs (clickhouse.go), the repair request it submits (backfill.go), and  *)
(* the REST pager that serves the request (rest.go).                       *)
(*                                                                         *)
(* The clock counts bars: bar b opens at b and closes at b + 1, and now is *)
(* the bar that is open.  Inside a request times are the exchange's        *)
(* milliseconds, D of them to a bar, because its cursor is not aligned to  *)
(* a bar.  The live stream archives each bar as it closes, or loses it.    *)
(* A symbol is a number: sweeps take symbols in their sorted order.        *)
(***************************************************************************)
EXTENDS Integers, FiniteSets

CONSTANTS
  SweptSymbols,
  Traded,       (* the bars the exchange has, for each symbol              *)
  D,            (* milliseconds in a bar                                   *)
  Window,       (* SweepConfig.Window, in bars                             *)
  Settle,       (* SweepConfig.Settle                                      *)
  EmptyTTL,     (* SweepConfig.EmptyTTL                                    *)
  MaxRanges,    (* SweepConfig.MaxRanges                                   *)
  PageLim,      (* the fetcher's pageLim                                   *)
  MaxTime,      (* bound on the clock                                      *)
  MaxMisses,    (* bound on the bars the live stream loses                 *)
  MaxFaults     (* bound on the faults of a repair                         *)

ASSUME SweeperAssumption ==
  /\ SweptSymbols \subseteq Nat /\ IsFiniteSet(SweptSymbols)
  /\ {Window, Settle, EmptyTTL, MaxRanges, PageLim, MaxTime} \subseteq Nat \ {0}
  /\ D \in Nat /\ D > 1
  /\ {MaxMisses, MaxFaults} \subseteq Nat
  /\ Traded \in [SweptSymbols -> SUBSET Nat]

VARIABLES
  now,        (* the clock                                                 *)
  archive,    (* the bars in ClickHouse, for each symbol                   *)
  spc,        (* where the sweep loop stands                               *)
  start,      (* SweepOnce's start                                         *)
  empty,      (* Sweeper.empty: known-empty range starts and their expiry  *)
  req,        (* the repair request, as the backfiller processes it        *)
  cancelled,  (* the sweeper's context is done                             *)
  misses, faults,
  vain        (* history: the keys ever marked empty                       *)

loopVars == <<spc, start, empty, vain>>
sweepVars == <<now, archive, loopVars, req, cancelled, misses, faults>>

Bars   == 0..MaxTime - 1
Keys   == [sym : SweptSymbols, from : Bars]
Ranges == [sym : SweptSymbols, from : Bars, to : Bars]
barsOf(r) == r.from..r.to - 1

\* A request: ranges not begun, the range being fetched (none when cursor is
\* negative), the ranges with an outcome, and whether Result was delivered.
NoJob == [sym |-> 0, from |-> 0, to |-> 0, cursor |-> -1, asOf |-> 0, got |-> FALSE]
NoReq == [todo |-> {}, job |-> NoJob, outs |-> {}, state |-> "none"]

Outcomes == [rng : Ranges, got : BOOLEAN, err : BOOLEAN]

SweepTypeOK ==
  /\ now \in 0..MaxTime
  /\ archive \in [SweptSymbols -> SUBSET Bars]
  /\ spc \in {"timer", "await", "done"} /\ start \in 0..MaxTime
  /\ empty \subseteq [key : Keys, exp : 0..MaxTime + EmptyTTL] /\ vain \subseteq Keys
  /\ req.todo \subseteq Ranges /\ req.outs \subseteq Outcomes
  /\ req.state \in {"none", "open", "answered"}
  /\ req.job.cursor \in -1..D * MaxTime
  /\ cancelled \in BOOLEAN
  /\ misses \in 0..MaxMisses /\ faults \in 0..MaxFaults

SweepInit ==
  /\ now = 0 /\ archive = [s \in SweptSymbols |-> {}]
  /\ spc = "timer" /\ start = 0
  /\ empty = {} /\ vain = {}
  /\ req = NoReq
  /\ cancelled = FALSE /\ misses = 0 /\ faults = 0

-----------------------------------------------------------------------------
(* The live stream. *)

\* Bar now closes: it is archived for the symbols that traded, but for those
\* whose frame is lost.
Tick ==
  /\ now < MaxTime
  /\ now' = now + 1
  /\ \E lost \in SUBSET {s \in SweptSymbols : now \in Traded[s]} :
       /\ misses + Cardinality(lost) <= MaxMisses
       /\ misses' = misses + Cardinality(lost)
       /\ archive' = [s \in SweptSymbols |-> IF now \in Traded[s] /\ s \notin lost
                                        THEN archive[s] \cup {now} ELSE archive[s]]
  /\ UNCHANGED <<loopVars, req, cancelled, faults>>

-----------------------------------------------------------------------------
(* SweepOnce. *)

\* FindGaps: a hole lies between a bar and its successor among the archived
\* bars of the window.
FindGaps(from, to) ==
  {r \in Ranges :
     LET in == archive[r.sym] \cap (from..to - 1) IN
     /\ r.from < r.to
     /\ r.from - 1 \in in /\ r.to \in in
     /\ barsOf(r) \cap in = {}}

sweepTo(at)   == at - Settle
sweepFrom(at) == sweepTo(at) - Window

keyOf(r) == [sym |-> r.sym, from |-> r.from]

\* Mutant: the whole map is forgotten at each sweep.
PruneAll(at) == {}

\* pruneEmpty, then isEmpty.
pruneEmpty(at)    == {e \in empty : at < e.exp}
isEmpty(r, known) == \E e \in known : e.key = keyOf(r) /\ now < e.exp

before(a, b) == a.sym < b.sym \/ (a.sym = b.sym /\ a.from < b.from)

\* Mutant: nothing is submitted when there is more than the cap.
CappedAllOrNothing(holes) == IF Cardinality(holes) > MaxRanges THEN {} ELSE holes

\* The first MaxRanges holes by symbol and time.
Capped(holes) == {r \in holes : Cardinality({q \in holes : before(q, r)}) < MaxRanges}

Fault == faults < MaxFaults /\ faults' = faults + 1

\* The timer of the loop fires and the query fails.
FindError ==
  /\ spc = "timer" /\ ~cancelled
  /\ Fault
  /\ UNCHANGED <<now, archive, loopVars, req, cancelled, misses>>

\* The timer fires, the holes are found, the known-empty ones left out, and the
\* request submitted.  The query takes less than a bar.  The backfiller skips
\* the symbols it holds already; when it takes none of them, or is closed or
\* full, it answers at once.
Sweep ==
  /\ spc = "timer" /\ ~cancelled
  /\ LET known  == pruneEmpty(now)
         wanted == Capped({r \in FindGaps(sweepFrom(now), sweepTo(now)) : ~isEmpty(r, known)})
         syms   == {r.sym : r \in wanted}
     IN
     /\ empty' = known
     /\ \/ wanted = {} /\ UNCHANGED <<spc, start, req, faults>>
        \/ /\ wanted # {}
           /\ spc' = "await" /\ start' = now
           /\ \E taken \in SUBSET syms :
                /\ IF taken = syms THEN UNCHANGED faults ELSE Fault
                /\ req' = [NoReq EXCEPT !.todo = {r \in wanted : r.sym \in taken},
                                        !.state = IF taken = {} THEN "answered" ELSE "open"]
  /\ UNCHANGED <<now, archive, vain, cancelled, misses>>

\* Mutant: Fetched is looked at before Err.
VainErrors(o) == ~o.got

\* An outcome without an error and without a bar.
Vain(o) == ~o.err /\ ~o.got

\* The answer: markEmpty for the ranges the exchange has nothing for.
Answer ==
  LET vainKeys == {keyOf(o.rng) : o \in {p \in req.outs : Vain(p)}} IN
  /\ spc = "await" /\ req.state = "answered"
  /\ empty' = {e \in empty : e.key \notin vainKeys} \cup {[key |-> k, exp |-> start + EmptyTTL] : k \in vainKeys}
  /\ vain' = vain \cup vainKeys
  /\ spc' = "timer" /\ start' = 0 /\ req' = NoReq
  /\ UNCHANGED <<now, archive, cancelled, misses, faults>>

\* The context ends the loop, also while it waits for the answer; the request
\* goes on without it.
Leave ==
  /\ cancelled /\ spc \in {"timer", "await"}
  /\ spc' = "done"
  /\ UNCHANGED <<now, archive, start, empty, vain, req, cancelled, misses, faults>>

Cancel ==
  /\ ~cancelled
  /\ cancelled' = TRUE
  /\ UNCHANGED <<now, archive, loopVars, req, misses, faults>>

-----------------------------------------------------------------------------
(* The repair: FetchStream for each range, page by page. *)

fetching == req.state = "open" /\ req.job.cursor >= 0

\* A worker takes a range; the workers of the backfiller fetch disjoint ranges,
\* so that one after the other shows what they do together.
Begin ==
  /\ req.state = "open" /\ req.job.cursor < 0 /\ req.todo # {}
  /\ \E r \in req.todo :
       req' = [req EXCEPT !.todo = @ \ {r},
                          !.job = [sym |-> r.sym, from |-> r.from, to |-> r.to,
                                   cursor |-> D * r.from, asOf |-> now, got |-> FALSE]]
  /\ UNCHANGED <<now, archive, loopVars, cancelled, misses, faults>>

Outcome(got, err) ==
  [rng |-> [sym |-> req.job.sym, from |-> req.job.from, to |-> req.job.to],
   got |-> got, err |-> err]

\* pageLimitFor: the bars still needed and two of slack, at most a page.
pageLimitFor(cursor, until) ==
  LET need == (until - cursor) \div D + 2 IN IF need > PageLim THEN PageLim ELSE need

\* The exchange answers with the first limit bars that open in cursor..until,
\* the open bar included.
Page(cursor, until, limit) ==
  LET all == {b \in Traded[req.job.sym] : b <= now /\ cursor <= D * b /\ D * b <= until}
  IN  {b \in all : Cardinality({c \in all : c < b}) < limit}

Last(rows) == CHOOSE b \in rows : \A c \in rows : c <= b

\* Mutant: the cursor moves a bar too far.
NextPastBar(rows) == D * Last(rows) + D + 1

\* Where the next page starts.
nextCursor(rows) == D * Last(rows) + 1

\* One page: its bars that belong to the range and have closed are archived,
\* unless the archive writer drops them; a short page is the last.
FetchPage ==
  LET j     == req.job
      until == D * j.to
      limit == pageLimitFor(j.cursor, until)
      rows  == Page(j.cursor, until, limit)
      batch == {b \in rows : /\ j.from <= b /\ b < j.to
                             /\ D * b + D - 1 < D * j.asOf - 1}
      got   == j.got \/ batch # {}
      ended == rows = {} \/ Cardinality(rows) < limit \/ nextCursor(rows) >= until
  IN
  /\ fetching
  /\ \/ archive' = [archive EXCEPT ![j.sym] = @ \cup batch] /\ UNCHANGED faults
     \/ batch # {} /\ Fault /\ UNCHANGED archive
  /\ req' = IF ended
            THEN [req EXCEPT !.job = NoJob, !.outs = @ \cup {Outcome(got, FALSE)}]
            ELSE [req EXCEPT !.job.cursor = nextCursor(rows), !.job.got = got]
  /\ UNCHANGED <<now, loopVars, cancelled, misses>>

\* A page fails: an error of the exchange, a limit, a timeout.  The pages before
\* it stay in the archive.
PageError ==
  /\ fetching
  /\ Fault
  /\ req' = [req EXCEPT !.job = NoJob, !.outs = @ \cup {Outcome(req.job.got, TRUE)}]
  /\ UNCHANGED <<now, archive, loopVars, cancelled, misses>>

\* gateTimeout: the ranges not begun have no outcome.
Expire ==
  /\ req.state = "open" /\ req.job.cursor < 0 /\ req.todo # {}
  /\ Fault
  /\ req' = [req EXCEPT !.todo = {}]
  /\ UNCHANGED <<now, archive, loopVars, cancelled, misses>>

\* Result is delivered; it has a buffer of one.
Deliver ==
  /\ req.state = "open" /\ req.job.cursor < 0 /\ req.todo = {}
  /\ req' = [req EXCEPT !.state = "answered"]
  /\ UNCHANGED <<now, archive, loopVars, cancelled, misses, faults>>

-----------------------------------------------------------------------------

Loop   == Sweep \/ FindError \/ Answer \/ Leave
Repair == Begin \/ FetchPage \/ PageError \/ Expire \/ Deliver

SweepNext == Tick \/ Loop \/ Cancel \/ Repair

SweepSpec == SweepInit /\ [][SweepNext]_sweepVars

SweepFairSpec == SweepSpec /\ WF_sweepVars(Loop) /\ WF_sweepVars(Repair)

-----------------------------------------------------------------------------

(* A hole that is suppressed as known-empty has no bar the exchange could  *)
(* give: neither a failed fetch nor a page run that broke off marks it.    *)
(* The state is well typed besides.                                        *)
SuppressedInVain ==
  /\ SweepTypeOK
  /\ \A e \in empty : \A r \in FindGaps(sweepFrom(now), sweepTo(now)) :
       keyOf(r) = e.key => barsOf(r) \cap Traded[r.sym] = {}

(* "Each empty range is asked once while it is inside the window": when    *)
(* EmptyTTL is the window, no range is found empty a second time.          *)
EmptyAskedOnce ==
  [][\A k \in Keys : k \in vain /\ spc = "await" /\ spc' = "timer" =>
       ~\E o \in req.outs : Vain(o) /\ keyOf(o.rng) = k]_sweepVars

(* While no row was dropped and nothing failed, a range that was fetched   *)
(* is whole: pages of any length neither skip a bar nor stop short of one. *)
FetchedIsWhole ==
  faults = 0 => \A o \in req.outs : ~o.err => barsOf(o.rng) \cap Traded[o.rng.sym] \subseteq archive[o.rng.sym]

(* When losses and faults are over, no hole of the window stays that the   *)
(* exchange can fill, although a sweep repairs only MaxRanges of them.     *)
HolesGetRepaired ==
  <>[](cancelled \/ \A r \in FindGaps(sweepFrom(now), sweepTo(now)) : barsOf(r) \cap Traded[r.sym] = {})
=============================================================================
