----------------------------- MODULE WindowSeam -----------------------------
(***************************************************************************)
(* The seam between the live path and the gapfill path of one (symbol,     *)
(* interval) key: the dispatcher's workers (handleClosed) push closed bars *)
(* to the Redis window and to the archive writer, while a backfill request *)
(* (Backfiller.process) fetches, flushes, reads the archive back and       *)
(* replaces the window, both through the window gate.                      *)
(*                                                                         *)
(* Bars are numbered in the order they close.  The request queue and other *)
(* requests are module Backfiller, the archive writer's batches and        *)
(* retries module BatchWriter, sections of several symbols Dispatcher.     *)
(***************************************************************************)
EXTENDS WindowGate, Sequences

CONSTANTS
  K,            (* the key of this module, as its callers spell it         *)
  MaxBar,       (* bound on the number of bars that close                  *)
  Workers,      (* the dispatcher's closed-bar workers                     *)
  QueueSize,    (* capacity of closedCh                                    *)
  BufferSize,   (* rows the archive writer buffers                         *)
  WindowSize,   (* Config.WindowSize                                       *)
  MayFail       (* whether Redis, ClickHouse and REST calls may fail       *)

ASSUME SeamAssumption ==
  /\ K \in RawKey
  /\ {MaxBar, QueueSize, BufferSize, WindowSize} \subseteq Nat \ {0}
  /\ MayFail \in BOOLEAN

Bars == 1..MaxBar
OpenEnd == -1     \* a request without an Until

VARIABLES
  now,          (* bars the exchange has closed                            *)
  connected,    (* the shard's websocket is up                             *)
  seenUp,       (* it was up before, so the next connect has a gap         *)
  gapOwed,      (* connected again, the gap not yet given to OnGap         *)
  recentGap,    (* gapSeen: the last gap is younger than gapDebounce       *)
  queue,        (* closedCh                                                *)
  wpc, wbar,    (* where each worker stands, and the bar it handles        *)
  swallowed,    (* history: bars the gate kept from the window             *)
  buf,          (* rows accepted by the archive writer, not yet written    *)
  archive,      (* ClickHouse: bars of the key                             *)
  dropped,      (* rows the archive writer accepted and gave up            *)
  window,       (* the Redis list, newest first                            *)
  coldStart,    (* SubmitColdStart has been called                         *)
  pc,           (* where the key's request stands; "none" without one      *)
  until,        (* last bar of the request; OpenEnd until it is processed  *)
  since,        (* first bar of the request                                *)
  next,         (* next bar to fetch                                       *)
  tail,         (* the bars read back from ClickHouse, newest first        *)
  complete      (* every bar of since..until was fetched and accepted      *)

liveVars == <<queue, wpc, wbar, swallowed>>
reqVars  == <<coldStart, pc, until, since, next, tail, complete>>
exVars   == <<now, connected, seenUp, gapOwed, recentGap>>
vars     == <<gateVars, exVars, liveVars, buf, archive, dropped, window, reqVars>>

Elements(s) == {s[i] : i \in DOMAIN s}

\* Up to WindowSize of the newest bars of S, newest first (LastBars, reversed).
Newest(S) ==
  LET kept == {b \in S : Cardinality({c \in S : c > b}) < WindowSize}
  IN [i \in 1..Cardinality(kept) |->
        CHOOSE b \in kept : Cardinality({c \in kept : c > b}) = i - 1]

MaxOf(S) == CHOOSE b \in S : \A c \in S : c <= b

\* A reader of the window finds b, or a full window of newer bars.
Shown(b) ==
  \/ b \in Elements(window)
  \/ Len(window) = WindowSize /\ \A c \in Elements(window) : c > b

Stages == {"resume", "fetch", "flush", "read", "rebuild"}

LiveOK ==
  /\ now \in 0..MaxBar
  /\ {connected, seenUp, gapOwed, recentGap} \subseteq BOOLEAN
  /\ queue \in Seq(Bars) /\ Len(queue) <= QueueSize
  /\ wpc \in [Workers -> {"idle", "check", "push", "archive", "ready", "announce"}]
  /\ wbar \in [Workers -> 0..MaxBar] /\ swallowed \subseteq Bars

StoreOK ==
  /\ buf \in Seq(Bars) /\ Len(buf) <= BufferSize
  /\ archive \subseteq Bars /\ dropped \subseteq Bars
  /\ window \in Seq(Bars) /\ Len(window) <= WindowSize

RequestOK ==
  /\ pc \in {"none", "queued", "release"} \cup Stages
  /\ until \in Bars \cup {0, OpenEnd}
  /\ {since, next} \subseteq 0..(MaxBar + 1)
  /\ tail \in Seq(Bars) /\ Len(tail) <= WindowSize
  /\ {coldStart, complete} \subseteq BOOLEAN

TypeOK == GateTypeOK /\ LiveOK /\ StoreOK /\ RequestOK

\* The process starts on an archive and a window that an earlier run left.
Init ==
  /\ GateInit
  /\ now \in 0..1 /\ connected = FALSE
  /\ seenUp = FALSE /\ gapOwed = FALSE /\ recentGap = FALSE
  /\ queue = <<>>
  /\ wpc = [w \in Workers |-> "idle"] /\ wbar = [w \in Workers |-> 0]
  /\ swallowed = {}
  /\ buf = <<>> /\ dropped = {}
  /\ \E n \in 0..now : archive = 1..n
  /\ window \in {<<>>, Newest(archive)}
  /\ coldStart = FALSE
  /\ pc = "none" /\ until = 0 /\ since = 0 /\ next = 0 /\ tail = <<>>
  /\ complete = FALSE

-----------------------------------------------------------------------------
(* The exchange and the shard. *)

\* A bar closes; while the shard is connected its frame reaches the
\* dispatcher, which drops it when closedCh is full.
BarCloses ==
  /\ now < MaxBar
  /\ now' = now + 1
  /\ queue' = IF connected /\ Len(queue) < QueueSize THEN Append(queue, now + 1) ELSE queue
  /\ UNCHANGED <<gateVars, connected, seenUp, gapOwed, recentGap, wpc, wbar, swallowed,
                 buf, archive, dropped, window, reqVars>>

Disconnect ==
  /\ connected /\ ~gapOwed
  /\ connected' = FALSE
  /\ UNCHANGED <<gateVars, now, seenUp, gapOwed, recentGap, liveVars, buf, archive, dropped,
                 window, reqVars>>

\* Frames flow from here on, before the shard reports the gap.
Connect ==
  /\ ~connected
  /\ connected' = TRUE
  /\ seenUp' = TRUE
  /\ gapOwed' = seenUp
  /\ UNCHANGED <<gateVars, now, recentGap, liveVars, buf, archive, dropped, window, reqVars>>

\* Submit: the key is held and the request queued, unless one is in flight.
Submit(end) ==
  \/ pc # "none" /\ UNCHANGED <<gateVars, pc, until>>
  \/ /\ pc = "none"
     /\ Hold(K)
     /\ pc' = "queued" /\ until' = end

\* OnGap, HandleGap: a gap within gapDebounce of the last is ignored.
ReportGap ==
  /\ gapOwed
  /\ gapOwed' = FALSE
  /\ \/ recentGap /\ UNCHANGED <<gateVars, recentGap, pc, until>>
     \/ ~recentGap /\ recentGap' = TRUE /\ Submit(now)
  /\ UNCHANGED <<now, connected, seenUp, liveVars, buf, archive, dropped, window,
                 coldStart, since, next, tail, complete>>

DebounceElapse ==
  /\ recentGap
  /\ recentGap' = FALSE
  /\ UNCHANGED <<gateVars, now, connected, seenUp, gapOwed, liveVars, buf, archive, dropped,
                 window, reqVars>>

SubmitColdStart ==
  /\ ~coldStart
  /\ coldStart' = TRUE
  /\ Submit(OpenEnd)
  /\ UNCHANGED <<exVars, liveVars, buf, archive, dropped, window, since, next,
                 tail, complete>>

-----------------------------------------------------------------------------
(* A worker handles one closed bar (worker, handleClosed, gatedWindow,     *)
(* gatedReady).  With one symbol every bar completes its section.          *)

Worker(w, from, to) == wpc[w] = from /\ wpc' = [wpc EXCEPT ![w] = to]

TakeJob(w) ==
  /\ Worker(w, "idle", "check")
  /\ queue # <<>>
  /\ wbar' = [wbar EXCEPT ![w] = Head(queue)]
  /\ queue' = Tail(queue)
  /\ UNCHANGED <<gateVars, exVars, swallowed, buf, archive, dropped, window, reqVars>>

\* The gate is read before the push, and not again.
CheckWindow(w) ==
  /\ \/ HeldWindow(K) /\ Worker(w, "check", "archive")
        /\ swallowed' = swallowed \cup {wbar[w]}
     \/ ~HeldWindow(K) /\ Worker(w, "check", "push") /\ UNCHANGED swallowed
  /\ UNCHANGED <<gateVars, exVars, queue, wbar, buf, archive, dropped, window,
                 reqVars>>

\* Mutant: the script does not compare the bar with the head.
PushedAnyBar(b) ==
  LET longer == <<b>> \o window
  IN IF Len(longer) > WindowSize THEN SubSeq(longer, 1, WindowSize) ELSE longer

\* monotonicPushScript: only a bar newer than the head, then LTRIM.
Pushed(b) ==
  IF window # <<>> /\ b <= Head(window) THEN window
  ELSE LET longer == <<b>> \o window
       IN IF Len(longer) > WindowSize THEN SubSeq(longer, 1, WindowSize) ELSE longer

PushWindow(w) ==
  /\ Worker(w, "push", "archive")
  /\ \/ window' = Pushed(wbar[w])
     \/ MayFail /\ UNCHANGED window
  /\ UNCHANGED <<gateVars, exVars, queue, wbar, swallowed, buf, archive, dropped, reqVars>>

\* TryPush never blocks: a full buffer refuses the row.
PushArchive(w) ==
  /\ Worker(w, "archive", "ready")
  /\ buf' = IF Len(buf) < BufferSize THEN Append(buf, wbar[w]) ELSE buf
  /\ UNCHANGED <<gateVars, exVars, queue, wbar, swallowed, archive, dropped, window, reqVars>>

\* The end of handleClosed; the gate is read before the XADD, and not again.
CheckReady(w) ==
  /\ \/ HeldInterval(K[2]) /\ Worker(w, "ready", "idle") /\ wbar' = [wbar EXCEPT ![w] = 0]
     \/ ~HeldInterval(K[2]) /\ Worker(w, "ready", "announce") /\ UNCHANGED wbar
  /\ UNCHANGED <<gateVars, exVars, queue, swallowed, buf, archive, dropped, window, reqVars>>

\* PublishKlineReady.
Announce(w) ==
  /\ Worker(w, "announce", "idle")
  /\ wbar' = [wbar EXCEPT ![w] = 0]
  /\ UNCHANGED <<gateVars, exVars, queue, swallowed, buf, archive, dropped, window, reqVars>>

\* The archive writer writes a batch, or gives it up after its retries.
WriteBatch ==
  \E n \in 1..Len(buf) :
    LET batch == Elements(SubSeq(buf, 1, n)) IN
      /\ buf' = SubSeq(buf, n + 1, Len(buf))
      /\ \/ archive' = archive \cup batch /\ UNCHANGED dropped
         \/ MayFail /\ dropped' = dropped \cup batch /\ UNCHANGED archive
      /\ UNCHANGED <<gateVars, exVars, liveVars, window, reqVars>>

-----------------------------------------------------------------------------
(* The request (process, processInterval), once the runner takes it. *)

Stage(from, to) == pc = from /\ pc' = to

\* A cold start, and a universe addition, ends at the time of processing.
BeginProcess ==
  /\ Stage("queued", "resume")
  /\ until' = IF until = OpenEnd THEN now ELSE until
  /\ complete' = TRUE
  /\ UNCHANGED <<gateVars, exVars, liveVars, buf, archive, dropped, window,
                 coldStart, since, next, tail>>

\* Resume after max(start_time); from the anchor without rows or when the
\* query fails.  With no closed bar in the range nothing is fetched.
Resume ==
  \E s \in {IF archive = {} THEN 1 ELSE MaxOf(archive) + 1} \cup (IF MayFail THEN {1} ELSE {}) :
    /\ Stage("resume", IF s > until THEN "flush" ELSE "fetch")
    /\ since' = s /\ next' = s
    /\ UNCHANGED <<gateVars, exVars, liveVars, buf, archive, dropped, window,
                   coldStart, until, tail, complete>>

\* fetchAndArchive pushes the fetched bars one by one; Push waits for room.
FetchBar ==
  /\ Stage("fetch", IF next = until THEN "flush" ELSE "fetch")
  /\ Len(buf) < BufferSize
  /\ buf' = Append(buf, next)
  /\ next' = next + 1
  /\ UNCHANGED <<gateVars, exVars, liveVars, archive, dropped, window, coldStart,
                 until, since, tail, complete>>

\* The fetch ends early: REST returns no bar whose close is younger than a
\* second, or it fails; the request goes on with what it has.
FetchEnds ==
  /\ Stage("fetch", "flush")
  /\ MayFail \/ next = now
  /\ complete' = FALSE
  /\ UNCHANGED <<gateVars, exVars, liveVars, buf, archive, dropped, window,
                 coldStart, until, since, next, tail>>

\* Mutant: the flush returns before the buffered rows are written.
FlushTooEarly ==
  /\ Stage("flush", "read")
  /\ UNCHANGED <<gateVars, exVars, liveVars, buf, archive, dropped, window,
                 coldStart, until, since, next, tail, complete>>

\* Flush returns nil once what was buffered is written; a batch given up
\* during it makes it an error, and the windows are not rebuilt.
Flush ==
  /\ buf' = <<>>
  /\ \/ Stage("flush", "read") /\ archive' = archive \cup Elements(buf)
        /\ UNCHANGED <<dropped, complete>>
     \/ /\ MayFail /\ Stage("flush", "release")
        /\ dropped' = dropped \cup Elements(buf)
        /\ complete' = FALSE
        /\ UNCHANGED archive
  /\ UNCHANGED <<gateVars, exVars, liveVars, window, coldStart, until, since, next,
                 tail>>

ReadTail ==
  /\ Stage("read", "rebuild")
  /\ tail' = Newest(archive)
  /\ UNCHANGED <<gateVars, exVars, liveVars, buf, archive, dropped, window,
                 coldStart, until, since, next, complete>>

Rebuild ==
  /\ Stage("rebuild", "release")
  /\ window' = tail
  /\ UNCHANGED <<gateVars, exVars, liveVars, buf, archive, dropped, coldStart,
                 until, since, next, tail, complete>>

\* gateTimeout expires, or LastBars or RebuildWindow fails: nothing more is
\* done for the window.
GiveUp ==
  /\ MayFail /\ pc \in Stages /\ pc' = "release"
  /\ complete' = FALSE
  /\ UNCHANGED <<gateVars, exVars, liveVars, buf, archive, dropped, window,
                 coldStart, until, since, next, tail>>

ReleaseKey ==
  /\ Stage("release", "none")
  /\ Release(K)
  /\ tail' = <<>> /\ until' = 0 /\ since' = 0 /\ next' = 0 /\ complete' = FALSE
  /\ UNCHANGED <<exVars, liveVars, buf, archive, dropped, window, coldStart>>

-----------------------------------------------------------------------------

Exchange == BarCloses \/ Disconnect \/ Connect \/ ReportGap \/ DebounceElapse

HandleClosed(w) ==
  TakeJob(w) \/ CheckWindow(w) \/ PushWindow(w) \/ PushArchive(w) \/ CheckReady(w) \/ Announce(w)

Process ==
  BeginProcess \/ Resume \/ FetchBar \/ FetchEnds \/ Flush \/ ReadTail \/ Rebuild
    \/ GiveUp \/ ReleaseKey

Next ==
  Exchange \/ SubmitColdStart \/ (\E w \in Workers : HandleClosed(w)) \/ WriteBatch \/ Process

Spec == Init /\ [][Next]_vars

-----------------------------------------------------------------------------

(* The window is in strictly descending order of start time, whatever the  *)
(* workers and a rebuild do to it: a push that passed the gate before the  *)
(* hold may land after the rebuild and must not put an older bar on top    *)
(* (monotonicPushScript, rediswin/writer.go:22-42).                        *)
(* The state is well typed besides.                                        *)
WindowNewestFirst ==
  TypeOK /\ \A i, j \in DOMAIN window : i < j => window[i] > window[j]

(* A request that ran to its end without an error leaves the window        *)
(* showing every bar of the range it repaired, except those the archive    *)
(* writer gave up: the flush makes the fetched rows visible to LastBars    *)
(* before the window is replaced (backfill.go:599-638).                    *)
RepairShows ==
  pc = "release" /\ complete => \A b \in since..until : b \in dropped \/ Shown(b)

(* "whether cold start or reconnect, start from the newest archived time   *)
(* plus one interval, 100% zero gap" (backfill.go:542-543): when a repair  *)
(* has run to its end without an error no closed bar up to its end is      *)
(* missing from the archive.                                               *)
ZeroGap ==
  pc = "release" /\ complete /\ dropped = {} => 1..until \subseteq archive

(* What gate.go:11-12 says: a bar the gate keeps from the window flows to  *)
(* ClickHouse, so the rebuild picks it up.                                 *)
SwallowedIsRebuilt == pc = "none" => \A b \in swallowed \cap archive : Shown(b)
=============================================================================
