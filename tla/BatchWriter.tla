---------------------------- MODULE BatchWriter ----------------------------
(***************************************************************************)
(* internal/chwriter/writer.go: the batching ClickHouse writer.            *)
(*                                                                         *)
(* Rows are numbered in the order the ingest channel accepts them, so      *)
(* 1..accepted are the rows whose Push or TryPush returned nil.  One       *)
(* goroutine (loop) moves them from the channel to the batch and flushes   *)
(* the batch; callers of Flush hand it a barrier over an unbuffered        *)
(* channel.  A flush is a sequence of attempts: loop sits in flushWithRetry*)
(* while lpc = "flush", and fl says which flush it is and who bounds it.   *)
(***************************************************************************)
EXTENDS Integers, Sequences, FiniteSets

CONSTANTS
  MaxRows,       (* bound on the rows accepted                             *)
  MaxCalls,      (* bound on the Push/TryPush calls in progress            *)
  ChannelSize,   (* capacity of input                                      *)
  BatchSize,     (* Config.BatchSize                                       *)
  MaxRetries,    (* Config.MaxRetries                                      *)
  Flushers,      (* calls of Flush                                         *)
  None,          (* no call of Flush                                       *)
  MayStop        (* whether Close and cancellation of the context occur    *)

ASSUME BatchWriterAssumption ==
  /\ {MaxRows, MaxCalls, MaxRetries} \subseteq Nat
  /\ {ChannelSize, BatchSize} \subseteq Nat \ {0}
  /\ None \notin Flushers
  /\ MayStop \in BOOLEAN

VARIABLES
  input,      (* BatchWriter.input                                         *)
  batch,      (* loop's batch                                              *)
  stored,     (* rows of the inserts that succeeded, in that order         *)
  dropped,    (* rows given up after a failed flush (rowsDropped)          *)
  unsure,     (* rows not known as written that a failed attempt may have  *)
              (* applied                                                   *)
  accepted,   (* how many rows the channel has accepted                    *)
  calls,      (* Push/TryPush calls past the closed check                  *)
  lpc,        (* where loop stands                                         *)
  fl,         (* the flush in progress                                     *)
  fpc,        (* calls of Flush: "idle", "send", "wait", "done"            *)
  fres,       (* what a call of Flush returned                             *)
  fcancel,    (* the caller's context is done                              *)
  barrier,    (* the call of Flush loop serves, or None                    *)
  lastErr,    (* the barrier has seen a failed flush                       *)
  closed,     (* BatchWriter.closed                                        *)
  stopped,    (* stopCh is closed                                          *)
  cancelled,  (* the root context is done                                  *)
  fmark,      (* history: accepted when a call of Flush began              *)
  lossy,      (* history: calls of Flush that had rows dropped for them    *)
  cmark       (* history: accepted when loop saw the end of its life       *)

rowVars   == <<input, batch, stored, dropped, accepted>>
flushVars == <<fpc, fres, fcancel>>
stopVars  == <<closed, stopped, cancelled>>
histVars  == <<unsure, fmark, lossy, cmark>>
vars == <<rowVars, calls, lpc, fl, flushVars, barrier, lastErr, stopVars, histVars>>

RowsOf(s) == {s[i] : i \in 1..Len(s)}

\* why: which call of flush; attempt: failed tries so far; backoff: between
\* two tries.  The flush ends in the state named by back.
NoFlush == [why |-> "none", attempt |-> 0, backoff |-> FALSE, back |-> "select"]

Flushes ==
  [why : {"none", "root", "manual", "shutdown"}, attempt : 0..MaxRetries,
   backoff : BOOLEAN, back : {"select", "barrier", "reply", "drain", "done"}]

RowsOK ==
  /\ input \in Seq(1..MaxRows) /\ Len(input) <= ChannelSize
  /\ batch \in Seq(1..MaxRows) /\ Len(batch) <= BatchSize
  /\ stored \in Seq(1..MaxRows)
  /\ dropped \subseteq 1..MaxRows
  /\ accepted \in 0..MaxRows /\ cmark \in 0..MaxRows

LoopOK ==
  /\ lpc \in {"select", "flush", "barrier", "reply", "drain", "done"}
  /\ fl \in Flushes
  /\ barrier \in Flushers \cup {None}
  /\ lossy \subseteq Flushers
  /\ {lastErr, closed, stopped, cancelled} \subseteq BOOLEAN

CallsOK ==
  /\ calls \in 0..MaxCalls
  /\ fpc \in [Flushers -> {"idle", "send", "wait", "done"}]
  /\ fres \in [Flushers -> {"none", "nil", "error", "closed", "cancelled"}]
  /\ fcancel \in [Flushers -> BOOLEAN]
  /\ fmark \in [Flushers -> 0..MaxRows]

TypeOK == RowsOK /\ LoopOK /\ CallsOK /\ unsure \subseteq 1..MaxRows

Init ==
  /\ input = <<>> /\ batch = <<>> /\ stored = <<>> /\ dropped = {}
  /\ accepted = 0 /\ calls = 0
  /\ lpc = "select" /\ fl = NoFlush
  /\ fpc = [f \in Flushers |-> "idle"] /\ fres = [f \in Flushers |-> "none"]
  /\ fcancel = [f \in Flushers |-> FALSE]
  /\ barrier = None /\ lastErr = FALSE
  /\ closed = FALSE /\ stopped = FALSE /\ cancelled = FALSE
  /\ fmark = [f \in Flushers |-> 0] /\ lossy = {} /\ unsure = {}
  /\ cmark = MaxRows

-----------------------------------------------------------------------------
(* Push and TryPush. *)

\* The closed check.
BeginPush ==
  /\ ~closed
  /\ calls < MaxCalls
  /\ calls' = calls + 1
  /\ UNCHANGED <<rowVars, lpc, fl, flushVars, barrier, lastErr, stopVars, histVars>>

\* The channel takes the row: the call returns nil.
Accept ==
  /\ calls > 0 /\ accepted < MaxRows
  /\ Len(input) < ChannelSize
  /\ calls' = calls - 1
  /\ accepted' = accepted + 1
  /\ input' = Append(input, accepted + 1)
  /\ UNCHANGED <<batch, stored, dropped, lpc, fl, flushVars, barrier, lastErr, stopVars,
                 histVars>>

\* TryPush finds the channel full; Push gives up on stopCh or on its context.
Refuse ==
  /\ calls > 0
  /\ calls' = calls - 1
  /\ UNCHANGED <<rowVars, lpc, fl, flushVars, barrier, lastErr, stopVars, histVars>>

-----------------------------------------------------------------------------
(* Flush, the caller's side. *)

BeginFlush(f) ==
  /\ fpc[f] = "idle"
  /\ \/ /\ closed
        /\ fpc'  = [fpc EXCEPT ![f] = "done"]
        /\ fres' = [fres EXCEPT ![f] = "closed"]
     \/ ~closed /\ fpc' = [fpc EXCEPT ![f] = "send"] /\ UNCHANGED fres
  /\ fmark' = [fmark EXCEPT ![f] = accepted]
  /\ UNCHANGED <<rowVars, calls, lpc, fl, fcancel, barrier, lastErr, stopVars, unsure,
                 lossy, cmark>>

\* The caller's context ends: a cancelled or expired backfill request.
CancelFlush(f) ==
  /\ fpc[f] \in {"send", "wait"} /\ ~fcancel[f]
  /\ fcancel' = [fcancel EXCEPT ![f] = TRUE]
  /\ UNCHANGED <<rowVars, calls, lpc, fl, fpc, fres, barrier, lastErr, stopVars, histVars>>

\* The caller stops waiting; loop may still be serving it.
LeaveFlush(f) ==
  /\ fpc[f] \in {"send", "wait"}
  /\ \/ fcancel[f] /\ fres' = [fres EXCEPT ![f] = "cancelled"]
     \/ (stopped \/ lpc = "done") /\ fres' = [fres EXCEPT ![f] = "closed"]
  /\ fpc' = [fpc EXCEPT ![f] = "done"]
  /\ UNCHANGED <<rowVars, calls, lpc, fl, fcancel, barrier, lastErr, stopVars, histVars>>

-----------------------------------------------------------------------------
(* flush and flushWithRetry, inside loop. *)

\* flush(ctx, reason) on a non-empty batch; loop goes on at back.
StartFlush(why, back) ==
  /\ lpc' = "flush"
  /\ fl'  = [why |-> why, attempt |-> 0, backoff |-> FALSE, back |-> back]

\* The context that bounds the flush in progress is done.  That of a shutdown
\* flush expires on its own.
CtxDone ==
  CASE fl.why = "root"     -> cancelled
    [] fl.why = "manual"   -> fcancel[barrier]
    [] fl.why = "shutdown" -> TRUE
    [] OTHER               -> FALSE

EndFlush ==
  /\ batch' = <<>>
  /\ lpc'   = fl.back
  /\ fl'    = NoFlush

\* Mutant: the batch is not emptied after it was written.
FlushOKKeepsBatch ==
  /\ lpc = "flush" /\ ~fl.backoff
  /\ Len(stored) < MaxRows
  /\ stored' = stored \o batch
  /\ lpc' = fl.back /\ fl' = NoFlush
  /\ UNCHANGED <<input, batch, dropped, accepted, calls, flushVars, barrier, lastErr,
                 stopVars, histVars>>

FlushOK ==
  /\ lpc = "flush" /\ ~fl.backoff
  /\ stored' = stored \o batch
  /\ unsure' = unsure \ RowsOf(batch)
  /\ EndFlush
  /\ UNCHANGED <<input, dropped, accepted, calls, flushVars, barrier, lastErr, stopVars,
                 fmark, lossy, cmark>>

\* The batch is given up; a barrier remembers it.
Drop ==
  /\ dropped' = dropped \cup RowsOf(batch)
  /\ lossy' = IF fl.why = "manual" THEN lossy \cup {barrier} ELSE lossy
  /\ lastErr' = (lastErr \/ fl.why = "manual")
  /\ EndFlush

\* A failed attempt: retry after a backoff unless the retries or the context
\* are exhausted.  When the error comes from Send the server may have applied
\* the rows (the table replaces a row that is written again).
FlushFailed ==
  /\ lpc = "flush" /\ ~fl.backoff
  /\ \/ /\ fl.attempt >= MaxRetries \/ CtxDone
        /\ Drop
     \/ /\ fl.attempt < MaxRetries
        /\ fl.why # "shutdown" => ~CtxDone
        /\ fl' = [fl EXCEPT !.attempt = @ + 1, !.backoff = TRUE]
        /\ UNCHANGED <<batch, dropped, lpc, lastErr, lossy>>
  /\ unsure' \in {unsure, unsure \cup RowsOf(batch)}
  /\ UNCHANGED <<input, stored, accepted, calls, flushVars, barrier, stopVars, fmark, cmark>>

\* The backoff ends with another attempt, or with the context.
BackoffEnd ==
  /\ lpc = "flush" /\ fl.backoff
  /\ \/ /\ fl' = [fl EXCEPT !.backoff = FALSE]
        /\ UNCHANGED <<batch, dropped, lpc, lastErr, lossy>>
     \/ CtxDone /\ Drop
  /\ UNCHANGED <<input, stored, accepted, calls, flushVars, barrier, stopVars, unsure, fmark,
                 cmark>>

-----------------------------------------------------------------------------
(* loop. *)

\* Receive a row; a full batch is flushed at once, under the given context.
TakeRow(why, back) ==
  /\ input # <<>>
  /\ batch' = Append(batch, Head(input))
  /\ input' = Tail(input)
  /\ \/ Len(batch) + 1 < BatchSize /\ UNCHANGED <<lpc, fl>>
     \/ Len(batch) + 1 >= BatchSize /\ StartFlush(why, back)
  /\ UNCHANGED <<stored, dropped, accepted, calls, flushVars, barrier, lastErr, stopVars,
                 histVars>>

SelectRow == lpc = "select" /\ TakeRow("root", "select")

\* The ticker.
SelectTick ==
  /\ lpc = "select" /\ batch # <<>>
  /\ StartFlush("root", "select")
  /\ UNCHANGED <<rowVars, calls, flushVars, barrier, lastErr, stopVars, histVars>>

\* The rendezvous with a caller of Flush.
SelectFlush(f) ==
  /\ lpc = "select" /\ fpc[f] = "send"
  /\ fpc' = [fpc EXCEPT ![f] = "wait"]
  /\ barrier' = f /\ lastErr' = FALSE
  /\ lpc' = "barrier"
  /\ UNCHANGED <<rowVars, calls, fl, fres, fcancel, stopVars, histVars>>

BarrierRow == lpc = "barrier" /\ TakeRow("manual", "barrier")

\* Mutant: a batch that is not full is left for the ticker.
BarrierLeavesBatch ==
  /\ lpc = "barrier" /\ input = <<>>
  /\ lpc' = "reply"
  /\ UNCHANGED <<rowVars, calls, fl, flushVars, barrier, lastErr, stopVars, histVars>>

\* The channel is empty: flush what is left, then answer.
BarrierEmpty ==
  /\ lpc = "barrier" /\ input = <<>>
  /\ \/ batch # <<>> /\ StartFlush("manual", "reply")
     \/ batch = <<>> /\ lpc' = "reply" /\ UNCHANGED fl
  /\ UNCHANGED <<rowVars, calls, flushVars, barrier, lastErr, stopVars, histVars>>

\* Mutant: no answer to a caller whose barrier failed.
ReplyOnlyOK ==
  /\ lpc = "reply"
  /\ lpc' = "select" /\ barrier' = None /\ lastErr' = FALSE
  /\ \/ /\ fpc[barrier] = "wait" /\ ~lastErr
        /\ fpc'  = [fpc EXCEPT ![barrier] = "done"]
        /\ fres' = [fres EXCEPT ![barrier] = "nil"]
     \/ (fpc[barrier] # "wait" \/ lastErr) /\ UNCHANGED <<fpc, fres>>
  /\ UNCHANGED <<rowVars, calls, fl, fcancel, stopVars, histVars>>

\* req.done is buffered: a caller that has left does not block loop.
Reply ==
  /\ lpc = "reply"
  /\ lpc' = "select" /\ barrier' = None /\ lastErr' = FALSE
  /\ \/ /\ fpc[barrier] = "wait"
        /\ fpc'  = [fpc EXCEPT ![barrier] = "done"]
        /\ fres' = [fres EXCEPT ![barrier] = IF lastErr THEN "error" ELSE "nil"]
     \/ fpc[barrier] # "wait" /\ UNCHANGED <<fpc, fres>>
  /\ UNCHANGED <<rowVars, calls, fl, fcancel, stopVars, histVars>>

\* stopCh or the root context: shutdown begins.
SelectStop ==
  /\ lpc = "select"
  /\ stopped \/ cancelled
  /\ lpc' = "drain"
  /\ closed' = TRUE
  /\ cmark' = IF closed THEN cmark ELSE accepted
  /\ UNCHANGED <<rowVars, calls, fl, flushVars, barrier, lastErr, stopped, cancelled, unsure,
                 fmark, lossy>>

DrainRow == lpc = "drain" /\ TakeRow("shutdown", "drain")

\* Mutant: the rows still in the channel are forgotten at shutdown.
DrainSkipsInput ==
  /\ lpc = "drain"
  /\ \/ batch # <<>> /\ StartFlush("shutdown", "done")
     \/ batch = <<>> /\ lpc' = "done" /\ UNCHANGED fl
  /\ UNCHANGED <<rowVars, calls, flushVars, barrier, lastErr, stopVars, histVars>>

DrainEmpty ==
  /\ lpc = "drain" /\ input = <<>>
  /\ \/ batch # <<>> /\ StartFlush("shutdown", "done")
     \/ batch = <<>> /\ lpc' = "done" /\ UNCHANGED fl
  /\ UNCHANGED <<rowVars, calls, flushVars, barrier, lastErr, stopVars, histVars>>

-----------------------------------------------------------------------------
(* Close and the root context. *)

CloseStore ==
  /\ MayStop /\ ~closed
  /\ closed' = TRUE
  /\ cmark' = accepted
  /\ UNCHANGED <<rowVars, calls, lpc, fl, flushVars, barrier, lastErr, stopped, cancelled,
                 unsure, fmark, lossy>>

CloseSignal ==
  /\ closed /\ ~stopped
  /\ stopped' = TRUE
  /\ UNCHANGED <<rowVars, calls, lpc, fl, flushVars, barrier, lastErr, closed, cancelled,
                 histVars>>

CancelContext ==
  /\ MayStop /\ ~cancelled
  /\ cancelled' = TRUE
  /\ UNCHANGED <<rowVars, calls, lpc, fl, flushVars, barrier, lastErr, closed, stopped,
                 histVars>>

-----------------------------------------------------------------------------

LoopStep ==
  \/ SelectRow \/ SelectTick \/ (\E f \in Flushers : SelectFlush(f)) \/ SelectStop
  \/ BarrierRow \/ BarrierEmpty \/ Reply
  \/ DrainRow \/ DrainEmpty
  \/ FlushOK \/ FlushFailed \/ BackoffEnd

Next ==
  \/ BeginPush \/ Accept \/ Refuse
  \/ \E f \in Flushers : BeginFlush(f) \/ CancelFlush(f) \/ LeaveFlush(f)
  \/ LoopStep
  \/ CloseStore \/ CloseSignal \/ CancelContext

Spec == Init /\ [][Next]_vars

\* loop never stops running; the select is fair to a waiting barrier because
\* Go picks a ready case at random, so it is not passed over for ever; a
\* caller that may return does.
Fairness ==
  /\ WF_vars(LoopStep)
  /\ \A f \in Flushers : SF_vars(SelectFlush(f)) /\ WF_vars(LeaveFlush(f))
  /\ SF_vars(SelectStop)
  /\ WF_vars(CloseSignal)

FairSpec == Spec /\ Fairness

-----------------------------------------------------------------------------
Pipeline == stored \o batch \o input

(* Every accepted row is, exactly once, written, or in the batch, or in    *)
(* the channel, or counted as dropped; and rows are written in the order   *)
(* in which they were accepted.  A batch that is retried, split by a       *)
(* barrier or cut by a shutdown neither loses nor repeats a row; what a    *)
(* failed attempt may have applied is still to be written again, unless it *)
(* is counted as dropped.  The state is well typed besides.                *)
RowsAccountedOnce ==
  /\ TypeOK
  /\ \A i, j \in 1..Len(Pipeline) : i < j => Pipeline[i] < Pipeline[j]
  /\ RowsOf(Pipeline) \cap dropped = {}
  /\ RowsOf(Pipeline) \cup dropped = 1..accepted
  /\ unsure \subseteq RowsOf(batch) \cup dropped

(* A call of Flush returns.                                                *)
FlushReturns == \A f \in Flushers : (fpc[f] \in {"send", "wait"}) ~> (fpc[f] = "done")

(* What backfill.go:603 says of Flush: after it all rows are in the table, *)
(* those that were accepted before the call.                               *)
FlushMeansWritten ==
  \A f \in Flushers : fres[f] = "nil" => 1..fmark[f] \subseteq RowsOf(stored)

(* An accepted row is written or given up, whether the batch fills, the    *)
(* ticker fires or the writer is closed.  What stays in the channel when   *)
(* loop has ended was accepted after closed was set: by a call that had    *)
(* passed the closed check before.                                         *)
RowsLeaveTheBuffer ==
  \A n \in 1..MaxRows :
    (n <= accepted) ~> (n \notin RowsOf(batch \o input) \/ (lpc = "done" /\ n > cmark))

(* The safety half of it: when loop has ended, every row accepted before   *)
(* closed was set is written or counted as dropped, and none is left in a  *)
(* batch nobody will flush (shutdown, Close).                              *)
EndedIsFlushed ==
  lpc = "done" => batch = <<>> /\ 1..cmark \subseteq RowsOf(stored) \cup dropped

-----------------------------------------------------------------------------
callOf(f) == IF fpc[f] = "idle" THEN "idle" ELSE IF fpc[f] = "done" THEN fres[f] ELSE "open"

Barrier == INSTANCE BarrierWriter WITH
  pending <- RowsOf(batch) \cup RowsOf(input),
  written <- RowsOf(stored),
  lost    <- dropped,
  mark    <- fmark,
  failed  <- lossy,
  call    <- [f \in Flushers |-> callOf(f)]

(* The channel, the batch, the retries and the barrier of loop implement   *)
(* the writer its callers rely on (BarrierWriter): each insert takes the   *)
(* oldest pending rows, all or none, and a call of Flush answers nil only  *)
(* when every row accepted before it has an outcome.                       *)
ImplementsBarrier == Barrier!Spec
=============================================================================
