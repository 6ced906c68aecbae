--------------------------- MODULE BarrierWriter ---------------------------
(***************************************************************************)
(* What chwriter.BatchWriter promises its callers, without the channel,    *)
(* the batch, the retries and the goroutine (internal/chwriter/writer.go:  *)
(* "Flush blocks until ... everything currently buffered ... is persisted").*)
(* A row is pending from the call that accepts it until it is written or   *)
(* given up; a call of Flush answers nil only when the rows accepted       *)
(* before it are pending no more, and none was given up while serving it.  *)
(* BatchWriter implements this specification (BatchWriter!ImplementsBarrier)*)
(***************************************************************************)
EXTENDS Integers

CONSTANTS MaxRows, Flushers

VARIABLES
  accepted,   (* how many rows the writer has taken                        *)
  pending,    (* the rows it still owes an outcome                         *)
  written,    (* the rows in the table                                     *)
  lost,       (* the rows given up                                         *)
  call,       (* each call of Flush: "idle", "open", or what it returned   *)
  mark,       (* accepted when the call was made                           *)
  failed      (* the calls for which rows were given up                    *)

vars == <<accepted, pending, written, lost, call, mark, failed>>

Init ==
  /\ accepted = 0
  /\ pending = {} /\ written = {} /\ lost = {}
  /\ call = [f \in Flushers |-> "idle"]
  /\ mark = [f \in Flushers |-> 0]
  /\ failed = {}

\* Push or TryPush returns nil.
Take ==
  /\ accepted < MaxRows
  /\ accepted' = accepted + 1
  /\ pending'  = pending \cup {accepted + 1}
  /\ UNCHANGED <<written, lost, call, mark, failed>>

\* One insert: some of the oldest pending rows, all or none of them.
Oldest(S) ==
  /\ S # {} /\ S \subseteq pending
  /\ \A n \in S, m \in pending \ S : n < m

Write ==
  /\ \E S \in SUBSET pending :
       Oldest(S) /\ pending' = pending \ S /\ written' = written \cup S
  /\ UNCHANGED <<accepted, lost, call, mark, failed>>

\* The insert has failed for good, perhaps on behalf of a call of Flush.
GiveUp ==
  /\ \E S \in SUBSET pending :
       Oldest(S) /\ pending' = pending \ S /\ lost' = lost \cup S
  /\ failed' = failed \/ \E f \in Flushers : failed' = failed \cup {f}
  /\ UNCHANGED <<accepted, written, call, mark>>

\* Flush is called; a closed writer answers at once.
Call(f) ==
  /\ call[f] = "idle"
  /\ \E state \in {"open", "closed"} : call' = [call EXCEPT ![f] = state]
  /\ mark' = [mark EXCEPT ![f] = accepted]
  /\ UNCHANGED <<accepted, pending, written, lost, failed>>

\* Every row accepted before the call has an outcome.
Settled(f) == \A n \in pending : n > mark[f]

Answer(f) ==
  /\ call[f] = "open"
  /\ \/ /\ Settled(f) /\ f \notin failed
        /\ call' = [call EXCEPT ![f] = "nil"]
     \/ /\ Settled(f) /\ f \in failed
        /\ call' = [call EXCEPT ![f] = "error"]
     \/ \E r \in {"closed", "cancelled"} : call' = [call EXCEPT ![f] = r]
  /\ UNCHANGED <<accepted, pending, written, lost, mark, failed>>

Next ==
  \/ Take \/ Write \/ GiveUp
  \/ \E f \in Flushers : Call(f) \/ Answer(f)

Spec == Init /\ [][Next]_vars
=============================================================================
