---------------------------- MODULE LiveBarWriter ----------------------------
(***************************************************************************)
(* The writer of unfinished bars (internal/rediswin/livebar_writer.go): a  *)
(* bounded channel, and workers that write each snapshot to Redis once.    *)
(*                                                                         *)
(* The collector calls TryEnqueue from many goroutines (through            *)
(* Dispatcher.HandleKlineEvent); the blocking Enqueue has no caller.  A    *)
(* snapshot is only whether it was sent in time: no step looks at more.    *)
(* ctx is the root context.                                                *)
(***************************************************************************)
EXTENDS Integers, Sequences

CONSTANTS
  Producers,    (* goroutines that call TryEnqueue                         *)
  Workers,
  ChannelSize

ASSUME LiveBarWriterAssumption ==
  Workers # {} /\ ChannelSize \in Nat \ {0}

VARIABLES
  ctx,        (* the root context is done                                  *)
  lClosed,    (* closed                                                    *)
  lStop,      (* stopCh is closed                                          *)
  input,      (* the channel: for each snapshot whether it was sent late,  *)
              (* which is history                                          *)
  worker,     (* "off", "loop", "drain" or "gone"; with a job in hand      *)
  sending     (* the producers between TryEnqueue's check and its send     *)

liveVars == <<lClosed, lStop, input, worker, sending>>

LiveTypeOK ==
  /\ ctx \in BOOLEAN /\ lClosed \in BOOLEAN /\ lStop \in BOOLEAN
  /\ input \in Seq(BOOLEAN) /\ Len(input) <= ChannelSize
  /\ worker \in [Workers -> [at : {"off", "loop", "drain", "gone"}, job : BOOLEAN]]
  /\ sending \subseteq Producers

LiveInit ==
  /\ ctx = FALSE /\ lClosed = FALSE /\ lStop = FALSE
  /\ input = <<>>
  /\ worker = [w \in Workers |-> [at |-> "off", job |-> FALSE]]
  /\ sending = {}

\* NewLiveBarWriter starts the workers.
StartWorkers == worker' = [w \in Workers |-> [at |-> "loop", job |-> FALSE]]

\* TryEnqueue: ErrClosed, or the job is made ...
TryEnqueue(p) ==
  /\ p \notin sending /\ ~lClosed
  /\ sending' = sending \cup {p}
  /\ UNCHANGED <<ctx, lClosed, lStop, input, worker>>

\* ... and sent, or dropped when there is no room.
Send(p) ==
  /\ p \in sending
  /\ sending' = sending \ {p}
  /\ input' = IF Len(input) < ChannelSize THEN Append(input, lClosed) ELSE input
  /\ UNCHANGED <<ctx, lClosed, lStop, worker>>

hand(w, place, job) == worker' = [worker EXCEPT ![w] = [at |-> place, job |-> job]]

\* A worker takes a job, in its loop or in drain.
Take(w) ==
  /\ worker[w].at \in {"loop", "drain"} /\ ~worker[w].job
  /\ input # <<>>
  /\ hand(w, worker[w].at, TRUE)
  /\ input' = Tail(input)
  /\ UNCHANGED <<ctx, lClosed, lStop, sending>>

\* The pipeline has been executed, failed, or run into writeTimeout.
Written(w) ==
  /\ worker[w].job
  /\ hand(w, worker[w].at, FALSE)
  /\ UNCHANGED <<ctx, lClosed, lStop, input, sending>>

\* Mutant: the worker returns without draining the channel.
LeaveAtOnce(w) ==
  /\ worker[w] = [at |-> "loop", job |-> FALSE]
  /\ \/ ctx /\ lClosed' = TRUE
     \/ lStop /\ UNCHANGED lClosed
  /\ hand(w, "gone", FALSE)
  /\ UNCHANGED <<ctx, lStop, input, sending>>

\* The context or Close ends the loop; the context also closes the writer.
Leave(w) ==
  /\ worker[w] = [at |-> "loop", job |-> FALSE]
  /\ \/ ctx /\ lClosed' = TRUE
     \/ lStop /\ UNCHANGED lClosed
  /\ hand(w, "drain", FALSE)
  /\ UNCHANGED <<ctx, lStop, input, sending>>

Drained(w) ==
  /\ worker[w] = [at |-> "drain", job |-> FALSE] /\ input = <<>>
  /\ hand(w, "gone", FALSE)
  /\ UNCHANGED <<ctx, lClosed, lStop, input, sending>>

\* Close, up to the wait for the workers.
CloseLive == lClosed' = TRUE /\ lStop' = TRUE

WorkersGone == \A w \in Workers : worker[w].at \in {"off", "gone"}

LiveStep(w) == Take(w) \/ Written(w) \/ Leave(w) \/ Drained(w)

(* What is left in the channel when the workers are gone was sent by a     *)
(* producer that had looked at closed before it was set: Close and the end *)
(* of the context both write what was accepted before.                     *)
OnlyLateFramesLeft ==
  WorkersGone => \A i \in DOMAIN input : input[i]
=============================================================================
