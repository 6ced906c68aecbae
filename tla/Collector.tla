------------------------------ MODULE Collector ------------------------------
(***************************************************************************)
(* internal/collector: the supervised WebSocket shards.                    *)
(*                                                                         *)
(* A stream is a pair <<symbol, interval>>; a shard carries the streams of *)
(* one interval whose symbols hash to one bucket.  A shard that SetSymbols *)
(* drops and creates again is a new shard of the same id, and the old one  *)
(* may still be stopping; shards are therefore numbered in the order of    *)
(* their creation.                                                         *)
(*                                                                         *)
(* Time is counted in frames: between now and now + 1 the exchange sends   *)
(* one frame on every stream, so that "frame t was lost" has a meaning and *)
(* the window reported to OnGap can be compared with what was really lost. *)
(* Time zero is Go's zero time.                                            *)
(***************************************************************************)
EXTENDS Integers, Sequences, FiniteSets

CONSTANTS
  Symbols, Intervals,
  Bucket,           (* bucketOf: the bucket of a symbol                    *)
  MaxShards,        (* bound on the shards ever created                    *)
  MaxSets,          (* bound on the calls of SetSymbols                    *)
  MaxTime,          (* bound on the clock                                  *)
  MaxFaults,        (* bound on the faults of the network                  *)
  StaleTimeout,     (* Config.StaleTimeout, in frames                      *)
  GapCap,           (* capacity of gapCh                                   *)
  MayStop           (* whether Close and cancellation of the context occur *)

ASSUME CollectorAssumption ==
  /\ {MaxShards, MaxSets, MaxFaults} \subseteq Nat
  /\ {MaxTime, StaleTimeout, GapCap} \subseteq Nat \ {0}
  /\ IsFiniteSet(Symbols) /\ IsFiniteSet(Intervals)
  /\ DOMAIN Bucket = Symbols
  /\ MayStop \in BOOLEAN

VARIABLES
  sh,         (* the shards, by number                                     *)
  shards,     (* Collector.shards: the number of the shard of an id, or 0  *)
  created,    (* how many shards have been created                         *)
  sets,       (* how many calls of SetSymbols have begun                   *)
  setting,    (* the call of SetSymbols in progress                        *)
  closed,     (* Collector.closed                                          *)
  closing,    (* where Close stands                                        *)
  cancelled,  (* the root context is done                                  *)
  now,        (* the clock                                                 *)
  faults,     (* how many faults the network has had                       *)
  owed,       (* history: frames lost and not yet in a reported gap        *)
  forgone     (* history: frames whose silent gap was thrown away          *)

setVars   == <<shards, created, sets, setting>>
closeVars == <<closed, closing, cancelled>>
vars == <<sh, setVars, closeVars, now, faults, owed, forgone>>

Shard   == 1..MaxShards
Streams == Symbols \X Intervals
Ids     == {<<iv, Bucket[s]>> : iv \in Intervals, s \in Symbols}

\* planStreams: the streams of each shard id; an empty bucket has no shard.
streamsOf(syms, id) == {st \in syms \X Intervals : st[2] = id[1] /\ Bucket[st[1]] = id[2]}
planStreams(syms) == {id \in Ids : streamsOf(syms, id) # {}}

\* diffSets.
toAdd(cur, want)    == want \ cur
toRemove(cur, want) == cur \ want

\* A connection: open; closing, with frames still flowing; gone, between the
\* connector's two sockets; half open; dead, with an error on its way.
NoConn == [status |-> "none", gaps |-> <<>>, down |-> FALSE, lastAt |-> 0]
Dialed == [NoConn EXCEPT !.status = "open"]

NoShard == [pc |-> "none", desired |-> {}, version |-> 0, want |-> {}, ver |-> 0,
            subscribed |-> {}, fed |-> {}, downAt |-> 0, lastMsg |-> 0,
            conn |-> NoConn, stop |-> FALSE]

newShard(streams) == [NoShard EXCEPT !.pc = "delay", !.desired = streams]

Windows == [from : 0..MaxTime, to : 0..MaxTime]

TypeOK ==
  /\ sh \in [Shard ->
        [pc : {"none", "delay", "dial", "dialing", "pump", "sleep", "done"},
         desired : SUBSET Streams, version : 0..MaxSets,
         want : SUBSET Streams, ver : 0..MaxSets,
         subscribed : SUBSET Streams, fed : SUBSET Streams,
         downAt : 0..MaxTime, lastMsg : 0..MaxTime, stop : BOOLEAN,
         conn : [status : {"none", "open", "closing", "gone", "half", "dead"},
                 gaps : UNION {[1..n -> Windows] : n \in 0..GapCap},
                 down : BOOLEAN, lastAt : 0..MaxTime]]]
  /\ shards \in [Ids -> 0..MaxShards]
  /\ created \in 0..MaxShards /\ sets \in 0..MaxSets
  /\ setting \in [on : BOOLEAN, syms : SUBSET Symbols]
  /\ {closed, cancelled} \subseteq BOOLEAN
  /\ closing \in {"no", "wait", "done"}
  /\ now \in 1..MaxTime /\ faults \in 0..MaxFaults
  /\ owed \in [Streams -> SUBSET (1..MaxTime)]
  /\ forgone \in [Streams -> SUBSET (1..MaxTime)]

Idle == [on |-> FALSE, syms |-> {}]

Init ==
  /\ sh = [i \in Shard |-> NoShard]
  /\ shards = [id \in Ids |-> 0] /\ created = 0
  /\ sets = 0 /\ setting = Idle
  /\ closed = FALSE /\ closing = "no" /\ cancelled = FALSE
  /\ now = 1 /\ faults = 0
  /\ owed = [s \in Streams |-> {}] /\ forgone = [s \in Streams |-> {}]

-----------------------------------------------------------------------------
(* SetSymbols.  Its callers are the universe refreshes, one at a time.     *)

Ending == closed \/ cancelled

\* The first closed check.
BeginSet(syms) ==
  /\ ~setting.on /\ sets < MaxSets /\ ~closed
  /\ created + Cardinality({id \in planStreams(syms) : shards[id] = 0}) <= MaxShards
  /\ sets' = sets + 1
  /\ setting' = [on |-> TRUE, syms |-> syms]
  /\ UNCHANGED <<sh, shards, created, closeVars, now, faults, owed, forgone>>

\* setDesired, or stop, on a shard that exists.  A stream that is no longer
\* desired is owed nothing.
Reconciled(r, streams) ==
  IF streams = {}
  THEN [r EXCEPT !.stop = TRUE, !.fed = {}]
  ELSE [r EXCEPT !.desired = streams, !.version = @ + 1, !.fed = @ \cap streams]

\* The numbers given to new shards; the order of the map iteration is free.
Numbering(new) ==
  {f \in [new -> created + 1..created + Cardinality(new)] :
     \A a, b \in new : a # b => f[a] # f[b]}

\* The body, under c.mu.
ApplySet ==
  LET ids == planStreams(setting.syms)
      new == {id \in ids : shards[id] = 0}
  IN
  /\ \E num \in Numbering(new) :
       /\ sh' = [i \in Shard |->
            IF \E id \in new : num[id] = i
            THEN newShard(streamsOf(setting.syms, CHOOSE id \in new : num[id] = i))
            ELSE IF \E id \in Ids : shards[id] = i
            THEN Reconciled(sh[i], streamsOf(setting.syms, CHOOSE id \in Ids : shards[id] = i))
            ELSE sh[i]]
       /\ shards' = [id \in Ids |-> IF id \in new THEN num[id]
                                    ELSE IF id \in ids THEN shards[id] ELSE 0]
  /\ created' = created + Cardinality(new)
  /\ owed'    = [s \in Streams |-> IF s[1] \in setting.syms THEN owed[s] ELSE {}]
  /\ forgone' = [s \in Streams |-> IF s[1] \in setting.syms THEN forgone[s] ELSE {}]

\* Mutant: closed is not checked again under the lock.
EndSetUnchecked ==
  /\ setting.on
  /\ ApplySet
  /\ setting' = Idle
  /\ UNCHANGED <<sets, closeVars, now, faults>>

\* The second closed check; the lock is free.
EndSet ==
  /\ setting.on
  /\ \/ closed /\ UNCHANGED <<sh, shards, created, owed, forgone>>
     \/ ~closed /\ ApplySet
  /\ setting' = Idle
  /\ UNCHANGED <<sets, closeVars, now, faults>>

-----------------------------------------------------------------------------
(* shard.run and connectAndPump. *)

shardRest == <<setVars, closeVars, now>>

Stopping(r) == r.stop \/ cancelled

\* The streams that flow from now on and are owed every frame.
Fed(r, streams) == IF r.stop \/ Ending THEN {} ELSE streams \cap r.desired

Become(i, r) == sh' = [sh EXCEPT ![i] = r]

Exited == [NoShard EXCEPT !.pc = "done"]

Fault == faults < MaxFaults /\ faults' = faults + 1

\* reportGap: OnGap gets the window; nothing to report when it is empty.
ReportGap(streams, from, to) ==
  owed' = [s \in Streams |-> IF s \in streams /\ from # 0 THEN owed[s] \ (from + 1..to)
                                                          ELSE owed[s]]

\* startDelay, the backoff, and the check at the head of the loop.
Sleep(i) ==
  LET r == sh[i] IN
  /\ \/ r.pc \in {"delay", "sleep"} /\ Become(i, [r EXCEPT !.pc = "dial"])
     \/ r.pc \in {"delay", "sleep", "dial"} /\ Stopping(r) /\ Become(i, Exited)
  /\ UNCHANGED <<shardRest, faults, owed, forgone>>

\* snapshotDesired, then Connect begins.
Dial(i) ==
  LET r == sh[i] IN
  /\ r.pc = "dial"
  /\ Become(i, [r EXCEPT !.pc = "dialing", !.want = r.desired, !.ver = r.version])
  /\ UNCHANGED <<shardRest, faults, owed, forgone>>

\* Mutant: the version is read after the connection is up, the set before.
ConnectOKNewVersion(i) ==
  LET r == sh[i] IN
  /\ r.pc = "dialing"
  /\ Become(i, [r EXCEPT !.pc = "pump", !.subscribed = r.want, !.want = {}, !.downAt = 0,
                         !.ver = r.version, !.lastMsg = now, !.conn = Dialed,
                         !.fed = Fed(r, r.want)])
  /\ ReportGap(r.want, r.downAt, now)
  /\ UNCHANGED <<shardRest, faults, forgone>>

\* Connected: the gap since the last frame of the previous connection is
\* reported for the streams of the new one.
ConnectOK(i) ==
  LET r == sh[i] IN
  /\ r.pc = "dialing"
  /\ Become(i, [r EXCEPT !.pc = "pump", !.subscribed = r.want, !.want = {}, !.downAt = 0,
                         !.lastMsg = now, !.conn = Dialed, !.fed = Fed(r, r.want)])
  /\ ReportGap(r.want, r.downAt, now)
  /\ UNCHANGED <<shardRest, faults, forgone>>

\* Mutant: a failed connect forgets the drop that led to it.
ConnectFailedForgets(i) ==
  LET r == sh[i] IN
  /\ r.pc = "dialing" /\ Fault
  /\ Become(i, [r EXCEPT !.pc = "sleep", !.want = {}, !.downAt = 0])
  /\ UNCHANGED <<shardRest, owed, forgone>>

\* The drop is carried forward; with the root context done the shard ends.
ConnectFailed(i) ==
  LET r == sh[i] IN
  /\ r.pc = "dialing" /\ Fault
  /\ Become(i, IF cancelled THEN Exited ELSE [r EXCEPT !.pc = "sleep", !.want = {}])
  /\ UNCHANGED <<shardRest, owed, forgone>>

\* Frames in the silent gaps in the watcher's channel.
Queued(c) == UNION {c.gaps[n].from + 1..c.gaps[n].to : n \in 1..Len(c.gaps)}

\* Frames in a silent gap that the shard has not taken: the watcher has it on
\* record or in its channel.  They go with the connection.
Unclaimed(c, last) == Queued(c) \cup (IF c.down THEN c.lastAt + 1..last ELSE {})

Forgo(streams, frames) ==
  forgone' = [s \in Streams |-> IF s \in streams THEN forgone[s] \cup (owed[s] \cap frames)
                                                 ELSE forgone[s]]

\* connectAndPump returns with LastMessageAt.
Dropped(r) == [r EXCEPT !.pc = "sleep", !.downAt = r.lastMsg, !.conn = NoConn]

EndPump(i, r) ==
  /\ Become(i, Dropped(r))
  /\ Forgo(r.fed, Unclaimed(r.conn, r.lastMsg))

PumpStop(i) ==
  LET r == sh[i] IN
  /\ r.pc = "pump" /\ Stopping(r)
  /\ Become(i, Exited)
  /\ UNCHANGED <<shardRest, faults, owed, forgone>>

\* A silent reconnect the watcher has seen.
PumpGap(i) ==
  LET r == sh[i]
      g == Head(r.conn.gaps)
  IN
  /\ r.pc = "pump" /\ r.conn.gaps # <<>>
  /\ Become(i, [r EXCEPT !.conn.gaps = Tail(@)])
  /\ ReportGap(r.subscribed, g.from, g.to)
  /\ UNCHANGED <<shardRest, faults, forgone>>

PumpError(i) ==
  LET r == sh[i] IN
  /\ r.pc = "pump" /\ r.conn.status = "dead"
  /\ EndPump(i, r)
  /\ UNCHANGED <<shardRest, faults, owed>>

\* Frames reach the shard.
Flows(r) == r.pc = "pump" /\ r.conn.status \in {"open", "closing"}

\* Mutant: the staleness check is skipped.
NeverStale(r) == FALSE

\* No frame for StaleTimeout.  At MaxTime the clock stands for all later times.
Stale(r) == now - r.lastMsg > StaleTimeout \/ (now = MaxTime /\ ~Flows(r))

\* The watchdog: a subscription delta, then the staleness check.  A failed
\* Unsubscribe is only logged.
PumpTick(i) ==
  LET r == sh[i]
      u == IF r.version = r.ver THEN r
           ELSE [r EXCEPT !.subscribed = r.desired, !.ver = r.version, !.fed = Fed(r, r.desired)]
  IN
  /\ r.pc = "pump"
  /\ \/ /\ r.version # r.ver /\ toAdd(r.subscribed, r.desired) # {}
        /\ Fault                                 \* Subscribe fails
        /\ EndPump(i, r)
     \/ Stale(u) /\ EndPump(i, u) /\ UNCHANGED faults
     \/ ~Stale(u) /\ Become(i, u) /\ UNCHANGED <<faults, forgone>>
  /\ UNCHANGED <<shardRest, owed>>

-----------------------------------------------------------------------------
(* The connection, as the connector shows it, and watchStatus. *)

ConnStep(i, status) ==
  /\ Become(i, [sh[i] EXCEPT !.conn.status = status])
  /\ UNCHANGED <<shardRest, owed, forgone>>

ConnFault(i) ==
  /\ sh[i].pc = "pump"
  /\ \/ sh[i].conn.status = "open" /\ ConnStep(i, "half")
     \/ sh[i].conn.status \in {"open", "half", "gone"} /\ ConnStep(i, "dead")
     \/ sh[i].conn.status = "open" /\ ~sh[i].conn.down /\ ConnStep(i, "closing")
  /\ Fault

\* CLOSING lasts long enough for a poll to see it.
ConnRecreate(i) ==
  /\ sh[i].pc = "pump"
  /\ \/ sh[i].conn.status = "closing" /\ sh[i].conn.down /\ ConnStep(i, "gone")
     \/ sh[i].conn.status = "gone" /\ ConnStep(i, "open")
  /\ UNCHANGED faults

\* One poll of watchStatus; a half-open socket is OPEN.  A gap that does not
\* fit in the channel is thrown away.
Poll(i) ==
  LET r == sh[i]
      c == r.conn
      isOpen == c.status \in {"open", "half"}
  IN
  /\ r.pc = "pump"
  /\ \/ /\ ~isOpen /\ ~c.down
        /\ Become(i, [r EXCEPT !.conn.down = TRUE, !.conn.lastAt = r.lastMsg])
        /\ UNCHANGED forgone
     \/ /\ isOpen /\ c.down /\ Len(c.gaps) < GapCap
        /\ Become(i, [r EXCEPT !.conn.down = FALSE, !.conn.lastAt = 0,
                               !.conn.gaps = Append(@, [from |-> c.lastAt, to |-> now])])
        /\ UNCHANGED forgone
     \/ /\ isOpen /\ c.down /\ Len(c.gaps) = GapCap
        /\ Become(i, [r EXCEPT !.conn.down = FALSE, !.conn.lastAt = 0])
        /\ Forgo(r.fed, c.lastAt + 1..now)
  /\ UNCHANGED <<shardRest, faults, owed>>

\* The exchange sends a frame on every stream; a shard that carries a stream
\* and does not get its frame has lost it.  The clock is followed until the
\* service ends.
Tick ==
  /\ now < MaxTime /\ ~Ending
  /\ now' = now + 1
  /\ sh' = [i \in Shard |-> IF Flows(sh[i]) THEN [sh[i] EXCEPT !.lastMsg = now + 1] ELSE sh[i]]
  /\ owed' = [s \in Streams |->
                IF \E i \in Shard : s \in sh[i].fed /\ ~Flows(sh[i])
                THEN owed[s] \cup {now + 1} ELSE owed[s]]
  /\ UNCHANGED <<setVars, closeVars, faults, forgone>>

-----------------------------------------------------------------------------
(* Close and the root context. *)

closeRest == <<sets, setting, now, faults>>

\* The service ends: nothing is owed any more.
OweNothing ==
  /\ owed' = [s \in Streams |-> {}] /\ forgone' = [s \in Streams |-> {}]

\* closed is set and the shards of the map are told to stop.  A SetSymbols that
\* comes between the two finds closed set, as one after them does.
Close ==
  /\ MayStop /\ closing = "no"
  /\ closed' = TRUE /\ closing' = "wait"
  /\ sh' = [i \in Shard |-> [sh[i] EXCEPT !.fed = {},
                                        !.stop = @ \/ \E id \in Ids : shards[id] = i]]
  /\ OweNothing
  /\ UNCHANGED <<shards, created, cancelled, closeRest>>

\* Every supervisor has exited.
CloseReturn ==
  /\ closing = "wait"
  /\ \A i \in Shard : sh[i].pc \in {"none", "done"}
  /\ shards' = [id \in Ids |-> 0]
  /\ closing' = "done"
  /\ UNCHANGED <<sh, created, closed, cancelled, closeRest, owed, forgone>>

\* After Close a cancelled context asks nothing new.
Cancel ==
  /\ MayStop /\ ~Ending
  /\ cancelled' = TRUE
  /\ sh' = [i \in Shard |-> [sh[i] EXCEPT !.fed = {}]]
  /\ OweNothing
  /\ UNCHANGED <<shards, created, closed, closing, closeRest>>

-----------------------------------------------------------------------------

ShardStep(i) ==
  \/ Sleep(i) \/ Dial(i) \/ ConnectOK(i) \/ ConnectFailed(i)
  \/ PumpStop(i) \/ PumpGap(i) \/ PumpError(i) \/ PumpTick(i)

Next ==
  \/ \E syms \in SUBSET Symbols : BeginSet(syms)
  \/ EndSet
  \/ \E i \in Shard : ShardStep(i) \/ ConnFault(i) \/ ConnRecreate(i) \/ Poll(i)
  \/ Tick
  \/ Close \/ CloseReturn \/ Cancel

Spec == Init /\ [][Next]_vars

\* A supervisor keeps running, and so does the watcher of its connection; the
\* connector ends a reconnect it has begun.
Fairness ==
  /\ \A i \in Shard : WF_vars(ShardStep(i)) /\ WF_vars(Poll(i)) /\ WF_vars(ConnRecreate(i))
  /\ WF_vars(EndSet) /\ WF_vars(Tick)
  /\ WF_vars(CloseReturn)

FairSpec == Spec /\ Fairness

-----------------------------------------------------------------------------

\* What is still going to be reported: the gap since the last frame of a
\* connection that is down, and the silent gaps of one that is up.
Pending(r) ==
  IF r.pc = "pump"
  THEN Unclaimed(r.conn, now) \cup (IF Flows(r) THEN {} ELSE r.lastMsg + 1..now)
  ELSE IF r.downAt # 0 THEN r.downAt + 1..now ELSE {}

(* Every frame lost on a stream that has been flowing is in a gap that was *)
(* reported, or in one that still will be, through any number of failed    *)
(* reconnects and subscription changes; the exceptions are the silent gaps *)
(* that found the channel full or were pending when the connection ended.  *)
(* The state is well typed besides.                                        *)
LostFramesAccounted ==
  /\ TypeOK
  /\ \A s \in Streams : \A t \in owed[s] \ forgone[s] :
       \E i \in Shard : s \in sh[i].fed /\ t \in Pending(sh[i])

(* Once Close has returned, no supervisor runs and none can start: a       *)
(* SetSymbols that passed its first check finds closed under the lock.     *)
NoShardAfterClose ==
  closing = "done" =>
    /\ \A i \in Shard : sh[i].pc \in {"none", "done"}
    /\ \A id \in Ids : shards[id] = 0

(* A supervisor that takes itself for up to date is: pumpLoop compares     *)
(* versions, never sets, so a connection whose version is the current one  *)
(* must carry the current set, also when SetSymbols came while it dialed.  *)
VersionTells ==
  \A i \in Shard :
    /\ sh[i].ver <= sh[i].version
    /\ sh[i].pc = "dialing" /\ sh[i].ver = sh[i].version => sh[i].want = sh[i].desired
    /\ sh[i].pc = "pump" /\ sh[i].ver = sh[i].version => sh[i].subscribed = sh[i].desired

(* Until the service ends, the shards of the map run, and what they want   *)
(* together is the plan of one set of symbols: no id is left from an       *)
(* earlier set, none is missing, and no shard is told another set's share. *)
MapIsOnePlan ==
  ~Ending =>
    \E syms \in SUBSET Symbols : \A id \in Ids :
      IF id \in planStreams(syms)
      THEN /\ shards[id] # 0 /\ ~sh[shards[id]].stop
           /\ sh[shards[id]].pc \notin {"none", "done"}
           /\ sh[shards[id]].desired = streamsOf(syms, id)
      ELSE shards[id] = 0

(* When the network settles, each shard carries exactly the streams wanted *)
(* of it, whenever the set changed: before, during or after a reconnect.   *)
SubscriptionsFollow ==
  <>[](Ending
        \/ \A id \in Ids : shards[id] # 0 =>
             sh[shards[id]].pc = "pump" /\ sh[shards[id]].subscribed = sh[shards[id]].desired)

(* When the network settles, every lost frame has been in a reported gap,  *)
(* the exceptions above aside.                                             *)
LossIsReported == <>[](\A s \in Streams : owed[s] \subseteq forgone[s])
=============================================================================
