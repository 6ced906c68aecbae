------------------------------ MODULE AppProofs ------------------------------
(***************************************************************************)
(* Construction, run and shutdown of the service: all that was started is  *)
(* stopped, what is subscribed has been backfilled, and the live writer    *)
(* leaves late frames only.                                                *)
(***************************************************************************)
EXTENDS App, SequenceTheorems, TLAPS

-----------------------------------------------------------------------------
(* The orders of construction and of shutdown. *)

\* Shutdown closes twelve components.
LEMMA OrderOfShutdown ==
  /\ DOMAIN ShutdownOrder = 1..12 /\ Len(ShutdownOrder) = 12
  /\ ToSet(ShutdownOrder) = {ShutdownOrder[i] : i \in 1..12}
  /\ \A i, j \in 1..12 : ShutdownOrder[i] = ShutdownOrder[j] => i = j
<1>1. DOMAIN ShutdownOrder = 1..12 /\ Len(ShutdownOrder) = 12
  BY DEF ShutdownOrder
<1>2. ToSet(ShutdownOrder) = {ShutdownOrder[i] : i \in 1..12}
  BY <1>1 DEF ToSet
<1>3. \A i, j \in 1..12 : ShutdownOrder[i] = ShutdownOrder[j] => i = j
  BY DEF ShutdownOrder
<1> QED
  BY <1>1, <1>2, <1>3

\* What Run starts, in each mode.
Started ==
  {"metrics", "universe"} \cup (IF mode = "plain" THEN {} ELSE {"backfiller"})
    \cup (IF mode = "offline" THEN {} ELSE {"collector", "openinterest"})

\* New makes the live writer before the collector, and what Run will start.
LEMMA OrderOfBuild ==
  ASSUME mode \in {"live", "plain", "offline"}
  PROVE  /\ BuildOrder \in Seq(ToSet(ShutdownOrder))
         /\ Started \subseteq {BuildOrder[k] : k \in 1..Len(BuildOrder)}
         /\ \A k \in 1..Len(BuildOrder) : BuildOrder[k] = "collector" =>
              5 < k /\ BuildOrder[5] = "live_writer"
<1> DEFINE S == ToSet(ShutdownOrder)
<1>1. S = {ShutdownOrder[i] : i \in 1..12}
  BY OrderOfShutdown
<1>2. \A i \in 1..12 : ShutdownOrder[i] \in S
  BY <1>1
<1>3. {"collector", "sweeper", "openinterest", "backfiller", "dispatcher", "live_writer",
       "clickhouse_writer", "universe", "clickhouse_store", "redis_closed", "redis_live", "metrics"} \subseteq S
  BY <1>2 DEF ShutdownOrder
<1> HIDE DEF S
<1>4. CASE mode = "offline"
  <2> DEFINE B == <<"metrics", "redis_closed", "redis_live", "clickhouse_writer", "universe",
                    "clickhouse_store", "backfiller">>
  <2>1. BuildOrder = B
    BY <1>4 DEF BuildOrder
  <2>2. B \in Seq(S) /\ \A k \in 1..Len(B) : B[k] # "collector"
    BY <1>3
  <2>3. Started \subseteq {B[k] : k \in 1..Len(B)}
    <3>1. Len(B) = 7 /\ B[1] = "metrics" /\ B[5] = "universe" /\ B[7] = "backfiller"
      OBVIOUS
    <3>2. Started = {"metrics", "universe", "backfiller"}
      BY <1>4 DEF Started
    <3> HIDE DEF B
    <3> QED BY <3>1, <3>2
  <2> QED
    BY <2>1, <2>2, <2>3 DEF S
<1>5. CASE mode = "plain"
  <2> DEFINE B == <<"metrics", "redis_closed", "redis_live", "clickhouse_writer", "live_writer",
                    "universe", "dispatcher", "collector", "openinterest">>
  <2>1. BuildOrder = B
    BY <1>5 DEF BuildOrder
  <2>2. B \in Seq(S) /\ \A k \in 1..Len(B) : B[k] = "collector" => 5 < k /\ B[5] = "live_writer"
    BY <1>3
  <2>3. Started \subseteq {B[k] : k \in 1..Len(B)}
    <3>1. /\ Len(B) = 9 /\ B[1] = "metrics" /\ B[6] = "universe" /\ B[8] = "collector"
          /\ B[9] = "openinterest"
      OBVIOUS
    <3>2. Started = {"metrics", "universe", "collector", "openinterest"}
      BY <1>5 DEF Started
    <3> HIDE DEF B
    <3> QED BY <3>1, <3>2
  <2> QED
    BY <2>1, <2>2, <2>3 DEF S
<1>6. CASE mode = "live"
  <2> DEFINE B == <<"metrics", "redis_closed", "redis_live", "clickhouse_writer", "live_writer",
                    "universe", "dispatcher", "clickhouse_store", "backfiller", "sweeper",
                    "collector", "openinterest">>
  <2>1. BuildOrder = B
    BY <1>6 DEF BuildOrder
  <2>2. B \in Seq(S) /\ \A k \in 1..Len(B) : B[k] = "collector" => 5 < k /\ B[5] = "live_writer"
    BY <1>3
  <2>3. Started \subseteq {B[k] : k \in 1..Len(B)}
    <3>1. /\ Len(B) = 12 /\ B[1] = "metrics" /\ B[6] = "universe" /\ B[9] = "backfiller"
          /\ B[11] = "collector" /\ B[12] = "openinterest"
      OBVIOUS
    <3>2. Started = {"metrics", "universe", "backfiller", "collector", "openinterest"}
      BY <1>6 DEF Started
    <3> HIDE DEF B
    <3> QED BY <3>1, <3>2
  <2> QED
    BY <2>1, <2>2, <2>3 DEF S
<1> QED
  BY <1>4, <1>5, <1>6

-----------------------------------------------------------------------------
(* The invariant. *)

Ending == main \in {"close", "closing", "done"}

\* Behind the current step nothing is left running, unless it was abandoned.
StepShape ==
  /\ ~Ending => step = 0
  /\ main = "closing" => step >= 1 /\ ShutdownOrder[step] \in built
  /\ \A i \in DOMAIN ShutdownOrder :
       i < step \/ (i = step /\ main # "closing") => ShutdownOrder[i] \notin on \ abandoned
  /\ main = "done" => on \subseteq abandoned

\* The goroutines the writer and the monitor have belong to components that
\* are on; the first refresh is Run's own.
GoroutineShape ==
  /\ main \in {"new", "metrics"} => mon.at = "off"
  /\ ~WorkersGone => "live_writer" \in on
  /\ mon.at \notin {"off", "gone"} => "universe" \in on \/ main = "universe"

\* A refresh has a record of its own.
MonOK ==
  /\ mon \in [at : {"off", "wait", "fetch", "notify", "diff", "submit", "gone"},
              symbols : SUBSET Symbols, added : SUBSET Symbols]
  /\ mon.added \subseteq mon.symbols

\* What Run starts has been made; the collector runs in the live modes only.
BuiltShape ==
  /\ ~Ending /\ main # "new" => Started \subseteq built
  /\ main \in {"openinterest", "wait"} => mode # "offline"

\* Frames need the writer, which is made before the collector.
LiveShape ==
  /\ main = "new" => built = {}
  /\ "collector" \in built => "live_writer" \in built
  /\ "live_writer" \notin built => input = <<>> /\ sending = {}
  /\ "live_writer" \in built => \A w \in Workers : worker[w].at # "off"

\* A worker leaves its loop when the writer is closed, and returns when the
\* channel is empty.
FrameShape ==
  /\ lStop => lClosed
  /\ \A w \in Workers : worker[w].at \in {"drain", "gone"} => lClosed
  /\ (\E w \in Workers : worker[w].at = "gone") => \A i \in DOMAIN input : input[i]

\* The symbols that the refresh under way leaves in prevSymbols.
Staying == IF mon.at \in {"notify", "diff"} THEN prevSymbols \cap mon.symbols ELSE prevSymbols

\* The symbols that a backfill was or will be asked for.
Covered ==
  asked \cup raced \cup (IF main \in {"flag", "coldstart"} THEN coldKeys ELSE {})
    \cup (IF mon.at = "submit" THEN mon.added ELSE {})

RepairShape ==
  mode = "live" /\ ~Ending =>
    /\ main # "new" => "collector" \in on
    /\ main # "waitcold"
    /\ desired = IF mon.at = "diff" THEN mon.symbols ELSE prevSymbols
    /\ IF mon.at \in {"notify", "diff"} THEN mon.symbols = snap ELSE prevSymbols = snap
    /\ main \in {"coldstart", "openinterest", "wait"} => coldStartSubmitted
    /\ main \in {"flag", "coldstart", "openinterest", "wait"} => Staying \subseteq Covered

IInv == /\ TypeOK /\ MonOK /\ StepShape /\ GoroutineShape
        /\ BuiltShape /\ LiveShape /\ FrameShape /\ RepairShape

-----------------------------------------------------------------------------
(* Types. *)

Components == ToSet(ShutdownOrder)

\* What New leaves behind, all of it or the part made before a failure.
LEMMA WhatIsMade ==
  ASSUME mode \in Modes, New \/ NewFails
  PROVE  \E comps \in SUBSET Components :
           /\ made(comps)
           /\ "collector" \in comps => "live_writer" \in comps
           /\ main' = "close" \/ (main' = "metrics" /\ Started \subseteq comps)
<1> DEFINE B == BuildOrder
<1>1. /\ B \in Seq(Components)
      /\ Started \subseteq {B[k] : k \in 1..Len(B)}
      /\ \A k \in 1..Len(B) : B[k] = "collector" => 5 < k /\ B[5] = "live_writer"
  BY AppAssumption, OrderOfBuild DEF Components
<1>2. New => made(ToSet(B)) /\ main' = "metrics"
  BY DEF New
<1>3. NewFails => /\ main' = "close"
                  /\ \E k \in DOMAIN B : \/ made(ToSet(SubSeq(B, 1, k - 1)))
                                         \/ made(ToSet(SubSeq(B, 1, k)))
  BY DEF NewFails
<1> HIDE DEF B
<1>4. Len(B) \in Nat /\ DOMAIN B = 1..Len(B) /\ \A i \in 1..Len(B) : B[i] \in Components
  BY <1>1, LenProperties
<1>5. ASSUME NEW n \in 0..Len(B)
      PROVE  ToSet(SubSeq(B, 1, n)) = {B[i] : i \in 1..n}
  <2>1. SubSeq(B, 1, n) = [i \in 1..n |-> B[i]]
    BY <1>1, <1>4
  <2> QED BY <2>1 DEF ToSet
<1>6. ToSet(B) = {B[i] : i \in 1..Len(B)}
  BY <1>4 DEF ToSet
<1>7. ASSUME NEW n \in 0..Len(B)
      PROVE  LET comps == {B[i] : i \in 1..n} IN
               comps \in SUBSET Components /\ ("collector" \in comps => "live_writer" \in comps)
  BY <1>1, <1>4
<1>8. CASE New
  <2>1. Len(B) \in 0..Len(B)
    BY <1>4
  <2>2. /\ ToSet(B) \in SUBSET Components
        /\ "collector" \in ToSet(B) => "live_writer" \in ToSet(B)
    BY <1>6, <1>7, <2>1
  <2>3. Started \subseteq ToSet(B)
    BY <1>1, <1>6
  <2> QED
    BY <1>2, <1>8, <2>2, <2>3
<1>9. CASE NewFails
  <2>1. \E n \in 0..Len(B) : made(ToSet(SubSeq(B, 1, n)))
    <3>1. PICK k \in 1..Len(B) : \/ made(ToSet(SubSeq(B, 1, k - 1)))
                                 \/ made(ToSet(SubSeq(B, 1, k)))
      BY <1>3, <1>4, <1>9
    <3>2. k - 1 \in 0..Len(B) /\ k \in 0..Len(B)
      BY <1>4
    <3> QED BY <3>1, <3>2
  <2>2. PICK n \in 0..Len(B) : made(ToSet(SubSeq(B, 1, n)))
    BY <2>1
  <2>3. made({B[i] : i \in 1..n})
    BY <1>5, <2>2
  <2> QED
    BY <1>3, <1>7, <1>9, <2>3
<1> QED
  BY <1>8, <1>9

\* The writer's own steps keep the types of its variables.
LEMMA TypeLive ==
  ASSUME LiveTypeOK
  PROVE  /\ \A p \in Producers : TryEnqueue(p) \/ Send(p) => LiveTypeOK'
         /\ \A w \in Workers : LiveStep(w) => LiveTypeOK'
<1>1. ASSUME NEW p \in Producers, TryEnqueue(p)
      PROVE  LiveTypeOK'
  BY <1>1 DEF TryEnqueue, LiveTypeOK
<1>2. ASSUME NEW p \in Producers, Send(p)
      PROVE  LiveTypeOK'
  <2>1. input' \in Seq(BOOLEAN) /\ Len(input') <= ChannelSize
    <3>1. CASE Len(input) < ChannelSize
      <4>1. input' = Append(input, lClosed) /\ lClosed \in BOOLEAN /\ input \in Seq(BOOLEAN)
        BY <1>2, <3>1 DEF Send, LiveTypeOK
      <4>2. input' \in Seq(BOOLEAN) /\ Len(input') = Len(input) + 1 /\ Len(input) \in Nat
        BY <4>1, AppendProperties, LenProperties
      <4> QED BY <3>1, <4>2, LiveBarWriterAssumption
    <3>2. CASE ~(Len(input) < ChannelSize)
      BY <1>2, <3>2 DEF Send, LiveTypeOK
    <3> QED BY <3>1, <3>2
  <2> QED
    BY <1>2, <2>1 DEF Send, LiveTypeOK
<1>3. ASSUME NEW w \in Workers, NEW place \in {"loop", "drain", "gone"}, NEW job \in BOOLEAN,
             hand(w, place, job)
      PROVE  worker' \in [Workers -> [at : {"off", "loop", "drain", "gone"}, job : BOOLEAN]]
  BY <1>3 DEF hand, LiveTypeOK
<1>4. ASSUME NEW w \in Workers, LiveStep(w)
      PROVE  LiveTypeOK'
  <2>1. CASE Take(w)
    <3>1. worker' \in [Workers -> [at : {"off", "loop", "drain", "gone"}, job : BOOLEAN]]
      BY <1>3, <2>1 DEF Take
    <3>2. input' \in Seq(BOOLEAN) /\ Len(input') <= ChannelSize
      <4>1. input \in Seq(BOOLEAN) /\ input # <<>> /\ input' = Tail(input)
        BY <2>1 DEF Take, LiveTypeOK
      <4>2. input' \in Seq(BOOLEAN) /\ Len(input') = Len(input) - 1 /\ Len(input) \in Nat
        BY <4>1, HeadTailProperties, LenProperties
      <4> QED BY <4>2, LiveBarWriterAssumption DEF LiveTypeOK
    <3> QED BY <2>1, <3>1, <3>2 DEF Take, LiveTypeOK
  <2>2. CASE Written(w)
    <3>1. worker[w].at \in {"off", "loop", "drain", "gone"}
      BY DEF LiveTypeOK
    <3>2. worker' \in [Workers -> [at : {"off", "loop", "drain", "gone"}, job : BOOLEAN]]
      BY <2>2, <3>1 DEF Written, hand, LiveTypeOK
    <3> QED BY <2>2, <3>2 DEF Written, LiveTypeOK
  <2>3. CASE Leave(w)
    <3>1. worker' \in [Workers -> [at : {"off", "loop", "drain", "gone"}, job : BOOLEAN]]
      BY <1>3, <2>3 DEF Leave
    <3>2. lClosed' \in BOOLEAN
      BY <2>3 DEF Leave, LiveTypeOK
    <3> QED BY <2>3, <3>1, <3>2 DEF Leave, LiveTypeOK
  <2>4. CASE Drained(w)
    <3>1. worker' \in [Workers -> [at : {"off", "loop", "drain", "gone"}, job : BOOLEAN]]
      BY <1>3, <2>4 DEF Drained
    <3> QED BY <2>4, <3>1 DEF Drained, LiveTypeOK
  <2> QED
    BY <1>4, <2>1, <2>2, <2>3, <2>4 DEF LiveStep
<1> QED
  BY <1>1, <1>2, <1>4

-----------------------------------------------------------------------------
(* The invariant is kept: New and Run. *)

\* Every component is in the order of shutdown.
LEMMA ComponentsOrdered ==
  /\ Components = {ShutdownOrder[i] : i \in 1..12}
  /\ TypeOK => step \in 0..12 /\ built \subseteq Components
BY OrderOfShutdown DEF TypeOK, Components

\* New, whether it succeeds or fails half-way.
LEMMA MadeKeeps ==
  ASSUME IInv, New \/ NewFails
  PROVE  IInv'
<1>1. main = "new" /\ built = {}
  BY DEF New, NewFails, IInv, LiveShape
<1>2. PICK comps \in SUBSET Components :
        /\ made(comps)
        /\ "collector" \in comps => "live_writer" \in comps
        /\ main' = "close" \/ (main' = "metrics" /\ Started \subseteq comps)
  BY WhatIsMade DEF IInv, TypeOK
<1>3. /\ built' = comps /\ on' \subseteq comps
      /\ "live_writer" \in comps <=> "live_writer" \in on'
      /\ "collector" \in comps <=> "collector" \in on'
      /\ IF "live_writer" \in comps THEN StartWorkers ELSE worker' = worker
      /\ UNCHANGED <<ctx, lClosed, lStop, input, sending, mode, hangs, step, expired, abandoned, stop,
                     listing, snap, mon, desired, prevSymbols, asked, raced, coldStartSubmitted,
                     coldKeys, coldDone, events>>
  BY <1>2 DEF made, monVars, coldVars
<1>4. step = 0 /\ abandoned = {}
  BY <1>1 DEF IInv, StepShape, TypeOK, Ending
<1>5. "live_writer" \notin built /\ WorkersGone /\ input = <<>> /\ sending = {}
  BY <1>1 DEF IInv, GoroutineShape, LiveShape, TypeOK
<1>6. worker' \in [Workers -> [at : {"off", "loop", "drain", "gone"}, job : BOOLEAN]]
  <2>1. CASE "live_writer" \in comps
    <3>1. [at |-> "loop", job |-> FALSE] \in [at : {"off", "loop", "drain", "gone"}, job : BOOLEAN]
      OBVIOUS
    <3>2. worker' = [w \in Workers |-> [at |-> "loop", job |-> FALSE]]
      BY <1>3, <2>1 DEF StartWorkers
    <3> QED BY <3>1, <3>2
  <2>2. CASE "live_writer" \notin comps
    BY <1>3, <2>2 DEF IInv, TypeOK, LiveTypeOK
  <2> QED BY <2>1, <2>2
<1>7. TypeOK' /\ MonOK'
  <2>1. LiveTypeOK'
    BY <1>3, <1>6 DEF IInv, TypeOK, LiveTypeOK
  <2>2. MonOK'
    BY <1>3 DEF IInv, MonOK
  <2>3. /\ mode' \in Modes /\ hangs' \in Hangs
        /\ main' \in {"metrics", "close"}
        /\ built' \subseteq ToSet(ShutdownOrder) /\ on' \subseteq built' /\ abandoned' \subseteq built'
    BY <1>2, <1>3, <1>4 DEF Components, IInv, TypeOK
  <2> QED
    BY <1>3, <2>1, <2>2, <2>3 DEF IInv, TypeOK
<1>8. StepShape'
  BY <1>2, <1>3, <1>4, OrderOfShutdown DEF StepShape, Ending
<1>9. GoroutineShape'
  <2>1. ~WorkersGone' => "live_writer" \in on'
    <3>1. CASE "live_writer" \in comps
      BY <1>3, <3>1
    <3>2. CASE "live_writer" \notin comps
      BY <1>3, <1>5, <3>2 DEF WorkersGone
    <3> QED BY <3>1, <3>2
  <2>2. mon.at = "off"
    BY <1>1 DEF IInv, GoroutineShape
  <2> QED
    BY <1>3, <2>1, <2>2 DEF GoroutineShape
<1>10. LiveShape'
  <2>1. main' # "new"
    BY <1>2
  <2>2. "live_writer" \in built' => \A w \in Workers : worker'[w].at # "off"
    BY <1>3 DEF StartWorkers
  <2> QED
    BY <1>2, <1>3, <1>5, <2>1, <2>2 DEF LiveShape
<1>11. FrameShape'
  <2>1. CASE "live_writer" \in comps
    <3>1. \A w \in Workers : worker'[w].at = "loop"
      BY <1>3, <2>1 DEF StartWorkers
    <3> QED BY <1>3, <3>1 DEF IInv, FrameShape
  <2>2. CASE "live_writer" \notin comps
    BY <1>3, <2>2 DEF IInv, FrameShape
  <2> QED BY <2>1, <2>2
<1>12. RepairShape'
  <2>1. SUFFICES ASSUME mode = "live", main' = "metrics"
                 PROVE  RepairShape'
    BY <1>2, <1>3 DEF RepairShape, Ending
  <2>2. "collector" \in on'
    BY <1>2, <1>3, <2>1 DEF Started
  <2>3. /\ desired = IF mon.at = "diff" THEN mon.symbols ELSE prevSymbols
        /\ IF mon.at \in {"notify", "diff"} THEN mon.symbols = snap ELSE prevSymbols = snap
    BY <1>1, <2>1 DEF IInv, RepairShape, Ending
  <2> QED
    BY <1>3, <2>1, <2>2, <2>3 DEF RepairShape
<1>13. BuiltShape'
  BY <1>2, <1>3 DEF BuiltShape, Started, Ending
<1> QED
  BY <1>7, <1>8, <1>9, <1>10, <1>11, <1>12, <1>13 DEF IInv

\* A step of Run or of a refresh: the writer is left alone, components are
\* started only, and Run goes on or gives up.
LEMMA ServiceKeeps ==
  ASSUME IInv, ~Ending, main # "new",
         UNCHANGED <<ctx, liveVars, fixed, step, expired, abandoned, stop>>,
         on \subseteq on', on' \subseteq built,
         main' \in {"universe", "snapshot", "flag", "coldstart", "openinterest", "wait",
                    "waitcold", "close"},
         main' \in {"openinterest", "wait"} => mode # "offline",
         mon'.at \notin {"off", "gone"} => "universe" \in on' \/ main' = "universe",
         TypeOK', MonOK', RepairShape'
  PROVE  IInv'
<1>1. UNCHANGED <<input, worker, sending, lClosed, lStop, mode, built, hangs>>
  BY DEF liveVars, fixed
<1>2. step = 0
  BY DEF IInv, StepShape
<1>3. StepShape'
  BY <1>1, <1>2, OrderOfShutdown DEF StepShape, Ending
<1>4. GoroutineShape'
  <2>1. WorkersGone' = WorkersGone
    BY <1>1 DEF WorkersGone
  <2> QED
    BY <2>1 DEF IInv, GoroutineShape
<1>5. BuiltShape'
  BY <1>1 DEF IInv, BuiltShape, Ending, Started
<1>6. LiveShape'
  BY <1>1 DEF IInv, LiveShape
<1>7. FrameShape'
  BY <1>1 DEF IInv, FrameShape
<1> QED
  BY <1>3, <1>4, <1>5, <1>6, <1>7 DEF IInv

\* The steps of Run: each starts something, or gives up.
LEMMA RunKeeps ==
  ASSUME IInv, \/ StartMetrics \/ StartUniverse \/ TakeSnapshot \/ SetFlag \/ SubmitColdStart
               \/ StartOpenInterest \/ StopRunning \/ EndColdStart
  PROVE  IInv'
<1> USE DEF proceed, lifeVars, monVars, coldVars, fixed, liveVars
<1>1. /\ ~Ending /\ main # "new" /\ main \in {"metrics", "universe", "snapshot", "flag", "coldstart",
                                           "openinterest", "wait", "waitcold"}
      /\ UNCHANGED <<ctx, liveVars, fixed, step, expired, abandoned, stop>>
      /\ UNCHANGED <<listing, snap, desired, prevSymbols, raced, events>>
  BY DEF StartMetrics, StartUniverse, TakeSnapshot, SetFlag, SubmitColdStart, StartOpenInterest,
         StopRunning, EndColdStart, Ending
<1>2. /\ Started \subseteq built /\ on \subseteq built /\ mode \in Modes
      /\ main \in {"openinterest", "wait"} => mode # "offline"
  BY <1>1 DEF IInv, BuiltShape, TypeOK
<1>3. mode \in {"live", "plain", "offline"}
  BY <1>2, AppAssumption
<1>4. ASSUME on' \subseteq built, on \subseteq on', MonOK', RepairShape',
             main' \in {"universe", "snapshot", "flag", "coldstart", "openinterest", "wait",
                        "waitcold", "close"},
             main' \in {"openinterest", "wait"} => mode # "offline",
             mon'.at \notin {"off", "gone"} => "universe" \in on' \/ main' = "universe",
             coldKeys' \subseteq Symbols, asked' \subseteq Symbols,
             coldStartSubmitted' \in BOOLEAN, coldDone' \in BOOLEAN
      PROVE  IInv'
  <2>1. LiveTypeOK'
    BY <1>1 DEF IInv, TypeOK, LiveTypeOK
  <2>2. TypeOK'
    <3>1. {coldStartSubmitted', coldDone'} \subseteq BOOLEAN
      BY <1>4
    <3>2. {listing', snap', desired', prevSymbols', coldKeys', asked', raced'} \subseteq SUBSET Symbols
      BY <1>1, <1>4 DEF IInv, TypeOK
    <3>3. /\ mon'.at \in {"off", "wait", "fetch", "notify", "diff", "submit", "gone"}
          /\ mon'.symbols \subseteq Symbols
      BY <1>4 DEF MonOK
    <3>4. mon'.added \subseteq mon'.symbols
      BY <1>4 DEF MonOK
    <3>5. /\ mode' \in Modes /\ hangs' \in Hangs /\ built' \subseteq ToSet(ShutdownOrder)
          /\ abandoned' \subseteq built' /\ step' \in 0..Len(ShutdownOrder)
          /\ expired' \in BOOLEAN /\ stop' \in BOOLEAN /\ events' \in 0..MaxEvents
      BY <1>1 DEF IInv, TypeOK
    <3> QED
      BY <1>1, <1>4, <2>1, <3>1, <3>2, <3>3, <3>4, <3>5 DEF TypeOK
  <2> QED
    BY <1>1, <1>4, <2>2, ServiceKeeps
<1>5. /\ coldKeys \subseteq Symbols /\ asked \subseteq Symbols /\ snap \subseteq Symbols
      /\ coldStartSubmitted \in BOOLEAN /\ coldDone \in BOOLEAN
  BY DEF IInv, TypeOK
<1>6. /\ mon.at \notin {"off", "gone"} => "universe" \in on \/ main = "universe"
      /\ main = "metrics" => mon.at = "off"
      /\ MonOK
  BY DEF IInv, GoroutineShape
<1>7. mode = "live" =>
        /\ "collector" \in on /\ main # "waitcold"
        /\ desired = IF mon.at = "diff" THEN mon.symbols ELSE prevSymbols
        /\ IF mon.at \in {"notify", "diff"} THEN mon.symbols = snap ELSE prevSymbols = snap
        /\ main \in {"coldstart", "openinterest", "wait"} => coldStartSubmitted
        /\ main \in {"flag", "coldstart", "openinterest", "wait"} => Staying \subseteq Covered
  BY <1>1 DEF IInv, RepairShape
<1>8. CASE StartMetrics
  <2>1. main = "metrics" /\ UNCHANGED <<coldKeys, coldStartSubmitted, coldDone, asked>>
    BY <1>8 DEF StartMetrics
  <2>2. CASE main' = "close" /\ UNCHANGED <<on, mon>>
    <3>1. MonOK' /\ RepairShape'
      BY <1>6, <2>2 DEF MonOK, RepairShape, Ending
    <3> QED
      BY <1>1, <1>2, <1>4, <1>5, <1>6, <2>1, <2>2, <3>1
  <2>3. CASE /\ main' = "universe" /\ on' = on \cup {"metrics"} \cup (built \cap {"backfiller"})
             /\ mon' = [mon EXCEPT !.at = "fetch"]
    <3>1. MonOK' /\ mon'.at = "fetch" /\ mon'.symbols = mon.symbols
      BY <1>6, <2>3 DEF MonOK
    <3>2. mon.at = "off"
      BY <1>6, <2>1
    <3>3. RepairShape'
      BY <1>1, <1>7, <2>1, <2>3, <3>1, <3>2 DEF RepairShape
    <3> QED
      BY <1>1, <1>2, <1>4, <1>5, <2>1, <2>3, <3>1, <3>3 DEF Started
  <2> QED
    BY <1>8, <2>2, <2>3 DEF StartMetrics
<1>9. CASE StartUniverse
  <2>1. /\ main = "universe" /\ mon.at = "wait" /\ mon' = mon /\ on' = on \cup {"universe"}
        /\ main' = IF "backfiller" \in built THEN "snapshot" ELSE "openinterest"
        /\ UNCHANGED <<coldKeys, coldStartSubmitted, coldDone, asked>>
    BY <1>9 DEF StartUniverse
  <2>2. mode # "plain" => main' = "snapshot"
    BY <1>2, <2>1 DEF Started
  <2>3. RepairShape'
    BY <1>1, <1>7, <2>1, <2>2 DEF RepairShape
  <2>4. MonOK'
    BY <1>6, <2>1 DEF MonOK
  <2> QED
    BY <1>1, <1>2, <1>3, <1>4, <1>5, <2>1, <2>2, <2>3, <2>4 DEF Started
<1>10. CASE TakeSnapshot
  <2>1. /\ main = "snapshot" /\ main' = "flag" /\ coldKeys' = snap
        /\ UNCHANGED <<on, mon, coldStartSubmitted, coldDone, asked>>
    BY <1>10 DEF TakeSnapshot
  <2>2. RepairShape'
    <3>1. mode = "live" => Staying \subseteq snap
      BY <1>7 DEF Staying
    <3>2. snap \subseteq Covered' /\ Staying' = Staying
      BY <1>1, <2>1 DEF Covered, Staying
    <3> QED
      BY <1>1, <1>7, <2>1, <3>1, <3>2 DEF RepairShape
  <2>3. MonOK'
    BY <1>6, <2>1 DEF MonOK
  <2> QED
    BY <1>1, <1>2, <1>4, <1>5, <1>6, <2>1, <2>2, <2>3
<1>11. CASE SetFlag
  <2>1. /\ main = "flag" /\ main' = "coldstart" /\ coldStartSubmitted' = TRUE
        /\ UNCHANGED <<on, mon, coldKeys, coldDone, asked>>
    BY <1>11 DEF SetFlag
  <2>2. RepairShape'
    <3>1. Covered' = Covered /\ Staying' = Staying
      BY <1>1, <2>1 DEF Covered, Staying
    <3> QED
      BY <1>1, <1>7, <2>1, <3>1 DEF RepairShape
  <2>3. MonOK'
    BY <1>6, <2>1 DEF MonOK
  <2> QED
    BY <1>1, <1>2, <1>4, <1>5, <1>6, <2>1, <2>2, <2>3
<1>12. CASE SubmitColdStart
  <2>1. /\ main = "coldstart" /\ main' = IF mode = "offline" THEN "waitcold" ELSE "openinterest"
        /\ asked' = asked \cup coldKeys /\ coldDone' = (coldKeys = {})
        /\ on' = on \cup (built \cap {"sweeper"})
        /\ UNCHANGED <<mon, coldKeys, coldStartSubmitted>>
    BY <1>12 DEF SubmitColdStart
  <2>2. RepairShape'
    <3>1. Covered \subseteq Covered' /\ Staying' = Staying
      BY <1>1, <2>1 DEF Covered, Staying
    <3> QED
      BY <1>1, <1>7, <2>1, <3>1 DEF RepairShape
  <2>3. MonOK'
    BY <1>6, <2>1 DEF MonOK
  <2>4. coldDone' \in BOOLEAN
    BY <2>1
  <2>5. coldStartSubmitted' \in BOOLEAN
    BY <1>5, <2>1
  <2> QED
    BY <1>1, <1>2, <1>4, <1>5, <1>6, <2>1, <2>2, <2>3, <2>4, <2>5
<1>13. CASE StartOpenInterest
  <2>1. /\ main = "openinterest" /\ on' \in {on, on \cup {"openinterest"}} /\ main' \in {"close", "wait"}
        /\ UNCHANGED <<mon, coldKeys, coldStartSubmitted, coldDone, asked>>
    BY <1>13 DEF StartOpenInterest
  <2>2. RepairShape'
    <3>1. Covered' = Covered /\ Staying' = Staying
      BY <1>1, <2>1 DEF Covered, Staying
    <3> QED
      BY <1>1, <1>7, <2>1, <3>1 DEF RepairShape, Ending
  <2>3. MonOK'
    BY <1>6, <2>1 DEF MonOK
  <2> QED
    BY <1>1, <1>2, <1>4, <1>5, <1>6, <2>1, <2>2, <2>3 DEF Started
<1>14. CASE StopRunning
  <2>1. /\ main \in {"wait", "waitcold"} /\ main' = "close"
        /\ UNCHANGED <<on, mon, coldKeys, coldStartSubmitted, coldDone, asked>>
    BY <1>14 DEF StopRunning
  <2>2. RepairShape' /\ MonOK'
    BY <1>6, <2>1 DEF RepairShape, Ending, MonOK
  <2> QED
    BY <1>1, <1>2, <1>4, <1>5, <1>6, <2>1, <2>2
<1>15. CASE EndColdStart
  <2>1. /\ main = "waitcold" /\ main' = main /\ coldDone' = TRUE
        /\ UNCHANGED <<on, mon, coldKeys, coldStartSubmitted, asked>>
    BY <1>15 DEF EndColdStart
  <2>2. RepairShape' /\ MonOK'
    BY <1>1, <1>6, <1>7, <2>1 DEF RepairShape, MonOK
  <2> QED
    BY <1>1, <1>2, <1>4, <1>5, <1>6, <2>1, <2>2
<1> QED
  BY <1>8, <1>9, <1>10, <1>11, <1>12, <1>13, <1>14, <1>15

-----------------------------------------------------------------------------
(* The refreshes. *)

\* A step of the monitor's goroutine leaves the life of the components alone.
LEMMA MonitorKeeps ==
  ASSUME IInv, mon.at \notin {"off", "gone"},
         UNCHANGED <<ctx, liveVars, fixed, on, step, expired, abandoned, stop>>,
         main' = main \/ (main = "universe" /\ main' = "close"),
         mon'.at \notin {"off", "gone"} => "universe" \in on \/ main' = "universe",
         UNCHANGED <<coldVars, events>>,
         {listing', snap', desired', prevSymbols', asked', raced'} \subseteq SUBSET Symbols,
         MonOK', RepairShape'
  PROVE  IInv'
<1>1. UNCHANGED <<ctx, input, worker, sending, lClosed, lStop, mode, built, hangs, coldStartSubmitted,
                  coldKeys, coldDone>>
  BY DEF liveVars, fixed, coldVars
<1>2. TypeOK'
  <2>1. LiveTypeOK'
    BY <1>1 DEF IInv, TypeOK, LiveTypeOK
  <2>2. {coldStartSubmitted', coldDone'} \subseteq BOOLEAN
    BY <1>1 DEF IInv, TypeOK
  <2>3. {listing', snap', desired', prevSymbols', coldKeys', asked', raced'} \subseteq SUBSET Symbols
    BY <1>1 DEF IInv, TypeOK
  <2>4. /\ mon'.at \in {"off", "wait", "fetch", "notify", "diff", "submit", "gone"}
        /\ mon'.symbols \subseteq Symbols /\ mon'.added \subseteq mon'.symbols
    BY DEF MonOK
  <2>5. /\ mode' \in Modes /\ hangs' \in Hangs /\ built' \subseteq ToSet(ShutdownOrder)
        /\ on' \subseteq built' /\ abandoned' \subseteq built' /\ step' \in 0..Len(ShutdownOrder)
        /\ expired' \in BOOLEAN /\ stop' \in BOOLEAN /\ events' \in 0..MaxEvents
    BY <1>1 DEF IInv, TypeOK
  <2>6. main' \in {"new", "metrics", "universe", "snapshot", "flag", "coldstart", "openinterest",
                   "wait", "waitcold", "close", "closing", "done"}
    BY DEF IInv, TypeOK
  <2> QED
    BY <2>1, <2>2, <2>3, <2>4, <2>5, <2>6 DEF TypeOK
<1>3. main \notin {"new", "metrics"}
  BY DEF IInv, GoroutineShape
<1>4. CASE main' = main
  <2>1. StepShape' /\ BuiltShape' /\ LiveShape' /\ FrameShape'
    BY <1>1, <1>4 DEF IInv, StepShape, BuiltShape, LiveShape, FrameShape, Started, Ending
  <2>2. GoroutineShape'
    <3>1. WorkersGone' = WorkersGone
      BY <1>1 DEF WorkersGone
    <3> QED
      BY <1>3, <1>4, <3>1 DEF IInv, GoroutineShape
  <2> QED
    BY <1>2, <2>1, <2>2 DEF IInv
<1>5. CASE main = "universe" /\ main' = "close"
  <2>1. ~Ending /\ on \subseteq built
    BY <1>5 DEF Ending, IInv, TypeOK
  <2> QED
    BY <1>2, <1>3, <1>5, <2>1, ServiceKeeps
<1> QED
  BY <1>4, <1>5

\* A refresh, from the answer of the exchange to the backfill it asks for.
LEMMA RefreshKeeps ==
  ASSUME IInv, Refresh \/ RefreshDue
  PROVE  IInv'
<1> USE DEF lifeVars, refresh
<1>1. /\ UNCHANGED <<ctx, liveVars, fixed, on, step, expired, abandoned, stop, coldVars, events>>
      /\ mon.at \notin {"off", "gone"}
  BY DEF Refresh, RefreshDue, FetchFails, Fetched, SetSymbols, Diff, SubmitAdded, LoopEnds
<1>2. /\ {listing, snap, desired, prevSymbols, asked, raced} \subseteq SUBSET Symbols
      /\ MonOK /\ mon.symbols \subseteq Symbols /\ mon.added \subseteq mon.symbols
      /\ "universe" \in on \/ main = "universe"
  BY <1>1 DEF IInv, TypeOK, GoroutineShape
<1>3. mode' = mode /\ coldStartSubmitted' = coldStartSubmitted /\ coldKeys' = coldKeys
  BY <1>1 DEF fixed, coldVars
<1>4. mode = "live" /\ ~Ending =>
        /\ main # "new" => "collector" \in on
        /\ main # "waitcold"
        /\ desired = IF mon.at = "diff" THEN mon.symbols ELSE prevSymbols
        /\ IF mon.at \in {"notify", "diff"} THEN mon.symbols = snap ELSE prevSymbols = snap
        /\ main \in {"coldstart", "openinterest", "wait"} => coldStartSubmitted
        /\ main \in {"flag", "coldstart", "openinterest", "wait"} => Staying \subseteq Covered
  BY DEF IInv, RepairShape
<1>5. ~Ending => step = 0
  BY DEF IInv, StepShape
<1>6. ASSUME NEW place \in {"wait", "fetch", "diff", "gone"}, mon' = [mon EXCEPT !.at = place]
      PROVE  /\ MonOK' /\ mon'.at = place /\ mon'.symbols = mon.symbols /\ mon'.added = mon.added
  BY <1>2, <1>6 DEF MonOK
<1>7. ASSUME mon' = [NoRefresh EXCEPT !.at = "wait"]
      PROVE  MonOK' /\ mon'.at = "wait"
  BY <1>7 DEF MonOK, NoRefresh
<1>8. CASE FetchFails
  <2>1. /\ mon.at = "fetch" /\ UNCHANGED <<listing, snap, desired, prevSymbols, asked, raced>>
        /\ \/ mon' = [mon EXCEPT !.at = "wait"] /\ main' = main
           \/ mon' = NoRefresh /\ main = "universe" /\ main' = "close"
    BY <1>8 DEF FetchFails
  <2>2. CASE mon' = [mon EXCEPT !.at = "wait"] /\ main' = main
    <3>1. MonOK' /\ mon'.at = "wait"
      BY <1>6, <2>2
    <3>2. Staying' = Staying /\ Covered' = Covered
      BY <1>3, <2>1, <2>2, <3>1 DEF Staying, Covered
    <3>3. RepairShape'
      BY <1>1, <1>3, <1>4, <2>1, <2>2, <3>1, <3>2 DEF RepairShape, Ending
    <3> QED
      BY <1>1, <1>2, <2>1, <2>2, <3>1, <3>3, MonitorKeeps
  <2>3. CASE mon' = NoRefresh /\ main = "universe" /\ main' = "close"
    <3>1. MonOK' /\ mon'.at = "off" /\ RepairShape'
      BY <2>3 DEF MonOK, NoRefresh, RepairShape, Ending
    <3> QED
      BY <1>1, <1>2, <2>1, <2>3, <3>1, MonitorKeeps
  <2> QED
    BY <2>1, <2>2, <2>3
<1>9. CASE Fetched
  <2>1. /\ mon.at = "fetch" /\ snap' = listing /\ main' = main
        /\ mon' = [at |-> "notify", symbols |-> listing, added |-> {}]
        /\ UNCHANGED <<listing, desired, prevSymbols, asked, raced>>
    BY <1>9 DEF Fetched
  <2>2. MonOK' /\ mon'.at = "notify" /\ mon'.symbols = listing
    BY <1>2, <2>1 DEF MonOK
  <2>3. Staying' \subseteq Staying /\ Covered' = Covered
    BY <1>3, <2>1, <2>2 DEF Staying, Covered
  <2>4. RepairShape'
    BY <1>1, <1>3, <1>4, <2>1, <2>2, <2>3 DEF RepairShape, Ending
  <2> QED
    BY <1>1, <1>2, <2>1, <2>2, <2>4, MonitorKeeps
<1>10. CASE SetSymbols
  <2>1. /\ mon.at = "notify" /\ main' = main
        /\ desired' = IF "collector" \in on /\ step = 0 THEN mon.symbols ELSE desired
        /\ IF mode = "live" THEN mon' = [mon EXCEPT !.at = "diff"]
                            ELSE mon' = [NoRefresh EXCEPT !.at = "wait"]
        /\ UNCHANGED <<listing, snap, prevSymbols, asked, raced>>
    BY <1>10 DEF SetSymbols
  <2>2. MonOK' /\ (mode = "live" => mon'.at = "diff" /\ mon'.symbols = mon.symbols)
    BY <1>6, <1>7, <2>1
  <2>3. desired' \in SUBSET Symbols
    BY <1>2, <2>1
  <2>4. RepairShape'
    <3> SUFFICES ASSUME mode = "live" PROVE RepairShape'
      BY <1>3 DEF RepairShape
    <3>1. Staying' = Staying /\ Covered' = Covered
      BY <1>3, <2>1, <2>2 DEF Staying, Covered
    <3>2. main # "new"
      BY <1>1 DEF IInv, GoroutineShape
    <3> QED
      BY <1>1, <1>3, <1>4, <1>5, <2>1, <2>2, <3>1, <3>2 DEF RepairShape, Ending
  <2> QED
    BY <1>1, <1>2, <2>1, <2>2, <2>3, <2>4, MonitorKeeps
<1>11. CASE Diff
  <2>1. /\ mon.at = "diff" /\ main' = main
        /\ mon' = [mon EXCEPT !.at = "submit", !.added = mon.symbols \ prevSymbols]
        /\ prevSymbols' = mon.symbols /\ asked' = asked \cap mon.symbols
        /\ UNCHANGED <<listing, snap, desired, raced>>
    BY <1>11 DEF Diff, added, next
  <2>2. MonOK' /\ mon'.at = "submit" /\ mon'.added = mon.symbols \ prevSymbols
    BY <1>2, <2>1 DEF MonOK
  <2>3. RepairShape'
    <3>1. Staying' = mon.symbols
      BY <2>1, <2>2 DEF Staying
    <3>2. Staying \subseteq Covered => Staying' \subseteq Covered'
      BY <1>3, <2>1, <2>2, <3>1 DEF Staying, Covered
    <3> QED
      BY <1>1, <1>3, <1>4, <2>1, <2>2, <3>2 DEF RepairShape, Ending
  <2>4. prevSymbols' \in SUBSET Symbols /\ asked' \in SUBSET Symbols
    BY <1>2, <2>1
  <2> QED
    BY <1>1, <1>2, <2>1, <2>2, <2>3, <2>4, MonitorKeeps
<1>12. CASE SubmitAdded
  <2>1. /\ mon.at = "submit" /\ main' = main
        /\ asked' = IF coldStartSubmitted THEN asked \cup mon.added ELSE asked
        /\ raced' = IF main = "flag" THEN raced \cup (mon.added \ coldKeys) ELSE raced
        /\ mon' = [NoRefresh EXCEPT !.at = "wait"]
        /\ UNCHANGED <<listing, snap, desired, prevSymbols>>
    BY <1>12 DEF SubmitAdded
  <2>2. MonOK' /\ mon'.at = "wait"
    BY <1>7, <2>1
  <2>3. RepairShape'
    <3>1. Staying' = Staying
      BY <2>1, <2>2 DEF Staying
    <3>2. main = "flag" \/ coldStartSubmitted => Covered \subseteq Covered'
      BY <1>3, <2>1, <2>2 DEF Covered
    <3> QED
      BY <1>1, <1>3, <1>4, <2>1, <2>2, <3>1, <3>2 DEF RepairShape, Ending
  <2>4. asked' \in SUBSET Symbols /\ raced' \in SUBSET Symbols
    BY <1>2, <2>1
  <2> QED
    BY <1>1, <1>2, <2>1, <2>2, <2>3, <2>4, MonitorKeeps
<1>13. CASE LoopEnds \/ RefreshDue
  <2>1. /\ mon.at = "wait" /\ main' = main /\ "universe" \in on
        /\ UNCHANGED <<listing, snap, desired, prevSymbols, asked, raced>>
        /\ \E place \in {"gone", "fetch"} : mon' = [mon EXCEPT !.at = place]
    BY <1>13 DEF LoopEnds, RefreshDue
  <2>2. MonOK' /\ mon'.at \in {"gone", "fetch"}
    BY <1>6, <2>1
  <2>3. Staying' = Staying /\ Covered' = Covered
    BY <1>3, <2>1, <2>2 DEF Staying, Covered
  <2>4. RepairShape'
    BY <1>1, <1>3, <1>4, <2>1, <2>2, <2>3 DEF RepairShape, Ending
  <2> QED
    BY <1>1, <1>2, <2>1, <2>2, <2>4, MonitorKeeps
<1> QED
  BY <1>8, <1>9, <1>10, <1>11, <1>12, <1>13 DEF Refresh

-----------------------------------------------------------------------------
(* Shutdown. *)

\* A set of positions that is not empty has a first one.
LEMMA FirstOfTwelve ==
  ASSUME NEW S \in SUBSET (1..12), S # {}
  PROVE  \E i \in S : \A j \in S : i <= j
<1> DEFINE Below(n) == (\A i \in S : n < i) \/ \E i \in S : \A j \in S : i <= j
<1>1. \A i \in S : i \in 1..12
  OBVIOUS
<1>2. Below(0)
  BY <1>1
<1>3. ASSUME NEW n \in 0..11, Below(n)
      PROVE  Below(n + 1)
  <2>1. CASE n + 1 \in S
    BY <1>1, <1>3, <2>1
  <2>2. CASE n + 1 \notin S
    BY <1>1, <1>3, <2>2
  <2> QED
    BY <2>1, <2>2
<1> HIDE DEF Below
<1>4. Below(1)
  BY <1>3, <1>2
<1>5. Below(2)
  BY <1>3, <1>4
<1>6. Below(3)
  BY <1>3, <1>5
<1>7. Below(4)
  BY <1>3, <1>6
<1>8. Below(5)
  BY <1>3, <1>7
<1>9. Below(6)
  BY <1>3, <1>8
<1>10. Below(7)
  BY <1>3, <1>9
<1>11. Below(8)
  BY <1>3, <1>10
<1>12. Below(9)
  BY <1>3, <1>11
<1>13. Below(10)
  BY <1>3, <1>12
<1>14. Below(11)
  BY <1>3, <1>13
<1>15. Below(12)
  BY <1>3, <1>14
<1>16. \E i \in S : ~(12 < i)
  <2>1. PICK i \in S : TRUE
    OBVIOUS
  <2> QED
    BY <1>1, <2>1
<1> QED
  BY <1>15, <1>16 DEF Below

\* The step that follows is the first of those left.
LEMMA NextStep ==
  ASSUME step \in 0..12
  PROVE  \/ nextStep = 0 /\ \A i \in 1..12 : step < i => ShutdownOrder[i] \notin built
         \/ /\ nextStep \in 1..12 /\ step < nextStep /\ ShutdownOrder[nextStep] \in built
            /\ \A i \in 1..12 : step < i /\ i < nextStep => ShutdownOrder[i] \notin built
<1> DEFINE left == {i \in DOMAIN ShutdownOrder : i > step /\ ShutdownOrder[i] \in built}
<1>1. nextStep = IF left = {} THEN 0 ELSE CHOOSE i \in left : \A j \in left : i <= j
  BY DEF nextStep
<1>2. left \in SUBSET (1..12) /\ left = {i \in 1..12 : i > step /\ ShutdownOrder[i] \in built}
  BY OrderOfShutdown
<1> HIDE DEF left
<1>3. CASE left = {}
  BY <1>1, <1>2, <1>3
<1>4. CASE left # {}
  <2>1. \E i \in left : \A j \in left : i <= j
    BY <1>2, <1>4, FirstOfTwelve
  <2>2. nextStep \in left /\ \A j \in left : nextStep <= j
    BY <1>1, <1>4, <2>1
  <2>3. \A i \in 1..12 : step < i /\ i < nextStep => i \notin left
    BY <1>2, <2>2
  <2> QED
    BY <1>2, <2>2, <2>3
<1> QED
  BY <1>3, <1>4

\* Shutdown moves past a component when it is closed or abandoned, never otherwise.
LEMMA ShutdownKeeps ==
  ASSUME IInv, Shutdown \/ Deadline
  PROVE  IInv'
<1>1. /\ main \in {"close", "closing"} /\ main' \in {"close", "closing", "done"}
      /\ UNCHANGED <<ctx, input, worker, sending, fixed, monVars, coldVars, events>>
  BY DEF Shutdown, Deadline, CloseNext, CloseDone, Abandon, liveVars
<1>2. UNCHANGED <<mode, built, hangs, listing, snap, mon, desired, prevSymbols, asked, raced,
                  coldStartSubmitted, coldKeys, coldDone>>
  BY <1>1 DEF fixed, monVars, coldVars
<1>3. /\ step \in 0..12 /\ on \subseteq built /\ built \subseteq Components /\ abandoned \subseteq built
      /\ Components = {ShutdownOrder[i] : i \in 1..12} /\ DOMAIN ShutdownOrder = 1..12
      /\ Len(ShutdownOrder) = 12
  BY ComponentsOrdered, OrderOfShutdown DEF IInv, TypeOK
<1>4. /\ main = "closing" => step >= 1 /\ ShutdownOrder[step] \in built
      /\ \A i \in 1..12 :
           i < step \/ (i = step /\ main # "closing") => ShutdownOrder[i] \notin on \ abandoned
  BY <1>3 DEF IInv, StepShape
<1>5. /\ ~WorkersGone => "live_writer" \in on
      /\ mon.at \notin {"off", "gone"} => "universe" \in on
  BY <1>1 DEF IInv, GoroutineShape
<1>6. BuiltShape' /\ LiveShape' /\ RepairShape'
  BY <1>1, <1>2 DEF IInv, BuiltShape, LiveShape, RepairShape, Ending
<1>7. WorkersGone' = WorkersGone
  BY <1>1 DEF WorkersGone
<1>8. ASSUME step' \in 0..12, on' \subseteq built, abandoned' \subseteq built,
             lClosed' \in BOOLEAN, lStop' \in BOOLEAN, expired' \in BOOLEAN, stop' \in BOOLEAN
      PROVE  TypeOK' /\ MonOK'
  <2>1. LiveTypeOK'
    BY <1>1, <1>8 DEF IInv, TypeOK, LiveTypeOK
  <2>2. MonOK'
    BY <1>2 DEF IInv, MonOK
  <2>3. {coldStartSubmitted', coldDone'} \subseteq BOOLEAN
    BY <1>2 DEF IInv, TypeOK
  <2>4. {listing', snap', desired', prevSymbols', coldKeys', asked', raced'} \subseteq SUBSET Symbols
    BY <1>2 DEF IInv, TypeOK
  <2>5. /\ mon'.at \in {"off", "wait", "fetch", "notify", "diff", "submit", "gone"}
        /\ mon'.symbols \subseteq Symbols /\ mon'.added \subseteq mon'.symbols
    BY <1>2 DEF IInv, TypeOK
  <2>6. /\ mode' \in Modes /\ hangs' \in Hangs /\ built' \subseteq ToSet(ShutdownOrder)
        /\ on' \subseteq built' /\ abandoned' \subseteq built' /\ step' \in 0..Len(ShutdownOrder)
        /\ events' \in 0..MaxEvents
    BY <1>1, <1>2, <1>3, <1>8 DEF IInv, TypeOK
  <2> QED
    BY <1>1, <1>8, <2>1, <2>2, <2>3, <2>4, <2>5, <2>6 DEF TypeOK
<1>9. lClosed \in BOOLEAN /\ lStop \in BOOLEAN /\ expired \in BOOLEAN /\ stop \in BOOLEAN
  BY DEF IInv, TypeOK, LiveTypeOK
<1>10. CASE CloseNext
  <2>1. /\ main = "close" /\ UNCHANGED <<on, expired, abandoned>>
        /\ \/ nextStep = 0 /\ main' = "done" /\ UNCHANGED <<step, stop, lClosed, lStop>>
           \/ nextStep # 0 /\ main' = "closing" /\ step' = nextStep
    BY <1>10 DEF CloseNext
  <2>2. /\ stop' \in {stop, TRUE, ShutdownOrder[nextStep] = "universe"}
        /\ UNCHANGED <<lClosed, lStop>> \/ (lClosed' = TRUE /\ lStop' = TRUE)
    BY <1>9, <1>10 DEF CloseNext, CloseLive
  <2>3. TypeOK' /\ MonOK'
    <3>1. step' \in 0..12
      BY <1>3, <2>1, NextStep
    <3>2. stop' \in BOOLEAN
      BY <1>9, <2>2
    <3>3. lClosed' \in BOOLEAN /\ lStop' \in BOOLEAN
      BY <1>9, <2>2
    <3>4. on' \subseteq built /\ abandoned' \subseteq built
      BY <1>3, <2>1
    <3>5. expired' \in BOOLEAN
      BY <1>9, <2>1
    <3> QED
      BY <1>8, <3>1, <3>2, <3>3, <3>4, <3>5
  <2>4. StepShape'
    <3>1. CASE nextStep = 0
      <4>1. \A i \in 1..12 : step < i => ShutdownOrder[i] \notin built
        BY <1>3, <3>1, NextStep
      <4>2. \A i \in 1..12 : ShutdownOrder[i] \notin on \ abandoned
        BY <1>3, <1>4, <2>1, <4>1
      <4>3. on \subseteq abandoned
        BY <1>3, <4>2
      <4> QED
        BY <1>3, <2>1, <3>1, <4>2, <4>3 DEF StepShape, Ending
    <3>2. CASE nextStep # 0
      <4>1. /\ nextStep \in 1..12 /\ step < nextStep /\ ShutdownOrder[nextStep] \in built
            /\ \A i \in 1..12 : step < i /\ i < nextStep => ShutdownOrder[i] \notin built
        BY <1>3, <3>2, NextStep
      <4>2. step' = nextStep /\ main' = "closing" /\ main = "close"
        BY <2>1, <3>2
      <4>3. \A i \in 1..12 : i < nextStep => ShutdownOrder[i] \notin on \ abandoned
        BY <1>3, <1>4, <4>1, <4>2
      <4> QED
        BY <1>2, <1>3, <2>1, <4>1, <4>2, <4>3 DEF StepShape, Ending
    <3> QED BY <3>1, <3>2
  <2>5. GoroutineShape'
    BY <1>1, <1>2, <1>5, <1>7, <2>1 DEF GoroutineShape
  <2>6. FrameShape'
    BY <1>1, <2>2 DEF IInv, FrameShape
  <2> QED
    BY <1>6, <2>3, <2>4, <2>5, <2>6 DEF IInv
<1>11. CASE CloseDone
  <2>1. /\ main = "closing" /\ Gone(ShutdownOrder[step]) /\ on' = on \ {ShutdownOrder[step]}
        /\ main' = "close" /\ UNCHANGED <<step, expired, abandoned, stop, lClosed, lStop>>
    BY <1>11 DEF CloseDone, liveVars
  <2>2. TypeOK' /\ MonOK'
    <3>1. on' \subseteq built
      BY <1>3, <2>1
    <3> QED
      BY <1>3, <1>8, <1>9, <2>1, <3>1
  <2>3. StepShape'
    BY <1>3, <1>4, <2>1 DEF StepShape, Ending
  <2>4. GoroutineShape'
    <3>1. ~WorkersGone' => "live_writer" \in on'
      BY <1>5, <1>7, <2>1 DEF Gone
    <3>2. mon.at \notin {"off", "gone"} => "universe" \in on'
      BY <1>5, <2>1 DEF Gone
    <3> QED
      BY <1>2, <2>1, <3>1, <3>2 DEF GoroutineShape
  <2>5. FrameShape'
    BY <1>1, <2>1 DEF IInv, FrameShape
  <2> QED
    BY <1>6, <2>2, <2>3, <2>4, <2>5 DEF IInv
<1>12. CASE Abandon
  <2>1. /\ main = "closing" /\ abandoned' = abandoned \cup {ShutdownOrder[step]}
        /\ main' = "close" /\ UNCHANGED <<on, step, expired, stop, lClosed, lStop>>
    BY <1>12 DEF Abandon, liveVars
  <2>2. TypeOK' /\ MonOK'
    <3>1. abandoned' \subseteq built
      BY <1>3, <1>4, <2>1
    <3> QED
      BY <1>3, <1>8, <1>9, <2>1, <3>1
  <2>3. StepShape'
    BY <1>3, <1>4, <2>1 DEF StepShape, Ending
  <2>4. GoroutineShape'
    BY <1>2, <1>5, <1>7, <2>1 DEF GoroutineShape
  <2>5. FrameShape'
    BY <1>1, <2>1 DEF IInv, FrameShape
  <2> QED
    BY <1>6, <2>2, <2>3, <2>4, <2>5 DEF IInv
<1>13. CASE Deadline
  <2>1. expired' = TRUE /\ UNCHANGED <<main, on, step, abandoned, stop, lClosed, lStop>>
    BY <1>13 DEF Deadline, liveVars
  <2>2. TypeOK' /\ MonOK'
    BY <1>3, <1>8, <1>9, <2>1
  <2>3. StepShape' /\ GoroutineShape' /\ FrameShape'
    BY <1>1, <1>2, <1>7, <2>1 DEF IInv, StepShape, GoroutineShape, FrameShape, Ending
  <2> QED
    BY <1>6, <2>2, <2>3 DEF IInv
<1> QED
  BY <1>10, <1>11, <1>12, <1>13 DEF Shutdown

-----------------------------------------------------------------------------
(* The live writer, and what happens around the service. *)

\* A step of the writer, its callers or the world: the life of the components
\* goes on as it is.
LEMMA AroundKeeps ==
  ASSUME IInv, UNCHANGED <<fixed, lifeVars, snap, mon, desired, prevSymbols, asked, raced, coldVars>>,
         listing' \subseteq Symbols, events' \in 0..MaxEvents, LiveTypeOK',
         WorkersGone => WorkersGone', LiveShape', FrameShape'
  PROVE  IInv'
<1>1. UNCHANGED <<mode, built, hangs, main, on, step, expired, abandoned, stop, snap, mon, desired,
                  prevSymbols, asked, raced, coldStartSubmitted, coldKeys, coldDone>>
  BY DEF fixed, lifeVars, coldVars
<1>2. TypeOK'
  <2>1. {coldStartSubmitted', coldDone'} \subseteq BOOLEAN
    BY <1>1 DEF IInv, TypeOK
  <2>2. {listing', snap', desired', prevSymbols', coldKeys', asked', raced'} \subseteq SUBSET Symbols
    BY <1>1 DEF IInv, TypeOK
  <2>3. /\ mon'.at \in {"off", "wait", "fetch", "notify", "diff", "submit", "gone"}
        /\ mon'.symbols \subseteq Symbols /\ mon'.added \subseteq mon'.symbols
    BY <1>1 DEF IInv, TypeOK
  <2>4. /\ mode' \in Modes /\ hangs' \in Hangs /\ built' \subseteq ToSet(ShutdownOrder)
        /\ main' \in {"new", "metrics", "universe", "snapshot", "flag", "coldstart", "openinterest",
                      "wait", "waitcold", "close", "closing", "done"}
        /\ on' \subseteq built' /\ abandoned' \subseteq built' /\ step' \in 0..Len(ShutdownOrder)
        /\ expired' \in BOOLEAN /\ stop' \in BOOLEAN
    BY <1>1 DEF IInv, TypeOK
  <2> QED
    BY <2>1, <2>2, <2>3, <2>4 DEF TypeOK
<1>3. MonOK' /\ StepShape' /\ BuiltShape'
  BY <1>1 DEF IInv, MonOK, StepShape, BuiltShape, Ending, Started
<1>4. GoroutineShape'
  BY <1>1 DEF IInv, GoroutineShape
<1>5. RepairShape'
  <2>1. Staying' = Staying /\ Covered' = Covered
    BY <1>1 DEF Staying, Covered
  <2> QED
    BY <1>1, <2>1 DEF IInv, RepairShape, Ending
<1> QED
  BY <1>2, <1>3, <1>4, <1>5 DEF IInv

\* The signal and the listings do not touch the writer.
LEMMA WorldKeeps ==
  ASSUME IInv, Signal \/ List
  PROVE  IInv'
<1>1. UNCHANGED <<lClosed, lStop, input, worker, sending>>
  BY DEF Signal, List, liveVars
<1>2. /\ UNCHANGED <<fixed, lifeVars, snap, mon, desired, prevSymbols, asked, raced, coldVars>>
      /\ ctx' \in BOOLEAN
  BY DEF Signal, List, monVars, IInv, TypeOK, LiveTypeOK
<1>3. events' \in 0..MaxEvents
  <2>1. events \in 0..MaxEvents
    BY DEF IInv, TypeOK
  <2>2. events' = events \/ (events < MaxEvents /\ events' = events + 1)
    BY DEF Signal, List, Event
  <2> QED
    BY <2>1, <2>2, AppAssumption
<1>4. listing' \subseteq Symbols
  BY DEF Signal, List, monVars, IInv, TypeOK
<1>5. LiveTypeOK'
  BY <1>1, <1>2 DEF IInv, TypeOK, LiveTypeOK
<1>6. LiveShape'
  BY <1>1, <1>2 DEF IInv, LiveShape, fixed, lifeVars
<1>7. FrameShape' /\ WorkersGone' = WorkersGone
  BY <1>1 DEF IInv, FrameShape, WorkersGone
<1> QED
  BY <1>2, <1>3, <1>4, <1>5, <1>6, <1>7, AroundKeeps

\* A frame enters the writer, or is dropped.
LEMMA FrameKeeps ==
  ASSUME IInv, Live \/ \E p \in Producers : Receive(p)
  PROVE  IInv'
<1>1. /\ UNCHANGED <<fixed, lifeVars, snap, mon, desired, prevSymbols, asked, raced, coldVars>>
      /\ UNCHANGED <<lClosed, lStop, worker, mode, built, main, on>> /\ listing' = listing
  BY DEF Live, Receive, TryEnqueue, Send, fixed, lifeVars, monVars
<1>2. events' \in 0..MaxEvents
  <2>1. events \in 0..MaxEvents
    BY DEF IInv, TypeOK
  <2>2. events' = events \/ (events < MaxEvents /\ events' = events + 1)
    BY DEF Live, Receive, Event
  <2> QED
    BY <2>1, <2>2, AppAssumption
<1>3. LiveTypeOK /\ listing \subseteq Symbols /\ built \subseteq Components
  BY DEF IInv, TypeOK, Components
<1>4. LiveTypeOK'
  BY <1>3, TypeLive DEF Live, Receive
<1>5. /\ "live_writer" \in built
      /\ input' = input \/ (input' = Append(input, lClosed))
  <2>1. CASE Live
    <3>1. PICK p \in Producers : Send(p)
      BY <2>1 DEF Live
    <3>2. sending # {}
      BY <3>1 DEF Send
    <3> QED
      BY <3>1, <3>2 DEF Send, IInv, LiveShape
  <2>2. CASE \E p \in Producers : Receive(p)
    <3>1. "collector" \in on /\ input' = input
      BY <2>2 DEF Receive, TryEnqueue
    <3> QED
      BY <3>1 DEF IInv, LiveShape, TypeOK
  <2> QED
    BY <2>1, <2>2
<1>6. LiveShape'
  BY <1>1, <1>5 DEF IInv, LiveShape
<1>7. FrameShape'
  <2>1. /\ lStop' => lClosed'
        /\ \A w \in Workers : worker'[w].at \in {"drain", "gone"} => lClosed'
    BY <1>1 DEF IInv, FrameShape
  <2>2. ASSUME NEW w \in Workers, worker'[w].at = "gone"
        PROVE  \A i \in DOMAIN input' : input'[i]
    <3>1. lClosed /\ \A i \in DOMAIN input : input[i]
      BY <1>1, <2>2 DEF IInv, FrameShape
    <3>2. input \in Seq(BOOLEAN)
      BY <1>3 DEF LiveTypeOK
    <3>3. CASE input' = input
      BY <3>1, <3>3
    <3>4. CASE input' = Append(input, lClosed)
      <4>1. /\ Len(input) \in Nat /\ Len(input') = Len(input) + 1
            /\ DOMAIN input = 1..Len(input) /\ DOMAIN input' = 1..Len(input')
            /\ \A i \in 1..Len(input) : input'[i] = input[i]
            /\ input'[Len(input) + 1] = lClosed
        BY <3>2, <3>4
      <4>2. ASSUME NEW i \in DOMAIN input'
            PROVE  i \in DOMAIN input \/ i = Len(input) + 1
        BY <4>1
      <4>3. \A i \in DOMAIN input' :
              (i \in DOMAIN input /\ input'[i] = input[i]) \/ input'[i] = lClosed
        BY <4>1, <4>2
      <4> QED
        BY <3>1, <4>3, Zenon
    <3> QED
      BY <1>5, <3>3, <3>4
  <2> QED
    BY <2>1, <2>2 DEF FrameShape
<1>8. WorkersGone' = WorkersGone
  BY <1>1 DEF WorkersGone
<1> QED
  BY <1>1, <1>2, <1>3, <1>4, <1>6, <1>7, <1>8, AroundKeeps

\* A worker takes, writes, leaves its loop, or finds the channel drained.
LEMMA WorkerKeeps ==
  ASSUME IInv, NEW w \in Workers, LiveWorker(w)
  PROVE  IInv'
<1>1. /\ UNCHANGED <<fixed, lifeVars, snap, mon, desired, prevSymbols, asked, raced, coldVars>>
      /\ UNCHANGED <<ctx, lStop, sending, mode, built, main, on, listing, events>>
      /\ LiveStep(w)
  BY DEF LiveWorker, LiveStep, Take, Written, Leave, Drained, fixed, lifeVars, monVars
<1>2. /\ LiveTypeOK /\ listing' \subseteq Symbols /\ events' \in 0..MaxEvents
      /\ input \in Seq(BOOLEAN)
  BY <1>1 DEF IInv, TypeOK, LiveTypeOK
<1>3. LiveTypeOK'
  BY <1>1, <1>2, TypeLive
<1>4. \A v \in Workers : worker'[v].at = IF v = w THEN worker'[w].at ELSE worker[v].at
  BY <1>1, <1>2 DEF LiveTypeOK, LiveStep, Take, Written, Leave, Drained, hand
<1>5. \/ /\ Take(w) \/ Written(w)
         /\ worker'[w].at = worker[w].at /\ lClosed' = lClosed
         /\ input' = input \/ (input # <<>> /\ input' = Tail(input))
      \/ /\ worker[w].at = "loop" /\ worker'[w].at = "drain"
         /\ input' = input /\ (lClosed' = TRUE \/ (lStop /\ lClosed' = lClosed))
      \/ /\ worker[w].at = "drain" /\ worker'[w].at = "gone"
         /\ input = <<>> /\ input' = input /\ lClosed' = lClosed
  <2>1. CASE Take(w)
    BY <1>2, <2>1 DEF Take, hand, LiveTypeOK
  <2>2. CASE Written(w)
    BY <1>2, <2>2 DEF Written, hand, LiveTypeOK
  <2>3. CASE Leave(w)
    BY <1>2, <2>3 DEF Leave, hand, LiveTypeOK
  <2>4. CASE Drained(w)
    BY <1>2, <2>4 DEF Drained, hand, LiveTypeOK
  <2> QED
    BY <1>1, <2>1, <2>2, <2>3, <2>4 DEF LiveStep
<1>6. WorkersGone => WorkersGone'
  <2>1. SUFFICES ASSUME WorkersGone
                 PROVE  WorkersGone'
    OBVIOUS
  <2>2. worker[w].at \in {"off", "gone"}
    BY <2>1 DEF WorkersGone
  <2>3. worker'[w].at = worker[w].at
    BY <1>5, <2>2
  <2> QED
    BY <1>4, <2>1, <2>3 DEF WorkersGone
<1>7. LiveShape'
  <2>1. main' = "new" => built' = {}
    BY <1>1 DEF IInv, LiveShape
  <2>2. "collector" \in built' => "live_writer" \in built'
    BY <1>1 DEF IInv, LiveShape
  <2>3. "live_writer" \notin built' => input' = <<>> /\ sending' = {}
    BY <1>1, <1>5 DEF IInv, LiveShape
  <2>4. "live_writer" \in built' => \A v \in Workers : worker'[v].at # "off"
    BY <1>1, <1>4, <1>5 DEF IInv, LiveShape
  <2> QED
    BY <2>1, <2>2, <2>3, <2>4 DEF LiveShape
<1>8. FrameShape'
  <2>1. (lStop => lClosed) /\ \A v \in Workers : worker[v].at \in {"drain", "gone"} => lClosed
    BY DEF IInv, FrameShape
  <2>2. lStop' => lClosed'
    BY <1>1, <1>5, <2>1
  <2>3. ASSUME NEW v \in Workers, worker'[v].at \in {"drain", "gone"}
        PROVE  lClosed'
    <3>1. CASE v = w
      BY <1>5, <2>1, <2>3, <3>1
    <3>2. CASE v # w
      BY <1>4, <1>5, <2>1, <2>3, <3>2
    <3> QED
      BY <3>1, <3>2
  <2>4. ASSUME NEW v \in Workers, worker'[v].at = "gone"
        PROVE  \A i \in DOMAIN input' : input'[i]
    <3>1. CASE input' = <<>>
      BY <3>1
    <3>2. CASE input' # <<>>
      <4>1. worker[v].at = "gone"
        BY <1>4, <1>5, <2>4, <3>2
      <4>2. \A i \in DOMAIN input : input[i]
        BY <4>1 DEF IInv, FrameShape
      <4>3. CASE input' = input
        BY <4>2, <4>3
      <4>4. CASE input # <<>> /\ input' = Tail(input)
        <5>1. /\ DOMAIN input = 1..Len(input) /\ DOMAIN input' = 1..(Len(input) - 1)
              /\ Len(input) \in Nat /\ \A i \in DOMAIN input' : input'[i] = input[i + 1]
          BY <1>2, <4>4
        <5>2. \A i \in DOMAIN input' : i + 1 \in DOMAIN input
          BY <5>1
        <5> QED
          BY <4>2, <5>1, <5>2
      <4> QED
        BY <1>5, <4>3, <4>4
    <3> QED
      BY <3>1, <3>2
  <2> QED
    BY <2>2, <2>3, <2>4 DEF FrameShape
<1> QED
  BY <1>1, <1>2, <1>3, <1>6, <1>7, <1>8, AroundKeeps

-----------------------------------------------------------------------------
(* The theorems. *)

\* Before New nothing is made.
LEMMA InitHolds == Init => IInv
<1> SUFFICES ASSUME Init
             PROVE  IInv
  OBVIOUS
<1> USE DEF Init, LiveInit
<1>1. LiveTypeOK
  <2>1. [at |-> "off", job |-> FALSE] \in [at : {"off", "loop", "drain", "gone"}, job : BOOLEAN]
    OBVIOUS
  <2>2. worker \in [Workers -> [at : {"off", "loop", "drain", "gone"}, job : BOOLEAN]]
    BY <2>1
  <2>3. input \in Seq(BOOLEAN) /\ Len(input) <= ChannelSize
    BY LiveBarWriterAssumption
  <2> QED
    BY <2>2, <2>3 DEF LiveTypeOK
<1>2. MonOK
  BY DEF MonOK, NoRefresh
<1>3. TypeOK
  <2>1. step \in 0..Len(ShutdownOrder) /\ events \in 0..MaxEvents
    BY OrderOfShutdown, AppAssumption
  <2>2. {coldStartSubmitted, coldDone} \subseteq BOOLEAN
    OBVIOUS
  <2>3. {listing, snap, desired, prevSymbols, coldKeys, asked, raced} \subseteq SUBSET Symbols
    BY AppAssumption
  <2>4. /\ mon.at \in {"off", "wait", "fetch", "notify", "diff", "submit", "gone"}
        /\ mon.symbols \subseteq Symbols /\ mon.added \subseteq mon.symbols
    BY DEF NoRefresh
  <2> QED
    BY <1>1, <2>1, <2>2, <2>3, <2>4 DEF TypeOK
<1>4. \A w \in Workers : worker[w].at = "off"
  OBVIOUS
<1>5. StepShape /\ BuiltShape
  BY DEF StepShape, BuiltShape, Ending
<1>6. GoroutineShape
  BY <1>4 DEF GoroutineShape, WorkersGone, NoRefresh
<1>7. LiveShape
  BY DEF LiveShape
<1>8. FrameShape
  BY <1>4 DEF FrameShape
<1>9. RepairShape
  BY DEF RepairShape, Ending, NoRefresh
<1> QED
  BY <1>2, <1>3, <1>5, <1>6, <1>7, <1>8, <1>9 DEF IInv

\* Every step keeps the invariant.
LEMMA StepKeeps == IInv /\ [Next]_vars => IInv'
<1> SUFFICES ASSUME IInv, [Next]_vars
             PROVE  IInv'
  OBVIOUS
<1>1. CASE Main \/ EndColdStart
  BY <1>1, MadeKeeps, RunKeeps DEF Main
<1>2. CASE Refresh \/ RefreshDue
  BY <1>2, RefreshKeeps
<1>3. CASE Shutdown \/ Deadline
  BY <1>3, ShutdownKeeps
<1>4. CASE Signal \/ List
  BY <1>4, WorldKeeps
<1>5. CASE Live \/ \E p \in Producers : Receive(p)
  BY <1>5, FrameKeeps
<1>6. CASE \E w \in Workers : LiveWorker(w)
  BY <1>6, WorkerKeeps
<1>7. CASE UNCHANGED vars
  <2>1. UNCHANGED <<fixed, lifeVars, snap, mon, desired, prevSymbols, asked, raced, coldVars,
                    ctx, lClosed, lStop, input, worker, sending, built, main, listing, events>>
    BY <1>7 DEF vars, liveVars, fixed, lifeVars, monVars
  <2>2. listing' \subseteq Symbols /\ events' \in 0..MaxEvents
    BY <2>1 DEF IInv, TypeOK
  <2>3. LiveTypeOK'
    BY <2>1 DEF IInv, TypeOK, LiveTypeOK
  <2>4. WorkersGone' = WorkersGone /\ LiveShape' /\ FrameShape'
    BY <2>1 DEF IInv, WorkersGone, LiveShape, FrameShape
  <2> QED
    BY <2>1, <2>2, <2>3, <2>4, AroundKeeps
<1> QED
  BY <1>1, <1>2, <1>3, <1>4, <1>5, <1>6, <1>7 DEF Next, Exited

(* Construction, service and shutdown keep the invariant.                  *)
THEOREM InvariantKept == Spec => []IInv
<1>1. Init => IInv
  BY InitHolds
<1>2. IInv /\ [Next]_vars => IInv'
  BY StepKeeps
<1> QED
  BY <1>1, <1>2, PTL DEF Spec

(* When Shutdown (app.go) returns, everything that runs is something it    *)
(* says it abandoned: components, the live writer's workers and the loop   *)
(* of the universe monitor.                                                *)
THEOREM StopsAll == Spec => []ShutdownStopsAll
<1>1. IInv => ShutdownStopsAll
  <2>1. SUFFICES ASSUME IInv, main = "done"
                 PROVE  /\ on \subseteq abandoned
                        /\ ~WorkersGone => "live_writer" \in abandoned
                        /\ mon.at \notin {"off", "gone"} => "universe" \in abandoned
    BY DEF ShutdownStopsAll, IInv
  <2>2. on \subseteq abandoned
    BY <2>1 DEF IInv, StepShape
  <2> QED
    BY <2>1, <2>2 DEF IInv, GoroutineShape
<1> QED
  BY <1>1, InvariantKept, PTL

(* Between refreshes every symbol the collector is told to subscribe has   *)
(* been given to the backfiller, by Run's cold start or by onUniverseChange*)
(* (app.go), but for those that a refresh added between Run's Snapshot and *)
(* the Store of coldStartSubmitted.                                        *)
THEOREM Repaired == Spec => []SubscribedIsRepaired
<1>1. IInv => SubscribedIsRepaired
  BY DEF IInv, RepairShape, SubscribedIsRepaired, Ending, Staying, Covered
<1> QED
  BY <1>1, InvariantKept, PTL

(* What is in the live writer's channel when its workers have returned was *)
(* sent after closed was set, by a producer that had looked before         *)
(* (livebar_writer.go, TryEnqueue and drain).                              *)
THEOREM LateOnly == Spec => []OnlyLateFramesLeft
<1>1. IInv => OnlyLateFramesLeft
  <2>1. SUFFICES ASSUME IInv, WorkersGone
                 PROVE  \A i \in DOMAIN input : input[i]
    BY DEF OnlyLateFramesLeft
  <2>2. PICK w \in Workers : TRUE
    BY LiveBarWriterAssumption
  <2>3. CASE worker[w].at = "gone"
    BY <2>1, <2>3 DEF IInv, FrameShape
  <2>4. CASE worker[w].at = "off"
    <3>1. "live_writer" \notin built
      BY <2>1, <2>4 DEF IInv, LiveShape
    <3>2. input = <<>>
      BY <2>1, <3>1 DEF IInv, LiveShape
    <3> QED
      BY <3>2
  <2> QED
    BY <2>1, <2>3, <2>4 DEF WorkersGone
<1> QED
  BY <1>1, InvariantKept, PTL
=============================================================================
