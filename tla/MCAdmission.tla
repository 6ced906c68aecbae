----------------------------- MODULE MCAdmission -----------------------------
EXTENDS Admission, TLC

\* Two live callers and a bulk one at the gate, or three callers at the pool.
MixesOf == {("a" :> "live" @@ "b" :> "live" @@ "c" :> "bulk"), [x \in Callers |-> "data"]}

BurstOf == "live" :> 1 @@ "bulk" :> 2 @@ "data" :> 2
=============================================================================
