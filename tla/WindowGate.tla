----------------------------- MODULE WindowGate -----------------------------
(***************************************************************************)
(* internal/windowgate: the reference-counted gate that suppresses the     *)
(* closed-window pushes of a held (symbol, interval) key and the           *)
(* kline_ready events of an interval with a held key.                      *)
(*                                                                         *)
(* Every method body runs under Gate.mu, so one method on one key is one   *)
(* step.  Hold and Release are variadic in the code; their only caller     *)
(* outside the tests, app.gateAdapter, passes one key per call.            *)
(***************************************************************************)
EXTENDS Integers, FiniteSets

CONSTANTS
  RawSymbols,   (* symbols as callers spell them, in any letter case       *)
  ToUpper,      (* strings.ToUpper on those spellings                      *)
  Intervals     (* bar intervals, e.g. "1m"                                *)

ASSUME GateAssumption ==
  /\ IsFiniteSet(RawSymbols)
  /\ ToUpper \in [RawSymbols -> RawSymbols]
  /\ \A s \in RawSymbols : ToUpper[ToUpper[s]] = ToUpper[s]

Symbols == {ToUpper[s] : s \in RawSymbols}
RawKey  == RawSymbols \X Intervals
Key     == Symbols \X Intervals

norm(raw) == <<ToUpper[raw[1]], raw[2]>>

VARIABLES
  keys,         (* Gate.keys: hold count of each key, absent = 0           *)
  byInterv      (* Gate.byInterv: number of held keys of each interval     *)

gateVars == <<keys, byInterv>>

GateInit ==
  /\ keys     = [k \in Key |-> 0]
  /\ byInterv = [iv \in Intervals |-> 0]

-----------------------------------------------------------------------------

HeldWindow(raw)  == keys[norm(raw)] > 0
HeldInterval(iv) == byInterv[iv] > 0

\* The keys of one interval the gate holds: what byInterv counts.
HeldKeysOf(iv) == {k \in Key : keys[k] > 0 /\ k[2] = iv}

\* Mutant: every hold counts the interval, not only the first one of a key.
HoldCountsEveryTime(raw) ==
  LET k == norm(raw) IN
    /\ byInterv' = [byInterv EXCEPT ![k[2]] = @ + 1]
    /\ keys'     = [keys EXCEPT ![k] = @ + 1]

\* Mutant: a flag per key instead of a count.
HoldIsAFlag(raw) ==
  LET k == norm(raw) IN
    /\ byInterv' = [byInterv EXCEPT ![k[2]] = IF keys[k] = 0 THEN @ + 1 ELSE @]
    /\ keys'     = [keys EXCEPT ![k] = 1]

Hold(raw) ==
  LET k == norm(raw) IN
    /\ byInterv' = [byInterv EXCEPT ![k[2]] = IF keys[k] = 0 THEN @ + 1 ELSE @]
    /\ keys'     = [keys EXCEPT ![k] = @ + 1]

\* The last hold of a key closes it; an unheld key is left alone.
Release(raw) ==
  LET k == norm(raw) IN
    \/ keys[k] = 0 /\ UNCHANGED gateVars
    \/ /\ keys[k] = 1
       /\ keys'     = [keys EXCEPT ![k] = 0]
       /\ byInterv' = [byInterv EXCEPT ![k[2]] = IF @ <= 1 THEN 0 ELSE @ - 1]
    \/ /\ keys[k] > 1
       /\ keys' = [keys EXCEPT ![k] = @ - 1]
       /\ UNCHANGED byInterv

-----------------------------------------------------------------------------
(* The gate by itself: any caller may hold or release any key at any time. *)

GateNext == \E raw \in RawKey : Hold(raw) \/ Release(raw)

GateSpec == GateInit /\ [][GateNext]_gateVars

GateTypeOK ==
  /\ keys     \in [Key -> Nat]
  /\ byInterv \in [Intervals -> Nat]

(* The two maps of the gate never disagree: the count kept for an interval *)
(* is exactly the number of its keys that are held (gate.go:41-42).  If it *)
(* drifted up, kline_ready of the interval would stay suppressed for good; *)
(* if it drifted down, one would be sent in the middle of a rebuild.       *)
IntervalCountExact ==
  \A iv \in Intervals : byInterv[iv] = Cardinality(HeldKeysOf(iv))
=============================================================================
