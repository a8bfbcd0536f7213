---------------------------- MODULE WeightStream ----------------------------
(***************************************************************************)
(* What a weight transfer promises: every inference worker loads all the   *)
(* tensors of the model, intact and in the generator's order, whatever     *)
(* the others are doing.                                                   *)
(***************************************************************************)
EXTENDS Naturals

CONSTANTS Receivers, NumTensors

VARIABLE loaded            \* per receiver: what it loaded under each tensor's name

Prefix(n) == [t \in 1 .. n |-> t]

Init == loaded = [r \in Receivers |-> Prefix(0)]

\* The tensors up to the n-th, after those loaded before
Load(r, n) ==
    /\ \E m \in 0 .. n - 1 : loaded[r] = Prefix(m)
    /\ loaded' = [loaded EXCEPT ![r] = Prefix(n)]

Next == \E r \in Receivers, n \in 1 .. NumTensors : Load(r, n)

Spec == Init /\ [][Next]_loaded
=============================================================================
