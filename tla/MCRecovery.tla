----------------------------- MODULE MCRecovery -----------------------------
(* The feed of OrderBookRecovery for TLC: every update may set a quantity  *)
(* of its own or delete a level; the snapshots list asks worst first, one   *)
(* level more than the book takes, and fewer than before.                   *)
EXTENDS OrderBookRecovery

SmallUpdates ==
    [n \in 1..MaxUpdates |-> [price : IF n = 1 THEN {2} ELSE Prices, qty : {0, n}]]

Ask(p) == [price |-> p, qty |-> 1]
SmallImages ==
    0 :> <<>> @@ 1 :> <<Ask(3), Ask(1)>> @@ 2 :> <<Ask(2), Ask(3), Ask(1)>> @@ 3 :> <<Ask(2)>>
    @@ 4 :> <<>> @@ 5 :> <<Ask(1), Ask(2)>>
=============================================================================
