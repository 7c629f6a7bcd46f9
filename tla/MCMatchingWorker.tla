-------------------------- MODULE MCMatchingWorker --------------------------
(* Limits and datagrams of MatchingWorker for TLC: in one set of limits the *)
(* value cap binds, in the other the quantity does.                         *)
EXTENDS MatchingWorker

SmallLimits ==
    {[max_order_qty |-> 2, max_price_deviation_scaled |-> 1, max_notional_value_usd |-> 3],
     [max_order_qty |-> 1, max_price_deviation_scaled |-> 1, max_notional_value_usd |-> 5]}

FixMessages ==
    [protocol : {"FIX"}, new_order : {TRUE}, side : 0..2, quantity : {-3, 0, 1, 2, 3},
     price : {1, 2, 5}] \cup
    [protocol : {"FIX"}, new_order : {FALSE}, side : {1}, quantity : {-1, 1}, price : {-1, 2}]
BinaryMessages ==
    [protocol : {"OUCH"}, whole : {TRUE}, side : {0}, quantity : {1, 9, 15}, price : {1, 4}] \cup
    [protocol : {"SBE"}, whole : {TRUE}, side : {2}, quantity : {2, 8, 15}, price : {1, 255}] \cup
    [protocol : {"OUCH", "SBE"}, whole : {FALSE}, side : {1}, quantity : {1}, price : {1}]

SmallMessages == FixMessages \cup BinaryMessages

\* This instance meets the conditions of the theorems.
ASSUME ConditionsMet == LimitsBelowWrap /\ AskedWithinBounds
=============================================================================
