--------------------------- MODULE PriceTimeBook ---------------------------
(***************************************************************************)
(* What a limit order book promises: an incoming order trades, while it    *)
(* crosses, with the resting order of the other side that has the best     *)
(* price and, at that price, came first; what is left of it rests, or, in  *)
(* a book at its limits, is discarded.  Orders are numbered by arrival at  *)
(* the engine, so one book may see only some of the numbers.               *)
(***************************************************************************)
EXTENDS Integers

CONSTANTS Prices, Quantities, MaxOrders, NoOrder

VARIABLES resting,      \* set of orders [id, side, price, qty]
          taker,        \* the order being matched, or NoOrder
          last,         \* number of the latest order
          noPlace       \* the book's limits leave no place for the taker's rest

vars == <<resting, taker, last>>

Crosses(t, m) ==
    /\ m.side = 3 - t.side
    /\ IF t.side = 1 THEN m.price <= t.price ELSE m.price >= t.price

\* m goes before n for a taker of the other side.
Before(m, n) ==
    \/ IF m.side = 2 THEN m.price < n.price ELSE m.price > n.price
    \/ m.price = n.price /\ m.id < n.id

Init == resting = {} /\ taker = NoOrder /\ last = 0

Submit ==
    /\ taker = NoOrder
    /\ last' \in (last + 1)..MaxOrders
    /\ \E s \in {1, 2}, p \in Prices, q \in Quantities :
          taker' = [id |-> last', side |-> s, price |-> p, qty |-> q]
    /\ UNCHANGED resting

Trade ==
    /\ taker # NoOrder /\ taker.qty > 0
    /\ \E m \in resting :
          /\ Crosses(taker, m)
          /\ \A n \in resting : Crosses(taker, n) => n = m \/ Before(m, n)
          /\ LET q == IF m.qty < taker.qty THEN m.qty ELSE taker.qty
                 rest == resting \ {m}
             IN  /\ resting' = IF q = m.qty THEN rest ELSE rest \cup {[m EXCEPT !.qty = @ - q]}
                 /\ taker' = [taker EXCEPT !.qty = @ - q]
    /\ UNCHANGED last

Rest ==
    /\ taker # NoOrder
    /\ taker.qty > 0 => \A m \in resting : ~Crosses(taker, m)
    /\ \/ taker.qty > 0 /\ resting' = resting \cup {taker}
       \/ (taker.qty = 0 \/ noPlace) /\ resting' = resting
    /\ taker' = NoOrder
    /\ UNCHANGED last

Next == Submit \/ Trade \/ Rest

Spec == Init /\ [][Next]_vars
=============================================================================
