--------------------------- MODULE MatchingWorker ---------------------------
(***************************************************************************)
(* What MatchingWorker::run does with a message that has passed the feed   *)
(* gate, decoded by ProtocolParser: the pre-trade risk check, then, for an *)
(* approved NewOrderSingle, the matching engine.  Both belong to the       *)
(* worker's thread, so the next message is taken when the engine is done   *)
(* with the last one.                                                      *)
(***************************************************************************)
EXTENDS PreTradeRisk, MatchingEngine

CONSTANTS MaxEvaluations    \* bound: messages handled

ASSUME WorkerAssumption == MaxEvaluations \in Nat

vars == <<riskVars, engineVars>>

Init == RiskInit /\ EngineInit

\* static_cast<uint32_t>(order.quantity) at the entry of submit_order.
RemainingQty(o) == o.quantity % 2^QtyWidth

Handled == m_approved_count + m_rejected_count

\* An approved message of another type, and every rejected one, ends here.
HandleMessage(o) ==
    /\ taker = NoOrder /\ Handled < MaxEvaluations
    /\ EvaluateOrder(o)
    /\ IF o.new_order /\ Verdict(o) = "APPROVED"
         THEN \E sym \in Symbols \cup {EmptySymbol} :
                 \/ Route(sym, o.side, o.price, RemainingQty(o))
                 \/ RouteNoSide(sym, o.side)
         ELSE UNCHANGED engineVars

Match == MatchFront /\ UNCHANGED riskVars
Place == Rest /\ UNCHANGED riskVars

\* The risk manager's owner changes its settings between two messages.
Settings ==
    /\ taker = NoOrder
    /\ \/ \E active \in BOOLEAN : SetKillSwitch(active)
       \/ \E limits \in Limits, active \in BOOLEAN : SetLimits(limits, active)
    /\ UNCHANGED engineVars

Next ==
    \/ \E o \in Orders : HandleMessage(o)
    \/ Match \/ Place \/ Settings

Spec == Init /\ [][Next]_vars

----------------------------------------------------------------------------
(* Conditions on the constants under which the theorems hold.              *)

\* What the limits must satisfy for the arithmetic of evaluate_order to be
\* exact.  The collar excludes the price 0, with which every quantity, also a
\* negative one, has the value 0; and the largest quantity there is, at the
\* highest price of the collar, stays so far below 2^Width that a negative
\* product wraps to a value above the cap.  With the reference price, the
\* default limits and the widths of the code the left side is about 8.6e16,
\* the right one 1.8e19.
LimitsBelowWrap ==
    \A l \in Limits :
        /\ l.max_price_deviation_scaled < Reference
        /\ 2^(QtyWidth - 1) * (Reference + l.max_price_deviation_scaled)
             + Scale * (l.max_notional_value_usd + 1) <= 2^Width

\* The abstract book may be asked for everything the risk check lets through.
AskedWithinBounds ==
    \A o \in Orders, l \in Limits :
        /\ o.quantity \in 0..l.max_order_qty
        /\ o.price - Reference <= l.max_price_deviation_scaled
        /\ Reference - o.price <= l.max_price_deviation_scaled
        => o.price \in Prices /\ o.quantity \in Quantities

----------------------------------------------------------------------------
\* No order outside every set of limits ever rests in a book, whatever sign
\* its quantity had on the wire: the gate stops a negative quantity before the
\* engine's cast turns it into a huge one.
RestingWithinLimits ==
    \A sym \in Symbols, s \in {1, 2} : \A k \in DOMAIN BookOf(sym)[s] :
        \E l \in Limits :
            LET o == BookOf(sym)[s][k]
            IN  o.qty <= l.max_order_qty /\ (o.qty * o.price) \div Scale <= l.max_notional_value_usd

\* The quantity an approved order brings to its book is the one its sender
\* wrote: the casts of parser and book, from unsigned to signed and back, and
\* the wrap of a negative FIX quantity cannot change it unnoticed.
WireQuantityKept ==
    \A m \in WireMessages :
        Verdict(Decode(m)) = "APPROVED" /\ Decode(m).new_order => RemainingQty(Decode(m)) = m.quantity
=============================================================================
