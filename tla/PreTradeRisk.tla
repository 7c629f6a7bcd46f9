---------------------------- MODULE PreTradeRisk ----------------------------
(***************************************************************************)
(* PreTradeRiskManager::evaluate_order: kill switch, quantity, price collar*)
(* and notional value, in this order, with the unsigned arithmetic of the  *)
(* code: the casts of a negative quantity or price and the product wrap at *)
(* 2^Width.  The module MatchingWorker calls it.                           *)
(* The collar's subtraction is signed: for a price below                   *)
(* Reference - 2^(Width - 1) it overflows, which is undefined, so          *)
(* RiskAssumption leaves such prices out.                                  *)
(***************************************************************************)
EXTENDS ProtocolParser

CONSTANTS Scale,            \* price units per dollar (1000000)
          Reference,        \* reference_price of the worker (35000000)
          Limits,           \* the RiskLimits the manager may be given
          WireMessages      \* bound: the datagrams senders may write

ASSUME RiskAssumption ==
    /\ Scale \in Nat \ {0} /\ Reference \in Nat \ {0}
    /\ Limits \subseteq [max_order_qty : Nat, max_price_deviation_scaled : Nat, max_notional_value_usd : Nat]
    /\ WireMessages \subseteq Datagrams
    /\ \A m \in WireMessages : Reference - Decode(m).price < 2^(Width - 1)

VARIABLES m_limits, kill_switch_active, m_approved_count, m_rejected_count

riskVars == <<m_limits, kill_switch_active, m_approved_count, m_rejected_count>>

Orders == {Decode(m) : m \in WireMessages}

RiskInit ==
    /\ m_limits \in Limits /\ kill_switch_active = FALSE
    /\ m_approved_count = 0 /\ m_rejected_count = 0

\* static_cast<uint64_t> and 64-bit products.
UnsignedSaturates(x) == IF x < 0 THEN 0 ELSE x
Unsigned(x) == x % 2^Width

TooMany(o) == o.quantity > 0 /\ o.quantity > m_limits.max_order_qty

Deviation(o) == IF o.price > Reference THEN o.price - Reference ELSE Reference - o.price

Notional(o) == Unsigned(Unsigned(o.quantity) * Unsigned(o.price)) \div Scale

Verdict(o) ==
    CASE kill_switch_active -> "REJECTED_KILL_SWITCH"
      [] ~kill_switch_active /\ TooMany(o) -> "REJECTED_MAX_QTY"
      [] ~kill_switch_active /\ ~TooMany(o) /\ Deviation(o) > m_limits.max_price_deviation_scaled
            -> "REJECTED_PRICE_COLLAR"
      [] ~kill_switch_active /\ ~TooMany(o) /\ Deviation(o) <= m_limits.max_price_deviation_scaled
         /\ Notional(o) > m_limits.max_notional_value_usd -> "REJECTED_MAX_NOTIONAL"
      [] OTHER -> "APPROVED"

EvaluateOrder(o) ==
    /\ IF Verdict(o) = "APPROVED"
         THEN m_approved_count' = m_approved_count + 1 /\ UNCHANGED m_rejected_count
         ELSE m_rejected_count' = m_rejected_count + 1 /\ UNCHANGED m_approved_count
    /\ UNCHANGED <<m_limits, kill_switch_active>>

SetKillSwitch(active) ==
    /\ kill_switch_active' = active
    /\ UNCHANGED <<m_limits, m_approved_count, m_rejected_count>>

\* set_limits; the new limits may have the kill switch on.
SetLimits(limits, active) ==
    /\ m_limits' = limits
    /\ kill_switch_active' = active
    /\ UNCHANGED <<m_approved_count, m_rejected_count>>

----------------------------------------------------------------------------
\* In exact arithmetic, an order is approved exactly when the kill switch is
\* off, its quantity is not negative and within the limit, its price is within
\* the collar and its value within the cap.  For a negative quantity this
\* rests on the product wrapping to a value above the cap.
Safe(o) ==
    /\ ~kill_switch_active
    /\ o.quantity >= 0 /\ o.quantity <= m_limits.max_order_qty
    /\ o.price - Reference <= m_limits.max_price_deviation_scaled
    /\ Reference - o.price <= m_limits.max_price_deviation_scaled
    /\ (o.quantity * o.price) \div Scale <= m_limits.max_notional_value_usd

ApprovedIffSafe == \A o \in Orders : Verdict(o) = "APPROVED" <=> Safe(o)
=============================================================================
