--------------------------- MODULE ExecutionPlane ---------------------------
(***************************************************************************)
(* The zero-exposure execution contracts (operations.py) and the           *)
(* deterministic shadow adapter and its accounting (shadow_lifecycle.py),  *)
(* as operators.  Decimals are integers: prices in price units, quantities *)
(* in quantity units, fees in ten-thousandths of a price unit, and the     *)
(* fill ratio in percent.                                                  *)
(***************************************************************************)
EXTENDS Integers, Sequences, SequencesExt

CAPABILITY_STATES ==
  <<"DISCOVERED", "HYPOTHESIS", "PREREGISTERED", "BACKTEST_SUPPORTED",
    "PROSPECTIVE_SUPPORTED", "REPLAY_QUALIFIED", "SHADOW_QUALIFIED",
    "EXECUTION_PLANE_QUALIFIED", "CAPITAL_ELIGIBLE", "LIVE">>
Rank(state) == CHOOSE i \in DOMAIN CAPABILITY_STATES : CAPABILITY_STATES[i] = state

-----------------------------------------------------------------------------
(* Capabilities: [state, status, evidence], and the log of their transitions *)

\* evidence_bound_promotion and promote_capability: an ACTIVE capability moves
\* one state up, below the states only the Governor may grant.
MayPromote(item, new, evidence) ==
  /\ new \notin {"CAPITAL_ELIGIBLE", "LIVE"}
  /\ item.status = "ACTIVE"
  /\ evidence # {}
  /\ Rank(new) = Rank(item.state) + 1

Promoted(item, new, evidence) ==
  [item EXCEPT !.state = new, !.evidence = @ \cup evidence]
PromotionRecord(item, new, evidence, at) ==
  [id |-> <<new>>, at |-> at, previous |-> item.state, new |-> new,
   outcome |-> "PROMOTED", evidence |-> evidence]

\* capability_non_success: any capability may be taken out of service, whatever
\* its status is already.
NonSuccess == {"SUSPENDED", "REJECTED", "REVOKED"}
NonSuccessRecord(item, outcome, evidence, at) ==
  [id |-> <<outcome, at>>, at |-> at, previous |-> item.state, new |-> item.state,
   outcome |-> outcome, evidence |-> evidence]

\* validate_capability_transitions finds no error in the log.
ValidTransitions(log, stored) ==
  /\ \A i, k \in DOMAIN log : i # k => log[i].id # log[k].id
  /\ \A i \in DOMAIN log :
       IF log[i].outcome = "PROMOTED"
         THEN /\ Rank(log[i].new) = Rank(log[i].previous) + 1
              /\ log[i].new \notin {"CAPITAL_ELIGIBLE", "LIVE"}
              /\ log[i].evidence \subseteq stored
         ELSE log[i].outcome \in NonSuccess

-----------------------------------------------------------------------------
(* Authorization of a shadow request, and its execution *)

\* The governor's snapshot must deny trading and hold no positive limit.
ZeroExposure(governor) == governor.trading = "disabled" /\ governor.limits = 0

Authorize(request, capability, governor, at) ==
  LET reasons ==
        (IF request.capability # capability.id THEN {"capability_mismatch"} ELSE {})
        \cup (IF Rank(capability.state) < Rank("PREREGISTERED")
                THEN {"capability_not_preregistered"} ELSE {})
        \cup (IF ZeroExposure(governor) THEN {} ELSE {"governor_snapshot_unexpected"})
  IN [allowed |-> reasons = {}, reasons |-> reasons, at |-> at]

Floor(amount, step) == (amount \div step) * step

\* Variant: the share that is filled, with the capacity forgotten.
FillQuantityUncapped(request, a) ==
  Floor((request.quantity * a.fill_ratio) \div 100, a.quantity_step)

FillQuantity(request, a) ==
  LET wanted == request.quantity * a.fill_ratio
  IN Floor((IF wanted < a.capacity * 100 THEN wanted ELSE a.capacity * 100) \div 100, a.quantity_step)

Direction(side) == IF side = "BUY" THEN 1 ELSE -1

\* The reference price moved against the order by the configured penalty.
ModeledPrice(request, reference, a) ==
  Floor((reference * (10000 + Direction(request.side) * a.penalty_bps)) \div 10000, a.price_step)

Marketable(request, price) ==
  (request.order_type = "LIMIT" /\ request.limit # 0) =>
    IF request.side = "BUY" THEN price <= request.limit ELSE price >= request.limit

NoFill(request, reason) == [status |-> "REJECTED", fills |-> <<>>, reason |-> reason]

\* DeterministicShadowAdapter.execute, for a valid observation.
Execute(request, observation, a) ==
  LET quantity == FillQuantity(request, a)
      price    == ModeledPrice(request, observation.close, a)
      notional == quantity * price
      fill     == [side |-> request.side, quantity |-> quantity, price |-> price,
                   notional |-> notional, fee |-> notional * a.fee_bps]
  IN CASE ~ Marketable(request, price) -> NoFill(request, "limit_not_marketable")
       [] quantity <= 0 -> NoFill(request, "quantity_below_precision_or_capacity")
       [] quantity > 0 /\ Marketable(request, price) /\ notional < a.minimum_notional ->
            NoFill(request, "minimum_notional_not_met")
       [] OTHER -> [status |-> IF quantity = request.quantity THEN "FILLED" ELSE "PARTIALLY_FILLED",
                    fills |-> <<fill>>, reason |-> "none"]

\* build_accounting: the position and the unrealized result of the fills, the
\* latter in ten-thousandths, and the comparison of events with fills.
Accounting(request, result, mark) ==
  LET Total(Of(_)) == FoldSeq(LAMBDA fill, sum : sum + Of(fill), 0, result.fills)
      SignedQuantity(fill) == Direction(fill.side) * fill.quantity
      SignedCost(fill) == Direction(fill.side) * fill.quantity * fill.price
      Fee(fill) == fill.fee
  IN [position |-> Total(SignedQuantity), fee |-> Total(Fee), events |-> 2 + 2 * Len(result.fills),
      unrealized |-> (Total(SignedQuantity) * mark - Total(SignedCost)) * 10000 - Total(Fee)]

\* What a result must respect whatever the assumptions are: nothing beyond what
\* was asked or what the book can carry, no fill outside the limit, none below
\* the minimum; and a fill at the mark or worse is never accounted as a gain.
Respects(request, result, a) ==
  \A i \in DOMAIN result.fills :
    LET fill == result.fills[i]
    IN /\ fill.quantity \in 1..request.quantity
       /\ fill.quantity <= a.capacity /\ fill.quantity % a.quantity_step = 0
       /\ Marketable(request, fill.price) /\ fill.notional >= a.minimum_notional
       /\ result.status = "FILLED" => fill.quantity = request.quantity
=============================================================================
