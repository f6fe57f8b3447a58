------------------------- MODULE MCShadowExecution -------------------------
EXTENDS ShadowExecution

\* Three observations in reverse order, with a gap, the middle one undecided.
MCObservations ==
  <<[id |-> 3, instrument |-> 1, at |-> 5, close |-> 95],
    [id |-> 1, instrument |-> 1, at |-> 1, close |-> 101],
    [id |-> 2, instrument |-> 1, at |-> 2, close |-> 99]>>

Typed(side, quantity, type, limit) ==
  [capability |-> "CAP", side |-> side, quantity |-> quantity, order_type |-> type, limit |-> limit]
MCDecisions ==
  [id \in {1, 3} |-> IF id = 1 THEN Typed("BUY", 7, "MARKET", 0) ELSE Typed("SELL", 4, "LIMIT", 94)]

Assumed(penalty, ratio, step, minimum, capacity) ==
  [penalty_bps |-> penalty, fee_bps |-> 10, fill_ratio |-> ratio, quantity_step |-> step,
   price_step |-> 1, minimum_notional |-> minimum, capacity |-> capacity]
MCSettled == Assumed(60, 100, 2, 10, 5)
MCAssumptions == {MCSettled, Assumed(200, 50, 1, 300, 9)}

(* Either two processes that live on under a policy that is settled, or one   *)
(* that may die while the capability and the governor change; the undecided   *)
(* observation is not VALID, or the last one, which there is a decision about. *)
VARIABLE side
MCInit ==
  /\ ShadowInit /\ unfit \in {{2}, {3}}
  /\ side = IF capability.state = "PREREGISTERED" THEN "overlap" ELSE "policy"
MCNext ==
  /\ ShadowNext
  /\ side = "overlap" => <<capability, governor, crashes>>' = <<capability, governor, crashes>>
  /\ side = "policy" => \A p \in Processes \ {CHOOSE q \in Processes : TRUE} : proc'[p] = Idle
  /\ UNCHANGED side
MCSpec == MCInit /\ [][MCNext]_<<shadowVars, side>> /\ FairShadow
=============================================================================
