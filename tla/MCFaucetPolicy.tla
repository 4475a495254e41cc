--------------------------- MODULE MCFaucetPolicy ---------------------------
(* FaucetPolicy.tla on a small instance.                                   *)
EXTENDS FaucetPolicy, TLC

Form(address, amount_raw) == [address |-> address, amount_raw |-> amount_raw]

MCAddresses == {"a", "b"}

\* 4 and 8 satoshis to an address, four and a half to another, and 4 to no address.
MCForms == {Form("a", 8), Form("a", 16), Form("b", 9), Form("c", 8)}

\* A network that mines and resets, and one whose coins have a value.
Flat ==
  [max_amount_per_day |-> TRUE, per_request_balance_cap |-> TRUE,
   balance_cap_fraction |-> Ratio(1, 2), min_claim_enabled |-> TRUE, min_claim_sat |-> 4,
   pow_enabled |-> TRUE, value_pegged |-> FALSE, seconds_per_sat |-> Ratio(1, 8),
   min_seconds |-> 0, max_seconds |-> 2, ttl_seconds |-> 1,
   balance_anchor |-> TRUE, balance_full_sat |-> 16, balance_max_mult |-> 3,
   demand_retarget |-> TRUE, demand_target_per_day |-> 1, demand_max_mult |-> 2,
   value_safety_factor |-> 2, value_cap_seconds |-> 1,
   reset_enabled |-> TRUE, reset_blocks |-> 3, block_interval |-> 1]

Pegged == [Flat EXCEPT !.value_pegged = TRUE, !.reset_enabled = FALSE]

MCSettings == {Flat, Pegged}

Symmetry == Permutations(Requests)
=============================================================================
