-------------------------- MODULE MCPricedSignups --------------------------
(* Three prices, of which Stripe lists two; two syncs and one signup.      *)
EXTENDS PricedSignups, TLC

Symmetry == Permutations(Syncs)
=============================================================================
