------------------------- MODULE MCBillingWebhooks -------------------------
(* Small instances of BillingWebhooks for TLC. *)
EXTENDS BillingWebhooks, TLC

\* Bought subscriptions, paid plans and handlers are interchangeable.  Used
\* where no liveness is checked.
Symmetry == Permutations(PaidSubs) \cup Permutations(PaidPlans)
              \cup Permutations(Handlers)
=============================================================================
