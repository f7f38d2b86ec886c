----------------------------- MODULE MCAccounts -----------------------------
(* Two requests on two accounts with two LinkedIn identities.               *)
EXTENDS Accounts, TLC

CONSTANTS u1, u2, l1, l2, r1, r2

MCUsers == {u1, u2}
MCLinks == {l1, l2}
MCRequests == {r1, r2}
Symmetry == Permutations(MCUsers) \cup Permutations(MCLinks)
              \cup Permutations(MCRequests)
=============================================================================
