------------------------------ MODULE MCSignup ------------------------------
(* Small instances of Signup for TLC. *)
EXTENDS Signup, TLC

\* Addresses and requests are interchangeable.
Symmetry == Permutations(Emails) \cup Permutations(Requests)
=============================================================================
