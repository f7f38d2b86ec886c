-------------------------- MODULE MCPasswordReset --------------------------
(* Small instances of PasswordReset for TLC. *)
EXTENDS PasswordReset, TLC

\* Requests are interchangeable, and so are passwords and tokens: no action
\* compares them with anything but themselves.  Used in safety runs only.
Symmetry == Permutations(Requests) \cup Permutations(Passwords)
              \cup Permutations(Tokens)
=============================================================================
