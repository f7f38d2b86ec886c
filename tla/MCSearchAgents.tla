--------------------------- MODULE MCSearchAgents ---------------------------
(* Small instances of SearchAgents for TLC. *)
EXTENDS SearchAgents, TLC

CONSTANTS j1, j2

\* Nothing, or both jobs in either order.
BothOrders == {<<>>, <<j1, j2>>, <<j2, j1>>}

\* Jobs and requests are interchangeable.
Symmetry == Permutations(Jobs) \cup Permutations(Requests)
=============================================================================
