-------------------------- MODULE MCScoredAnalyses --------------------------
(* Small instances of ScoredAnalyses for TLC. *)
EXTENDS ScoredAnalyses

CONSTANTS p1, u1

\* The profile of the candidate, as the adapter looks it up.
OneProfile == {[id |-> p1, user |-> u1, filled |-> TRUE]}
=============================================================================
