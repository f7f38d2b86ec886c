-------------------------- MODULE MCMatchPipeline --------------------------
(* Small instances of MatchPipeline for TLC: candidates with a filled and an *)
(* empty profile, whose rows have ids of their own.                          *)
EXTENDS MatchPipeline

CONSTANTS p1, p2, u1, u2

TwoProfiles == {[id |-> p1, user |-> u1, filled |-> TRUE],
                [id |-> p2, user |-> u2, filled |-> FALSE]}
=============================================================================
