------------------------ MODULE MCCandidateProfiles ------------------------
(* Two candidates with a file name each, two requests and a purge.  What    *)
(* either may send names the file of the second one.                        *)
EXTENDS CandidateProfiles, TLC

CONSTANTS c1, c2, k1, k2, r1, r2

MCCandidates == {c1, c2}
MCKeys == {k1, k2}
MCOwner == k1 :> c1 @@ k2 :> c2
MCSent == [at : {"storage", "outside"}, key : {k2}]
MCRequests == {r1, r2}
MCLeaving == {c2}
Symmetry == Permutations(MCRequests)
=============================================================================
