---------------------------- MODULE StoredAnalysis ----------------------------
(***************************************************************************)
(* What a pair of a candidate and a job is promised: whoever asks while    *)
(* there is no analysis may get it scored, and the first score that is     *)
(* stored gives the analysis its id.  Those who had asked by then may      *)
(* still replace the score, each once; whoever asks later reads what is    *)
(* stored.  Nothing else is ever seen of a scoring: no lock, no status, no *)
(* step of the graph, no failure.                                          *)
(***************************************************************************)
CONSTANTS Ids,      \* names of scorings
          Askers,
          Nothing

VARIABLES
  stored,   \* the id of the analysis and the scoring its score is from
  scored,   \* history: the scorings that were ever stored
  asking    \* who is having the pair scored

vars == <<stored, scored, asking>>

Init == stored = Nothing /\ scored = {} /\ asking = {}

Ask(r) ==
  /\ stored = Nothing /\ r \notin asking
  /\ asking' = asking \cup {r}
  /\ UNCHANGED <<stored, scored>>

\* The first scoring names the analysis.
Answer(r, a) ==
  /\ r \in asking /\ a \notin scored
  /\ stored' = [id |-> IF stored = Nothing THEN a ELSE stored.id, score |-> a]
  /\ scored' = scored \cup {a}
  /\ asking' = asking \ {r}

\* It cannot be scored, or the asker is gone.
GiveUp(r) ==
  /\ r \in asking
  /\ asking' = asking \ {r}
  /\ UNCHANGED <<stored, scored>>

Next == \E r \in Askers : Ask(r) \/ (\E a \in Ids : Answer(r, a)) \/ GiveUp(r)

Spec == Init /\ [][Next]_vars
=============================================================================
