---------------------------- MODULE MatchAnalyses ----------------------------
(***************************************************************************)
(* The analysis of one candidate for one job: POST /analyses/ and          *)
(* ComputeMatchScoreUseCase.  The request keeps one READ COMMITTED         *)
(* transaction open while the pipeline (module MatchPipeline; here it      *)
(* scores or raises) waits for the language model.  row is the committed   *)
(* row of the pair in ai_analyses, whose key is unique.                    *)
(***************************************************************************)
EXTENDS Naturals, FiniteSets

CONSTANTS Ids,        \* values of uuid4
          Requests,
          NoId,
          MaxAborts   \* bound on the crashes and lost connections

ASSUME AnalysisAssumption ==
  /\ NoId \notin Ids /\ IsFiniteSet(Requests)
  /\ MaxAborts \in Nat

VARIABLES
  row,      \* the committed analysis of the pair: its status, its id and, for
            \* its score, the id of the analysis in memory that was given it
  used,     \* ids uuid4 has returned
  scored,   \* history: the scores that were ever committed
  tx,       \* tx[r] : progress of request r, its analysis and whether it wrote
  aborts

vars == <<row, used, scored, tx, aborts>>

AnalysisStatus == {"pending", "processing", "completed", "failed"}

Steps == {"idle", "find", "save", "pipeline", "commit"}
Tx == [pc : Steps, id : Ids \cup {NoId},
       status : AnalysisStatus \cup {"none"}]
Idle == [pc |-> "idle", id |-> NoId, status |-> "none"]

NoRow == [status |-> "none", id |-> NoId, score |-> NoId]

Init ==
  /\ row = NoRow
  /\ used = {} /\ scored = {}
  /\ tx = [r \in Requests |-> Idle]
  /\ aborts = 0

At(r, step) == tx[r].pc = step
Finish(r) == tx' = [tx EXCEPT ![r] = Idle]

\* The upsert of save() locks the row, or the key of the row it inserts.
HoldsRow(r) == tx[r].pc \in {"pipeline", "commit"}
RowFree == \A r \in Requests : ~HoldsRow(r)

Begin(r) ==
  /\ At(r, "idle")
  /\ tx' = [tx EXCEPT ![r].pc = "find"]
  /\ UNCHANGED <<row, used, scored, aborts>>

\* find_by_candidate_and_job: a stored analysis is returned unless it failed.
Cached(r) ==
  /\ At(r, "find")
  /\ row.status \in {"completed", "pending", "processing"}
  /\ Finish(r)
  /\ UNCHANGED <<row, used, scored, aborts>>

\* Faulty variant for ScoringsBounded: a stored analysis is scored again.
FreshAlways(r, id) ==
  /\ At(r, "find")
  /\ id \notin used
  /\ used' = used \cup {id}
  /\ tx' = [tx EXCEPT ![r] = [pc |-> "save", status |-> "pending", id |-> id]]
  /\ UNCHANGED <<row, scored, aborts>>

\* A failed analysis is reset and keeps its id; without one, a new PENDING
\* analysis is made.
Fresh(r, id) ==
  /\ At(r, "find")
  /\ row.status \in {"none", "failed"}
  /\ id \notin used
  /\ used' = used \cup {id}
  /\ tx' = [tx EXCEPT ![r] = [pc |-> "save", status |-> "pending",
              id |-> IF row.status = "failed" THEN row.id ELSE id]]
  /\ UNCHANGED <<row, scored, aborts>>

\* save, start_processing and save again: the first upsert waits for the
\* transaction that wrote the row, and the second finds the row its own.
Save(r) ==
  /\ At(r, "save")
  /\ RowFree
  /\ tx' = [tx EXCEPT ![r].pc = "pipeline", ![r].status = "processing"]
  /\ UNCHANGED <<row, used, scored, aborts>>

\* pipeline.run returns a score, complete() takes it and it is saved.
PipelineScores(r) ==
  /\ At(r, "pipeline")
  /\ tx' = [tx EXCEPT ![r].pc = "commit", ![r].status = "completed"]
  /\ UNCHANGED <<row, used, scored, aborts>>

\* The exception ends in the use case (for a faulty variant of ScoredAnalyses).
PipelineRaisesSwallowed(r) ==
  /\ At(r, "pipeline")
  /\ tx' = [tx EXCEPT ![r].pc = "commit", ![r].status = "failed"]
  /\ UNCHANGED <<row, used, scored, aborts>>

\* pipeline.run raises: fail() is saved, and rolled back with everything else
\* when the exception reaches get_async_session.
PipelineRaises(r) ==
  /\ At(r, "pipeline")
  /\ Finish(r)
  /\ UNCHANGED <<row, used, scored, aborts>>

\* ON CONFLICT DO UPDATE: every column but the id and the pair, so the score
\* becomes that of this request.
Upsert(r) ==
  [status |-> tx[r].status, id |-> IF row = NoRow THEN tx[r].id ELSE row.id,
   score |-> tx[r].id]

\* The response carries the id of the analysis in memory, which is not that of
\* the row if another request has stored the analysis of the pair meanwhile.
Commit(r) ==
  /\ At(r, "commit")
  /\ row' = Upsert(r)
  /\ scored' = scored \cup {tx[r].id}
  /\ Finish(r)
  /\ UNCHANGED <<used, aborts>>

\* A crash, a lost connection, or a database error: rollback.
Abort(r) ==
  /\ aborts < MaxAborts
  /\ ~At(r, "idle")
  /\ aborts' = aborts + 1
  /\ Finish(r)
  /\ UNCHANGED <<row, used, scored>>

\* uuid4 never runs out in the program.
OutOfIds(r) ==
  /\ At(r, "find")
  /\ used = Ids /\ row.status \in {"none", "failed"}
  /\ Finish(r)
  /\ UNCHANGED <<row, used, scored, aborts>>

Step(r) ==
  \/ Cached(r) \/ (\E id \in Ids : Fresh(r, id)) \/ OutOfIds(r)
  \/ Save(r) \/ PipelineScores(r) \/ PipelineRaises(r) \/ Commit(r)

Next == \E r \in Requests : Begin(r) \/ Step(r) \/ Abort(r)

Spec == Init /\ [][Next]_vars

-----------------------------------------------------------------------------
(* Properties *)

\* Types: a stored analysis has an id, a status and a score.
TypeOK ==
  /\ row \in [status : AnalysisStatus, id : Ids, score : Ids] \cup {NoRow}
  /\ used \subseteq Ids /\ scored \subseteq Ids
  /\ tx \in [Requests -> Tx]
  /\ aborts \in 0..MaxAborts

\* A failed or unfinished analysis is never visible: what a request leaves
\* behind is a completed analysis or nothing.
OnlyCompleted == row = NoRow \/ row.status = "completed"

\* The lock of the row serialises the pipelines of a pair, although each takes
\* several calls to a language model.
OnePipeline ==
  \A r, q \in Requests :
    {tx[r].status, tx[q].status} \subseteq {"processing", "completed"} => r = q

\* The look for a stored analysis and its INSERT are far apart, so requests of
\* one pair may each have it scored, one after the other.  But only those that
\* overlap the first to commit: however often the pair is asked for, it is
\* scored, and paid for, no more often than requests were in progress at once.
ScoringsBounded == Cardinality(scored) <= Cardinality(Requests)

\* Once an analysis can be read by its id it stays readable, completed and under
\* that id.  Its score is replaced by the commit of a request alone, with the
\* score of that request, and whoever looks from then on does not score it.
StoredIsStable ==
  [][row # NoRow =>
       /\ row'.id = row.id /\ row'.status = row.status
       /\ row'.score # row.score =>
            \E r \in Requests : Commit(r) /\ row'.score = tx[r].id
       /\ \A r \in Requests : At(r, "find") => tx'[r].pc \in {"find", "idle"}]_vars

\* What a reader of the table and whoever asks can tell.
Promise == INSTANCE StoredAnalysis WITH
  Askers <- Requests, Nothing <- NoRow,
  stored <- IF row = NoRow THEN NoRow ELSE [id |-> row.id, score |-> row.score],
  asking <- {r \in Requests : tx[r].pc \in {"save", "pipeline", "commit"}}

\* Requests that look, wait for the row, run the graph, commit and roll back in
\* any order keep what StoredAnalysis promises.
ImplementsStoredAnalysis == Promise!Spec
=============================================================================
