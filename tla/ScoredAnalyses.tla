--------------------------- MODULE ScoredAnalyses ---------------------------
(***************************************************************************)
(* MatchAnalyses composed with MatchPipeline: the request that holds the   *)
(* lock of the row executes the graph node by node, and scores or raises   *)
(* as the graph ends.  The lock lets one request of the pair do so at a    *)
(* time (OnePipeline), so one set of pipeline variables stands for the     *)
(* local state of whichever request that is.                               *)
(***************************************************************************)
EXTENDS MatchAnalyses

CONSTANTS Profiles, MaxRetries, RecursionLimit

ASSUME ScoredAssumption ==
  /\ \A p \in Profiles : p.filled \in BOOLEAN
  /\ MaxRetries \in Nat
  /\ RecursionLimit \in Nat \ {0}

VARIABLES candidate, node, candidateText, jobText, profile, job, context,
          scores, retryCount, error, result, executed, retrievals, failed

Pipeline == INSTANCE MatchPipeline

run == <<candidate, node, candidateText, jobText, profile, job, context, scores,
         retryCount, error, result, executed, retrievals, failed>>
allVars == <<vars, run>>

ScoredInit == Init /\ Pipeline!Init

\* make_initial_state, with the texts of the profile and the job as they are
\* when the adapter reads them.
Load(text, jtext) ==
  /\ candidateText' = text /\ jobText' = jtext
  /\ node' = "profile_extractor"
  /\ profile' = "none" /\ job' = FALSE /\ context' = FALSE /\ scores' = FALSE
  /\ retryCount' = 0 /\ error' = FALSE /\ failed' = FALSE
  /\ result' = "running"
  /\ executed' = 0 /\ retrievals' = 0
  /\ UNCHANGED candidate

\* The state of a run is local to the request and gone with it.
Forget == Load(FALSE, FALSE)

\* A profile edited or a job replaced between two runs is read anew.
SaveAndRun(r) ==
  /\ Save(r)
  /\ \E text \in {FALSE, Pipeline!TextOf(candidate)}, j \in BOOLEAN :
       Load(text, j)

\* One node of the graph, awaited inside the open transaction.
RunNode(r) ==
  /\ At(r, "pipeline")
  /\ Pipeline!Next
  /\ UNCHANGED vars

Scores(r) ==
  /\ result = "score"
  /\ PipelineScores(r)
  /\ UNCHANGED run

\* Faulty variant for ImplementsStoredAnalysis: the exception ends in the use
\* case, and the failed analysis is committed.
RaisesSwallowed(r) ==
  result = "raised" /\ PipelineRaisesSwallowed(r) /\ Forget

Raises(r) == result = "raised" /\ PipelineRaises(r) /\ Forget

\* The locals of a request go with it, at its commit or its rollback.
CommitScore(r) == Commit(r) /\ Forget

AbortRun(r) ==
  /\ Abort(r)
  /\ IF HoldsRow(r) THEN Forget ELSE UNCHANGED run

\* The steps that do not touch a run.
BeforeRun(r) ==
  /\ Begin(r) \/ Cached(r) \/ (\E id \in Ids : Fresh(r, id)) \/ OutOfIds(r)
  /\ UNCHANGED run

ScoredStep(r) ==
  \/ BeforeRun(r) /\ ~At(r, "idle")
  \/ SaveAndRun(r) \/ RunNode(r) \/ Scores(r) \/ Raises(r) \/ CommitScore(r)

ScoredNext ==
  \E r \in Requests : BeforeRun(r) \/ ScoredStep(r) \/ AbortRun(r)

ScoredSpec == ScoredInit /\ [][ScoredNext]_allVars

\* Calls to the model, the embedder and the stores return or raise, and
\* PostgreSQL queues the waiters of a row.
FairScoredSpec ==
  ScoredSpec /\ \A r \in Requests : SF_allVars(ScoredStep(r))

-----------------------------------------------------------------------------
(* Properties *)

\* Types of both state machines.
ScoredTypeOK == TypeOK /\ Pipeline!TypeOK

\* Whatever the model answers and wherever other requests are, an analysis
\* about to be committed as completed comes from a run in which no node
\* reported an error and profile, job, retrieved jobs and scores were found.
CompletedIsGrounded ==
  \A r \in Requests :
    At(r, "commit") => /\ result = "score"
                       /\ Pipeline!ScoreIsGrounded
                       /\ Pipeline!ErrorIsRaised

\* Nobody waits for ever for the analysis of somebody else: the graph ends on
\* every path, and its end releases the row.
ComputeEnds == \A r \in Requests : ~At(r, "idle") ~> At(r, "idle")
=============================================================================
