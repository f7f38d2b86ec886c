---------------------------- MODULE MatchPipeline ----------------------------
(***************************************************************************)
(* One run of the matching pipeline: LangGraphPipelineAdapter.run reads    *)
(* the profile and the job, and LangGraphMatchingPipeline walks a graph of *)
(* five nodes, profile_extractor, job_extractor, semantic_retriever,       *)
(* scorer and reporter, whose edges depend on what the nodes left in the   *)
(* state.  The answers of the language model and the similarities found by *)
(* the vector store are inputs.                                            *)
(***************************************************************************)
EXTENDS Naturals

CONSTANTS Profiles,       \* candidate_profiles: records [id, user, filled]
          MaxRetries,     \* _MAX_RETRIES of nodes.py and of graph.py
          RecursionLimit  \* node executions the graph library allows a run
                          \* (naturals; ScoredAnalyses assumes it)

VARIABLES
  candidate,   \* the candidate_id the run was asked for
  node,        \* the node to execute next, "end" after the last
  candidateText, jobText,           \* is the text not empty
  profile, job, context, scores,    \* what the nodes have left in the state
  retryCount,
  error,       \* the state's error is set
  result,      \* of the run: "running", "score" or "raised"
  executed,    \* nodes executed so far
  retrievals,  \* times the retriever asked the vector store (history)
  failed       \* some node reported an error (history)

inputs == <<candidate, candidateText, jobText>>
vars == <<inputs, node, profile, job, context, scores, retryCount, error,
          result, executed, retrievals, failed>>

Nodes == {"profile_extractor", "job_extractor", "semantic_retriever", "scorer",
          "reporter"}

\* What json.loads makes of an answer of the model: nothing, {}, a value that
\* is not an object, or an object with or without the keys asked for.
Answers == {"invalid", "empty", "list", "partial", "full"}

\* The adapter reads the profile by get_by_user_id(candidate_id).
TextOf(id) == \E p \in Profiles : p.user = id /\ p.filled

Init ==
  /\ candidate \in {p.id : p \in Profiles} \cup {p.user : p \in Profiles}
  /\ candidateText = TextOf(candidate)
  /\ jobText \in BOOLEAN
  /\ node = "profile_extractor"
  /\ profile = "none" /\ job = FALSE /\ context = FALSE /\ scores = FALSE
  /\ retryCount = 0
  /\ error = FALSE
  /\ result = "running"
  /\ executed = 0
  /\ retrievals = 0
  /\ failed = FALSE

\* The library lets a run execute a limited number of nodes.
At(n) == result = "running" /\ node = n /\ executed < RecursionLimit

\* A node has executed; next is where its edge leads.
Executed(next) ==
  /\ executed' = executed + 1
  /\ node' = next
  /\ UNCHANGED <<inputs, result>>

\* A node returns an error in the state, or none.
Report(e) == error' = e /\ failed' = (failed \/ e)

\* An exception inside a node leaves the graph.
Raise ==
  /\ result' = "raised"
  /\ node' = "end"
  /\ UNCHANGED <<inputs, profile, job, context, scores, retryCount, error,
                 executed, retrievals, failed>>

-----------------------------------------------------------------------------
ProfileExtractor(answer) ==
  /\ At("profile_extractor")
  /\ LET ok == candidateText /\ answer # "invalid" IN
       /\ profile' = IF ok THEN answer ELSE "none"
       /\ Report(~ok)
  /\ Executed("job_extractor")
  /\ UNCHANGED <<job, context, scores, retryCount, retrievals>>

JobExtractor(answer) ==
  /\ At("job_extractor")
  /\ \/ error /\ UNCHANGED <<job, error, failed>>
     \/ /\ ~error
        /\ LET ok == jobText /\ answer # "invalid" IN
             /\ job' = ok
             /\ Report(~ok)
  /\ Executed("semantic_retriever")
  /\ UNCHANGED <<profile, context, scores, retryCount, retrievals>>

\* Faulty variant for ScoredTypeOK: "error" is taken for the name of a node.
AfterRetrievalNoEnd(e, count) ==
  IF e THEN "error"
  ELSE IF 0 < count /\ count <= MaxRetries THEN "semantic_retriever"
  ELSE "scorer"

\* _should_retry_retriever: _prev_retry_count is 0 in every state.
AfterRetrieval(e, count) ==
  IF e THEN "end"
  ELSE IF 0 < count /\ count <= MaxRetries THEN "semantic_retriever"
  ELSE "scorer"

\* confident : some similarity reaches _CONFIDENCE_THRESHOLD.  A profile that
\* is not an object has no values(): NodeRaises.
SemanticRetriever(confident) ==
  /\ At("semantic_retriever")
  /\ profile # "list"
  /\ \/ /\ error
        /\ UNCHANGED <<context, retryCount, retrievals, failed, error>>
     \/ /\ ~error /\ profile \in {"none", "empty"}
        /\ Report(TRUE)
        /\ UNCHANGED <<context, retryCount, retrievals>>
     \/ /\ ~error /\ profile \notin {"none", "empty"}
        /\ retrievals' = retrievals + 1
        /\ \/ /\ ~confident /\ retryCount < MaxRetries
              /\ retryCount' = retryCount + 1
              /\ UNCHANGED <<context, error, failed>>
           \/ /\ confident \/ retryCount >= MaxRetries
              /\ context' = TRUE
              /\ Report(FALSE)
              /\ UNCHANGED retryCount
  /\ Executed(AfterRetrieval(error', retryCount'))
  /\ UNCHANGED <<profile, job, scores>>

\* The model's answer must be an object with the four keys; one that is not an
\* object has no keys(): NodeRaises.
Scorer(answer) ==
  /\ At("scorer")
  /\ answer # "list"
  /\ scores' = (answer = "full")
  /\ Report(answer # "full")
  /\ Executed("reporter")
  /\ UNCHANGED <<profile, job, context, retryCount, retrievals>>

\* Faulty variant for CompletedIsGrounded: the scores that are missing count as 0.
ReporterUnguarded(inRange) ==
  /\ At("reporter")
  /\ Report(~inRange)
  /\ result' = IF error' THEN "raised" ELSE "score"
  /\ node' = "end"
  /\ executed' = executed + 1
  /\ UNCHANGED <<inputs, profile, job, context, scores, retryCount, retrievals>>

\* inRange : MatchScore accepts the scores.  run() raises when the last state
\* has an error, and returns the score otherwise.
Reporter(inRange) ==
  /\ At("reporter")
  /\ \/ error /\ UNCHANGED <<error, failed>>
     \/ ~error /\ Report(~inRange)
  /\ result' = IF error' THEN "raised" ELSE "score"
  /\ node' = "end"
  /\ executed' = executed + 1
  /\ UNCHANGED <<inputs, profile, job, context, scores, retryCount, retrievals>>

\* The retriever reported an error and the graph has ended.
EndWithError == result = "running" /\ node = "end" /\ Raise

\* A call to the model, the embedder or the store fails, or an answer is not
\* the kind of value the node goes on to use.
NodeRaises ==
  /\ \E n \in Nodes : At(n)
  /\ Raise

\* Faulty variant for ComputeEnds: there is no limit (the counters start over).
TooManyStepsAllowed ==
  /\ result = "running" /\ node # "end"
  /\ executed = RecursionLimit
  /\ executed' = 0 /\ retrievals' = 0
  /\ UNCHANGED <<inputs, node, profile, job, context, scores, retryCount,
                 error, result, failed>>

\* GraphRecursionError.
TooManySteps ==
  /\ result = "running" /\ node # "end"
  /\ executed = RecursionLimit
  /\ Raise

Next ==
  \/ \E answer \in Answers :
       ProfileExtractor(answer) \/ JobExtractor(answer) \/ Scorer(answer)
  \/ \E b \in BOOLEAN : SemanticRetriever(b) \/ Reporter(b)
  \/ EndWithError \/ NodeRaises \/ TooManySteps

Spec == Init /\ [][Next]_vars

-----------------------------------------------------------------------------
(* Properties *)

\* Types of the state of the graph; no counter passes its limit.
TypeOK ==
  /\ node \in Nodes \cup {"end"}
  /\ {candidateText, jobText, job, context, scores, error, failed}
       \subseteq BOOLEAN
  /\ profile \in Answers \cup {"none"}
  /\ retryCount \in 0..MaxRetries
  /\ result \in {"running", "score", "raised"}
  /\ executed \in 0..RecursionLimit
  /\ retrievals \in 0..RecursionLimit

\* A score comes from an extracted profile, an extracted job, retrieved jobs
\* and four scores of the model: no path of the graph leaves one out.
ScoreIsGrounded ==
  result = "score" =>
    /\ profile \notin {"none", "empty"} /\ job /\ context /\ scores

\* An error reported by any node is what run() raises: no later node clears it.
ErrorIsRaised == failed => result # "score"

\* The retriever runs once, and is repeated at most MaxRetries times.
RetriesAreBounded == retrievals <= MaxRetries + 1
=============================================================================
