------------------------- MODULE MatchAnalysesProofs -------------------------
(***************************************************************************)
(* Proofs about MatchAnalyses, and about its composition with the pipeline *)
(* (ScoredAnalyses), for every number of requests, ids and aborts, and for *)
(* every limit of retries and of nodes.                                    *)
(***************************************************************************)
EXTENDS ScoredAnalyses, FiniteSetTheorems, TLAPS

\* The status of the analysis of a request follows from its step, and from the
\* first save on it has an id.
SlotInv(r) ==
  /\ tx[r].pc \in {"idle", "find"} => tx[r].status = "none" /\ tx[r].id = NoId
  /\ At(r, "save") => tx[r].status = "pending"
  /\ At(r, "pipeline") => tx[r].status = "processing"
  /\ At(r, "commit") => tx[r].status = "completed"
  /\ tx[r].pc \notin {"idle", "find"} => tx[r].id \in Ids

\* The lock of the row has one holder.
OneHolder == \A r, q \in Requests : HoldsRow(r) /\ HoldsRow(q) => r = q

IInv ==
  /\ TypeOK
  /\ OnlyCompleted
  /\ \A r \in Requests : SlotInv(r)
  /\ OneHolder

-----------------------------------------------------------------------------
(* Every action preserves the invariant *)

LEMMA InitHolds == Init => IInv
  BY AnalysisAssumption
  DEF Init, IInv, TypeOK, Tx, Steps, Idle, OnlyCompleted, SlotInv, At,
      OneHolder, HoldsRow

LEMMA IdleTyped == Idle \in Tx
  BY DEF Idle, Tx, Steps

\* Ending a request in place, by a rollback or after reading, is harmless.
LEMMA FinishKeeps ==
  ASSUME IInv, NEW r \in Requests, Finish(r)
  PROVE /\ tx' \in [Requests -> Tx]
        /\ \A x \in Requests : SlotInv(x)'
        /\ OneHolder'
<1>1. tx' \in [Requests -> Tx]
  BY IdleTyped DEF IInv, TypeOK, Finish
<1>2. \A x \in Requests : tx'[x] = IF x = r THEN Idle ELSE tx[x]
  BY DEF IInv, TypeOK, Finish
<1>3. \A x \in Requests : SlotInv(x)'
  BY <1>2 DEF IInv, SlotInv, At, Idle
<1>4. OneHolder'
  BY <1>2 DEF IInv, OneHolder, HoldsRow, Idle
<1> QED
  BY <1>1, <1>3, <1>4

LEMMA BeginKeeps ==
  ASSUME IInv, NEW r \in Requests, Begin(r)
  PROVE IInv'
<1>1. tx' \in [Requests -> Tx]
  BY DEF IInv, TypeOK, Begin, Tx, Steps
<1>2. \A x \in Requests : /\ tx'[x].status = tx[x].status
                          /\ tx'[x].id = tx[x].id
                          /\ tx'[x].pc = IF x = r THEN "find" ELSE tx[x].pc
  BY DEF IInv, TypeOK, Begin, Tx
<1>3. ASSUME NEW x \in Requests PROVE SlotInv(x)'
  <2>1. SlotInv(r) /\ SlotInv(x) /\ tx[r].pc = "idle"
    BY DEF IInv, Begin, At
  <2>2. CASE x = r
    BY <1>2, <2>1, <2>2 DEF SlotInv, At
  <2>3. CASE x # r
    BY <1>2, <2>1, <2>3 DEF SlotInv, At
  <2> QED
    BY <2>2, <2>3
<1>4. OneHolder'
  BY <1>2 DEF IInv, OneHolder, HoldsRow
<1> QED
  BY <1>1, <1>3, <1>4 DEF IInv, TypeOK, OnlyCompleted, Begin

LEMMA CachedKeeps ==
  ASSUME IInv, NEW r \in Requests, Cached(r)
  PROVE IInv'
<1>1. row.id \in Ids
  BY DEF IInv, TypeOK, Cached, NoRow
<1> QED
  BY <1>1, FinishKeeps DEF IInv, TypeOK, OnlyCompleted, Cached

\* A request that starts an analysis holds no lock yet.
LEMMA FreshKeeps ==
  ASSUME IInv, NEW r \in Requests, NEW id \in Ids, Fresh(r, id)
  PROVE IInv'
<1> DEFINE mine == IF row.status = "failed" THEN row.id ELSE id
           slot == [pc |-> "save", status |-> "pending", id |-> mine]
<1>1. mine \in Ids
  BY DEF IInv, TypeOK, NoRow
<1>2. slot \in Tx
  BY <1>1 DEF Tx, Steps, AnalysisStatus
<1>3. tx' = [tx EXCEPT ![r] = slot]
  BY DEF Fresh
<1>4. tx' \in [Requests -> Tx]
  BY <1>2, <1>3 DEF IInv, TypeOK
<1>5. \A x \in Requests : tx'[x] = IF x = r THEN slot ELSE tx[x]
  BY <1>3 DEF IInv, TypeOK
<1>6. \A x \in Requests : SlotInv(x)'
  BY <1>1, <1>5 DEF IInv, SlotInv, At
<1>7. OneHolder'
  BY <1>5 DEF IInv, OneHolder, HoldsRow
<1> QED
  BY <1>4, <1>6, <1>7 DEF IInv, TypeOK, OnlyCompleted, Fresh

\* The one step that takes the lock waits until nobody holds it.
LEMMA SaveKeeps ==
  ASSUME IInv, NEW r \in Requests, Save(r)
  PROVE IInv'
<1>1. tx' \in [Requests -> Tx]
  BY DEF IInv, TypeOK, Save, Tx, Steps, AnalysisStatus
<1>2. \A x \in Requests :
        /\ tx'[x].id = tx[x].id
        /\ tx'[x].pc = IF x = r THEN "pipeline" ELSE tx[x].pc
        /\ tx'[x].status = IF x = r THEN "processing" ELSE tx[x].status
  BY DEF IInv, TypeOK, Save, Tx
<1>3. ASSUME NEW x \in Requests PROVE SlotInv(x)'
  <2>1. SlotInv(r) /\ SlotInv(x) /\ tx[r].pc = "save"
    BY DEF IInv, Save, At
  <2>2. CASE x = r
    BY <1>2, <2>1, <2>2 DEF SlotInv, At
  <2>3. CASE x # r
    BY <1>2, <2>1, <2>3 DEF SlotInv, At
  <2> QED
    BY <2>2, <2>3
<1>4. OneHolder'
  BY <1>2 DEF IInv, OneHolder, HoldsRow, Save, RowFree
<1> QED
  BY <1>1, <1>3, <1>4 DEF IInv, TypeOK, OnlyCompleted, Save

LEMMA PipelineScoresKeeps ==
  ASSUME IInv, NEW r \in Requests, PipelineScores(r)
  PROVE IInv'
<1>1. tx' \in [Requests -> Tx]
  BY DEF IInv, TypeOK, PipelineScores, Tx, Steps, AnalysisStatus
<1>2. \A x \in Requests :
        /\ tx'[x].id = tx[x].id
        /\ tx'[x].pc = IF x = r THEN "commit" ELSE tx[x].pc
        /\ tx'[x].status = IF x = r THEN "completed" ELSE tx[x].status
  BY DEF IInv, TypeOK, PipelineScores, Tx
<1>3. ASSUME NEW x \in Requests PROVE SlotInv(x)'
  <2>1. SlotInv(r) /\ SlotInv(x) /\ tx[r].pc = "pipeline"
    BY DEF IInv, PipelineScores, At
  <2>2. CASE x = r
    BY <1>2, <2>1, <2>2 DEF SlotInv, At
  <2>3. CASE x # r
    BY <1>2, <2>1, <2>3 DEF SlotInv, At
  <2> QED
    BY <2>2, <2>3
<1>4. OneHolder'
  BY <1>2 DEF IInv, OneHolder, HoldsRow, PipelineScores, At
<1> QED
  BY <1>1, <1>3, <1>4 DEF IInv, TypeOK, OnlyCompleted, PipelineScores

\* What a commit writes: a completed row, under the id it had if it had one.
LEMMA UpsertValue ==
  ASSUME IInv, NEW r \in Requests, At(r, "commit")
  PROVE /\ Upsert(r) \in [status : AnalysisStatus, id : Ids, score : Ids]
        /\ Upsert(r).status = "completed" /\ Upsert(r).score = tx[r].id
        /\ Upsert(r).id = IF row = NoRow THEN tx[r].id ELSE row.id
<1>1. tx[r].status = "completed" /\ tx[r].id \in Ids
  BY DEF IInv, SlotInv, At
<1>2. CASE row = NoRow
  BY <1>1, <1>2 DEF Upsert, AnalysisStatus
<1>3. CASE row # NoRow
  <2>1. row.id \in Ids
    BY <1>3 DEF IInv, TypeOK
  <2> QED
    BY <1>1, <1>3, <2>1 DEF Upsert, AnalysisStatus
<1> QED
  BY <1>2, <1>3

LEMMA CommitKeeps ==
  ASSUME IInv, NEW r \in Requests, Commit(r)
  PROVE IInv'
<1>1. At(r, "commit") /\ Finish(r) /\ row' = Upsert(r)
  BY DEF Commit
<1>2. tx[r].id \in Ids
  BY <1>1 DEF IInv, SlotInv, At
<1>3. TypeOK'
  BY <1>1, <1>2, UpsertValue, FinishKeeps DEF IInv, TypeOK, Commit
<1>4. OnlyCompleted'
  BY <1>1, UpsertValue DEF OnlyCompleted
<1> QED
  BY <1>1, <1>3, <1>4, FinishKeeps DEF IInv

\* A rollback changes nothing that is committed.
LEMMA RollbackKeeps ==
  ASSUME IInv, NEW r \in Requests,
         PipelineRaises(r) \/ OutOfIds(r) \/ Abort(r)
  PROVE IInv'
<1>1. /\ Finish(r) /\ UNCHANGED <<row, used, scored>>
      /\ aborts' \in 0..MaxAborts
  BY AnalysisAssumption
  DEF IInv, TypeOK, PipelineRaises, OutOfIds, Abort
<1> QED
  BY <1>1, FinishKeeps DEF IInv, TypeOK, OnlyCompleted

LEMMA NextKeeps == IInv /\ [Next]_vars => IInv'
<1> SUFFICES ASSUME IInv, [Next]_vars PROVE IInv'
  OBVIOUS
<1>1. ASSUME NEW r \in Requests, Begin(r) PROVE IInv'
  BY <1>1, BeginKeeps
<1>2. ASSUME NEW r \in Requests, Cached(r) PROVE IInv'
  BY <1>2, CachedKeeps
<1>3. ASSUME NEW r \in Requests, NEW id \in Ids, Fresh(r, id) PROVE IInv'
  BY <1>3, FreshKeeps
<1>4. ASSUME NEW r \in Requests, Save(r) PROVE IInv'
  BY <1>4, SaveKeeps
<1>5. ASSUME NEW r \in Requests, PipelineScores(r) PROVE IInv'
  BY <1>5, PipelineScoresKeeps
<1>6. ASSUME NEW r \in Requests, Commit(r) PROVE IInv'
  BY <1>6, CommitKeeps
<1>7. ASSUME NEW r \in Requests,
             PipelineRaises(r) \/ OutOfIds(r) \/ Abort(r)
      PROVE IInv'
  BY <1>7, RollbackKeeps
<1>8. CASE UNCHANGED vars
  BY <1>8 DEF vars, IInv, TypeOK, OnlyCompleted, SlotInv, At, OneHolder,
              HoldsRow
<1> QED
  BY <1>1, <1>2, <1>3, <1>4, <1>5, <1>6, <1>7, <1>8 DEF Next, Step

-----------------------------------------------------------------------------
(* Theorems *)

\* The inductive invariant holds in every reachable state.
THEOREM Invariance == Spec => []IInv
  BY InitHolds, NextKeeps, PTL DEF Spec

\* Every variable keeps its type.
THEOREM TypeCorrect == Spec => []TypeOK
<1>1. IInv => TypeOK
  BY DEF IInv
<1> QED
  BY <1>1, Invariance, PTL

\* What a request leaves behind is a completed analysis or nothing: the
\* rollback of get_async_session hides every other status.
THEOREM NothingHalfDoneIsVisible == Spec => []OnlyCompleted
<1>1. IInv => OnlyCompleted
  BY DEF IInv
<1> QED
  BY <1>1, Invariance, PTL

\* However many requests there are, one at a time is between its first save
\* and its commit.
THEOREM PipelinesAreSerial == Spec => []OnePipeline
<1>1. IInv => OnePipeline
  <2> SUFFICES ASSUME IInv, NEW r \in Requests, NEW q \in Requests,
                      {tx[r].status, tx[q].status}
                        \subseteq {"processing", "completed"}
               PROVE r = q
    BY DEF OnePipeline
  <2>1. ASSUME NEW x \in Requests,
               tx[x].status \in {"processing", "completed"}
        PROVE HoldsRow(x)
    BY <2>1 DEF IInv, TypeOK, Tx, Steps, SlotInv, At, HoldsRow
  <2> QED
    BY <2>1 DEF IInv, OneHolder
<1> QED
  BY <1>1, Invariance, PTL

-----------------------------------------------------------------------------
(* What is stored, and how often it is scored *)

Working == {r \in Requests : tx[r].id # NoId}

\* Ids of requests in progress are new and their own; and once something is
\* stored, every request that may still store a score was in progress by then.
\* A count of those that have and those that may says so.
Scorings ==
  /\ scored \subseteq used
  /\ \A r \in Working : tx[r].id \in used \ scored
  /\ \A r, q \in Working : tx[r].id = tx[q].id => r = q
  /\ row = NoRow => scored = {}
  /\ IsFiniteSet(scored)
  /\ row # NoRow => Cardinality(scored) + Cardinality(Working) <= Cardinality(Requests)

LEMMA WorkingFinite ==
  ASSUME NEW W \in SUBSET Requests
  PROVE  /\ IsFiniteSet(W) /\ Cardinality(W) \in Nat
         /\ Cardinality(W) <= Cardinality(Requests) /\ Cardinality(Requests) \in Nat
  BY FS_Subset, FS_CardinalityType, AnalysisAssumption

LEMMA ScoringsKeep == IInv /\ Scorings /\ [Next]_vars => Scorings'
<1> SUFFICES ASSUME IInv, Scorings, [Next]_vars PROVE Scorings'
  OBVIOUS
\* A step at which nobody gets an id and nothing is stored.
<1>1. ASSUME UNCHANGED <<row, used, scored>>,
             \A q \in Requests : tx'[q].id \in {tx[q].id, NoId}
      PROVE  Scorings'
  <2>1. Working' \subseteq Working /\ \A q \in Working' : tx'[q].id = tx[q].id
    BY <1>1 DEF Working
  <2>2. Cardinality(Working') <= Cardinality(Working)
    BY <2>1, WorkingFinite, FS_Subset DEF Working
  <2>3. /\ Cardinality(Working') \in Nat /\ Cardinality(Working) \in Nat
        /\ Cardinality(scored) \in Nat /\ Cardinality(Requests) \in Nat
    BY WorkingFinite, FS_CardinalityType DEF Working, Scorings
  <2> HIDE DEF Working
  <2>4. row' # NoRow =>
          Cardinality(scored') + Cardinality(Working') <= Cardinality(Requests)
    BY <1>1, <2>2, <2>3 DEF Scorings
  <2> QED
    BY <1>1, <2>1, <2>4 DEF Scorings
<1>2. ASSUME NEW r \in Requests, Finish(r), UNCHANGED <<row, used, scored>>
      PROVE  Scorings'
  BY <1>1, <1>2 DEF Finish, Idle, IInv, TypeOK
<1>3. ASSUME NEW r \in Requests, Begin(r) \/ Save(r) \/ PipelineScores(r)
      PROVE  Scorings'
  BY <1>1, <1>3 DEF Begin, Save, PipelineScores, IInv, TypeOK, Tx
\* Nothing is stored yet: a stored analysis has not failed.
<1>4. ASSUME NEW r \in Requests, NEW id \in Ids, Fresh(r, id)
      PROVE  Scorings'
  <2>1. row = NoRow /\ row.status # "failed"
    BY <1>4 DEF Fresh, IInv, OnlyCompleted, NoRow
  <2>2. /\ \A q \in Requests : tx'[q].id = IF q = r THEN id ELSE tx[q].id
        /\ id \notin used /\ used' = used \cup {id} /\ UNCHANGED <<row, scored>>
    BY <1>4, <2>1 DEF Fresh, IInv, TypeOK
  <2>3. Working' = Working \cup {r}
    BY <2>2, AnalysisAssumption DEF Working
  <2> HIDE DEF Working
  <2>4. \A q \in Working' \ {r} : q \in Working /\ q \in Requests
    BY <2>3 DEF Working
  <2> QED
    BY <2>1, <2>2, <2>3, <2>4 DEF Scorings
\* Whoever commits has scored, and will not do so again.
<1>5. ASSUME NEW r \in Requests, Commit(r) PROVE Scorings'
  <2>1. /\ \A q \in Requests : tx'[q].id = IF q = r THEN NoId ELSE tx[q].id
        /\ tx[r].id \in Ids /\ scored' = scored \cup {tx[r].id} /\ used' = used
    BY <1>5 DEF Commit, Finish, Idle, At, IInv, TypeOK, SlotInv
  <2>2. Working' = Working \ {r} /\ r \in Working
    BY <2>1, AnalysisAssumption DEF Working
  <2>3. tx[r].id \notin scored /\ tx[r].id \in used
    BY <2>2 DEF Scorings
  <2>4. row' # NoRow
    BY <1>5, UpsertValue DEF Commit, NoRow, AnalysisStatus
  <2>5. /\ IsFiniteSet(scored') /\ Cardinality(scored') = Cardinality(scored) + 1
        /\ Cardinality(scored) \in Nat
    BY <2>1, <2>3, FS_AddElement, FS_CardinalityType DEF Scorings
  <2>6. /\ Cardinality(Working') = Cardinality(Working) - 1
        /\ Cardinality(Working) \in Nat /\ Cardinality(Working') \in Nat
        /\ Cardinality(Working) <= Cardinality(Requests) /\ Cardinality(Requests) \in Nat
    BY <2>2, WorkingFinite, FS_RemoveElement DEF Working
  <2>7. Cardinality(scored') + Cardinality(Working') <= Cardinality(Requests)
    <3>1. CASE row = NoRow
      BY <2>5, <2>6, <3>1, FS_EmptySet DEF Scorings
    <3>2. CASE row # NoRow
      BY <2>5, <2>6, <3>2 DEF Scorings
    <3> QED
      BY <3>1, <3>2
  <2>8. \A q \in Working' : q \in Working /\ q # r /\ q \in Requests /\ tx'[q].id = tx[q].id
    BY <2>1, <2>2 DEF Working
  <2>9. \A q \in Working' : tx'[q].id \in used' \ scored'
    BY <2>1, <2>2, <2>8 DEF Scorings
  <2> HIDE DEF Working
  <2> QED
    BY <2>1, <2>3, <2>4, <2>5, <2>7, <2>8, <2>9 DEF Scorings
<1>6. CASE UNCHANGED vars
  BY <1>1, <1>6 DEF vars
<1> QED
  BY <1>2, <1>3, <1>4, <1>5, <1>6
  DEF Next, Step, Cached, OutOfIds, PipelineRaises, Abort

LEMMA StoreInvariance == Spec => [](IInv /\ Scorings)
<1>1. Init => IInv /\ Scorings
  <2> SUFFICES ASSUME Init PROVE Scorings
    BY InitHolds
  <2>1. Working = {}
    BY DEF Init, Idle, Working
  <2> QED
    BY <2>1, FS_EmptySet DEF Init, Scorings
<1>2. IInv /\ Scorings /\ [Next]_vars => (IInv /\ Scorings)'
  BY NextKeeps, ScoringsKeep
<1> QED
  BY <1>1, <1>2, PTL DEF Spec

\* However often and by however many an analysis is asked for, the pair is
\* scored at most once by each request that was in progress when the first
\* score was stored.
THEOREM ScoringsAreBounded == Spec => []ScoringsBounded
<1>1. Scorings => ScoringsBounded
  <2> SUFFICES ASSUME Scorings PROVE ScoringsBounded
    OBVIOUS
  <2>1. /\ Cardinality(Working) \in Nat /\ Cardinality(scored) \in Nat
        /\ Cardinality(Requests) \in Nat
    BY WorkingFinite, FS_CardinalityType DEF Working, Scorings
  <2> QED
    BY <2>1, FS_EmptySet DEF Scorings, ScoringsBounded
<1> QED
  BY <1>1, StoreInvariance, PTL

\* A stored analysis keeps its id and its status.  Its score changes only when
\* a request commits that had looked before there was one to be found, and then
\* to the score of that request: who looks later does not get as far.
THEOREM AnalysesAreStable == Spec => StoredIsStable
<1> DEFINE Stable ==
      row # NoRow =>
        /\ row'.id = row.id /\ row'.status = row.status
        /\ row'.score # row.score =>
             \E r \in Requests : Commit(r) /\ row'.score = tx[r].id
        /\ \A r \in Requests : At(r, "find") => tx'[r].pc \in {"find", "idle"}
<1>1. IInv /\ [Next]_vars => [Stable]_vars
  <2> SUFFICES ASSUME IInv, Next, row # NoRow
               PROVE  Stable
    OBVIOUS
  <2>1. row.status = "completed"
    BY DEF IInv, OnlyCompleted
  <2>2. row' = row \/ \E r \in Requests : Commit(r)
    BY DEF Next, Step, Begin, Cached, Fresh, OutOfIds, Save, PipelineScores,
           PipelineRaises, Abort
  <2>3. ASSUME NEW r \in Requests, Commit(r)
        PROVE  row'.id = row.id /\ row'.status = row.status /\ row'.score = tx[r].id
    BY <2>1, <2>3, UpsertValue DEF Commit
  <2>4. ASSUME NEW r \in Requests, At(r, "find") PROVE tx'[r].pc \in {"find", "idle"}
    <3>1. PICK q \in Requests : Begin(q) \/ Step(q) \/ Abort(q)
      BY DEF Next
    <3>2. tx \in [Requests -> Tx]
      BY DEF IInv, TypeOK
    <3>3. CASE q # r
      BY <2>4, <3>1, <3>2, <3>3 DEF At, Step, Begin, Cached, Fresh, OutOfIds, Save,
          PipelineScores, PipelineRaises, Commit, Abort, Finish
    <3>4. CASE q = r
      BY <2>1, <2>4, <3>1, <3>2, <3>4 DEF At, Step, Begin, Cached, Fresh, OutOfIds,
          Save, PipelineScores, PipelineRaises, Commit, Abort, Finish, Idle
    <3> QED
      BY <3>3, <3>4
  <2> QED
    BY <2>2, <2>3, <2>4
<1> QED
  BY <1>1, Invariance, PTL DEF Spec, StoredIsStable

\* Every step of a request is one of the abstract analysis or leaves it alone:
\* it asks when it finds nothing, answers when it commits, and gives up when it
\* is rolled back.
LEMMA StepOfPromise ==
  ASSUME IInv, Scorings, [Next]_vars PROVE [Promise!Next]_(Promise!vars)
<1> DEFINE asking == {r \in Requests : tx[r].pc \in {"save", "pipeline", "commit"}}
           stored == IF row = NoRow THEN NoRow ELSE [id |-> row.id, score |-> row.score]
<1>1. ASSUME UNCHANGED <<row, scored>>, asking' = asking
      PROVE  UNCHANGED Promise!vars
  BY <1>1 DEF Promise!vars
<1>2. ASSUME NEW r \in Requests, Finish(r), UNCHANGED <<row, scored>>
      PROVE  [Promise!Next]_(Promise!vars)
  <2>1. asking' = asking \ {r}
    BY <1>2 DEF Finish, Idle, IInv, TypeOK
  <2>2. CASE r \in asking
    BY <1>2, <2>1, <2>2 DEF Promise!Next, Promise!GiveUp
  <2>3. CASE r \notin asking
    BY <1>1, <1>2, <2>1, <2>3
  <2> QED
    BY <2>2, <2>3
<1>3. ASSUME NEW r \in Requests, Begin(r) \/ Save(r) \/ PipelineScores(r)
      PROVE  [Promise!Next]_(Promise!vars)
  <2>1. asking' = asking
    BY <1>3 DEF Begin, Save, PipelineScores, At, IInv, TypeOK, Tx
  <2> QED
    BY <1>1, <1>3, <2>1 DEF Begin, Save, PipelineScores
<1>4. ASSUME NEW r \in Requests, NEW id \in Ids, Fresh(r, id)
      PROVE  [Promise!Next]_(Promise!vars)
  <2>1. row = NoRow /\ UNCHANGED <<row, scored>>
    BY <1>4 DEF Fresh, IInv, OnlyCompleted
  <2>2. asking' = asking \cup {r} /\ r \notin asking
    BY <1>4 DEF Fresh, At, IInv, TypeOK
  <2> QED
    BY <2>1, <2>2 DEF Promise!Next, Promise!Ask
<1>5. ASSUME NEW r \in Requests, Commit(r)
      PROVE  [Promise!Next]_(Promise!vars)
  <2>1. asking' = asking \ {r} /\ r \in asking /\ tx[r].id \in Ids
    BY <1>5 DEF Commit, Finish, Idle, At, IInv, TypeOK, SlotInv
  <2>2. tx[r].id \notin scored
    BY <2>1, AnalysisAssumption DEF Scorings, Working
  <2>3. /\ row' # NoRow /\ row'.score = tx[r].id
        /\ row'.id = IF row = NoRow THEN tx[r].id ELSE row.id
    BY <1>5, UpsertValue DEF Commit, NoRow, AnalysisStatus
  <2>4. stored = NoRow <=> row = NoRow
    <3>1. [id |-> row.id, score |-> row.score] # NoRow
      <4>1. "status" \in DOMAIN NoRow /\ "status" \notin DOMAIN [id |-> row.id, score |-> row.score]
        BY DEF NoRow
      <4> QED
        BY <4>1
    <3> QED
      BY <3>1
  <2>5. stored' = [id |-> IF stored = NoRow THEN tx[r].id ELSE stored.id, score |-> tx[r].id]
    BY <2>3, <2>4
  <2>6. PICK a \in Ids : a = tx[r].id
    BY <2>1
  <2>7. Promise!Answer(r, a)
    BY <1>5, <2>1, <2>2, <2>5, <2>6 DEF Promise!Answer, Commit
  <2> QED
    BY <2>7 DEF Promise!Next
<1>6. CASE UNCHANGED vars
  BY <1>1, <1>6 DEF vars
<1> QED
  BY <1>2, <1>3, <1>4, <1>5, <1>6
  DEF Next, Step, Cached, OutOfIds, PipelineRaises, Abort

-----------------------------------------------------------------------------
(* The graph of one run *)

\* What the nodes executed so far have left: which node is next says what has
\* been found, and an error that was reported is still in the state when
\* run() looks at it.
GraphInv ==
  /\ failed => error
  /\ node = "profile_extractor" => ~failed
  /\ node = "job_extractor" => error \/ profile # "none"
  /\ node = "semantic_retriever" => error \/ (profile # "none" /\ job)
  /\ node \in {"scorer", "reporter"} =>
       profile \notin {"none", "empty"} /\ job /\ context
  /\ node = "scorer" => ~error
  /\ node = "reporter" => error \/ scores
  /\ result = "score" => ~error

Flags ==
  /\ candidateText \in BOOLEAN /\ jobText \in BOOLEAN /\ job \in BOOLEAN
  /\ context \in BOOLEAN /\ scores \in BOOLEAN
  /\ error \in BOOLEAN /\ failed \in BOOLEAN

\* A retrieval is the execution of a node, so that one limit bounds both.
Counts ==
  /\ node \in Pipeline!Nodes \cup {"end"}
  /\ profile \in Pipeline!Answers \cup {"none"}
  /\ retryCount \in 0..MaxRetries
  /\ result \in {"running", "score", "raised"}
  /\ executed \in 0..RecursionLimit
  /\ retrievals \in 0..executed

PipelineInv == Flags /\ Counts /\ GraphInv /\ Pipeline!ScoreIsGrounded

LEMMA PipelineTyped == PipelineInv => Pipeline!TypeOK
<1>1. Counts => retrievals \in 0..RecursionLimit
  BY ScoredAssumption DEF Counts
<1> QED
  BY <1>1 DEF PipelineInv, Flags, Counts, Pipeline!TypeOK

LEMMA LoadHolds ==
  ASSUME NEW text \in BOOLEAN, NEW jtext \in BOOLEAN, Load(text, jtext)
  PROVE  PipelineInv'
<1>1. Flags'
  BY DEF Load, Flags
<1>2. Counts'
  BY ScoredAssumption DEF Load, Counts, Pipeline!Nodes, Pipeline!Answers
<1>3. GraphInv' /\ Pipeline!ScoreIsGrounded'
  BY DEF Load, GraphInv, Pipeline!ScoreIsGrounded
<1> QED
  BY <1>1, <1>2, <1>3 DEF PipelineInv

LEMMA PipelineInitHolds == Pipeline!Init => PipelineInv
<1> SUFFICES ASSUME Pipeline!Init PROVE PipelineInv
  OBVIOUS
<1>1. Flags
  BY DEF Pipeline!Init, Pipeline!TextOf, Flags
<1>2. Counts
  BY ScoredAssumption DEF Pipeline!Init, Counts, Pipeline!Nodes,
      Pipeline!Answers
<1>3. GraphInv /\ Pipeline!ScoreIsGrounded
  BY DEF Pipeline!Init, GraphInv, Pipeline!ScoreIsGrounded
<1> QED
  BY <1>1, <1>2, <1>3 DEF PipelineInv

\* The first extractor reports what is missing.
LEMMA ProfileExtractorKeeps ==
  ASSUME PipelineInv, NEW answer \in Pipeline!Answers,
         Pipeline!ProfileExtractor(answer)
  PROVE  PipelineInv'
<1>1. Flags'
  BY DEF PipelineInv, Flags, Pipeline!inputs, Pipeline!At, Pipeline!Executed,
      Pipeline!Report, Pipeline!ProfileExtractor
<1>2. Counts'
  BY ScoredAssumption
  DEF PipelineInv, Counts, Pipeline!Nodes, Pipeline!Answers, Pipeline!inputs,
      Pipeline!At, Pipeline!Executed, Pipeline!Report,
      Pipeline!ProfileExtractor
<1>3. /\ node' = "job_extractor" /\ result' = "running"
      /\ node = "profile_extractor"
  BY DEF Pipeline!ProfileExtractor, Pipeline!At, Pipeline!Executed
<1>4. ~failed
  BY <1>3 DEF PipelineInv, GraphInv
<1>5. failed' => error'
  BY <1>4 DEF Pipeline!ProfileExtractor, Pipeline!Report
<1>6. ~error' => profile' # "none"
  BY DEF Pipeline!ProfileExtractor, Pipeline!Report, Pipeline!Answers
<1>7. GraphInv' /\ Pipeline!ScoreIsGrounded'
  BY <1>3, <1>5, <1>6 DEF GraphInv, Pipeline!ScoreIsGrounded
<1> QED
  BY <1>1, <1>2, <1>7 DEF PipelineInv

\* The second keeps an error of the first.
LEMMA JobExtractorKeeps ==
  ASSUME PipelineInv, NEW answer \in Pipeline!Answers,
         Pipeline!JobExtractor(answer)
  PROVE  PipelineInv'
<1>1. Flags'
  BY DEF PipelineInv, Flags, Pipeline!inputs, Pipeline!At, Pipeline!Executed,
      Pipeline!Report, Pipeline!JobExtractor
<1>2. Counts'
  BY ScoredAssumption
  DEF PipelineInv, Counts, Pipeline!Nodes, Pipeline!Answers, Pipeline!inputs,
      Pipeline!At, Pipeline!Executed, Pipeline!Report, Pipeline!JobExtractor
<1>3. /\ node' = "semantic_retriever" /\ result' = "running"
      /\ profile' = profile
  BY DEF Pipeline!JobExtractor, Pipeline!At, Pipeline!Executed
<1>4. error => error' /\ failed' = failed
  BY DEF Pipeline!JobExtractor
<1>5. ~error => (job' <=> ~error') /\ (failed' <=> failed \/ error')
  BY DEF Pipeline!JobExtractor, Pipeline!Report, PipelineInv, Flags
<1>6. failed' => error'
  BY <1>4, <1>5 DEF PipelineInv, GraphInv
<1>7. ~error' => profile # "none" /\ job'
  BY <1>4, <1>5 DEF PipelineInv, GraphInv, Pipeline!JobExtractor, Pipeline!At
<1>8. GraphInv' /\ Pipeline!ScoreIsGrounded'
  BY <1>3, <1>6, <1>7 DEF GraphInv, Pipeline!ScoreIsGrounded
<1> QED
  BY <1>1, <1>2, <1>8 DEF PipelineInv

\* The retriever goes on only without an error, and to the scorer only with
\* what it has retrieved.
LEMMA RetrieverKeeps ==
  ASSUME PipelineInv, NEW b \in BOOLEAN, Pipeline!SemanticRetriever(b)
  PROVE  PipelineInv'
<1>1. Flags'
  BY DEF PipelineInv, Flags, Pipeline!inputs, Pipeline!At, Pipeline!Executed,
      Pipeline!Report, Pipeline!SemanticRetriever, Pipeline!AfterRetrieval
<1>2. Counts'
  BY ScoredAssumption
  DEF PipelineInv, Counts, Pipeline!Nodes, Pipeline!Answers, Pipeline!inputs,
      Pipeline!At, Pipeline!Executed, Pipeline!Report,
      Pipeline!SemanticRetriever, Pipeline!AfterRetrieval
<1>3. /\ node' = Pipeline!AfterRetrieval(error', retryCount')
      /\ result' = "running" /\ profile' = profile /\ job' = job
      /\ node = "semantic_retriever"
  BY DEF Pipeline!SemanticRetriever, Pipeline!At, Pipeline!Executed
<1>4. failed' => error'
  <2>1. failed => error
    BY DEF PipelineInv, GraphInv
  <2>2. CASE UNCHANGED <<error, failed>>
    BY <2>1, <2>2
  <2>3. CASE ~error /\ \E e \in BOOLEAN : Pipeline!Report(e)
    <3>1. ~failed
      BY <2>1, <2>3
    <3> QED
      BY <2>3, <3>1 DEF Pipeline!Report
  <2> QED
    BY <2>2, <2>3 DEF Pipeline!SemanticRetriever
<1>5. ~error' => ~error /\ profile \notin {"none", "empty"} /\ job
  BY <1>3 DEF Pipeline!SemanticRetriever, Pipeline!Report, PipelineInv, GraphInv
<1>6. node' = "scorer" => ~error' /\ context'
  <2>1. node' = "scorer" => ~error' /\ ~(0 < retryCount' /\ retryCount' <= MaxRetries)
    BY <1>3 DEF Pipeline!AfterRetrieval
  <2>2. ~error' => context' \/ (retryCount' = retryCount + 1 /\ retryCount < MaxRetries)
    BY DEF Pipeline!SemanticRetriever, Pipeline!Report
  <2> QED
    BY <2>1, <2>2, ScoredAssumption DEF PipelineInv, Counts
<1>7. node' \in {"end", "semantic_retriever", "scorer"}
  BY <1>3 DEF Pipeline!AfterRetrieval
<1>8. GraphInv' /\ Pipeline!ScoreIsGrounded'
  BY <1>3, <1>4, <1>5, <1>6, <1>7 DEF GraphInv, Pipeline!ScoreIsGrounded
<1> QED
  BY <1>1, <1>2, <1>8 DEF PipelineInv

\* The scorer is not reached with an error, so it clears none.
LEMMA ScorerKeeps ==
  ASSUME PipelineInv, NEW answer \in Pipeline!Answers, Pipeline!Scorer(answer)
  PROVE  PipelineInv'
<1>1. Flags'
  BY DEF PipelineInv, Flags, Pipeline!inputs, Pipeline!At, Pipeline!Executed,
      Pipeline!Report, Pipeline!Scorer
<1>2. Counts'
  BY ScoredAssumption
  DEF PipelineInv, Counts, Pipeline!Nodes, Pipeline!Answers, Pipeline!inputs,
      Pipeline!At, Pipeline!Executed, Pipeline!Report, Pipeline!Scorer
<1>3. /\ node' = "reporter" /\ result' = "running" /\ node = "scorer"
      /\ profile' = profile /\ job' = job /\ context' = context
  BY DEF Pipeline!Scorer, Pipeline!At, Pipeline!Executed
<1>4. (scores' <=> answer = "full") /\ (error' <=> answer # "full")
  BY DEF Pipeline!Scorer, Pipeline!Report
<1>5. failed' => error'
  <2>1. ~failed
    BY <1>3 DEF PipelineInv, GraphInv
  <2>2. failed' <=> failed \/ answer # "full"
    BY DEF Pipeline!Scorer, Pipeline!Report
  <2> QED
    BY <1>4, <2>1, <2>2
<1>6. GraphInv' /\ Pipeline!ScoreIsGrounded'
  BY <1>3, <1>4, <1>5 DEF PipelineInv, GraphInv, Pipeline!ScoreIsGrounded
<1> QED
  BY <1>1, <1>2, <1>6 DEF PipelineInv

\* The reporter's score is grounded if nothing was reported.
LEMMA ReporterKeeps ==
  ASSUME PipelineInv, NEW b \in BOOLEAN, Pipeline!Reporter(b)
  PROVE  PipelineInv'
<1>1. Flags'
  BY DEF PipelineInv, Flags, Pipeline!inputs, Pipeline!At, Pipeline!Executed,
      Pipeline!Report, Pipeline!Reporter
<1>2. Counts'
  BY ScoredAssumption
  DEF PipelineInv, Counts, Pipeline!Nodes, Pipeline!Answers, Pipeline!inputs,
      Pipeline!At, Pipeline!Executed, Pipeline!Report, Pipeline!Reporter
<1>3. GraphInv' /\ Pipeline!ScoreIsGrounded'
  BY DEF PipelineInv, Flags, Counts, GraphInv, Pipeline!ScoreIsGrounded,
      Pipeline!inputs, Pipeline!At, Pipeline!Executed, Pipeline!Report,
      Pipeline!Reporter
<1> QED
  BY <1>1, <1>2, <1>3 DEF PipelineInv

\* A run that raises has no score.
LEMMA RaiseKeeps ==
  ASSUME PipelineInv, Pipeline!Raise
  PROVE  PipelineInv'
<1>1. Flags'
  BY DEF PipelineInv, Flags, Pipeline!inputs, Pipeline!At, Pipeline!Executed,
      Pipeline!Report, Pipeline!Raise
<1>2. Counts'
  BY ScoredAssumption
  DEF PipelineInv, Counts, Pipeline!Nodes, Pipeline!Answers, Pipeline!inputs,
      Pipeline!At, Pipeline!Executed, Pipeline!Report, Pipeline!Raise
<1>3. GraphInv' /\ Pipeline!ScoreIsGrounded'
  BY DEF PipelineInv, Flags, Counts, GraphInv, Pipeline!ScoreIsGrounded,
      Pipeline!inputs, Pipeline!At, Pipeline!Executed, Pipeline!Report,
      Pipeline!Raise
<1> QED
  BY <1>1, <1>2, <1>3 DEF PipelineInv

LEMMA PipelineKeeps == PipelineInv /\ Pipeline!Next => PipelineInv'
  BY ProfileExtractorKeeps, JobExtractorKeeps, RetrieverKeeps, ScorerKeeps,
     ReporterKeeps, RaiseKeeps
  DEF Pipeline!Next, Pipeline!EndWithError, Pipeline!NodeRaises,
      Pipeline!TooManySteps

-----------------------------------------------------------------------------
(* The composition *)

\* While a request commits, the run it made stands as it ended: the lock of
\* the row keeps everybody else from a run of their own.
Grounded == \A r \in Requests : At(r, "commit") => result = "score"

ScoredInv == IInv /\ PipelineInv /\ Grounded

\* The composition adds nothing to what a request does to the analysis.
LEMMA StepOfAnalyses == ScoredNext => [Next]_vars
  BY DEF ScoredNext, ScoredStep, BeforeRun, SaveAndRun, RunNode, Scores, Raises,
         CommitScore, AbortRun, Next, Step

LEMMA RunStays ==
  ASSUME PipelineInv, UNCHANGED run
  PROVE  PipelineInv' /\ result' = result
<1> USE DEF run
<1>1. Flags'
  BY DEF PipelineInv, Flags
<1>2. Counts'
  BY DEF PipelineInv, Counts
<1>3. GraphInv' /\ Pipeline!ScoreIsGrounded'
  BY DEF PipelineInv, GraphInv, Pipeline!ScoreIsGrounded
<1> QED
  BY <1>1, <1>2, <1>3 DEF PipelineInv

\* A request that has no lock gets to the commit by no single step but that
\* of a run that has scored.
LEMMA ScoredKeeps == ScoredInv /\ [ScoredNext]_allVars => ScoredInv'
<1> SUFFICES ASSUME ScoredInv, [ScoredNext]_allVars PROVE ScoredInv'
  OBVIOUS
<1>1. IInv'
  <2>1. [Next]_vars
    BY StepOfAnalyses DEF allVars
  <2> QED
    BY <2>1, NextKeeps DEF ScoredInv
<1>2. CASE UNCHANGED allVars
  BY <1>1, <1>2, RunStays DEF allVars, vars, ScoredInv, Grounded, At
\* Steps that leave the run alone and bring nobody to the commit.
<1>3. ASSUME NEW r \in Requests, UNCHANGED run,
             tx'[r].pc # "commit" \/ result = "score",
             \A q \in Requests \ {r} : tx'[q] = tx[q]
      PROVE  ScoredInv'
  BY <1>1, <1>3, RunStays DEF ScoredInv, Grounded, At
\* Steps at which the run of r begins anew, and nobody commits.
<1>4. ASSUME NEW r \in Requests, NEW text \in BOOLEAN, NEW j \in BOOLEAN,
             Load(text, j), tx'[r].pc # "commit",
             \A q \in Requests \ {r} : ~At(q, "commit") /\ tx'[q] = tx[q]
      PROVE  ScoredInv'
  BY <1>1, <1>4, LoadHolds DEF ScoredInv, Grounded, At
<1>5. ASSUME NEW r \in Requests, Finish(r)
      PROVE  tx'[r].pc = "idle" /\ \A q \in Requests \ {r} : tx'[q] = tx[q]
  BY <1>5 DEF Finish, Idle, ScoredInv, IInv, TypeOK
<1>6. ASSUME NEW r \in Requests, HoldsRow(r)
      PROVE  \A q \in Requests \ {r} : ~At(q, "commit")
  BY <1>6 DEF ScoredInv, IInv, OneHolder, HoldsRow, At
<1>7. ASSUME NEW r \in Requests, BeforeRun(r) PROVE ScoredInv'
  <2>1. tx'[r].pc # "commit" /\ \A q \in Requests \ {r} : tx'[q] = tx[q]
    BY <1>5, <1>7 DEF BeforeRun, Begin, Cached, Fresh, OutOfIds, ScoredInv,
        IInv, TypeOK, Tx
  <2> QED
    BY <1>3, <1>7, <2>1 DEF BeforeRun
<1>8. ASSUME NEW r \in Requests, SaveAndRun(r) PROVE ScoredInv'
  <2>1. PICK text \in {FALSE, Pipeline!TextOf(candidate)}, j \in BOOLEAN : Load(text, j)
    BY <1>8 DEF SaveAndRun
  <2>2. text \in BOOLEAN
    BY <2>1 DEF Pipeline!TextOf
  <2>3. /\ tx'[r].pc # "commit"
        /\ \A q \in Requests \ {r} : ~At(q, "commit") /\ tx'[q] = tx[q]
    BY <1>8 DEF SaveAndRun, Save, RowFree, HoldsRow, At, ScoredInv, IInv,
        TypeOK, Tx
  <2> QED
    BY <1>4, <2>1, <2>2, <2>3
\* A node is executed while r is in the pipeline, so that nobody commits.
<1>9. ASSUME NEW r \in Requests, RunNode(r) PROVE ScoredInv'
  <2>1. PipelineInv'
    BY <1>9, PipelineKeeps DEF RunNode, ScoredInv
  <2>2. \A q \in Requests : ~At(q, "commit")
    BY <1>9 DEF RunNode, At, ScoredInv, IInv, OneHolder, HoldsRow
  <2> QED
    BY <1>1, <1>9, <2>1, <2>2 DEF RunNode, vars, ScoredInv, Grounded, At
<1>10. ASSUME NEW r \in Requests, Scores(r) PROVE ScoredInv'
  <2>1. \A q \in Requests \ {r} : tx'[q] = tx[q]
    BY <1>10 DEF Scores, PipelineScores, ScoredInv, IInv, TypeOK
  <2> QED
    BY <1>3, <1>10, <2>1 DEF Scores
\* Whoever has run and goes takes the run along.
<1>11. ASSUME NEW r \in Requests, HoldsRow(r), Finish(r), Forget PROVE ScoredInv'
  BY <1>4, <1>5, <1>6, <1>11 DEF Forget
<1>12. ASSUME NEW r \in Requests, Raises(r) \/ CommitScore(r) PROVE ScoredInv'
  BY <1>11, <1>12
  DEF Raises, CommitScore, PipelineRaises, Commit, At, HoldsRow
<1>13. ASSUME NEW r \in Requests, AbortRun(r) PROVE ScoredInv'
  <2>1. CASE HoldsRow(r)
    BY <1>11, <1>13, <2>1 DEF AbortRun, Abort
  <2>2. CASE ~HoldsRow(r)
    BY <1>3, <1>5, <1>13, <2>2 DEF AbortRun, Abort
  <2> QED
    BY <2>1, <2>2
<1> QED
  BY <1>2, <1>7, <1>8, <1>9, <1>10, <1>12, <1>13 DEF ScoredNext, ScoredStep

THEOREM ScoredInvariance == ScoredSpec => []ScoredInv
<1>1. ScoredInit => ScoredInv
  BY InitHolds, PipelineInitHolds
  DEF ScoredInit, ScoredInv, Grounded, Init, Idle, At
<1> QED
  BY <1>1, ScoredKeeps, PTL DEF ScoredSpec

\* Both state machines keep their types when they run as one.
THEOREM ScoredTypeCorrect == ScoredSpec => []ScoredTypeOK
<1>1. ScoredInv => ScoredTypeOK
  BY PipelineTyped DEF ScoredInv, IInv, ScoredTypeOK
<1> QED
  BY <1>1, ScoredInvariance, PTL

\* Whatever the model answers, how often the retriever is repeated and
\* wherever the other requests are, what is committed is the score of a run in
\* which nothing was missing and no node reported an error.
THEOREM ScoresAreGrounded == ScoredSpec => []CompletedIsGrounded
<1>1. ScoredInv => CompletedIsGrounded
  BY DEF ScoredInv, PipelineInv, GraphInv, Grounded, CompletedIsGrounded,
         Pipeline!ErrorIsRaised
<1> QED
  BY <1>1, ScoredInvariance, PTL

\* The composition does to the analysis what MatchAnalyses does.
LEMMA AnalysesOfScored == ScoredSpec => Spec
<1>1. ScoredInit => Init
  BY DEF ScoredInit
<1>2. [ScoredNext]_allVars => [Next]_vars
  BY StepOfAnalyses DEF allVars
<1> QED
  BY <1>1, <1>2, PTL DEF ScoredSpec, Spec

\* Requests that look, wait for the row, run the graph node by node, commit and
\* roll back, in any number and order, implement the abstract analysis.
THEOREM Refinement == ScoredSpec => ImplementsStoredAnalysis
<1>1. Init => Promise!Init
  BY DEF Init, Promise!Init, Idle
<1>2. IInv /\ Scorings /\ [Next]_vars => [Promise!Next]_(Promise!vars)
  BY StepOfPromise
<1> QED
  BY <1>1, <1>2, AnalysesOfScored, StoreInvariance, PTL
  DEF Spec, ImplementsStoredAnalysis, Promise!Spec

\* So what is proved of MatchAnalyses holds with the graph in its place.
THEOREM ScoredRunsAreSerial ==
  ScoredSpec => [](OnePipeline /\ OnlyCompleted /\ ScoringsBounded) /\ StoredIsStable
  BY AnalysesOfScored, PipelinesAreSerial, NothingHalfDoneIsVisible,
     ScoringsAreBounded, AnalysesAreStable, PTL

-----------------------------------------------------------------------------
(* Why a run ends: what can be shown of it without fairness                  *)

\* The nodes a run may still execute, and its end.
Fuel == IF result = "running" THEN 1 + RecursionLimit - executed ELSE 0

LEMMA NodeBurns ==
  ASSUME PipelineInv, Pipeline!Next
  PROVE  Fuel' < Fuel
<1>1. executed \in 0..RecursionLimit /\ RecursionLimit \in Nat
  BY ScoredAssumption DEF PipelineInv, Counts
<1>2. result = "running"
  BY DEF Pipeline!Next, Pipeline!At, Pipeline!ProfileExtractor,
         Pipeline!JobExtractor, Pipeline!SemanticRetriever, Pipeline!Scorer,
         Pipeline!Reporter, Pipeline!EndWithError, Pipeline!NodeRaises,
         Pipeline!TooManySteps
<1>3. result' = "raised" \/ executed' = executed + 1
  BY DEF Pipeline!Next, Pipeline!Executed, Pipeline!ProfileExtractor,
         Pipeline!JobExtractor, Pipeline!SemanticRetriever, Pipeline!Scorer,
         Pipeline!Reporter, Pipeline!EndWithError, Pipeline!NodeRaises,
         Pipeline!TooManySteps, Pipeline!Raise
<1> QED
  BY <1>1, <1>2, <1>3 DEF Fuel

\* A run is never stuck, and each of its steps brings it nearer to its end, on
\* every path through the graph: the retriever is repeated for any number of
\* answers that find nothing, but not without a limit.  Requests of the pair
\* that wait for its row wait for the one that runs the graph or commits its score.
THEOREM RunsEnd ==
  ScoredSpec =>
    /\ [](/\ Fuel \in 0..(1 + RecursionLimit)
          /\ result = "running" =>
               \/ \E n \in Pipeline!Nodes : Pipeline!At(n)
               \/ node = "end"
               \/ node # "end" /\ executed = RecursionLimit
          /\ \A r \in Requests : At(r, "save") /\ ~RowFree =>
               \E q \in Requests : HoldsRow(q) /\ \A x \in Requests : HoldsRow(x) => x = q)
    /\ [][\A r \in Requests : RunNode(r) => Fuel' < Fuel]_allVars
<1>1. ScoredInv =>
        /\ Fuel \in 0..(1 + RecursionLimit)
        /\ result = "running" =>
             \/ \E n \in Pipeline!Nodes : Pipeline!At(n)
             \/ node = "end"
             \/ node # "end" /\ executed = RecursionLimit
        /\ \A r \in Requests : At(r, "save") /\ ~RowFree =>
             \E q \in Requests : HoldsRow(q) /\ \A x \in Requests : HoldsRow(x) => x = q
  <2> SUFFICES ASSUME ScoredInv
               PROVE  /\ Fuel \in 0..(1 + RecursionLimit)
                      /\ result = "running" =>
                           \/ \E n \in Pipeline!Nodes : Pipeline!At(n)
                           \/ node = "end"
                           \/ node # "end" /\ executed = RecursionLimit
                      /\ ~RowFree => \E q \in Requests :
                           HoldsRow(q) /\ \A x \in Requests : HoldsRow(x) => x = q
    OBVIOUS
  <2>1. /\ executed \in 0..RecursionLimit /\ RecursionLimit \in Nat
        /\ node \in Pipeline!Nodes \cup {"end"}
    BY ScoredAssumption DEF ScoredInv, PipelineInv, Counts
  <2>2. Fuel \in 0..(1 + RecursionLimit)
    BY <2>1 DEF Fuel
  <2>3. result = "running" /\ node # "end" /\ executed # RecursionLimit =>
          Pipeline!At(node)
    BY <2>1 DEF Pipeline!At
  <2>4. ~RowFree => \E q \in Requests :
          HoldsRow(q) /\ \A x \in Requests : HoldsRow(x) => x = q
    BY DEF RowFree, ScoredInv, IInv, OneHolder
  <2> QED
    BY <2>1, <2>2, <2>3, <2>4
<1>2. ScoredInv => [\A r \in Requests : RunNode(r) => Fuel' < Fuel]_allVars
  BY NodeBurns DEF ScoredInv, RunNode
<1> QED
  BY <1>1, <1>2, ScoredInvariance, PTL DEF ScoredSpec
=============================================================================
