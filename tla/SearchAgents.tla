---------------------------- MODULE SearchAgents ----------------------------
(***************************************************************************)
(* The search agents of one candidate (rows of search_agents) and the job  *)
(* postings that runs and searches scrape.  A run loads its agent, waits   *)
(* for the scraper, upserts what was found job by job, and saves the agent *)
(* it loaded, all in one READ COMMITTED transaction; updates, deletions    *)
(* and other runs go on meanwhile.  GET /search-agents/me only reads.      *)
(***************************************************************************)
EXTENDS Naturals, Sequences, FiniteSets

CONSTANTS MaxIds,    \* bound on the agents and creations at one time
          Jobs,      \* (external_id, source) of postings
          Settings,  \* columns of an agent a client sets
          Values,    \* values of a setting
          Default,   \* the value of each column of a new agent
          NoAgent,
          Results,   \* what the scraper may return: sequences of jobs
          Requests,
          MaxAborts  \* bound on the crashes and lost connections

ASSUME SearchAssumption ==
  /\ Default \in Values
  /\ Results \subseteq Seq(Jobs)
  /\ IsFiniteSet(Requests)
  /\ MaxIds \in Nat /\ MaxIds >= Cardinality(Requests)
  /\ "ran" \notin Settings
  /\ MaxAborts \in Nat

VARIABLES
  agent,     \* agent[id] : committed row, or NoAgent
  postings,  \* jobs with a committed row
  tx,        \* tx[r] : progress and local variables of request r
  found,     \* jobs of the runs and searches answered with 200 (history)
  aborts

vars == <<agent, postings, tx, found, aborts>>

\* uuid4 gives a new agent an id nobody has; the smallest such number stands
\* for it.  A creation that finds no agent has one left.
Ids == 1..MaxIds
NoId == 0

Columns == Settings \cup {"ran"}
Row == [Columns -> Values]
NewAgent == [c \in Columns |-> Default]
ASSUME NoAgentAssumption == NoAgent \notin Row

\* What a request sets in the agent: a PUT a setting, a run last_run_at, whose
\* default stands for an agent that has not run.
Updates == [column : Settings, value : Values]
Runs == [column : {"ran"}, value : Values \ {Default}]
NoChange == [column |-> "ran", value |-> Default]

Kinds == {"create", "update", "delete", "run", "search"}
Steps == {"idle", "check", "load", "scrape", "upsert", "select", "flush",
          "delete", "commit"}

InResult(s) == {s[i] : i \in DOMAIN s}

Idle == [kind |-> "create", pc |-> "idle", id |-> NoId, change |-> NoChange,
         loaded |-> NoAgent, base |-> NoAgent, queue |-> <<>>, locked |-> {},
         scraped |-> {}]

Init ==
  /\ agent = [id \in Ids |-> NoAgent]
  /\ postings = {}
  /\ tx = [r \in Requests |-> Idle]
  /\ found = {}
  /\ aborts = 0

At(r, step) == tx[r].pc = step
Is(r, kind) == tx[r].kind = kind
Goto(r, step) == tx' = [tx EXCEPT ![r].pc = step]
Finish(r) == tx' = [tx EXCEPT ![r] = Idle]

Agents == {id \in Ids : agent[id] # NoAgent}
InUse == Agents \cup {tx[q].id : q \in Requests}
IsNext(id) == id \notin InUse /\ 1..(id - 1) \subseteq InUse

\* The agent in memory after update() or mark_ran().
Mine(r) == [tx[r].loaded EXCEPT ![tx[r].change.column] = tx[r].change.value]

\* An UPDATE is sent when a column differs from what save() selected; a run
\* brings a new time.
Writes(r) == Is(r, "run") \/ tx[r].base # Mine(r)

HoldsAgent(r, id) ==
  /\ At(r, "commit") /\ tx[r].id = id
  /\ ~Is(r, "create")
  /\ Is(r, "delete") \/ Writes(r)
AgentFree(id) == \A q \in Requests : ~HoldsAgent(q, id)

-----------------------------------------------------------------------------
(* Requests *)

Begin(r, kind) ==
  /\ At(r, "idle")
  /\ tx' = [tx EXCEPT ![r] = [Idle EXCEPT !.kind = kind,
              !.pc = IF kind = "create" THEN "check" ELSE "scrape"]]
  /\ UNCHANGED <<agent, postings, found, aborts>>

\* PUT, DELETE and POST run name an agent, which may be gone when it is loaded.
BeginOn(r, kind, id, change) ==
  /\ At(r, "idle")
  /\ id \in Agents
  /\ tx' = [tx EXCEPT ![r] = [Idle EXCEPT !.kind = kind, !.pc = "load",
                                          !.id = id, !.change = change]]
  /\ UNCHANGED <<agent, postings, found, aborts>>

\* Faulty variant for AgentsBounded: no look at the agents there are.
CheckNothing(r, id) ==
  /\ At(r, "check")
  /\ IsNext(id)
  /\ tx' = [tx EXCEPT ![r].pc = "commit", ![r].id = id]
  /\ UNCHANGED <<agent, postings, found, aborts>>

\* CreateSearchAgentUseCase: with one agent it is a conflict, and with several
\* scalar_one_or_none raises.  The INSERT waits for nobody: candidate_id is not
\* unique.
CheckExisting(r, id) ==
  /\ At(r, "check")
  /\ \/ Agents # {} /\ Finish(r)
     \/ /\ Agents = {}
        /\ IsNext(id)
        /\ tx' = [tx EXCEPT ![r].pc = "commit", ![r].id = id]
  /\ UNCHANGED <<agent, postings, found, aborts>>

\* get_by_id, or a 404.
Load(r) ==
  /\ At(r, "load")
  /\ \/ tx[r].id \notin Agents /\ Finish(r)
     \/ /\ tx[r].id \in Agents
        /\ tx' = [tx EXCEPT ![r].pc = IF Is(r, "run") THEN "scrape" ELSE "select",
              ![r].loaded = IF Is(r, "delete") THEN NoAgent ELSE agent[tx[r].id]]
  /\ UNCHANGED <<agent, postings, found, aborts>>

Scrape(r, result) ==
  /\ At(r, "scrape")
  /\ tx' = [tx EXCEPT ![r].pc = "upsert", ![r].queue = result,
                      ![r].scraped = InResult(result)]
  /\ UNCHANGED <<agent, postings, found, aborts>>

\* RuntimeError: 502 for a search, 500 for a run.
ScrapeFails(r) ==
  /\ At(r, "scrape")
  /\ Finish(r)
  /\ UNCHANGED <<agent, postings, found, aborts>>

\* An upsert locks the row of its job until the transaction ends.
WaitsFor(r, q) ==
  /\ At(r, "upsert") /\ tx[r].queue # <<>>
  /\ q # r
  /\ Head(tx[r].queue) \in tx[q].locked

\* Faulty variant for AnsweredIsStored: a job somebody else is storing is left
\* to him.
UpsertSkippingLocked(r) ==
  /\ At(r, "upsert") /\ tx[r].queue # <<>>
  /\ tx' = [tx EXCEPT ![r].queue = Tail(@),
              ![r].locked = IF \E q \in Requests : WaitsFor(r, q)
                            THEN @ ELSE @ \cup {Head(tx[r].queue)}]
  /\ UNCHANGED <<agent, postings, found, aborts>>

Upsert(r) ==
  /\ At(r, "upsert") /\ tx[r].queue # <<>>
  /\ \A q \in Requests : ~WaitsFor(r, q)
  /\ tx' = [tx EXCEPT ![r].queue = Tail(@),
                      ![r].locked = @ \cup {Head(tx[r].queue)}]
  /\ UNCHANGED <<agent, postings, found, aborts>>

Upserted(r) ==
  /\ At(r, "upsert") /\ tx[r].queue = <<>>
  /\ Goto(r, IF Is(r, "run") THEN "select" ELSE "commit")
  /\ UNCHANGED <<agent, postings, found, aborts>>

Circle(S) == S # {} /\ \A r \in S : \E q \in S : WaitsFor(r, q)

\* Faulty variant for SomeoneCanMove: requests in a circle wait on.
NeverDetected(r) ==
  /\ FALSE
  /\ Finish(r)
  /\ UNCHANGED <<agent, postings, found, aborts>>

\* PostgreSQL ends a circle of waiting transactions by failing one of them.
DeadlockDetected(r) ==
  /\ \E S \in SUBSET Requests : r \in S /\ Circle(S)
  /\ Finish(r)
  /\ UNCHANGED <<agent, postings, found, aborts>>

\* save() and delete() select the row again.
Select(r) ==
  /\ At(r, "select")
  /\ LET now == agent[tx[r].id] IN
       IF ~Is(r, "delete")
       THEN tx' = [tx EXCEPT ![r].pc = "flush", ![r].base = now]
       ELSE IF now = NoAgent THEN Finish(r) ELSE Goto(r, "delete")
  /\ UNCHANGED <<agent, postings, found, aborts>>

\* The flush.  A row that was there is updated, and one that has gone since
\* raises (StaleDataError, or the refresh finds nothing).  A row that was not
\* there is inserted, unless another request has done so.
Flush(r) ==
  /\ At(r, "flush")
  /\ LET id == tx[r].id
         gone == agent[id] = NoAgent
     IN \/ /\ tx[r].base # NoAgent /\ gone
           /\ Finish(r)
        \/ /\ tx[r].base # NoAgent /\ ~gone
           /\ Writes(r) => AgentFree(id)
           /\ Goto(r, "commit")
        \/ /\ tx[r].base = NoAgent
           /\ AgentFree(id)
           /\ IF gone THEN Goto(r, "commit") ELSE Finish(r)
  /\ UNCHANGED <<agent, postings, found, aborts>>

\* The DELETE of a row that has gone is not an error.
DeleteRow(r) ==
  /\ At(r, "delete")
  /\ \/ agent[tx[r].id] = NoAgent /\ Finish(r)
     \/ agent[tx[r].id] # NoAgent /\ AgentFree(tx[r].id) /\ Goto(r, "commit")
  /\ UNCHANGED <<agent, postings, found, aborts>>

\* Faulty variant for ChangesWhatWasAsked: an UPDATE of every column.
EveryColumn(base, mine, row) == mine

\* Faulty variant for TypeOK: a row without the columns that did not change.
DirtyOnly(base, mine, row) ==
  [c \in {d \in DOMAIN mine : mine[d] # base[d]} |-> mine[c]]

\* The UPDATE of a flush: the columns that differ from what save() selected.
DirtyColumns(base, mine, row) ==
  [c \in DOMAIN mine |-> IF mine[c] # base[c] THEN mine[c] ELSE row[c]]

\* The row r commits.  The time of a run is never the one stored before.
Saved(r) ==
  IF Is(r, "create") THEN NewAgent
  ELSE IF Is(r, "delete") THEN NoAgent
  ELSE IF ~Writes(r) THEN agent[tx[r].id]
  ELSE IF tx[r].base = NoAgent THEN Mine(r)
  ELSE IF Is(r, "update") THEN DirtyColumns(tx[r].base, Mine(r), agent[tx[r].id])
  ELSE [DirtyColumns(tx[r].base, Mine(r), agent[tx[r].id])
          EXCEPT !["ran"] = tx[r].change.value]

Commit(r) ==
  /\ At(r, "commit")
  /\ agent' = IF Is(r, "search") THEN agent
              ELSE [agent EXCEPT ![tx[r].id] = Saved(r)]
  /\ postings' = postings \cup tx[r].locked
  /\ found' = found \cup tx[r].scraped
  /\ Finish(r)
  /\ UNCHANGED aborts

\* A crash, a lost connection, or an unexpected exception: rollback.
Abort(r) ==
  /\ aborts < MaxAborts
  /\ ~At(r, "idle")
  /\ aborts' = aborts + 1
  /\ Finish(r)
  /\ UNCHANGED <<agent, postings, found>>

Step(r) ==
  \/ \E id \in Ids : CheckExisting(r, id)
  \/ Load(r) \/ Select(r) \/ Flush(r) \/ DeleteRow(r) \/ Commit(r)
  \/ (\E result \in Results : Scrape(r, result)) \/ ScrapeFails(r)
  \/ Upsert(r) \/ Upserted(r)

Next ==
  \E r \in Requests :
    \/ \E kind \in {"create", "search"} : Begin(r, kind)
    \/ \E id \in Ids :
         \/ \E c \in Updates : BeginOn(r, "update", id, c)
         \/ \E c \in Runs : BeginOn(r, "run", id, c)
         \/ BeginOn(r, "delete", id, NoChange)
    \/ Step(r) \/ DeadlockDetected(r) \/ Abort(r)

Spec == Init /\ [][Next]_vars

-----------------------------------------------------------------------------
(* Properties *)

\* Types: an agent is absent or has all its columns.
TypeOK ==
  /\ agent \in [Ids -> Row \cup {NoAgent}]
  /\ postings \subseteq Jobs /\ found \subseteq Jobs
  /\ \A r \in Requests :
       /\ tx[r].pc \in Steps /\ tx[r].kind \in Kinds
       /\ tx[r].id \in Ids \cup {NoId} /\ tx[r].change \in Updates \cup Runs \cup {NoChange}
       /\ {tx[r].loaded, tx[r].base} \subseteq Row \cup {NoAgent}
       /\ tx[r].locked \subseteq Jobs /\ tx[r].scraped \subseteq Jobs
  /\ aborts \in 0..MaxAborts

\* Nothing but a check before an insert keeps a candidate to one agent, so
\* overlapping requests give several (two creations, or a creation while an
\* update writes a deleted agent back); but never more than there are requests
\* at the same time, however long they go on.
AgentsBounded == Cardinality(Agents) <= Cardinality(Requests)

\* Every job of an answered run or search is stored, although the requests
\* that scrape the same jobs wait for each other and some are rolled back.
AnsweredIsStored == found \subseteq postings

\* A request that found the agent at save() as it had loaded it changes the
\* column it was asked to change and no other, whatever others commit between
\* its second read and its own commit.  (When the two reads differ, save()
\* writes the older values back; a run takes minutes between them.)
ChangesWhatWasAsked ==
  [][\A r \in Requests :
       LET id == tx[r].id IN
       tx[r].kind \in {"update", "run"} /\ At(r, "commit") /\ agent' # agent
         /\ tx'[r] = Idle /\ tx[r].loaded = tx[r].base
       => /\ agent[id] # NoAgent
          /\ agent'[id] = [agent[id] EXCEPT ![tx[r].change.column] =
                                              tx[r].change.value]]_vars

\* Requests that scrape lock jobs in any order, and a run that holds them goes
\* on to wait for its agent: still, while a request is in progress one of them
\* can go on or is failed by the database.
SomeoneCanMove ==
  (\E r \in Requests : ~At(r, "idle")) =>
    ENABLED (\E r \in Requests : Step(r) \/ DeadlockDetected(r))
=============================================================================
