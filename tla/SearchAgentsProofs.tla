------------------------- MODULE SearchAgentsProofs -------------------------
(***************************************************************************)
(* Proofs about SearchAgents for every number of requests, agents, jobs    *)
(* and settings.                                                           *)
(***************************************************************************)
EXTENDS SearchAgents, FiniteSetTheorems, SequenceTheorems, TLAPS

Change == Updates \cup Runs \cup {NoChange}
Slot == [kind : Kinds, pc : Steps, id : Ids \cup {NoId}, change : Change,
         loaded : Row \cup {NoAgent}, base : Row \cup {NoAgent}, queue : Seq(Jobs),
         locked : SUBSET Jobs, scraped : SUBSET Jobs]

\* Mine and HoldsAgent of a request given as a value.
After(s) == [s.loaded EXCEPT ![s.change.column] = s.change.value]
Locks(s) ==
  /\ s.pc = "commit"
  /\ s.kind \in {"delete", "run"} \/ (s.kind = "update" /\ s.base # After(s))

\* A request that may still bring its agent into being.
Holder(s) ==
  /\ s.kind \in {"create", "update", "run"}
  /\ s.pc \in {"scrape", "upsert", "select", "flush", "commit"}
Held == {tx[q].id : q \in {x \in Requests : Holder(tx[x])}}

\* How far a request can be, and what it has stored of what it scraped.
SlotInv(s) ==
  /\ s \in Slot
  /\ s.kind = "create" => s.pc \in {"idle", "check", "commit"}
  /\ s.kind = "create" /\ s.pc = "commit" => s.id \in Ids
  /\ s.kind = "search" => s.pc \in {"scrape", "upsert", "commit"} /\ s.id = NoId
  /\ s.kind \in {"update", "run", "delete"} =>
       s.id \in Ids /\ s.pc \notin {"idle", "check"}
  /\ s.kind \in {"update", "run"} /\ s.pc # "load" => s.loaded # NoAgent
  /\ s.kind = "run" => s.change.column = "ran"
  /\ s.pc = "delete" => s.kind = "delete"
  /\ s.pc = "flush" => s.kind \in {"update", "run"}
  /\ s.pc \in {"scrape", "upsert"} => s.kind \in {"run", "search"}
  /\ s.scraped \subseteq s.locked \cup InResult(s.queue)
  /\ s.pc # "upsert" => s.scraped \subseteq s.locked

\* What the lock of a row keeps as it was when the request got it.
RowInv(s, rows) ==
  /\ Locks(s) /\ s.kind # "delete" /\ s.base # NoAgent => rows[s.id] # NoAgent
  /\ s.kind = "create" /\ s.pc = "commit" => rows[s.id] = NoAgent

\* One request at a time has the lock; a new id is nobody else's.
Pair(s, q) ==
  /\ Locks(s) /\ Locks(q) => s.id # q.id
  /\ s.kind = "create" /\ s.pc = "commit" => q.id # s.id

IInv ==
  /\ agent \in [Ids -> Row \cup {NoAgent}]
  /\ postings \subseteq Jobs /\ found \subseteq postings
  /\ aborts \in 0..MaxAborts
  /\ tx \in [Requests -> Slot]
  /\ \A r \in Requests : SlotInv(tx[r]) /\ RowInv(tx[r], agent)
  /\ \A r, q \in Requests : r # q => Pair(tx[r], tx[q])
  /\ IsFiniteSet(Agents \cup Held)
  /\ Cardinality(Agents \cup Held) <= Cardinality(Requests)

-----------------------------------------------------------------------------
(* Every action preserves the invariant *)

LEMMA IdleHolds ==
  /\ SlotInv(Idle) /\ ~Holder(Idle) /\ ~Locks(Idle)
  /\ \A rows : RowInv(Idle, rows)
  /\ \A s : Pair(Idle, s)
  /\ Idle.id = NoId
<1>1. Idle \in Slot
  <2>1. <<>> \in Seq(Jobs)
    BY EmptySeq
  <2> QED
    BY <2>1 DEF Idle, Slot, Steps, Kinds, Change
<1> QED
  BY <1>1 DEF SlotInv, RowInv, Pair, Idle, Holder, Locks

LEMMA InitHolds == Init => IInv
<1> SUFFICES ASSUME Init PROVE IInv
  OBVIOUS
<1> USE SearchAssumption
<1>1. tx \in [Requests -> Slot] /\ \A r \in Requests : tx[r] = Idle
  BY IdleHolds DEF Init, SlotInv
<1>2. Agents \cup Held = {}
  BY <1>1, IdleHolds DEF Agents, Held, Init
<1>3. Cardinality(Requests) \in Nat
  BY FS_CardinalityType
<1>4. IsFiniteSet(Agents \cup Held) /\ Cardinality(Agents \cup Held) <= Cardinality(Requests)
  <2>1. 0 <= Cardinality(Requests)
    BY <1>3
  <2> QED
    BY <1>2, <2>1, FS_EmptySet, Zenon
<1>5. agent \in [Ids -> Row \cup {NoAgent}] /\ aborts \in 0..MaxAborts
      /\ postings \subseteq Jobs /\ found \subseteq postings
  BY DEF Init
<1>6. \A r \in Requests : SlotInv(tx[r]) /\ RowInv(tx[r], agent)
  BY <1>1, IdleHolds
<1>7. \A r, q \in Requests : Pair(tx[r], tx[q])
  BY <1>1, IdleHolds
<1> QED
  BY <1>1, <1>4, <1>5, <1>6, <1>7 DEF IInv

\* The agents and the ids held do not grow, except by a creation that found
\* no agent.
LEMMA CountKeeps ==
  ASSUME IInv, (Agents \cup Held)' \subseteq Agents \cup Held
  PROVE  /\ IsFiniteSet((Agents \cup Held)')
         /\ Cardinality((Agents \cup Held)') <= Cardinality(Requests)
<1> DEFINE U == Agents \cup Held
           W == (Agents \cup Held)'
<1>1. IsFiniteSet(U) /\ Cardinality(U) <= Cardinality(Requests) /\ W \subseteq U
  BY DEF IInv
<1> HIDE DEF U, W
<1>2. IsFiniteSet(W) /\ Cardinality(W) <= Cardinality(U)
  BY <1>1, FS_Subset
<1>3. Cardinality(W) \in Nat /\ Cardinality(U) \in Nat /\ Cardinality(Requests) \in Nat
  BY <1>1, <1>2, SearchAssumption, FS_CardinalityType
<1>4. IsFiniteSet(W) /\ Cardinality(W) <= Cardinality(Requests)
  BY <1>1, <1>2, <1>3
<1> QED
  BY <1>4 DEF W

\* One request moves, and no row is committed.
LEMMA OneMoves ==
  ASSUME IInv, NEW r \in Requests, NEW s, tx' = [tx EXCEPT ![r] = s],
         agent' = agent, postings' = postings, found' = found,
         aborts' \in 0..MaxAborts,
         SlotInv(s), RowInv(s, agent),
         \A q \in Requests \ {r} : Pair(s, tx[q]) /\ Pair(tx[q], s),
         Holder(s) => s.id \in Agents \cup Held
  PROVE  IInv'
<1>1. tx' \in [Requests -> Slot] /\ tx'[r] = s
      /\ \A q \in Requests \ {r} : tx'[q] = tx[q]
  BY DEF IInv, SlotInv
<1>2. (Agents \cup Held)' \subseteq Agents \cup Held
  <2>1. Agents' = Agents
    BY DEF Agents
  <2>2. Held' \subseteq Held \cup (IF Holder(s) THEN {s.id} ELSE {})
    BY <1>1 DEF Held
  <2> QED
    BY <2>1, <2>2
<1>3. /\ IsFiniteSet((Agents \cup Held)')
      /\ Cardinality((Agents \cup Held)') <= Cardinality(Requests)
  BY <1>2, CountKeeps
<1>4. \A q \in Requests : SlotInv(tx'[q]) /\ RowInv(tx'[q], agent')
  BY <1>1 DEF IInv
<1>5. \A p, q \in Requests : p # q => Pair(tx'[p], tx'[q])
  BY <1>1 DEF IInv
<1> QED
  BY <1>1, <1>3, <1>4, <1>5 DEF IInv

LEMMA FinishKeeps ==
  ASSUME IInv, NEW r \in Requests, Finish(r),
         agent' = agent, postings' = postings, found' = found, aborts' \in 0..MaxAborts
  PROVE  IInv'
<1>1. \A q \in Requests \ {r} : Pair(tx[q], Idle)
  <2>1. \A q \in Requests : SlotInv(tx[q])
    BY DEF IInv
  <2>2. \A q \in Requests :
          tx[q].kind = "create" /\ tx[q].pc = "commit" => tx[q].id # NoId
    BY <2>1 DEF SlotInv, Ids, NoId
  <2> QED
    BY <2>2, IdleHolds DEF Pair
<1> QED
  BY <1>1, IdleHolds, OneMoves DEF Finish

\* A request that is in no transaction that writes moves on.
LEMMA UnlockedMoves ==
  ASSUME IInv, NEW r \in Requests, NEW s, tx' = [tx EXCEPT ![r] = s],
         agent' = agent, postings' = postings, found' = found, aborts' = aborts,
         SlotInv(s), s.pc # "commit" \/ s.kind = "search",
         s.id = tx[r].id \/ s.id = NoId \/ s.id \in Agents,
         Holder(s) => s.id \in Agents \cup Held
  PROVE  IInv'
<1>1. ~Locks(s) /\ ~(s.kind = "create" /\ s.pc = "commit")
  BY DEF Locks
<1>2. RowInv(s, agent)
  BY <1>1 DEF RowInv
<1>3. ASSUME NEW q \in Requests \ {r}, tx[q].kind = "create", tx[q].pc = "commit"
      PROVE  s.id # tx[q].id
  <2>1. tx[q].id \in Ids /\ agent[tx[q].id] = NoAgent /\ tx[r].id # tx[q].id
    BY <1>3 DEF IInv, SlotInv, RowInv, Pair
  <2> QED
    BY <2>1 DEF Agents, NoId, Ids
<1>4. \A q \in Requests \ {r} : Pair(s, tx[q]) /\ Pair(tx[q], s)
  BY <1>1, <1>3 DEF Pair
<1>5. aborts' \in 0..MaxAborts
  BY DEF IInv
<1> QED
  BY <1>2, <1>4, <1>5, OneMoves

LEMMA NextKeeps == IInv /\ [Next]_vars => IInv'
<1> SUFFICES ASSUME IInv, [Next]_vars PROVE IInv'
  OBVIOUS
<1> USE SearchAssumption, NoAgentAssumption
<1>1. ASSUME NEW r \in Requests
      PROVE  tx[r] \in Slot /\ SlotInv(tx[r]) /\ RowInv(tx[r], agent)
  BY <1>1 DEF IInv
<1>2. ASSUME NEW r \in Requests, Finish(r), UNCHANGED <<agent, postings, found, aborts>>
      PROVE  IInv'
  <2>1. aborts' \in 0..MaxAborts
    BY <1>2 DEF IInv
  <2> QED
    BY <1>2, <2>1, FinishKeeps
<1>3. CASE UNCHANGED vars
  <2>1. (Agents \cup Held)' \subseteq Agents \cup Held
    BY <1>3 DEF vars, Agents, Held
  <2> QED
    BY <1>3, <2>1, CountKeeps DEF vars, IInv
<1>4. ASSUME NEW r \in Requests, NEW kind \in {"create", "search"}, Begin(r, kind)
      PROVE  IInv'
  <2> DEFINE s == [Idle EXCEPT !.kind = kind,
                    !.pc = IF kind = "create" THEN "check" ELSE "scrape"]
  <2>1. tx' = [tx EXCEPT ![r] = s] /\ UNCHANGED <<agent, postings, found, aborts>>
    BY <1>4 DEF Begin
  <2>2. /\ s \in Slot /\ s.kind = kind /\ s.id = NoId
        /\ s.pc = (IF kind = "create" THEN "check" ELSE "scrape")
        /\ s.scraped = {}
    <3>1. Idle \in Slot
      BY IdleHolds DEF SlotInv
    <3> QED
      BY <3>1 DEF Idle, Slot, Steps, Kinds
  <2> HIDE DEF s
  <2>3. SlotInv(s) /\ s.pc # "commit" /\ ~Holder(s)
    BY <2>2 DEF SlotInv, Holder
  <2> QED
    BY <2>1, <2>2, <2>3, UnlockedMoves
<1>5. ASSUME NEW r \in Requests, NEW kind \in {"update", "run", "delete"}, NEW id \in Ids,
             NEW change \in Change, BeginOn(r, kind, id, change),
             kind = "run" => change \in Runs
      PROVE  IInv'
  <2> DEFINE s == [Idle EXCEPT !.kind = kind, !.pc = "load", !.id = id, !.change = change]
  <2>1. tx' = [tx EXCEPT ![r] = s] /\ id \in Agents
        /\ UNCHANGED <<agent, postings, found, aborts>>
    BY <1>5 DEF BeginOn
  <2>2. /\ s \in Slot /\ s.kind = kind /\ s.id = id /\ s.pc = "load" /\ s.scraped = {}
        /\ s.change = change
    <3>1. Idle \in Slot
      BY IdleHolds DEF SlotInv
    <3> QED
      BY <3>1 DEF Idle, Slot, Steps, Kinds
  <2> HIDE DEF s
  <2>3. SlotInv(s) /\ s.pc # "commit" /\ ~Holder(s)
    BY <1>5, <2>2 DEF SlotInv, Holder, Runs
  <2> QED
    BY <2>1, <2>2, <2>3, UnlockedMoves
\* The creation that finds no agent: those that others hold are fewer than
\* the requests.
<1>6. ASSUME NEW r \in Requests, NEW id \in Ids, CheckExisting(r, id) PROVE IInv'
  <2>1. CASE Finish(r)
    BY <1>2, <1>6, <2>1 DEF CheckExisting
  <2>2. CASE ~Finish(r)
    <3> DEFINE s == [tx[r] EXCEPT !.pc = "commit", !.id = id]
    <3>1. /\ tx[r].pc = "check" /\ tx[r].kind = "create" /\ Agents = {} /\ id \notin InUse
          /\ tx' = [tx EXCEPT ![r] = s] /\ UNCHANGED <<agent, postings, found, aborts>>
      BY <1>1, <1>6, <2>2 DEF CheckExisting, At, IsNext, SlotInv, Slot, Kinds
    <3>2. /\ s \in Slot /\ s.kind = "create" /\ s.id = id /\ s.pc = "commit"
          /\ s.scraped = tx[r].scraped /\ s.locked = tx[r].locked /\ s.queue = tx[r].queue
      BY <1>1, <3>1 DEF Slot, Steps
    <3>3. /\ tx' \in [Requests -> Slot] /\ tx'[r] = s
          /\ \A q \in Requests \ {r} : tx'[q] = tx[q]
      BY <3>1, <3>2 DEF IInv
    <3> HIDE DEF s
    <3>4. SlotInv(s) /\ ~Locks(s)
      BY <1>1, <3>1, <3>2 DEF SlotInv, Locks
    <3>5. RowInv(s, agent)
      BY <3>1, <3>2, <3>4 DEF RowInv, Agents
    <3>6. \A q \in Requests : tx[q].id # id
      BY <3>1 DEF InUse
    <3>7. \A q \in Requests \ {r} : Pair(s, tx[q]) /\ Pair(tx[q], s)
      BY <3>2, <3>4, <3>6 DEF Pair
    <3>8. /\ IsFiniteSet((Agents \cup Held)')
          /\ Cardinality((Agents \cup Held)') <= Cardinality(Requests)
      <4> DEFINE X == {x \in Requests : Holder(tx'[x])}
                 H == Held'
                 f == [x \in X |-> tx'[x].id]
      <4>1. Agents' = {} /\ H = {tx'[q].id : q \in X}
        BY <3>1 DEF Agents, Held
      <4>2. f \in Surjection(X, H)
        BY <4>1 DEF Surjection
      <4>3. X \subseteq Requests
        OBVIOUS
      <4> HIDE DEF X, H, f
      <4>4. IsFiniteSet(X) /\ Cardinality(X) <= Cardinality(Requests)
        BY <4>3, FS_Subset
      <4>5. IsFiniteSet(H) /\ Cardinality(H) <= Cardinality(X)
        BY <4>2, <4>4, FS_Surjection
      <4>6. Cardinality(H) \in Nat /\ Cardinality(X) \in Nat /\ Cardinality(Requests) \in Nat
        BY <4>4, <4>5, FS_CardinalityType
      <4>7. IsFiniteSet(H) /\ Cardinality(H) <= Cardinality(Requests)
        BY <4>4, <4>5, <4>6
      <4>8. (Agents \cup Held)' = H
        BY <4>1 DEF H
      <4> QED
        BY <4>7, <4>8
    <3>9. \A q \in Requests : SlotInv(tx'[q]) /\ RowInv(tx'[q], agent')
      BY <3>1, <3>3, <3>4, <3>5 DEF IInv
    <3>10. \A p, q \in Requests : p # q => Pair(tx'[p], tx'[q])
      BY <3>3, <3>7 DEF IInv
    <3> QED
      BY <3>1, <3>3, <3>8, <3>9, <3>10 DEF IInv
  <2> QED
    BY <2>1, <2>2
<1>7. ASSUME NEW r \in Requests, Load(r) PROVE IInv'
  <2>1. CASE Finish(r)
    BY <1>2, <1>7, <2>1 DEF Load
  <2>2. CASE ~Finish(r)
    <3> DEFINE step == IF tx[r].kind = "run" THEN "scrape" ELSE "select"
               row == IF tx[r].kind = "delete" THEN NoAgent ELSE agent[tx[r].id]
               s == [tx[r] EXCEPT !.pc = step, !.loaded = row]
    <3>1. /\ tx[r].pc = "load" /\ tx[r].id \in Agents
          /\ tx' = [tx EXCEPT ![r] = s] /\ UNCHANGED <<agent, postings, found, aborts>>
      BY <1>7, <2>2 DEF Load, At, Is
    <3>2. row \in Row \cup {NoAgent} /\ (tx[r].kind # "delete" => row # NoAgent)
      BY <3>1 DEF IInv, Agents
    <3>3. /\ s \in Slot /\ s.kind = tx[r].kind /\ s.change = tx[r].change
          /\ s.id = tx[r].id /\ s.pc = step
          /\ s.scraped = tx[r].scraped /\ s.locked = tx[r].locked /\ s.loaded = row
      <4> HIDE DEF row
      <4> QED
        BY <1>1, <3>2 DEF Slot, Steps
    <3>4. tx[r].kind \in {"update", "run", "delete"}
      BY <1>1, <3>1 DEF SlotInv, Slot, Kinds
    <3> HIDE DEF s, row
    <3>5. SlotInv(s) /\ s.pc # "commit"
      BY <1>1, <3>1, <3>2, <3>3, <3>4 DEF SlotInv
    <3>6. Holder(s) => s.id \in Agents \cup Held
      BY <3>1, <3>3
    <3>7. s.id = tx[r].id
      BY <3>3
    <3> QED
      BY <3>1, <3>5, <3>6, <3>7, UnlockedMoves
  <2> QED
    BY <2>1, <2>2
<1>8. ASSUME NEW r \in Requests, Holder(tx[r]) PROVE tx[r].id \in Held
  BY <1>8 DEF Held
<1>9. ASSUME NEW r \in Requests, NEW result \in Results, Scrape(r, result) PROVE IInv'
  <2> DEFINE s == [tx[r] EXCEPT !.pc = "upsert", !.queue = result, !.scraped = InResult(result)]
  <2>1. /\ tx[r].pc = "scrape" /\ tx' = [tx EXCEPT ![r] = s]
        /\ UNCHANGED <<agent, postings, found, aborts>>
    BY <1>9 DEF Scrape, At
  <2>2. result \in Seq(Jobs) /\ InResult(result) \subseteq Jobs
    BY ElementOfSeq DEF InResult
  <2>3. /\ s \in Slot /\ s.kind = tx[r].kind /\ s.change = tx[r].change
        /\ s.id = tx[r].id /\ s.pc = "upsert"
        /\ s.loaded = tx[r].loaded /\ s.queue = result /\ s.scraped = InResult(result)
    BY <1>1, <2>2 DEF Slot, Steps
  <2> HIDE DEF s
  <2>4. SlotInv(s)
    BY <1>1, <2>1, <2>3 DEF SlotInv
  <2>5. Holder(s) => s.id \in Agents \cup Held
    BY <1>8, <2>1, <2>3 DEF Holder
  <2> QED
    BY <2>1, <2>3, <2>4, <2>5, UnlockedMoves
<1>10. ASSUME NEW r \in Requests, ScrapeFails(r) PROVE IInv'
  BY <1>2, <1>10 DEF ScrapeFails
<1>11. ASSUME NEW r \in Requests, Upsert(r) PROVE IInv'
  <2> DEFINE j == Head(tx[r].queue)
             s == [tx[r] EXCEPT !.queue = Tail(@), !.locked = @ \cup {j}]
  <2>1. /\ tx[r].pc = "upsert" /\ tx[r].queue # <<>> /\ tx' = [tx EXCEPT ![r] = s]
        /\ UNCHANGED <<agent, postings, found, aborts>>
    BY <1>11 DEF Upsert, At
  <2>2. tx[r].queue \in Seq(Jobs)
    BY <1>1 DEF Slot
  <2>3. j \in Jobs /\ Tail(tx[r].queue) \in Seq(Jobs)
    BY <2>1, <2>2, HeadTailProperties
  <2>4. InResult(tx[r].queue) \subseteq {j} \cup InResult(Tail(tx[r].queue))
    <3> DEFINE queue == tx[r].queue
               rest == Tail(queue)
    <3>1. /\ queue \in Seq(Jobs) /\ rest \in Seq(Jobs) /\ j = queue[1]
          /\ Len(rest) = Len(queue) - 1
          /\ \A i \in 1..Len(rest) : rest[i] = queue[i + 1]
      BY <2>1, <2>2, <2>3, HeadTailProperties
    <3> HIDE DEF queue, rest
    <3>2. ASSUME NEW i \in 1..Len(queue), i # 1 PROVE queue[i] \in InResult(rest)
      <4>1. i - 1 \in 1..Len(rest) /\ rest[i - 1] = queue[i]
        BY <3>1, <3>2
      <4> QED
        BY <3>1, <4>1 DEF InResult
    <3>3. InResult(queue) \subseteq {j} \cup InResult(rest)
      BY <3>1, <3>2 DEF InResult
    <3> QED
      BY <3>3 DEF queue, rest
  <2>5. /\ s \in Slot /\ s.kind = tx[r].kind /\ s.change = tx[r].change
        /\ s.id = tx[r].id /\ s.pc = "upsert"
        /\ s.loaded = tx[r].loaded /\ s.queue = Tail(tx[r].queue)
        /\ s.scraped = tx[r].scraped /\ s.locked = tx[r].locked \cup {j}
    <3> HIDE DEF j
    <3> QED
      BY <1>1, <2>1, <2>3 DEF Slot
  <2> HIDE DEF s, j
  <2>6. SlotInv(s)
    BY <1>1, <2>1, <2>4, <2>5 DEF SlotInv
  <2>7. Holder(s) => s.id \in Agents \cup Held
    BY <1>8, <2>1, <2>5 DEF Holder
  <2> QED
    BY <2>1, <2>5, <2>6, <2>7, UnlockedMoves
<1>12. ASSUME NEW r \in Requests, Upserted(r) PROVE IInv'
  <2> DEFINE step == IF tx[r].kind = "run" THEN "select" ELSE "commit"
             s == [tx[r] EXCEPT !.pc = step]
  <2>1. /\ tx[r].pc = "upsert" /\ tx[r].queue = <<>> /\ tx' = [tx EXCEPT ![r] = s]
        /\ UNCHANGED <<agent, postings, found, aborts>>
    BY <1>12 DEF Upserted, At, Goto, Is
  <2>2. /\ s \in Slot /\ s.kind = tx[r].kind /\ s.change = tx[r].change
        /\ s.id = tx[r].id /\ s.pc = step
        /\ s.loaded = tx[r].loaded /\ s.queue = tx[r].queue
        /\ s.scraped = tx[r].scraped /\ s.locked = tx[r].locked
    BY <1>1 DEF Slot, Steps
  <2>3. InResult(tx[r].queue) = {}
    BY <2>1 DEF InResult
  <2> HIDE DEF s
  <2>4. SlotInv(s)
    BY <1>1, <2>1, <2>2, <2>3 DEF SlotInv
  <2>5. Holder(s) => s.id \in Agents \cup Held
    BY <1>8, <2>1, <2>2 DEF Holder
  <2>6. s.pc # "commit" \/ s.kind = "search"
    BY <1>1, <2>1, <2>2 DEF SlotInv
  <2> QED
    BY <2>1, <2>2, <2>4, <2>5, <2>6, UnlockedMoves
<1>13. ASSUME NEW r \in Requests, DeadlockDetected(r) PROVE IInv'
  BY <1>2, <1>13 DEF DeadlockDetected
<1>14. ASSUME NEW r \in Requests, Abort(r) PROVE IInv'
  <2>1. aborts' \in 0..MaxAborts
    BY <1>14 DEF Abort, IInv
  <2> QED
    BY <1>14, <2>1, FinishKeeps DEF Abort
<1>15. ASSUME NEW r \in Requests, Select(r) PROVE IInv'
  <2>1. CASE Finish(r)
    BY <1>2, <1>15, <2>1 DEF Select
  <2>2. CASE ~Finish(r)
    <3> DEFINE now == agent[tx[r].id]
               step == IF tx[r].kind = "delete" THEN "delete" ELSE "flush"
               row == IF tx[r].kind = "delete" THEN tx[r].base ELSE now
               s == [tx[r] EXCEPT !.pc = step, !.base = row]
    <3>1. tx[r].pc = "select" /\ UNCHANGED <<agent, postings, found, aborts>>
      BY <1>15 DEF Select, At
    <3>2. tx[r].kind \in {"update", "run", "delete"} /\ tx[r].id \in Ids
      BY <1>1, <3>1 DEF SlotInv, Slot, Kinds
    <3>3. tx' = [tx EXCEPT ![r] = s]
      <4>1. tx[r] = [tx[r] EXCEPT !.base = tx[r].base]
        BY <1>1 DEF Slot
      <4>2. CASE tx[r].kind = "delete"
        <5>1. tx' = [tx EXCEPT ![r].pc = "delete"]
          BY <1>15, <2>2, <4>2 DEF Select, Goto, Is
        <5>2. s = [tx[r] EXCEPT !.pc = "delete"]
          BY <1>1, <4>2 DEF Slot
        <5> QED
          BY <5>1, <5>2
      <4>3. CASE tx[r].kind # "delete"
        BY <1>15, <2>2, <4>3 DEF Select, Goto, Is
      <4> QED
        BY <4>2, <4>3
    <3>4. now \in Row \cup {NoAgent} /\ tx[r].base \in Row \cup {NoAgent}
      BY <1>1, <3>2 DEF IInv, Slot
    <3>5. /\ s \in Slot /\ s.kind = tx[r].kind /\ s.change = tx[r].change
          /\ s.id = tx[r].id /\ s.pc = step
          /\ s.loaded = tx[r].loaded
          /\ s.scraped = tx[r].scraped /\ s.locked = tx[r].locked
      <4> HIDE DEF now
      <4> QED
        BY <1>1, <3>4 DEF Slot, Steps
    <3> HIDE DEF s, now, row
    <3>6. SlotInv(s) /\ s.pc # "commit"
      BY <1>1, <3>1, <3>2, <3>5 DEF SlotInv
    <3>7. Holder(s) => s.id \in Agents \cup Held
      BY <1>8, <3>1, <3>5 DEF Holder
    <3>8. s.id = tx[r].id
      BY <3>5
    <3> QED
      BY <3>1, <3>3, <3>6, <3>7, <3>8, UnlockedMoves
  <2> QED
    BY <2>1, <2>2
\* The flush gets the lock of the row, if it writes.
<1>16. ASSUME NEW r \in Requests, Flush(r) \/ DeleteRow(r) PROVE IInv'
  <2>1. CASE Finish(r)
    BY <1>2, <1>16, <2>1 DEF Flush, DeleteRow
  <2>2. CASE ~Finish(r)
    <3> DEFINE s == [tx[r] EXCEPT !.pc = "commit"]
    <3>1. /\ tx[r].pc \in {"flush", "delete"} /\ tx' = [tx EXCEPT ![r] = s]
          /\ UNCHANGED <<agent, postings, found, aborts>>
      BY <1>16, <2>2 DEF Flush, DeleteRow, At, Goto
    <3>2. /\ s \in Slot /\ s.kind = tx[r].kind /\ s.change = tx[r].change
          /\ s.id = tx[r].id /\ s.pc = "commit"
          /\ s.loaded = tx[r].loaded /\ s.base = tx[r].base /\ s.change = tx[r].change
          /\ s.scraped = tx[r].scraped /\ s.locked = tx[r].locked
      BY <1>1 DEF Slot, Steps
    <3>3. s.kind \in {"update", "run", "delete"} /\ s.id \in Ids
      BY <1>1, <3>1, <3>2 DEF SlotInv
    <3>4. Locks(s) => AgentFree(s.id)
      <4>1. Mine(r) = After(s)
        BY <3>2 DEF Mine, After
      <4>2. Locks(s) /\ s.kind # "delete" => Writes(r)
        BY <3>2, <3>3, <4>1 DEF Locks, Writes, Is
      <4> QED
        BY <1>1, <1>16, <2>2, <3>2, <4>2 DEF Flush, DeleteRow, At, SlotInv
    <3>5. s.kind # "delete" /\ s.base # NoAgent => agent[s.id] # NoAgent
      BY <1>1, <1>16, <2>2, <3>2 DEF Flush, DeleteRow, At, SlotInv
    <3> HIDE DEF s
    <3>6. SlotInv(s) /\ RowInv(s, agent)
      BY <1>1, <3>1, <3>2, <3>3, <3>5 DEF SlotInv, RowInv
    <3>7. ASSUME NEW q \in Requests \ {r} PROVE Pair(s, tx[q]) /\ Pair(tx[q], s)
      <4>1. Locks(s) /\ Locks(tx[q]) => s.id # tx[q].id
        <5> SUFFICES ASSUME Locks(s), Locks(tx[q]) PROVE ~HoldsAgent(q, s.id) => s.id # tx[q].id
          BY <3>4 DEF AgentFree
        <5>1. tx[q].pc = "commit" /\ tx[q].kind # "create"
              /\ (tx[q].kind = "delete" \/ Writes(q))
          BY DEF Locks, Writes, Is, After, Mine
        <5> QED
          BY <5>1 DEF HoldsAgent, At, Is
      <4>2. tx[q].kind = "create" /\ tx[q].pc = "commit" => s.id # tx[q].id
        BY <3>2, <3>7 DEF IInv, Pair
      <4> QED
        BY <3>3, <4>1, <4>2 DEF Pair
    <3>8. Holder(s) => s.id \in Agents \cup Held
      BY <1>1, <1>8, <3>1, <3>2 DEF Holder, SlotInv
    <3>9. aborts' \in 0..MaxAborts
      BY <3>1 DEF IInv
    <3> QED
      BY <3>1, <3>6, <3>7, <3>8, <3>9, OneMoves
  <2> QED
    BY <2>1, <2>2
<1>17. ASSUME NEW r \in Requests, Commit(r) PROVE IInv'
  <2> DEFINE s == tx[r]
             id == tx[r].id
  <2>1. /\ s.pc = "commit" /\ s \in Slot /\ SlotInv(s) /\ RowInv(s, agent)
        /\ aborts' = aborts /\ tx' = [tx EXCEPT ![r] = Idle]
    BY <1>1, <1>17 DEF Commit, At, Finish
  <2>2. tx' \in [Requests -> Slot] /\ tx'[r] = Idle
        /\ \A q \in Requests \ {r} : tx'[q] = tx[q]
    BY <2>1, IdleHolds DEF IInv, SlotInv
  <2>3. postings' \subseteq Jobs /\ found' \subseteq postings'
    BY <1>17, <2>1 DEF Commit, IInv, SlotInv, Slot
  \* What is committed is a row or none, and a row of a holder.
  <2>4. /\ agent' \in [Ids -> Row \cup {NoAgent}]
        /\ \A i \in Ids : i # id => agent'[i] = agent[i]
        /\ agent' # agent => Locks(s) \/ s.kind = "create"
        /\ agent' # agent /\ agent'[id] # NoAgent => Holder(s)
    <3>1. CASE s.kind = "search"
      BY <1>17, <3>1 DEF Commit, Is, IInv
    <3>2. CASE s.kind # "search"
      <4>1. agent' = [agent EXCEPT ![id] = Saved(r)] /\ id \in Ids
        BY <1>17, <2>1, <3>2 DEF Commit, Is, SlotInv, Slot, Kinds
      <4>2. CASE s.kind = "create"
        <5>1. Saved(r) \in Row /\ Holder(s)
          BY <2>1, <4>2 DEF Saved, Is, NewAgent, Row, Holder
        <5> QED
          BY <4>1, <4>2, <5>1 DEF IInv
      <4>3. CASE s.kind = "delete"
        <5>1. Saved(r) = NoAgent /\ Locks(s)
          BY <2>1, <4>3 DEF Saved, Is, Locks
        <5> QED
          BY <4>1, <5>1 DEF IInv
      <4>4. CASE s.kind \in {"update", "run"}
        <5>1. Mine(r) = After(s) /\ (Writes(r) <=> Locks(s)) /\ Holder(s)
          BY <2>1, <4>4 DEF Mine, After, Writes, Locks, Is, Holder
        <5>2. s.loaded \in Row /\ s.change \in Change
          BY <2>1, <4>4 DEF SlotInv, Slot
        <5>3. After(s) \in Row
          <6>1. s.change.value \in Values
            BY <5>2 DEF Change, Updates, Runs, NoChange
          <6> QED
            BY <5>2, <6>1 DEF After, Row
        <5>4. CASE ~Writes(r)
          <6>1. Saved(r) = agent[id]
            BY <4>4, <5>4 DEF Saved, Is
          <6>2. agent' = agent
            BY <4>1, <6>1 DEF IInv
          <6> QED
            BY <6>2 DEF IInv
        <5>5. CASE Writes(r)
          <6>1. Saved(r) \in Row
            <7>1. CASE s.base = NoAgent
              BY <4>4, <5>1, <5>3, <5>5, <7>1 DEF Saved, Is
            <7>2. CASE s.base # NoAgent
              <8>1. agent[id] \in Row /\ s.base \in Row
                BY <2>1, <4>1, <4>4, <5>1, <5>5, <7>2 DEF RowInv, IInv, Slot
              <8> DEFINE dirty == DirtyColumns(s.base, After(s), agent[id])
              <8>2. Saved(r) = dirty \/ Saved(r) = [dirty EXCEPT !["ran"] = s.change.value]
                BY <4>4, <5>1, <5>5, <7>2 DEF Saved, Is
              <8>3. s.change.value \in Values
                BY <5>2 DEF Change, Updates, Runs, NoChange
              <8>4. dirty \in Row
                <9> HIDE DEF s, id
                <9> QED
                  BY <5>3, <8>1 DEF DirtyColumns, Row
              <8> HIDE DEF dirty
              <8> QED
                BY <8>2, <8>3, <8>4 DEF Row
            <7> QED
              BY <7>1, <7>2
          <6> QED
            BY <4>1, <5>1, <5>5, <6>1 DEF IInv
        <5> QED
          BY <5>4, <5>5
      <4> QED
        BY <2>1, <3>2, <4>2, <4>3, <4>4 DEF Slot, Kinds
    <3> QED
      BY <3>1, <3>2
  <2>5. (Agents \cup Held)' \subseteq Agents \cup Held
    <3>1. Agents' \subseteq Agents \cup Held
      <4> SUFFICES ASSUME NEW i \in Ids, agent'[i] # NoAgent, agent[i] = NoAgent
                   PROVE  i \in Held
        BY DEF Agents
      <4>1. i = id /\ Holder(s)
        BY <2>4
      <4> QED
        BY <1>8, <4>1
    <3>2. Held' \subseteq Held
      BY <2>2, IdleHolds DEF Held
    <3> QED
      BY <3>1, <3>2
  <2>6. ASSUME NEW q \in Requests \ {r} PROVE SlotInv(tx[q]) /\ RowInv(tx[q], agent')
    <3>1. SlotInv(tx[q]) /\ RowInv(tx[q], agent) /\ Pair(s, tx[q]) /\ Pair(tx[q], s)
      BY <2>6 DEF IInv
    <3>2. CASE agent' = agent
      BY <3>1, <3>2
    <3>3. CASE agent' # agent
      <4>1. Locks(tx[q]) => tx[q].id # id /\ tx[q].id \in Ids
        BY <2>1, <2>4, <3>1, <3>3 DEF Pair, SlotInv, Locks
      <4>2. tx[q].kind = "create" /\ tx[q].pc = "commit" => tx[q].id # id /\ tx[q].id \in Ids
        BY <3>1 DEF Pair, SlotInv
      <4> QED
        BY <2>4, <3>1, <4>1, <4>2 DEF RowInv
    <3> QED
      BY <3>2, <3>3
  <2>7. \A q \in Requests : SlotInv(tx'[q]) /\ RowInv(tx'[q], agent')
    BY <2>2, <2>6, IdleHolds
  <2>8. \A p, q \in Requests : p # q => Pair(tx'[p], tx'[q])
    <3>1. \A q \in Requests : Pair(Idle, tx[q]) /\ Pair(tx[q], Idle)
      <4>1. \A q \in Requests :
              tx[q].kind = "create" /\ tx[q].pc = "commit" => tx[q].id # NoId
        BY <1>1 DEF SlotInv, Ids, NoId
      <4> QED
        BY <4>1, IdleHolds DEF Pair
    <3> QED
      BY <2>2, <3>1 DEF IInv
  <2>9. /\ IsFiniteSet((Agents \cup Held)')
        /\ Cardinality((Agents \cup Held)') <= Cardinality(Requests)
    BY <2>5, CountKeeps
  <2> QED
    BY <2>1, <2>2, <2>3, <2>4, <2>7, <2>8, <2>9 DEF IInv
<1>18. CASE Next
  <2> PICK r \in Requests :
        \/ \E kind \in {"create", "search"} : Begin(r, kind)
        \/ \E id \in Ids :
             \/ \E c \in Updates : BeginOn(r, "update", id, c)
             \/ \E c \in Runs : BeginOn(r, "run", id, c)
             \/ BeginOn(r, "delete", id, NoChange)
        \/ Step(r) \/ DeadlockDetected(r) \/ Abort(r)
    BY <1>18 DEF Next
  <2>1. CASE \E id \in Ids :
             \/ \E c \in Updates : BeginOn(r, "update", id, c)
             \/ \E c \in Runs : BeginOn(r, "run", id, c)
             \/ BeginOn(r, "delete", id, NoChange)
    BY <1>5, <2>1 DEF Change
  <2> QED
    BY <1>4, <1>6, <1>7, <1>9, <1>10, <1>11, <1>12, <1>13, <1>14, <1>15, <1>16, <1>17,
       <2>1 DEF Step
<1> QED
  BY <1>3, <1>18

LEMMA InvariantHolds == Spec => []IInv
BY InitHolds, NextKeeps, PTL DEF Spec

-----------------------------------------------------------------------------
(* The theorems *)

\* Rows and requests keep their types: what a flush of some of the columns
\* leaves is a whole row or none.
THEOREM TypeCorrect == Spec => []TypeOK
<1>1. IInv => TypeOK
  <2> SUFFICES ASSUME IInv, NEW r \in Requests
               PROVE  /\ tx[r].pc \in Steps /\ tx[r].kind \in Kinds
                      /\ tx[r].id \in Ids \cup {NoId}
                      /\ tx[r].change \in Updates \cup Runs \cup {NoChange}
                      /\ {tx[r].loaded, tx[r].base} \subseteq Row \cup {NoAgent}
                      /\ tx[r].locked \subseteq Jobs /\ tx[r].scraped \subseteq Jobs
    BY DEF IInv, TypeOK
  <2>1. tx[r] \in Slot
    BY DEF IInv
  <2> QED
    BY <2>1 DEF Slot, Change
<1> QED
  BY <1>1, InvariantHolds, PTL

\* The candidate never has more agents than there are requests in progress at
\* one time, although nothing but a look before an insert keeps them to one.
THEOREM AgentsAreBounded == Spec => []AgentsBounded
<1>1. IInv => AgentsBounded
  <2> SUFFICES ASSUME IInv PROVE Cardinality(Agents) <= Cardinality(Requests)
    BY DEF AgentsBounded
  <2> DEFINE U == Agents \cup Held
  <2>1. IsFiniteSet(U) /\ Cardinality(U) <= Cardinality(Requests) /\ Agents \subseteq U
    BY DEF IInv
  <2> HIDE DEF U
  <2>2. IsFiniteSet(Agents) /\ Cardinality(Agents) <= Cardinality(U)
    BY <2>1, FS_Subset
  <2>3. Cardinality(Agents) \in Nat /\ Cardinality(U) \in Nat /\ Cardinality(Requests) \in Nat
    BY <2>1, <2>2, SearchAssumption, FS_CardinalityType
  <2> QED
    BY <2>1, <2>2, <2>3
<1> QED
  BY <1>1, InvariantHolds, PTL

\* Whatever a run or search answered with has been stored, however many
\* requests scrape the same jobs, wait for each other and are rolled back.
THEOREM AnswersAreStored == Spec => []AnsweredIsStored
<1>1. IInv => AnsweredIsStored
  BY DEF IInv, AnsweredIsStored
<1> QED
  BY <1>1, InvariantHolds, PTL

\* Between the second read of a request and its commit other requests may
\* write other columns, or delete the row and bring it back: a request whose
\* two reads agreed changes its own column of what is there, and nothing else.
THEOREM ChangesAreNarrow == Spec => ChangesWhatWasAsked
<1> DEFINE Narrow(r) ==
      LET id == tx[r].id IN
      tx[r].kind \in {"update", "run"} /\ At(r, "commit") /\ agent' # agent
        /\ tx'[r] = Idle /\ tx[r].loaded = tx[r].base
      => /\ agent[id] # NoAgent
         /\ agent'[id] = [agent[id] EXCEPT ![tx[r].change.column] = tx[r].change.value]
<1>1. ASSUME IInv, Next, NEW r \in Requests PROVE Narrow(r)
  <2> DEFINE s == tx[r]
             id == tx[r].id
             column == tx[r].change.column
             value == tx[r].change.value
  <2> SUFFICES ASSUME s.kind \in {"update", "run"}, s.pc = "commit", agent' # agent,
                      tx'[r] = Idle, s.loaded = s.base
               PROVE  /\ agent[id] # NoAgent
                      /\ agent'[id] = [agent[id] EXCEPT ![column] = value]
    BY DEF At
  <2>1. s \in Slot /\ SlotInv(s) /\ RowInv(s, agent) /\ id \in Ids
    BY <1>1 DEF IInv, SlotInv
  \* No other request commits when r becomes idle.
  <2>2. Commit(r)
    <3>1. PICK q \in Requests : Commit(q)
      BY <1>1 DEF Next, Begin, BeginOn, Step, CheckExisting, Load, Select, Flush, DeleteRow,
         Scrape, ScrapeFails, Upsert, Upserted, DeadlockDetected, Abort
    <3>2. q # r => tx'[r] = tx[r]
      BY <1>1, <3>1 DEF Commit, Finish, IInv
    <3>3. q = r
      BY <3>2 DEF Idle
    <3> QED
      BY <3>1, <3>3
  <2>3. agent' = [agent EXCEPT ![id] = Saved(r)]
    BY <2>2 DEF Commit, Is
  <2>4. Saved(r) # agent[id]
    BY <1>1, <2>1, <2>3 DEF IInv
  <2>5. Mine(r) = [s.base EXCEPT ![column] = value] /\ Mine(r) = After(s)
    BY DEF Mine, After
  <2>6. Writes(r) /\ Locks(s)
    BY <2>4, <2>5 DEF Saved, Is, Writes, Locks
  <2>7. s.base \in Row /\ agent[id] \in Row
    BY <1>1, <2>1, <2>6 DEF SlotInv, RowInv, Slot, IInv
  <2>8. value \in Values /\ (s.kind = "update" => value # s.base[column])
    <3>1. s.change \in Change
      BY <2>1 DEF Slot
    <3>2. value \in Values
      BY <3>1, SearchAssumption DEF Change, Updates, Runs, NoChange
    <3>3. s.kind = "update" => Mine(r) # s.base
      BY <2>6 DEF Writes, Is
    <3> HIDE DEF s, value, column
    <3>4. value = s.base[column] => [s.base EXCEPT ![column] = value] = s.base
      BY <2>7 DEF Row
    <3> QED
      BY <2>5, <3>2, <3>3, <3>4
  <2>9. Saved(r) = IF s.kind = "update"
                   THEN DirtyColumns(s.base, [s.base EXCEPT ![column] = value], agent[id])
                   ELSE [DirtyColumns(s.base, [s.base EXCEPT ![column] = value], agent[id])
                           EXCEPT !["ran"] = value]
    BY <2>5, <2>6, <2>7, NoAgentAssumption DEF Saved, Is
  <2>10. s.kind = "run" => column = "ran"
    BY <2>1 DEF SlotInv
  <2>11. Saved(r) = [agent[id] EXCEPT ![column] = value]
    <3> DEFINE base == s.base
               row == agent[id]
               dirty == DirtyColumns(base, [base EXCEPT ![column] = value], row)
    <3>1. base \in Row /\ row \in Row /\ (s.kind = "update" => value # base[column])
      BY <2>7, <2>8
    <3> HIDE DEF s, id, column, value, base, row
    <3>2. /\ dirty \in [Columns -> Values]
          /\ \A c \in Columns : c # column => dirty[c] = row[c]
          /\ column \in Columns /\ value # base[column] => dirty[column] = value
      BY <2>8, <3>1 DEF DirtyColumns, Row
    <3> HIDE DEF dirty
    <3>3. CASE s.kind = "update"
      <4>1. dirty = [row EXCEPT ![column] = value]
        BY <2>8, <3>1, <3>2, <3>3 DEF Row
      <4> QED
        BY <2>9, <3>3, <4>1 DEF dirty, base, row
    <3>4. CASE s.kind # "update"
      <4>1. [dirty EXCEPT !["ran"] = value] = [row EXCEPT !["ran"] = value]
        BY <2>8, <3>1, <3>2, <2>10, <3>4 DEF Row
      <4>2. column = "ran"
        BY <2>10, <3>4 DEF s
      <4> QED
        BY <2>9, <3>4, <4>1, <4>2 DEF dirty, base, row
    <3> QED
      BY <3>3, <3>4
  <2> QED
    BY <1>1, <2>1, <2>3, <2>7, <2>11, NoAgentAssumption DEF IInv
<1>2. IInv /\ [Next]_vars => [\A r \in Requests : Narrow(r)]_vars
  BY <1>1
<1> QED
  BY <1>2, InvariantHolds, PTL DEF Spec, ChangesWhatWasAsked

-----------------------------------------------------------------------------
(* Nobody waits for ever: the part of SomeoneCanMove that is about locks     *)

IdleLocksNothing == \A r \in Requests : At(r, "idle") => tx[r].locked = {}

\* The next statement of r waits for a lock that another request holds.
Blocked(r) ==
  \/ \E q \in Requests : WaitsFor(r, q)
  \/ tx[r].pc \in {"flush", "delete"} /\ ~AgentFree(tx[r].id)

LEMMA IdleLocksKeeps ==
  ASSUME IInv, IdleLocksNothing, [Next]_vars
  PROVE  IdleLocksNothing'
<1>1. CASE UNCHANGED vars
  BY <1>1 DEF vars, IdleLocksNothing, At
<1>2. ASSUME NEW r \in Requests, NEW s, tx' = [tx EXCEPT ![r] = s],
             s = Idle \/ s.pc # "idle"
      PROVE  IdleLocksNothing'
  BY <1>2 DEF IdleLocksNothing, At, Idle, IInv
<1>3. ASSUME NEW r \in Requests, Finish(r)
      PROVE  IdleLocksNothing'
  BY <1>2, <1>3 DEF Finish
<1>4. ASSUME NEW r \in Requests, NEW step \in Steps \ {"idle"}, Goto(r, step)
      PROVE  IdleLocksNothing'
  <2> DEFINE s == [tx[r] EXCEPT !.pc = step]
  <2>1. tx' = [tx EXCEPT ![r] = s] /\ s.pc = step
    BY <1>4 DEF Goto, IInv, Slot
  <2> QED
    BY <1>2, <2>1
<1>5. ASSUME NEW r \in Requests, NEW kind, Begin(r, kind)
      PROVE  IdleLocksNothing'
  BY <1>2, <1>5 DEF Begin, Idle
<1>6. ASSUME NEW r \in Requests, NEW kind, NEW id, NEW c, BeginOn(r, kind, id, c)
      PROVE  IdleLocksNothing'
  BY <1>2, <1>6 DEF BeginOn, Idle
\* The other steps of a request leave it in progress.
<1>7. ASSUME NEW r \in Requests, ~Finish(r),
             \/ \E id \in Ids : CheckExisting(r, id)
             \/ Load(r) \/ (\E result \in Results : Scrape(r, result))
             \/ Upsert(r) \/ Select(r)
      PROVE  IdleLocksNothing'
  <2>1. tx[r] \in Slot
    BY DEF IInv
  <2>2. CASE \E id \in Ids : CheckExisting(r, id)
    <3>1. PICK id \in Ids : tx' = [tx EXCEPT ![r].pc = "commit", ![r].id = id]
      BY <1>7, <2>2 DEF CheckExisting
    <3>2. [tx[r] EXCEPT !.pc = "commit", !.id = id].pc = "commit"
      BY <2>1 DEF Slot
    <3> QED
      BY <1>2, <3>1, <3>2
  <2>3. CASE Load(r)
    <3> DEFINE step == IF Is(r, "run") THEN "scrape" ELSE "select"
               row == IF Is(r, "delete") THEN NoAgent ELSE agent[tx[r].id]
               s == [tx[r] EXCEPT !.pc = step, !.loaded = row]
    <3>1. tx' = [tx EXCEPT ![r] = s]
      BY <1>7, <2>3 DEF Load
    <3>2. s.pc # "idle"
      BY <2>1 DEF Slot
    <3> HIDE DEF s
    <3> QED
      BY <1>2, <3>1, <3>2
  <2>4. CASE \E result \in Results : Scrape(r, result)
    <3>1. PICK result \in Results : Scrape(r, result)
      BY <2>4
    <3> DEFINE s == [tx[r] EXCEPT !.pc = "upsert", !.queue = result,
                                  !.scraped = InResult(result)]
    <3>2. tx' = [tx EXCEPT ![r] = s] /\ s.pc # "idle"
      BY <2>1, <3>1 DEF Scrape, Slot
    <3> HIDE DEF s
    <3> QED
      BY <1>2, <3>2
  <2>5. CASE Upsert(r)
    <3> DEFINE s == [tx[r] EXCEPT !.queue = Tail(tx[r].queue),
                       !.locked = tx[r].locked \cup {Head(tx[r].queue)}]
    <3>1. tx' = [tx EXCEPT ![r] = s]
      BY <2>5 DEF Upsert
    <3>2. s.pc = "upsert"
      BY <2>1, <2>5 DEF Upsert, At, Slot
    <3> QED
      BY <1>2, <3>1, <3>2
  <2>6. CASE Select(r)
    <3>1. CASE Goto(r, "delete")
      BY <1>4, <3>1 DEF Steps
    <3>2. CASE ~Goto(r, "delete")
      <4> DEFINE s == [tx[r] EXCEPT !.pc = "flush", !.base = agent[tx[r].id]]
      <4>1. tx' = [tx EXCEPT ![r] = s]
        BY <1>7, <2>6, <3>2 DEF Select
      <4>2. s.pc = "flush"
        BY <2>1 DEF Slot
      <4> QED
        BY <1>2, <4>1, <4>2
    <3> QED
      BY <3>1, <3>2
  <2> QED
    BY <1>7, <2>2, <2>3, <2>4, <2>5, <2>6
<1>8. ASSUME NEW r \in Requests,
             \/ ScrapeFails(r) \/ Upserted(r) \/ DeadlockDetected(r)
             \/ Flush(r) \/ DeleteRow(r) \/ Commit(r) \/ Abort(r)
      PROVE  IdleLocksNothing'
  <2>1. Finish(r) \/ (\E step \in Steps \ {"idle"} : Goto(r, step))
    BY <1>8 DEF ScrapeFails, Upserted, DeadlockDetected, Flush, DeleteRow, Commit,
                Abort, Steps
  <2> QED
    BY <1>3, <1>4, <2>1
<1> QED
  BY <1>1, <1>3, <1>5, <1>6, <1>7, <1>8 DEF Next, Step

\* While requests are in progress, one of them waits for no lock, or some of
\* them wait in a circle, one of which the database fails.  A request that has
\* the lock of an agent has nothing left to do but commit, so that the locks of
\* agents close no circle.
THEOREM LocksNeverStall ==
  Spec => []((\E r \in Requests : ~At(r, "idle")) =>
               \/ \E r \in Requests : ~At(r, "idle") /\ ~Blocked(r)
               \/ \E S \in SUBSET Requests : Circle(S))
<1>1. Init => IdleLocksNothing
  BY DEF Init, IdleLocksNothing, Idle
<1>2. Spec => []IdleLocksNothing
  BY <1>1, IdleLocksKeeps, InvariantHolds, PTL DEF Spec
<1>3. IdleLocksNothing =>
        ((\E r \in Requests : ~At(r, "idle")) =>
           \/ \E r \in Requests : ~At(r, "idle") /\ ~Blocked(r)
           \/ \E S \in SUBSET Requests : Circle(S))
  <2> DEFINE Busy == {r \in Requests : ~At(r, "idle")}
  <2> SUFFICES ASSUME IdleLocksNothing, Busy # {}, \A r \in Busy : Blocked(r)
               PROVE  Circle(Busy)
    OBVIOUS
  <2>1. \A r \in Requests : ~At(r, "commit")
    BY DEF At, Blocked, WaitsFor
  <2>2. ASSUME NEW r \in Busy PROVE \E q \in Busy : WaitsFor(r, q)
    <3>1. PICK q \in Requests : WaitsFor(r, q)
      BY <2>1 DEF Blocked, AgentFree, HoldsAgent
    <3>2. tx[q].locked # {}
      BY <3>1 DEF WaitsFor
    <3> QED
      BY <3>1, <3>2 DEF IdleLocksNothing
  <2> QED
    BY <2>2 DEF Circle
<1> QED
  BY <1>2, <1>3, PTL
=============================================================================
