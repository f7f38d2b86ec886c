----------------------------- MODULE Catalogue -----------------------------
(***************************************************************************)
(* The prices at Stripe, edited by hand in its dashboard, and their copy   *)
(* in billing_prices: GET /stripe/sync-prices lists the active prices and  *)
(* upserts them one by one in one READ COMMITTED transaction, and a signup *)
(* looks for the active price of the freemium plan in the copy.  Currency, *)
(* amount and interval are abstracted to whether there is an interval.     *)
(***************************************************************************)
EXTENDS Naturals, FiniteSets, SequencesExt

CONSTANTS MaxPrices,  \* bound on the prices ever made
          Plans,
          NoPlan,     \* missing or unknown in the metadata
          Absent,
          Syncs,      \* requests
          PageSize,   \* prices in one answer of Stripe
          MaxEdits,   \* bound on the edits in the dashboard
          MaxAborts   \* bound on the crashes and lost connections

VARIABLES
  stripe,   \* stripe[p] : the price at Stripe, or Absent; a later p is newer
  rows,     \* rows[p] : the committed row of billing_prices, or Absent
  tx,       \* tx[r] : progress and local variables of sync r
  offered,  \* history: <<p, plan>> such that p was active and of that plan
  edits, aborts

vars == <<stripe, rows, tx, offered, edits, aborts>>

Prices == 1..MaxPrices

\* recurs : it has an interval; a one-time price makes list_prices fail.
Price == [plan : Plans \cup {NoPlan}, active : BOOLEAN, recurs : BOOLEAN]
Row == [plan : Plans, active : BOOLEAN]
Steps == {"idle", "list", "upsert"}

\* done : the rows written, and locked, but not committed.
NoPrices == [p \in Prices |-> Absent]
Idle == [pc |-> "idle", todo |-> <<>>, listed |-> NoPrices, done |-> {}]

Init ==
  /\ stripe = NoPrices /\ rows = NoPrices
  /\ tx = [r \in Syncs |-> Idle]
  /\ offered = {} /\ edits = 0 /\ aborts = 0

At(r, step) == tx[r].pc = step
Finish(r) == tx' = [tx EXCEPT ![r] = Idle]

-----------------------------------------------------------------------------
(* The dashboard: a price is made, archived, taken back, or labelled with     *)
(* another plan, in its metadata or in that of its product.                  *)

Edit(p, price) ==
  /\ edits < MaxEdits
  /\ stripe[p] = Absent => \A q \in Prices : q < p => stripe[q] # Absent
  /\ stripe[p] # Absent => price # stripe[p] /\ price.recurs = stripe[p].recurs
  /\ stripe' = [stripe EXCEPT ![p] = price]
  /\ offered' = IF price.active THEN offered \cup {<<p, price.plan>>} ELSE offered
  /\ edits' = edits + 1
  /\ UNCHANGED <<rows, tx, aborts>>

-----------------------------------------------------------------------------
(* Synchronization                                                           *)

Active == {p \in Prices : stripe[p] # Absent /\ stripe[p].active}
OnPage == {p \in Active : Cardinality({q \in Active : q > p}) < PageSize}

\* Faulty variant for SyncsWaitInLine: the answer is taken as a set.
AnyOrder(S) == SetToSeqs(S)

\* Price.list answers with the newest first.
ListOrders(S) ==
  {order \in SetToSeqs(S) :
     \A i, j \in DOMAIN order : i < j => order[i] > order[j]}

Begin(r) ==
  /\ At(r, "idle")
  /\ tx' = [tx EXCEPT ![r].pc = "list"]
  /\ UNCHANGED <<stripe, rows, offered, edits, aborts>>

\* Faulty variant for LookupIsUnique: without a plan a price is freemium.
PlanOrDefault(price) == IF price.plan = NoPlan THEN CHOOSE f \in Plans : TRUE
                        ELSE price.plan

\* What the row of a price gets; NoPlan: the price is skipped.
PlanOf(price) == price.plan

\* list_prices, and the prices of a plan among them.  A one-time price
\* ends the request.
List(r) ==
  /\ At(r, "list")
  /\ IF \E p \in OnPage : ~stripe[p].recurs THEN Finish(r)
     ELSE \E order \in ListOrders({p \in OnPage : PlanOf(stripe[p]) # NoPlan}) :
            tx' = [tx EXCEPT ![r].pc = "upsert", ![r].todo = order,
                     ![r].listed = [p \in Prices |->
                        IF p \in Range(order) THEN stripe[p] ELSE Absent]]
  /\ UNCHANGED <<stripe, rows, offered, edits, aborts>>

Locked(r, p) == \E q \in Syncs \ {r} : p \in tx[q].done

\* Faulty variant for TypeOK: the row is not locked.
UpsertAtOnce(r) ==
  /\ At(r, "upsert") /\ tx[r].todo # <<>>
  /\ tx' = [tx EXCEPT ![r].todo = Tail(@), ![r].done = @ \cup {Head(tx[r].todo)}]
  /\ UNCHANGED <<stripe, rows, offered, edits, aborts>>

\* INSERT ... ON CONFLICT (stripe_price_id) DO UPDATE waits for another sync
\* that has written the price.
Upsert(r) ==
  /\ At(r, "upsert") /\ tx[r].todo # <<>>
  /\ ~Locked(r, Head(tx[r].todo))
  /\ tx' = [tx EXCEPT ![r].todo = Tail(@), ![r].done = @ \cup {Head(tx[r].todo)}]
  /\ UNCHANGED <<stripe, rows, offered, edits, aborts>>

\* A price that was not listed keeps its row as it is, and stays active there.
Commit(r) ==
  /\ At(r, "upsert") /\ tx[r].todo = <<>>
  /\ rows' = [p \in Prices |-> IF p \in tx[r].done
       THEN [plan |-> PlanOf(tx[r].listed[p]), active |-> tx[r].listed[p].active]
       ELSE rows[p]]
  /\ Finish(r)
  /\ UNCHANGED <<stripe, offered, edits, aborts>>

\* A crash, a lost connection, or an error from Stripe: rollback.
Abort(r) ==
  /\ aborts < MaxAborts /\ ~At(r, "idle")
  /\ aborts' = aborts + 1
  /\ Finish(r)
  /\ UNCHANGED <<stripe, rows, offered, edits>>

Step(r) == Begin(r) \/ List(r) \/ Upsert(r) \/ Commit(r)

Next ==
  \/ \E p \in Prices, price \in Price : Edit(p, price)
  \/ \E r \in Syncs : Step(r) \/ Abort(r)

Spec == Init /\ [][Next]_vars

-----------------------------------------------------------------------------
(* Properties *)

\* get_active_by_plan raises when it finds more than one.
ActiveByPlan(plan) ==
  {p \in Prices : rows[p] # Absent /\ rows[p].plan = plan /\ rows[p].active}

\* Types: no price is upserted twice by a sync, and none by two syncs at a
\* time (the row is locked).
TypeOK ==
  /\ stripe \in [Prices -> Price \cup {Absent}]
  /\ rows \in [Prices -> Row \cup {Absent}]
  /\ offered \subseteq Prices \X (Plans \cup {NoPlan})
  /\ edits \in 0..MaxEdits /\ aborts \in 0..MaxAborts
  /\ \A r \in Syncs :
       /\ tx[r].pc \in Steps
       /\ tx[r].listed \in [Prices -> Price \cup {Absent}]
       /\ Range(tx[r].todo) \cap tx[r].done = {}
       /\ \A p \in Range(tx[r].todo) \cup tx[r].done : tx[r].listed[p] # Absent
       /\ \A q \in Syncs \ {r} : tx[r].done \cap tx[q].done = {}

\* A signup finds the price of its plan and not two of them, as long as Stripe
\* has had only one active price of that plan, whatever was relabelled, and in
\* whatever order concurrent syncs have ended.
LookupIsUnique ==
  \A plan \in Plans : Cardinality(ActiveByPlan(plan)) >= 2 =>
    Cardinality({p \in Prices : <<p, plan>> \in offered}) >= 2

\* The next price of r is locked by q.
WaitsFor(r, q) ==
  /\ At(r, "upsert") /\ tx[r].todo # <<>>
  /\ Head(tx[r].todo) \in tx[q].done

\* Syncs that run into each other do not deadlock, however many: they write in
\* one order.
SyncsWaitInLine ==
  ~\E S \in (SUBSET Syncs) \ {{}} : \A r \in S : \E q \in S \ {r} : WaitsFor(r, q)
=============================================================================
