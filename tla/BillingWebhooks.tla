--------------------------- MODULE BillingWebhooks ---------------------------
(***************************************************************************)
(* The subscription row of one user and the Stripe events that write it    *)
(* (HandleStripeWebhookUseCase).  Stripe is external: it changes its       *)
(* subscriptions, emits events, and delivers each until it is answered     *)
(* with 200.  A delivery is handled in one READ COMMITTED transaction that *)
(* reads the row twice: the handler decides on the first read, and the     *)
(* repository writes the columns that differ from the second.              *)
(***************************************************************************)
EXTENDS Naturals, Sequences, FiniteSets, FiniteSetsExt

CONSTANTS
  PaidSubs,         \* Stripe ids of subscriptions bought in a checkout
  FreeSub,          \* Stripe id of the subscription created at signup
  NoSub,
  PaidPlans, Freemium, NoPlan,
  Handlers,         \* deliveries handled at the same time
  Reported,         \* statuses Stripe gives a subscription after its purchase
  MaxEvents,        \* bound on the events emitted
  MaxRedeliveries,  \* bound on the repeated deliveries of an answered event
  MaxAborts         \* bound on the failed deliveries

ASSUME BillingAssumption ==
  /\ FreeSub \notin PaidSubs /\ NoSub \notin PaidSubs \cup {FreeSub}
  /\ Freemium \notin PaidPlans /\ NoPlan \notin PaidPlans \cup {Freemium}
  /\ {MaxEvents, MaxRedeliveries, MaxAborts} \subseteq Nat

VARIABLES
  stripe,     \* stripe[s] : status and plan of s at Stripe
  current,    \* the subscription of the user's last checkout
  log,        \* events emitted, oldest first
  pending,    \* indices of the events not answered with 200
  row,        \* the committed row of the user
  h,          \* h[k] : progress and private data of handler k
  disorder,   \* how deliveries have departed from one at a time and in order
  redelivered, aborts

counts == <<disorder, redelivered, aborts>>
vars == <<stripe, current, log, pending, row, h, counts>>

Subs == PaidSubs \cup {FreeSub}
StripeStatus == {"none", "active", "trialing", "past_due", "canceled",
                 "incomplete", "incomplete_expired", "unpaid", "paused"}
Status == {"active", "pending", "past_due", "canceled", "incomplete"}

ASSUME ReportedAssumption == Reported \subseteq StripeStatus \ {"none"}

Row == [plan : PaidPlans \cup {Freemium}, status : Status, sub : Subs]
NoRow == [plan |-> NoPlan, status |-> "none", sub |-> NoSub]
FreeRow == [plan |-> Freemium, status |-> "active", sub |-> FreeSub]

Event == [kind : {"checkout", "created", "updated", "deleted"}, sub : Subs,
          status : StripeStatus, plan : PaidPlans \cup {Freemium}]

Idle == [pc |-> "idle", event |-> 0, seen |-> NoRow, new |-> NoRow]

Steps == {"idle", "read", "insert", "select", "write", "commitInsert",
          "commitUpdate"}

\* map_stripe_subscription_status: eight statuses of Stripe become five.
MapStatus(s) ==
  CASE s \in {"active", "trialing"} -> "active"
    [] s \in {"past_due", "unpaid"} -> "past_due"
    [] s \in {"canceled", "incomplete_expired"} -> "canceled"
    [] s = "incomplete" -> "incomplete"
    [] OTHER -> "pending"

Init ==
  /\ stripe = [s \in Subs |-> IF s = FreeSub
                              THEN [status |-> "active", plan |-> Freemium]
                              ELSE [status |-> "none", plan |-> NoPlan]]
  /\ current = FreeSub
  /\ log = <<>>
  /\ pending = {}
  /\ row \in {FreeRow, NoRow}     \* NoRow: signup failed after the account
  /\ h = [k \in Handlers |-> Idle]
  /\ disorder = {}
  /\ redelivered = 0
  /\ aborts = 0

At(k, step) == h[k].pc = step
Goto(k, step) == h' = [h EXCEPT ![k].pc = step]
EventOf(k) == log[h[k].event]

Emit(events) ==
  /\ Len(log) + Len(events) <= MaxEvents
  /\ log' = log \o events
  /\ pending' = pending \cup ((Len(log) + 1)..(Len(log) + Len(events)))

-----------------------------------------------------------------------------
(* Stripe *)

\* CreateCheckoutSessionUseCase refuses the free plan and a plan it does not
\* know.
Sellable(p) == p \in PaidPlans

\* What a session of create_checkout_session buys: the price with the lookup
\* key of p, and p in the metadata of the session and of the subscription.
Purchase(p) == [status |-> "active", plan |-> p]

\* The user pays in a session made for plan p.  The subscription bought before
\* goes on at Stripe: nothing in the program cancels it.
Checkout(s, p) ==
  /\ Sellable(p)
  /\ stripe[s].status = "none"
  /\ stripe' = [stripe EXCEPT ![s] = Purchase(p)]
  /\ current' = s
  /\ LET completed == [kind |-> "checkout", sub |-> s, status |-> "active",
                       plan |-> p]
         created == [completed EXCEPT !.kind = "created"]
     IN \/ Emit(<<completed, created>>) /\ UNCHANGED disorder
        \/ /\ Emit(<<created, completed>>)
           /\ disorder' = disorder \cup {"early"}
  /\ UNCHANGED <<row, h, redelivered, aborts>>

\* A payment fails, is made good, or the subscription ends.
Change(s, status) ==
  /\ stripe[s].status \notin {"none", "canceled", "incomplete_expired"}
  /\ status # stripe[s].status
  /\ stripe' = [stripe EXCEPT ![s].status = status]
  /\ Emit(<<[kind |-> IF status = "canceled" THEN "deleted" ELSE "updated",
             sub |-> s, status |-> status, plan |-> stripe[s].plan]>>)
  /\ UNCHANGED <<current, row, h, counts>>

\* verify_and_construct_event accepts the event and a handler takes it.
Deliver(k, i) ==
  /\ At(k, "idle")
  /\ i \in pending
  /\ \A j \in Handlers : h[j].event # i
  /\ disorder' = disorder
       \cup {d \in {"order"} : i # Min(pending)}
       \cup {d \in {"overlap"} : \E j \in Handlers : ~At(j, "idle")}
  /\ h' = [h EXCEPT ![k] = [Idle EXCEPT !.pc = "read", !.event = i]]
  /\ UNCHANGED <<stripe, current, log, pending, row, redelivered, aborts>>

\* The 200 of an event did not reach Stripe, or it was sent again by hand.
Redeliver(i) ==
  /\ redelivered < MaxRedeliveries
  /\ i \in (1..Len(log)) \ pending
  /\ redelivered' = redelivered + 1
  /\ disorder' = disorder \cup {"repeat"}
  /\ pending' = pending \cup {i}
  /\ UNCHANGED <<stripe, current, log, row, h, aborts>>

-----------------------------------------------------------------------------
(* The handlers *)

\* Answered with 200: Stripe will not send the event again.
Answer(k) ==
  /\ pending' = pending \ {h[k].event}
  /\ h' = [h EXCEPT ![k] = Idle]

\* Answered with 500 after a rollback: the event stays pending.
Reject(k) ==
  /\ h' = [h EXCEPT ![k] = Idle]
  /\ UNCHANGED pending

\* Faulty variant for Converged: the plan is assigned, the status is left.
AssignPaidPlanOnly(seen, e) ==
  [plan |-> e.plan, status |-> IF seen = NoRow THEN "pending" ELSE seen.status,
   sub |-> IF seen = NoRow THEN e.sub ELSE seen.sub]

\* assign_paid_plan: the plan and the subscription of the checkout, PENDING.
AssignPaidPlan(seen, e) ==
  [plan |-> e.plan, status |-> "pending", sub |-> e.sub]

\* _handle_checkout_session_completed: the row of the user, or a new one.
ReadForCheckout(k) ==
  /\ At(k, "read")
  /\ EventOf(k).kind = "checkout"
  /\ h' = [h EXCEPT ![k].pc = IF row = NoRow THEN "insert" ELSE "select",
                    ![k].new = AssignPaidPlan(row, EventOf(k))]
  /\ UNCHANGED <<stripe, current, log, pending, row, counts>>

\* Faulty variant for RowIsOneSubscription: the row is found by its user.
ReadForUpdateByUser(k) ==
  /\ At(k, "read")
  /\ EventOf(k).kind # "checkout"
  /\ \/ /\ row # NoRow
        /\ h' = [h EXCEPT ![k].pc = "select",
               ![k].new = [row EXCEPT !.status = MapStatus(EventOf(k).status)]]
        /\ UNCHANGED pending
     \/ row = NoRow /\ Answer(k)
  /\ UNCHANGED <<stripe, current, log, row, counts>>

\* Faulty variant for EveryEventIsAnswered: an unknown subscription raises.
ReadForUpdateStrict(k) ==
  /\ At(k, "read")
  /\ EventOf(k).kind # "checkout"
  /\ \/ /\ row.sub = EventOf(k).sub
        /\ h' = [h EXCEPT ![k].pc = "select",
               ![k].new = [row EXCEPT !.status = MapStatus(EventOf(k).status)]]
        /\ UNCHANGED pending
     \/ row.sub # EventOf(k).sub /\ Reject(k)
  /\ UNCHANGED <<stripe, current, log, row, counts>>

\* _handle_subscription_update and _handle_subscription_deleted: the row that
\* names the subscription; an unknown subscription is answered and forgotten.
ReadForUpdate(k) ==
  /\ At(k, "read")
  /\ EventOf(k).kind # "checkout"
  /\ \/ /\ row.sub = EventOf(k).sub
        /\ h' = [h EXCEPT ![k].pc = "select",
               ![k].new = [row EXCEPT !.status = MapStatus(EventOf(k).status)]]
        /\ UNCHANGED pending
     \/ row.sub # EventOf(k).sub /\ Answer(k)
  /\ UNCHANGED <<stripe, current, log, row, counts>>

\* The row is locked by a transaction that changed a column of it.
RowFree ==
  \A k \in Handlers : At(k, "commitUpdate") => h[k].new = h[k].seen

\* repository.update selects the row of the user again, and copies every field
\* of what the handler made of the first read onto it.
SelectRow(k) ==
  /\ At(k, "select")
  /\ h' = [h EXCEPT ![k].pc = "write", ![k].seen = row]
  /\ UNCHANGED <<stripe, current, log, pending, row, counts>>

\* The flush: an UPDATE, unless every column is as selected.
WriteRow(k) ==
  /\ At(k, "write")
  /\ h[k].new # h[k].seen => RowFree
  /\ Goto(k, "commitUpdate")
  /\ UNCHANGED <<stripe, current, log, pending, row, counts>>

\* repository.create: INSERT waits for an uncommitted INSERT of the same user,
\* and fails when that one has committed (subscriptions.user_id is unique).
InsertRow(k) ==
  /\ At(k, "insert")
  /\ \A j \in Handlers : ~At(j, "commitInsert")
  /\ \/ row = NoRow /\ Goto(k, "commitInsert") /\ UNCHANGED pending
     \/ row # NoRow /\ Reject(k)
  /\ UNCHANGED <<stripe, current, log, row, counts>>

\* Faulty variant for TypeOK: the row is left without its plan.
DirtyWithoutPlan(seen, new, stored) ==
  [c \in DOMAIN new |-> IF c = "plan" THEN NoPlan ELSE new[c]]

\* The UPDATE of a flush sets the columns that differ from what was selected.
DirtyColumns(seen, new, stored) ==
  [c \in DOMAIN new |-> IF new[c] # seen[c] THEN new[c] ELSE stored[c]]

CommitRow(k) ==
  /\ \/ At(k, "commitUpdate") /\ row' = DirtyColumns(h[k].seen, h[k].new, row)
     \/ At(k, "commitInsert") /\ row' = h[k].new
  /\ Answer(k)
  /\ UNCHANGED <<stripe, current, log, counts>>

\* An exception or a crash before the commit: rollback, and Stripe retries.
Abort(k) ==
  /\ aborts < MaxAborts
  /\ ~At(k, "idle")
  /\ aborts' = aborts + 1
  /\ Reject(k)
  /\ UNCHANGED <<stripe, current, log, row, disorder, redelivered>>

Step(k) ==
  \/ ReadForCheckout(k) \/ ReadForUpdate(k)
  \/ SelectRow(k) \/ WriteRow(k) \/ InsertRow(k) \/ CommitRow(k)

Next ==
  \/ \E s \in PaidSubs, p \in PaidPlans \cup {Freemium} : Checkout(s, p)
  \/ \E s \in Subs, status \in Reported : Change(s, status)
  \/ \E i \in 1..MaxEvents : Redeliver(i)
  \/ \E k \in Handlers :
       (\E i \in 1..MaxEvents : Deliver(k, i)) \/ Step(k) \/ Abort(k)

Spec == Init /\ [][Next]_vars

\* Stripe goes on delivering while an event is pending, handlers run, and
\* PostgreSQL queues the waiters of a row.
FairSpec ==
  /\ Spec
  /\ \A k \in Handlers : SF_vars(Step(k))
  /\ SF_vars(\E k \in Handlers, i \in 1..MaxEvents : Deliver(k, i))

-----------------------------------------------------------------------------
(* Properties *)

\* Types: above all the row is absent or complete, whatever columns a flush
\* wrote.
TypeOK ==
  /\ \A s \in Subs : stripe[s].status \in StripeStatus
  /\ current \in Subs
  /\ \A i \in 1..Len(log) : log[i] \in Event
  /\ pending \subseteq 1..Len(log)
  /\ row \in Row \cup {NoRow}
  /\ \A k \in Handlers : /\ h[k].pc \in Steps /\ h[k].event \in 0..Len(log)
                         /\ {h[k].seen, h[k].new} \subseteq Row \cup {NoRow}
  /\ disorder \subseteq {"early", "order", "repeat", "overlap"}
  /\ redelivered \in 0..MaxRedeliveries
  /\ aborts \in 0..MaxAborts

Quiet == pending = {} /\ \A k \in Handlers : At(k, "idle")

Agrees ==
  current # FreeSub \/ row # NoRow =>
    row = [plan |-> stripe[current].plan,
           status |-> MapStatus(stripe[current].status), sub |-> current]

\* When every event has been answered and all came one at a time and in order,
\* failed deliveries included, the row says what Stripe says of the
\* subscription of the last checkout.
Converged == Quiet /\ disorder = {} => Agrees

\* The same of every order: the summary a user can read is reliable.
SummaryIsReliable == Quiet => Agrees

\* Unless two handlers overlapped, the row is about one subscription: its plan
\* is the plan of the subscription it names, and its status one that Stripe
\* reported of that subscription.
RowIsOneSubscription ==
  row # NoRow /\ "overlap" \notin disorder =>
    /\ row.plan = stripe[row.sub].plan
    /\ \/ row.status = "pending"
       \/ row.status = "active" /\ row.sub = FreeSub
       \/ \E i \in 1..Len(log) : /\ log[i].sub = row.sub
                                 /\ MapStatus(log[i].status) = row.status

\* Every event is answered with 200 in the end, so Stripe, whose events and
\* repeats are bounded here, has nothing left to retry.
EveryEventIsAnswered == []<>(pending = {})
=============================================================================
