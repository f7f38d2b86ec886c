------------------------------- MODULE Signup -------------------------------
(***************************************************************************)
(* Creating a candidate by POST /auth/register, POST /users or a first     *)
(* LinkedIn callback: the account and its profile are committed in the     *)
(* middle of the request, then a customer and a freemium subscription are  *)
(* created at Stripe, and a second commit stores what Stripe returned.     *)
(* An account is named by its e-mail address, which is unique.             *)
(***************************************************************************)
EXTENDS Naturals, FiniteSets

CONSTANTS Emails,
          Requests,
          Kinds,       \* the ways to sign up: "register", "create", "linkedin"
          PriceKnown,  \* billing_prices may hold an active freemium price
          MaxAborts    \* bound on the crashes, timeouts and refused calls

ASSUME SignupAssumption ==
  /\ Kinds \subseteq {"register", "create", "linkedin"}
  /\ PriceKnown \subseteq BOOLEAN /\ PriceKnown # {}
  /\ MaxAborts \in Nat

VARIABLES
  account,        \* account[e] : what is committed of the account of e
  customers,      \* customers[e] : customers Stripe has for e (external)
  subscriptions,  \* subscriptions[e] : its freemium subscriptions (external)
  created,        \* created[e] : requests answered with a new account
  tx,             \* tx[r] : progress of request r
  aborts

vars == <<account, customers, subscriptions, created, tx, aborts>>

\* customer : users.stripe_customer_id is set; row : the subscriptions row;
\* token : the refresh_tokens row of the registration.
Account == [exists : BOOLEAN, linkedin : BOOLEAN, profile : BOOLEAN,
            customer : BOOLEAN, row : BOOLEAN, token : BOOLEAN]

NoAccount == [exists |-> FALSE, linkedin |-> FALSE, profile |-> FALSE,
              customer |-> FALSE, row |-> FALSE, token |-> FALSE]

Steps == {"idle", "check", "insert", "assign", "customer", "subscription",
          "store"}

Slot == [pc : Steps \ {"idle"}, email : Emails, kind : Kinds]
Idle == [pc |-> "idle"]

Init ==
  /\ account = [e \in Emails |-> NoAccount]
  /\ customers = [e \in Emails |-> 0]
  /\ subscriptions = [e \in Emails |-> 0]
  /\ created = [e \in Emails |-> 0]
  /\ tx = [r \in Requests |-> Idle]
  /\ aborts = 0

At(r, step) == tx[r].pc = step
Goto(r, step) == tx' = [tx EXCEPT ![r].pc = step]

\* The session of the request is closed.
Finish(r) == tx' = [tx EXCEPT ![r] = Idle]

Begin(r, e, kind) ==
  /\ At(r, "idle")
  /\ tx' = [tx EXCEPT ![r] = [pc |-> "check", email |-> e, kind |-> kind]]
  /\ UNCHANGED <<account, customers, subscriptions, created, aborts>>

\* get_by_email, or find_by_linkedin_id and then get_by_email: a known address
\* is a conflict, or a login of the LinkedIn account it belongs to.
CheckEmail(r) ==
  /\ At(r, "check")
  /\ \/ ~account[tx[r].email].exists /\ Goto(r, "insert")
     \/ account[tx[r].email].exists /\ Finish(r)
  /\ UNCHANGED <<account, customers, subscriptions, created, aborts>>

\* A flushed row no other transaction can see holds its key of the unique
\* index of users.email.
KeyFree(e) == \A q \in Requests : At(q, "assign") => tx[q].email # e

\* create() flushes the account, then its profile; the INSERT waits for one of
\* the same address, and fails (500) when that one has committed.
InsertAccount(r) ==
  /\ At(r, "insert")
  /\ KeyFree(tx[r].email)
  /\ \/ ~account[tx[r].email].exists /\ Goto(r, "assign")
     \/ account[tx[r].email].exists /\ Finish(r)
  /\ UNCHANGED <<account, customers, subscriptions, created, aborts>>

\* Faulty variant for CustomerHasAccount: no commit before the calls to Stripe.
AssignFreemiumUncommitted(r, known) ==
  /\ At(r, "assign")
  /\ Goto(r, "customer")
  /\ UNCHANGED <<account, customers, subscriptions, created, aborts>>

\* AssignFreemiumOnSignupUseCase finds no row and the price, and commits what
\* the request has written so far; without a price everything rolls back.
AssignFreemium(r, known) ==
  /\ At(r, "assign")
  /\ \/ /\ known
        /\ account' = [account EXCEPT ![tx[r].email] =
             [NoAccount EXCEPT !.exists = TRUE, !.profile = TRUE,
                               !.linkedin = (tx[r].kind = "linkedin")]]
        /\ Goto(r, "customer")
     \/ /\ ~known
        /\ Finish(r)
        /\ UNCHANGED account
  /\ UNCHANGED <<customers, subscriptions, created, aborts>>

\* stripe.Customer.create; users.stripe_customer_id is written, uncommitted.
CreateCustomer(r) ==
  /\ At(r, "customer")
  /\ customers' = [customers EXCEPT ![tx[r].email] = @ + 1]
  /\ Goto(r, "subscription")
  /\ UNCHANGED <<account, subscriptions, created, aborts>>

\* stripe.Subscription.create.
CreateSubscription(r) ==
  /\ At(r, "subscription")
  /\ subscriptions' = [subscriptions EXCEPT ![tx[r].email] = @ + 1]
  /\ Goto(r, "store")
  /\ UNCHANGED <<account, customers, created, aborts>>

\* Faulty variant for AnsweredIsComplete: the row of the subscription is not
\* flushed before the response.
StoreWithoutRow(r) ==
  /\ At(r, "store")
  /\ account' = [account EXCEPT ![tx[r].email].customer = TRUE,
                   ![tx[r].email].token = (tx[r].kind = "register")]
  /\ created' = [created EXCEPT ![tx[r].email] = @ + 1]
  /\ Finish(r)
  /\ UNCHANGED <<customers, subscriptions, aborts>>

\* The subscriptions row, the customer id and, for a registration, the refresh
\* token are committed together, and the request is answered.
StoreSubscription(r) ==
  /\ At(r, "store")
  /\ account' = [account EXCEPT ![tx[r].email].customer = TRUE,
                   ![tx[r].email].row = TRUE,
                   ![tx[r].email].token = (tx[r].kind = "register")]
  /\ created' = [created EXCEPT ![tx[r].email] = @ + 1]
  /\ Finish(r)
  /\ UNCHANGED <<customers, subscriptions, aborts>>

\* A crash, a lost connection, or Stripe refusing: what is uncommitted rolls
\* back.
Abort(r) ==
  /\ aborts < MaxAborts
  /\ ~At(r, "idle")
  /\ aborts' = aborts + 1
  /\ Finish(r)
  /\ UNCHANGED <<account, customers, subscriptions, created>>

\* Stripe does what it was asked, and the answer is lost.
StripeTimeout(r) ==
  /\ aborts < MaxAborts
  /\ \/ /\ At(r, "customer")
        /\ customers' = [customers EXCEPT ![tx[r].email] = @ + 1]
        /\ UNCHANGED subscriptions
     \/ /\ At(r, "subscription")
        /\ subscriptions' = [subscriptions EXCEPT ![tx[r].email] = @ + 1]
        /\ UNCHANGED customers
  /\ aborts' = aborts + 1
  /\ Finish(r)
  /\ UNCHANGED <<account, created>>

Step(r) ==
  \/ CheckEmail(r) \/ InsertAccount(r)
  \/ (\E known \in PriceKnown : AssignFreemium(r, known))
  \/ CreateCustomer(r) \/ CreateSubscription(r) \/ StoreSubscription(r)

Next ==
  \E r \in Requests :
    \/ \E e \in Emails, kind \in Kinds : Begin(r, e, kind)
    \/ Step(r) \/ Abort(r) \/ StripeTimeout(r)

Spec == Init /\ [][Next]_vars

-----------------------------------------------------------------------------
(* Properties *)

\* Types of the committed rows, of the objects at Stripe and of each signup.
TypeOK ==
  /\ account \in [Emails -> Account]
  /\ customers \in [Emails -> Nat]
  /\ subscriptions \in [Emails -> Nat]
  /\ created \in [Emails -> Nat]
  /\ tx \in [Requests -> Slot \cup {Idle}]
  /\ aborts \in 0..MaxAborts

\* A request that was answered left nothing half done: both halves of the
\* account are committed and Stripe has what they refer to.
AnsweredIsComplete ==
  \A e \in Emails : created[e] > 0 =>
    /\ account[e].exists /\ account[e].profile
    /\ account[e].customer /\ account[e].row
    /\ customers[e] > 0 /\ subscriptions[e] > 0

\* Stripe has at most one customer for an address, and no subscription without
\* its customer.
OneCustomer ==
  \A e \in Emails :
    /\ customers[e] <= IF account[e].exists THEN 1 ELSE 0
    /\ subscriptions[e] <= customers[e]

\* Addresses with a customer at Stripe that no row names, nor will when the
\* request that had it created ends.
Orphans ==
  {e \in Emails :
    /\ customers[e] > 0 /\ ~account[e].row
    /\ \A r \in Requests :
         tx[r].pc \in {"subscription", "store"} => tx[r].email # e}

\* However many signups use an address at once, Stripe has one customer for it
\* at most, and none for an account that was rolled back (which is what the
\* commit in the middle of the request is for); and a customer or subscription
\* that nothing refers to takes a request that was cut off or whose answer from
\* Stripe was lost: neither a conflict nor a race leaves one.
CustomerHasAccount == OneCustomer /\ Cardinality(Orphans) <= aborts
=============================================================================
