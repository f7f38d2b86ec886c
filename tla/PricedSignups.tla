---------------------------- MODULE PricedSignups ----------------------------
(***************************************************************************)
(* Signup with Catalogue: the freemium price that a signup needs is looked *)
(* up in billing_prices, which syncs replace row by row from what Stripe   *)
(* listed, while the dashboard edits the prices at Stripe.  The price that *)
(* was found is bought two calls and a commit later, and named by the row  *)
(* of the subscription three calls later.                                  *)
(***************************************************************************)
EXTENDS Signup

CONSTANTS MaxPrices, Plans, NoPlan, Absent, Syncs, PageSize, MaxEdits,
          Freemium  \* Plan.FREEMIUM

VARIABLES
  stripe, rows, syncs, offered, edits, lost,   \* of Catalogue
  price,   \* price[r] : freemium_price of request r, 0 when it has none
  bought,  \* bought[e] : the prices Stripe has subscriptions of e to (external)
  named    \* named[e] : subscriptions.billing_price_id of e, 0 for no row

Cat == INSTANCE Catalogue WITH tx <- syncs, aborts <- lost

ASSUME PricedAssumption ==
  /\ PriceKnown = BOOLEAN
  /\ Freemium \in Plans /\ NoPlan \notin Plans
  /\ MaxPrices \in Nat /\ PageSize \in Nat \ {0} /\ MaxEdits \in Nat
  /\ Absent \notin Cat!Price \cup Cat!Row

signupVars == <<vars, price, bought, named>>
catalogueVars == <<stripe, rows, syncs, offered, edits, lost>>

PricedInit ==
  /\ Init /\ Cat!Init
  /\ price = [r \in Requests |-> 0]
  /\ bought = [e \in Emails |-> {}]
  /\ named = [e \in Emails |-> 0]

Forget(r) == price' = [price EXCEPT ![r] = 0]

\* The steps of Signup that are not about the price.
Unpriced(r) ==
  /\ \/ \E e \in Emails, kind \in Kinds : Begin(r, e, kind)
     \/ CheckEmail(r) \/ InsertAccount(r) \/ CreateCustomer(r)
  /\ UNCHANGED <<price, bought, named>>

\* get_active_by_plan: scalar_one_or_none raises when there are two, and the
\* signup rolls back as it does when there is none.
LookUpPrice(r) ==
  LET found == Cat!ActiveByPlan(Freemium) IN
  /\ \/ \E p \in found :
          /\ found = {p}
          /\ AssignFreemium(r, TRUE)
          /\ price' = [price EXCEPT ![r] = p]
     \/ /\ Cardinality(found) # 1
        /\ AssignFreemium(r, FALSE)
        /\ UNCHANGED price
  /\ UNCHANGED <<bought, named>>

\* create_subscription takes the price of the lookup, whatever has become of it
\* at Stripe or in the copy; Stripe may refuse it (Drop).
BuyPrice(r) ==
  /\ At(r, "subscription")
  /\ \/ CreateSubscription(r) /\ UNCHANGED price
     \/ StripeTimeout(r) /\ Forget(r)
  /\ bought' = [bought EXCEPT ![tx[r].email] = @ \cup {price[r]}]
  /\ UNCHANGED named

\* Faulty variant for BoughtWasFreemium: the price is looked up once more.
NamePriceAnew(r) ==
  /\ StoreSubscription(r)
  /\ \E p \in Cat!ActiveByPlan(Freemium) :
       named' = [named EXCEPT ![tx[r].email] = p]
  /\ Forget(r)
  /\ UNCHANGED bought

\* create_freemium: the row of the subscription names the price.
NamePrice(r) ==
  /\ StoreSubscription(r)
  /\ named' = [named EXCEPT ![tx[r].email] = price[r]]
  /\ Forget(r)
  /\ UNCHANGED bought

\* The request fails, before Stripe has sold it anything.
Drop(r) ==
  /\ Abort(r) \/ (At(r, "customer") /\ StripeTimeout(r))
  /\ Forget(r)
  /\ UNCHANGED <<bought, named>>

PricedNext ==
  \/ Cat!Next /\ UNCHANGED signupVars
  \/ /\ \E r \in Requests :
          Unpriced(r) \/ LookUpPrice(r) \/ BuyPrice(r) \/ NamePrice(r) \/ Drop(r)
     /\ UNCHANGED catalogueVars

PricedSpec == PricedInit /\ [][PricedNext]_<<signupVars, catalogueVars>>

-----------------------------------------------------------------------------
(* Properties *)

\* Types of both components; a request has a price from its lookup on, and a
\* row of a subscription names one.
PricedTypeOK ==
  /\ TypeOK /\ Cat!TypeOK
  /\ price \in [Requests -> 0..MaxPrices]
  /\ bought \in [Emails -> SUBSET Cat!Prices]
  /\ named \in [Emails -> 0..MaxPrices]
  /\ \A r \in Requests :
       price[r] # 0 <=> tx[r].pc \in {"customer", "subscription", "store"}

\* A signup finds the freemium price, and no plan has two, as long as Stripe
\* has had only one active price of it, whatever was relabelled, and in
\* whatever order concurrent syncs have ended.
LookupIsUnique == Cat!LookupIsUnique

\* Syncs that run into each other do not deadlock, however many: they write in
\* one order.
SyncsWaitInLine == Cat!SyncsWaitInLine

\* What a new account is subscribed to was offered as freemium, though the
\* dashboard and the syncs go on between its lookup and the purchase; and the
\* row of the subscription names the price that Stripe was asked for.
BoughtWasFreemium ==
  \A e \in Emails :
    /\ \A p \in bought[e] : <<p, Freemium>> \in offered
    /\ account[e].row => named[e] \in bought[e]
=============================================================================
