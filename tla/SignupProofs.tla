---------------------------- MODULE SignupProofs ----------------------------
(***************************************************************************)
(* Proofs about Signup, about Catalogue, where a signup looks for its      *)
(* price, and about the two together (PricedSignups): for every number of  *)
(* addresses, requests and aborts, of prices, plans, syncs and edits, and  *)
(* every page size.                                                        *)
(***************************************************************************)
EXTENDS PricedSignups, FiniteSetTheorems, SequenceTheorems,
        WellFoundedInduction, TLAPS

\* The request inserted the account: it holds the key of the index, and then
\* the committed row.
Creates(r) == tx[r].pc \in {"assign", "customer", "subscription", "store"}

\* What the request that creates an account knows of it.
SlotInv(r) ==
  LET e == tx[r].email IN
  /\ At(r, "assign") => ~account[e].exists
  /\ tx[r].pc \in {"customer", "subscription", "store"} =>
       account[e].exists /\ account[e].profile
  /\ At(r, "customer") => customers[e] = 0 /\ subscriptions[e] = 0
  /\ At(r, "subscription") => customers[e] = 1 /\ subscriptions[e] = 0
  /\ At(r, "store") => customers[e] = 1 /\ subscriptions[e] = 1

\* One request creates an account, and no other ever does.
OneCreator ==
  \A r, q \in Requests :
    Creates(r) /\ Creates(q) /\ tx[r].email = tx[q].email => r = q

IInv ==
  /\ TypeOK
  /\ \A r \in Requests : SlotInv(r)
  /\ OneCreator
  /\ OneCustomer
  /\ AnsweredIsComplete

-----------------------------------------------------------------------------

LEMMA InitHolds == Init => IInv
<1> SUFFICES ASSUME Init PROVE IInv
  OBVIOUS
<1>1. TypeOK
  BY SignupAssumption DEF Init, TypeOK, Account, NoAccount
<1>2. \A r \in Requests : tx[r].pc = "idle"
  BY DEF Init, Idle
<1> QED
  BY <1>1, <1>2
  DEF Init, IInv, SlotInv, OneCreator, Creates, At, OneCustomer,
      AnsweredIsComplete, NoAccount

LEMMA NextKeeps == IInv /\ [Next]_vars => IInv'
<1> SUFFICES ASSUME IInv, [Next]_vars PROVE IInv'
  OBVIOUS
<1> USE SignupAssumption
<1>1. \A r \in Requests : tx[r].pc # "idle" =>
        tx[r] \in Slot /\ tx[r].email \in Emails
  BY DEF IInv, TypeOK, Slot, Idle, Steps
\* The request leaves, or goes to a step that creates nothing.
<1>2. ASSUME NEW r \in Requests, account' = account, customers' = customers,
             subscriptions' = subscriptions, created' = created,
             aborts' \in 0..MaxAborts,
             tx' \in [Requests -> Slot \cup {Idle}], ~Creates(r)',
             \A q \in Requests \ {r} : tx'[q] = tx[q]
      PROVE  IInv'
  <2>1. TypeOK'
    BY <1>2 DEF IInv, TypeOK
  <2>2. ASSUME NEW q \in Requests PROVE SlotInv(q)'
    <3>1. CASE q = r
      BY <1>2, <3>1 DEF SlotInv, Creates, At
    <3>2. CASE q # r
      BY <1>2, <3>2 DEF IInv, SlotInv, At
    <3> QED
      BY <3>1, <3>2
  <2>3. OneCreator'
    BY <1>2 DEF IInv, OneCreator, Creates
  <2> QED
    BY <1>2, <2>1, <2>2, <2>3 DEF IInv, OneCustomer, AnsweredIsComplete
<1>3. ASSUME NEW r \in Requests, Finish(r)
      PROVE  /\ tx'[r].pc = "idle"
             /\ tx' \in [Requests -> Slot \cup {Idle}]
             /\ \A q \in Requests \ {r} : tx'[q] = tx[q]
  BY <1>3 DEF Finish, Idle, IInv, TypeOK
<1>4. ASSUME NEW r \in Requests, NEW step \in Steps \ {"idle"}, Goto(r, step),
             tx[r].pc # "idle"
      PROVE  /\ tx'[r].pc = step /\ tx'[r].email = tx[r].email
             /\ tx' \in [Requests -> Slot \cup {Idle}]
             /\ \A q \in Requests \ {r} : tx'[q] = tx[q]
  BY <1>1, <1>4 DEF Goto, IInv, TypeOK, Slot
<1>5. CASE UNCHANGED vars
  BY <1>5 DEF vars, IInv, TypeOK, SlotInv, OneCreator, Creates, At,
              OneCustomer, AnsweredIsComplete
<1>6. ASSUME NEW r \in Requests, NEW e \in Emails, NEW kind \in Kinds,
             Begin(r, e, kind)
      PROVE  IInv'
  <2>1. /\ tx' \in [Requests -> Slot \cup {Idle}] /\ tx'[r].pc = "check"
        /\ \A q \in Requests \ {r} : tx'[q] = tx[q]
    BY <1>6 DEF Begin, Slot, Steps, IInv, TypeOK
  <2> QED
    BY <1>2, <1>6, <2>1 DEF Begin, Creates, IInv, TypeOK
<1>7. ASSUME NEW r \in Requests, CheckEmail(r) PROVE IInv'
  <2>1. CASE Goto(r, "insert")
    BY <1>2, <1>4, <1>7, <2>1 DEF CheckEmail, At, Creates, Steps, IInv, TypeOK
  <2>2. CASE Finish(r)
    BY <1>2, <1>3, <1>7, <2>2 DEF CheckEmail, Creates, IInv, TypeOK
  <2> QED
    BY <1>7, <2>1, <2>2 DEF CheckEmail
\* The key is free, and whoever went past "assign" has committed the account.
<1>8. ASSUME NEW r \in Requests, InsertAccount(r) PROVE IInv'
  <2>1. CASE Finish(r)
    BY <1>2, <1>3, <1>8, <2>1 DEF InsertAccount, Creates, IInv, TypeOK
  <2>2. CASE ~account[tx[r].email].exists /\ Goto(r, "assign")
    <3>1. /\ tx'[r].pc = "assign" /\ tx'[r].email = tx[r].email
          /\ tx' \in [Requests -> Slot \cup {Idle}]
          /\ \A q \in Requests \ {r} : tx'[q] = tx[q]
      BY <1>4, <1>8, <2>2 DEF InsertAccount, At, Steps
    <3>2. \A q \in Requests \ {r} : Creates(q) => tx[q].email # tx[r].email
      BY <1>8, <2>2 DEF InsertAccount, KeyFree, Creates, At, IInv, SlotInv
    <3>3. TypeOK'
      BY <1>8, <3>1 DEF InsertAccount, IInv, TypeOK
    <3>4. \A q \in Requests : SlotInv(q)'
      BY <1>8, <2>2, <3>1 DEF InsertAccount, SlotInv, At, IInv
    <3>5. OneCreator'
      BY <3>1, <3>2 DEF OneCreator, Creates, IInv
    <3> QED
      BY <1>8, <3>3, <3>4, <3>5
      DEF InsertAccount, IInv, OneCustomer, AnsweredIsComplete
  <2> QED
    BY <1>8, <2>1, <2>2 DEF InsertAccount
\* A step of the request that creates an account changes what there is of its
\* address alone.
<1>9. ASSUME NEW r \in Requests, Creates(r), TypeOK',
             \A q \in Requests \ {r} : tx'[q] = tx[q],
             Creates(r)' => tx'[r].email = tx[r].email,
             SlotInv(r)',
             \A e \in Emails \ {tx[r].email} :
               /\ account'[e] = account[e] /\ customers'[e] = customers[e]
               /\ subscriptions'[e] = subscriptions[e] /\ created'[e] = created[e],
             LET e == tx[r].email IN
               /\ customers'[e] <= IF account'[e].exists THEN 1 ELSE 0
               /\ subscriptions'[e] <= customers'[e]
               /\ created'[e] > 0 =>
                    /\ account'[e].exists /\ account'[e].profile
                    /\ account'[e].customer /\ account'[e].row
                    /\ customers'[e] > 0 /\ subscriptions'[e] > 0
      PROVE  IInv'
  <2>1. ASSUME NEW q \in Requests PROVE SlotInv(q)'
    <3>1. CASE q = r
      BY <1>9, <3>1
    <3>2. CASE q # r /\ Creates(q)
      <4>1. tx'[q] = tx[q] /\ tx[q].email \in Emails \ {tx[r].email}
        BY <1>1, <1>9, <3>2 DEF IInv, OneCreator, Creates
      <4> QED
        BY <1>9, <3>2, <4>1 DEF IInv, SlotInv, At
    <3>3. CASE q # r /\ ~Creates(q)
      BY <1>9, <3>3 DEF SlotInv, Creates, At
    <3> QED
      BY <3>1, <3>2, <3>3
  <2>2. OneCreator'
    BY <1>9 DEF IInv, OneCreator, Creates
  <2>3. OneCustomer' /\ AnsweredIsComplete'
    BY <1>9 DEF IInv, OneCustomer, AnsweredIsComplete
  <2> QED
    BY <1>9, <2>1, <2>2, <2>3 DEF IInv
<1>10. ASSUME NEW r \in Requests, NEW known \in PriceKnown, AssignFreemium(r, known)
       PROVE  IInv'
  <2> DEFINE e == tx[r].email
             new == [NoAccount EXCEPT !.exists = TRUE, !.profile = TRUE,
                                      !.linkedin = (tx[r].kind = "linkedin")]
  <2>1. CASE Finish(r) /\ account' = account
    BY <1>2, <1>3, <1>10, <2>1 DEF AssignFreemium, Creates, IInv, TypeOK
  <2>2. CASE Goto(r, "customer") /\ account' = [account EXCEPT ![e] = new]
    <3>1. e \in Emails /\ tx[r].pc = "assign"
      BY <1>1, <1>10 DEF AssignFreemium, At
    <3>2. new \in Account /\ new.exists /\ new.profile
      BY DEF Account, NoAccount
    <3> HIDE DEF new
    <3>3. account' \in [Emails -> Account] /\ account'[e] = new
          /\ \A f \in Emails \ {e} : account'[f] = account[f]
      BY <2>2, <3>1, <3>2 DEF IInv, TypeOK
    <3>4. customers[e] = 0 /\ subscriptions[e] = 0 /\ ~(created[e] > 0)
      BY <3>1 DEF IInv, SlotInv, At, OneCustomer, AnsweredIsComplete, TypeOK
    <3>5. TypeOK'
      BY <1>4, <1>10, <2>2, <3>1, <3>3 DEF AssignFreemium, Steps, IInv, TypeOK
    <3>6. tx'[r].pc = "customer" /\ tx'[r].email = e
          /\ \A q \in Requests \ {r} : tx'[q] = tx[q]
      BY <1>4, <2>2, <3>1 DEF Steps
    <3>7. SlotInv(r)'
      BY <1>10, <3>2, <3>3, <3>4, <3>6 DEF AssignFreemium, SlotInv, At
    <3> QED
      BY <1>9, <1>10, <3>1, <3>2, <3>3, <3>4, <3>5, <3>6, <3>7
      DEF AssignFreemium, Creates
  <2> QED
    BY <1>10, <2>1, <2>2 DEF AssignFreemium
\* Both calls to Stripe, answered or not.
<1>11. ASSUME NEW r \in Requests, tx[r].pc \in {"customer", "subscription"},
              customers' = IF At(r, "customer")
                           THEN [customers EXCEPT ![tx[r].email] = @ + 1] ELSE customers,
              subscriptions' = IF At(r, "subscription")
                               THEN [subscriptions EXCEPT ![tx[r].email] = @ + 1]
                               ELSE subscriptions,
              account' = account, created' = created, aborts' \in 0..MaxAborts,
              Finish(r) \/ Goto(r, IF At(r, "customer") THEN "subscription" ELSE "store")
       PROVE  IInv'
  <2> DEFINE e == tx[r].email
  <2>1. e \in Emails /\ Creates(r)
    BY <1>1, <1>11 DEF Creates
  <2>2. /\ account[e].exists /\ account[e].profile /\ subscriptions[e] = 0
        /\ customers[e] = IF At(r, "customer") THEN 0 ELSE 1
        /\ ~(created[e] > 0)
    BY <1>11, <2>1 DEF IInv, SlotInv, At, AnsweredIsComplete
  <2>3. /\ customers' \in [Emails -> Nat] /\ subscriptions' \in [Emails -> Nat]
        /\ customers'[e] = 1
        /\ subscriptions'[e] = IF At(r, "customer") THEN 0 ELSE 1
        /\ \A f \in Emails \ {e} :
             customers'[f] = customers[f] /\ subscriptions'[f] = subscriptions[f]
    BY <1>11, <2>1, <2>2 DEF IInv, TypeOK, At
  <2>4. /\ tx' \in [Requests -> Slot \cup {Idle}]
        /\ \A q \in Requests \ {r} : tx'[q] = tx[q]
        /\ \/ tx'[r].pc = "idle"
           \/ /\ tx'[r].email = e
              /\ tx'[r].pc = IF At(r, "customer") THEN "subscription" ELSE "store"
    BY <1>3, <1>4, <1>11 DEF Steps
  <2>5. TypeOK'
    BY <1>11, <2>3, <2>4 DEF IInv, TypeOK
  <2>6. SlotInv(r)'
    BY <1>11, <2>2, <2>3, <2>4 DEF SlotInv, At
  <2> QED
    BY <1>9, <1>11, <2>1, <2>2, <2>3, <2>4, <2>5, <2>6 DEF Creates
<1>12. ASSUME NEW r \in Requests, StoreSubscription(r) PROVE IInv'
  <2> DEFINE e == tx[r].email
  <2>1. e \in Emails /\ tx[r].pc = "store" /\ Creates(r)
    BY <1>1, <1>12 DEF StoreSubscription, At, Creates
  <2>2. /\ account[e].exists /\ account[e].profile
        /\ customers[e] = 1 /\ subscriptions[e] = 1
    BY <2>1 DEF IInv, SlotInv, At
  <2> DEFINE new == [account[e] EXCEPT !.customer = TRUE, !.row = TRUE,
                                       !.token = (tx[r].kind = "register")]
  <2>3. new \in Account /\ new.exists /\ new.profile /\ new.customer /\ new.row
    BY <2>1, <2>2 DEF Account, IInv, TypeOK
  <2>4. account' = [account EXCEPT ![e] = new]
    BY <1>12 DEF StoreSubscription
  <2> HIDE DEF new
  <2>5. /\ account' \in [Emails -> Account]
        /\ account'[e].exists /\ account'[e].profile
        /\ account'[e].customer /\ account'[e].row
        /\ \A f \in Emails \ {e} : account'[f] = account[f]
    BY <2>1, <2>3, <2>4 DEF IInv, TypeOK
  <2>6. created' \in [Emails -> Nat] /\ \A f \in Emails \ {e} : created'[f] = created[f]
    BY <1>12, <2>1 DEF StoreSubscription, IInv, TypeOK
  <2>7. TypeOK' /\ SlotInv(r)' /\ ~Creates(r)'
    BY <1>3, <1>12, <2>5, <2>6
    DEF StoreSubscription, IInv, TypeOK, SlotInv, Creates, At
  <2>8. customers' = customers /\ subscriptions' = subscriptions
        /\ \A q \in Requests \ {r} : tx'[q] = tx[q]
    BY <1>3, <1>12 DEF StoreSubscription
  <2> QED
    BY <1>9, <2>1, <2>2, <2>5, <2>6, <2>7, <2>8
<1>13. ASSUME NEW r \in Requests, Abort(r) PROVE IInv'
  BY <1>2, <1>3, <1>13 DEF Abort, Creates, IInv, TypeOK
<1>14. ASSUME NEW r \in Requests,
              CreateCustomer(r) \/ CreateSubscription(r) \/ StripeTimeout(r)
       PROVE  IInv'
  BY <1>11, <1>14
  DEF CreateCustomer, CreateSubscription, StripeTimeout, At, IInv, TypeOK
<1> QED
  BY <1>5, <1>6, <1>7, <1>8, <1>10, <1>12, <1>13, <1>14 DEF Next, Step

LEMMA Invariant == Spec => []IInv
BY InitHolds, NextKeeps, PTL DEF Spec

-----------------------------------------------------------------------------
(* What is left at Stripe by the requests that were cut off                  *)

OrphanInv == IsFiniteSet(Orphans) /\ Cardinality(Orphans) <= aborts

\* The request still holds what it had Stripe create.
Buying(r) == tx[r].pc \in {"subscription", "store"}

LEMMA InitHasNoOrphans == Init => OrphanInv
<1> SUFFICES ASSUME Init PROVE OrphanInv
  OBVIOUS
<1>1. Orphans = {}
  BY DEF Init, Orphans
<1> QED
  BY <1>1, FS_EmptySet DEF Init, OrphanInv

\* A step makes an orphan of one address at most, and then one more request has
\* been cut off.
LEMMA OrphansTakeAborts ==
  ASSUME IInv, [Next]_vars
  PROVE  \/ Orphans' \subseteq Orphans /\ aborts' >= aborts
         \/ /\ \E e \in Emails : Orphans' \subseteq Orphans \cup {e}
            /\ aborts' = aborts + 1
<1>1. aborts \in Nat /\ \A r \in Requests : ~At(r, "idle") =>
        tx[r].email \in Emails /\ tx[r] \in Slot
  BY SignupAssumption DEF IInv, TypeOK, Slot, Idle, At
\* No other request changes, and this one keeps what it has bought.
<1>2. ASSUME NEW r \in Requests, \A q \in Requests \ {r} : tx'[q] = tx[q],
             Buying(r) => Buying(r)' /\ tx'[r].email = tx[r].email,
             \A e \in Emails : customers'[e] > 0 /\ ~account'[e].row =>
               \/ customers[e] > 0 /\ ~account[e].row
               \/ Buying(r)' /\ tx'[r].email = e
      PROVE  Orphans' \subseteq Orphans
  BY <1>2 DEF Orphans, Buying
<1>3. ASSUME NEW r \in Requests, Goto(r, "subscription") \/ Goto(r, "store"),
             ~At(r, "idle")
      PROVE  /\ Buying(r)' /\ tx'[r].email = tx[r].email
             /\ \A q \in Requests \ {r} : tx'[q] = tx[q]
  BY <1>1, <1>3 DEF Goto, Buying, IInv, TypeOK, Slot
<1>4. ASSUME NEW r \in Requests, NEW e \in Emails, NEW kind \in Kinds,
             Begin(r, e, kind)
      PROVE  Orphans' \subseteq Orphans
  BY <1>2, <1>4 DEF Begin, Buying, At, IInv, TypeOK
<1>5. ASSUME NEW r \in Requests, CheckEmail(r) \/ InsertAccount(r)
      PROVE  Orphans' \subseteq Orphans
  BY <1>2, <1>5 DEF CheckEmail, InsertAccount, Goto, Finish, Buying, At, IInv, TypeOK
\* A new account has no customer yet.
<1>6. ASSUME NEW r \in Requests, NEW known \in PriceKnown, AssignFreemium(r, known)
      PROVE  Orphans' \subseteq Orphans
  <2>1. /\ ~Buying(r) /\ \A q \in Requests \ {r} : tx'[q] = tx[q]
        /\ customers' = customers
    BY <1>6 DEF AssignFreemium, Buying, At, Goto, Finish, IInv, TypeOK
  <2>2. tx[r].email \in Emails /\ ~(customers[tx[r].email] > 0)
    BY <1>1, <1>6 DEF AssignFreemium, At, IInv, TypeOK, SlotInv, OneCustomer
  <2>3. \A e \in Emails \ {tx[r].email} : account'[e] = account[e]
    BY <1>6 DEF AssignFreemium, IInv, TypeOK
  <2> QED
    BY <1>2, <2>1, <2>2, <2>3
<1>7. ASSUME NEW r \in Requests, CreateCustomer(r) \/ CreateSubscription(r)
      PROVE  Orphans' \subseteq Orphans
  <2>1. /\ Goto(r, "subscription") \/ Goto(r, "store")
        /\ ~At(r, "idle") /\ account' = account
    BY <1>7 DEF CreateCustomer, CreateSubscription, At
  <2>2. \A e \in Emails \ {tx[r].email} : customers'[e] = customers[e]
    BY <1>7 DEF CreateCustomer, CreateSubscription, IInv, TypeOK
  <2> QED
    BY <1>2, <1>3, <2>1, <2>2
\* The row names the customer from here on.
<1>8. ASSUME NEW r \in Requests, StoreSubscription(r)
      PROVE  Orphans' \subseteq Orphans
  <2> DEFINE e == tx[r].email
             new == [account[e] EXCEPT !.customer = TRUE, !.row = TRUE,
                                       !.token = (tx[r].kind = "register")]
  <2>1. e \in Emails /\ account[e] \in Account
    BY <1>1, <1>8 DEF StoreSubscription, At, IInv, TypeOK
  <2>2. new.row
    BY <2>1 DEF Account
  <2>3. account' = [account EXCEPT ![e] = new] /\ customers' = customers
        /\ \A q \in Requests \ {r} : tx'[q] = tx[q]
    BY <1>8 DEF StoreSubscription, Finish, IInv, TypeOK
  <2> HIDE DEF new
  <2>4. account'[e].row /\ \A f \in Emails \ {e} : account'[f] = account[f]
    BY <2>1, <2>2, <2>3 DEF IInv, TypeOK
  <2> QED
    BY <2>1, <2>3, <2>4 DEF Orphans, Buying
<1>9. ASSUME NEW r \in Requests, Abort(r) \/ StripeTimeout(r)
      PROVE  /\ \E e \in Emails : Orphans' \subseteq Orphans \cup {e}
             /\ aborts' = aborts + 1
  <2>1. /\ tx[r].email \in Emails /\ account' = account /\ aborts' = aborts + 1
        /\ \A q \in Requests \ {r} : tx'[q] = tx[q]
    BY <1>1, <1>9 DEF Abort, StripeTimeout, At, Finish, IInv, TypeOK
  <2>2. \A e \in Emails \ {tx[r].email} : customers'[e] = customers[e]
    BY <1>9 DEF Abort, StripeTimeout, IInv, TypeOK
  <2>3. Orphans' \subseteq Orphans \cup {tx[r].email}
    BY <2>1, <2>2 DEF Orphans
  <2> QED
    BY <2>1, <2>3
<1>10. CASE UNCHANGED vars
  BY <1>1, <1>10 DEF vars, Orphans
<1>11. (\E r \in Requests : Abort(r) \/ StripeTimeout(r)) \/ aborts' = aborts
  BY DEF Next, Step, Begin, CheckEmail, InsertAccount, AssignFreemium,
         CreateCustomer, CreateSubscription, StoreSubscription, vars
<1> QED
  BY <1>1, <1>4, <1>5, <1>6, <1>7, <1>8, <1>9, <1>10, <1>11 DEF Next, Step

LEMMA OrphansKept == IInv /\ OrphanInv /\ [Next]_vars => OrphanInv'
<1> SUFFICES ASSUME IInv, OrphanInv, [Next]_vars PROVE OrphanInv'
  OBVIOUS
<1>1. aborts \in Nat /\ aborts' \in Nat /\ Cardinality(Orphans) \in Nat
  BY NextKeeps, SignupAssumption, FS_CardinalityType DEF IInv, TypeOK, OrphanInv
<1>2. CASE Orphans' \subseteq Orphans /\ aborts' >= aborts
  <2>1. IsFiniteSet(Orphans') /\ Cardinality(Orphans') <= Cardinality(Orphans)
    BY <1>2, FS_Subset DEF OrphanInv
  <2>2. Cardinality(Orphans') \in Nat
    BY <2>1, FS_CardinalityType
  <2> QED
    BY <1>1, <1>2, <2>1, <2>2 DEF OrphanInv
<1>3. ASSUME NEW e \in Emails, Orphans' \subseteq Orphans \cup {e},
             aborts' = aborts + 1
      PROVE  OrphanInv'
  <2>1. /\ IsFiniteSet(Orphans \cup {e})
        /\ Cardinality(Orphans \cup {e}) \in Nat
        /\ Cardinality(Orphans \cup {e}) <= Cardinality(Orphans) + 1
    BY <1>1, FS_AddElement DEF OrphanInv
  <2>2. /\ IsFiniteSet(Orphans')
        /\ Cardinality(Orphans') <= Cardinality(Orphans \cup {e})
    BY <1>3, <2>1, FS_Subset
  <2>3. Cardinality(Orphans') \in Nat
    BY <2>2, FS_CardinalityType
  <2> QED
    BY <1>1, <1>3, <2>1, <2>2, <2>3 DEF OrphanInv
<1> QED
  BY <1>2, <1>3, OrphansTakeAborts

LEMMA OrphanInvariance == Spec => []OrphanInv
<1>1. Init => IInv /\ OrphanInv
  BY InitHolds, InitHasNoOrphans
<1> QED
  BY <1>1, Invariant, OrphansKept, PTL DEF Spec

-----------------------------------------------------------------------------
(* Theorems *)

\* Every variable keeps its type.
THEOREM TypeCorrect == Spec => []TypeOK
<1> IInv => TypeOK
  BY DEF IInv
<1> QED
  BY Invariant, PTL

\* An answered signup has both halves of the account, and Stripe what they
\* refer to, however many signups of the address race and are cut off.
THEOREM AnsweredSignupsAreComplete == Spec => []AnsweredIsComplete
<1> IInv => AnsweredIsComplete
  BY DEF IInv
<1> QED
  BY Invariant, PTL

\* Stripe has no customer without a committed account, never two for one
\* address, and not more that no row names than requests were cut off.
THEOREM CustomersHaveAccounts == Spec => []CustomerHasAccount
<1>1. IInv /\ OrphanInv => CustomerHasAccount
  BY DEF IInv, OrphanInv, CustomerHasAccount
<1> QED
  BY <1>1, Invariant, OrphanInvariance, PTL

-----------------------------------------------------------------------------
(* The catalogue: what a sync holds                                          *)

Listings == [Cat!Prices -> Cat!Price \cup {Absent}]
SyncSlot == [pc : Cat!Steps, todo : Seq(Cat!Prices), listed : Listings,
             done : SUBSET Cat!Prices]

\* Newest first.
Sorted(s) == \A i, j \in 1..Len(s) : i < j => s[i] > s[j]

Pending(s) == {s.todo[i] : i \in 1..Len(s.todo)}

\* A sync goes through its list downwards, so that all it has locked is newer
\* than all it has to do; and what it will write was for sale.
SyncInv(s, past) ==
  /\ s \in SyncSlot
  /\ s.pc # "upsert" => s.todo = <<>> /\ s.done = {}
  /\ Sorted(s.todo)
  /\ \A d \in s.done, p \in Pending(s) : d > p
  /\ \A p \in s.done \cup Pending(s) :
       s.listed[p] \in Cat!Price /\ <<p, s.listed[p].plan>> \in past
         /\ s.listed[p].plan \in Plans

\* A row that is active is of a plan its price had while Stripe offered it.
Backed(state, past) ==
  \A p \in Cat!Prices :
    state[p] # Absent /\ state[p].active => <<p, state[p].plan>> \in past

CatalogueInv ==
  /\ stripe \in Listings /\ rows \in [Cat!Prices -> Cat!Row \cup {Absent}]
  /\ offered \subseteq Cat!Prices \X (Plans \cup {NoPlan})
  /\ edits \in 0..MaxEdits /\ lost \in 0..MaxAborts
  /\ syncs = [r \in Syncs |-> syncs[r]]
  /\ \A r \in Syncs : SyncInv(syncs[r], offered)
  /\ Backed(stripe, offered) /\ Backed(rows, offered)
  /\ \A r, q \in Syncs : r # q => syncs[r].done \cap syncs[q].done = {}

-----------------------------------------------------------------------------
(* Lemmas on sequences                                                       *)

LEMMA RangeIs == \A s : \A S : s \in Seq(S) => Cat!Range(s) = {s[i] : i \in 1..Len(s)}
  BY DEF Cat!Range

\* The rest of a sorted list is sorted, and is what is left of the list.
LEMMA TailOfSorted ==
  ASSUME NEW s \in Seq(Cat!Prices), s # <<>>, Sorted(s)
  PROVE  /\ Head(s) \in Cat!Prices /\ Tail(s) \in Seq(Cat!Prices)
         /\ Sorted(Tail(s))
         /\ {s[i] : i \in 1..Len(s)}
              = {Head(s)} \cup {Tail(s)[i] : i \in 1..Len(Tail(s))}
         /\ \A i \in 1..Len(Tail(s)) : Tail(s)[i] < Head(s)
<1>1. /\ Len(s) \in Nat \ {0} /\ Head(s) = s[1] /\ Len(Tail(s)) = Len(s) - 1
      /\ Tail(s) \in Seq(Cat!Prices) /\ Head(s) \in Cat!Prices
      /\ \A i \in 1..(Len(s) - 1) : Tail(s)[i] = s[i + 1]
  BY HeadTailProperties, EmptySeq
<1>2. Sorted(Tail(s))
  BY <1>1 DEF Sorted
<1>3. \A i \in 1..Len(Tail(s)) : Tail(s)[i] < Head(s)
  BY <1>1, ElementOfSeq DEF Sorted, Cat!Prices
<1>4. {s[i] : i \in 1..Len(s)} = {Head(s)} \cup {Tail(s)[i] : i \in 1..Len(Tail(s))}
  <2>1. ASSUME NEW i \in 1..Len(s)
        PROVE  s[i] \in {Head(s)} \cup {Tail(s)[k] : k \in 1..Len(Tail(s))}
    <3>1. i = 1 \/ (i - 1 \in 1..Len(Tail(s)) /\ Tail(s)[i - 1] = s[i])
      BY <1>1
    <3> QED
      BY <1>1, <3>1
  <2>2. ASSUME NEW i \in 1..Len(Tail(s))
        PROVE  Tail(s)[i] \in {s[k] : k \in 1..Len(s)}
    BY <1>1
  <2>3. Head(s) \in {s[k] : k \in 1..Len(s)}
    BY <1>1
  <2> QED
    BY <2>1, <2>2, <2>3
<1> QED
  BY <1>1, <1>2, <1>3, <1>4

\* Catalogue counts as this module does.
LEMMA CatalogueCounts == \A S : Cat!Cardinality(S) = Cardinality(S)
  BY DEF Cat!Cardinality, Cardinality, Cat!IsFiniteSet, IsFiniteSet

LEMMA PricesAreFinite ==
  ASSUME NEW S \in SUBSET Cat!Prices
  PROVE  IsFiniteSet(S) /\ Cardinality(S) \in Nat
<1>1. 1 \in Int /\ MaxPrices \in Int
  BY PricedAssumption
<1>2. IsFiniteSet(1..MaxPrices)
  BY <1>1, FS_Interval
<1> QED
  BY <1>2, FS_Subset, FS_CardinalityType DEF Cat!Prices

LEMMA OrdersAreSorted ==
  ASSUME NEW S \in SUBSET Cat!Prices, NEW order \in Cat!ListOrders(S)
  PROVE  order \in Seq(Cat!Prices) /\ Sorted(order) /\ Cat!Range(order) \subseteq S
<1>1. order \in Cat!SetToSeqs(S)
  BY DEF Cat!ListOrders
<1>2. Cardinality(S) \in Nat
  BY PricesAreFinite
<1>3. order \in [1..Cardinality(S) -> S]
  BY <1>1, CatalogueCounts DEF Cat!SetToSeqs
<1>4. order \in Seq(S) /\ Len(order) = Cardinality(S)
  BY <1>2, <1>3
<1>5. Sorted(order)
  BY <1>3, <1>4 DEF Sorted, Cat!ListOrders
<1> QED
  BY <1>3, <1>4, <1>5, SeqMonotonic DEF Cat!Range

-----------------------------------------------------------------------------
(* The catalogue: every action preserves the invariant                       *)

LEMMA SyncIdle == \A past : SyncInv(Cat!Idle, past)
  BY DEF SyncInv, Cat!Idle, SyncSlot, Cat!Steps, Listings, Cat!NoPrices, Sorted, Pending

\* What was once for sale remains so in the history.
LEMMA SyncInvGrows ==
  ASSUME NEW s, NEW past, NEW more, past \subseteq more, SyncInv(s, past)
  PROVE  SyncInv(s, more)
  BY DEF SyncInv

LEMMA CatalogueInitHolds ==
  ASSUME Cat!Init
  PROVE  CatalogueInv
<1>1. \A r \in Syncs : syncs[r] = Cat!Idle
  BY DEF Cat!Init
<1>2. stripe \in Listings /\ rows \in [Cat!Prices -> Cat!Row \cup {Absent}]
  BY DEF Cat!Init, Listings, Cat!NoPrices
<1>3. Backed(stripe, offered) /\ Backed(rows, offered)
  BY DEF Cat!Init, Cat!NoPrices, Backed
<1>4. edits \in 0..MaxEdits /\ lost \in 0..MaxAborts
  BY PricedAssumption, SignupAssumption DEF Cat!Init
<1>5. \A r \in Syncs : syncs[r].done = {}
  BY <1>1 DEF Cat!Idle
<1> QED
  BY <1>1, <1>2, <1>3, <1>4, <1>5, SyncIdle DEF Cat!Init, CatalogueInv

LEMMA CatalogueKeeps ==
  ASSUME CatalogueInv, [Cat!Next]_Cat!vars
  PROVE  CatalogueInv'
<1>1. CASE UNCHANGED Cat!vars
  BY <1>1 DEF Cat!vars, CatalogueInv
\* A step of one sync that changes nothing else.
<1>2. ASSUME NEW r \in Syncs, NEW s, syncs' = [syncs EXCEPT ![r] = s],
             SyncInv(s, offered), UNCHANGED <<stripe, offered, edits>>,
             rows' \in [Cat!Prices -> Cat!Row \cup {Absent}], Backed(rows', offered),
             lost' \in 0..MaxAborts,
             \A q \in Syncs \ {r} : s.done \cap syncs[q].done = {}
      PROVE  CatalogueInv'
  <2>1. \A q \in Syncs : syncs'[q] = IF q = r THEN s ELSE syncs[q]
    BY <1>2 DEF CatalogueInv
  <2>2. syncs' = [q \in Syncs |-> syncs'[q]]
    BY <1>2 DEF CatalogueInv
  <2>3. \A q \in Syncs : SyncInv(syncs'[q], offered')
    BY <1>2, <2>1 DEF CatalogueInv
  <2>4. \A q, x \in Syncs : q # x => syncs'[q].done \cap syncs'[x].done = {}
    BY <1>2, <2>1 DEF CatalogueInv
  <2>5. /\ stripe' \in Listings /\ Backed(stripe', offered') /\ Backed(rows', offered')
        /\ offered' \subseteq Cat!Prices \X (Plans \cup {NoPlan})
        /\ edits' \in 0..MaxEdits
    BY <1>2 DEF CatalogueInv
  <2> QED
    BY <1>2, <2>2, <2>3, <2>4, <2>5 DEF CatalogueInv
<1>3. ASSUME NEW r \in Syncs
      PROVE  /\ SyncInv(syncs[r], offered) /\ syncs[r] \in SyncSlot
             /\ rows \in [Cat!Prices -> Cat!Row \cup {Absent}]
             /\ Backed(rows, offered) /\ lost \in 0..MaxAborts
             /\ \A q \in Syncs \ {r} : syncs[r].done \cap syncs[q].done = {}
  BY <1>3 DEF CatalogueInv, SyncInv
<1>4. ASSUME NEW r \in Syncs, Cat!Finish(r), UNCHANGED <<stripe, offered, edits>>,
             rows' \in [Cat!Prices -> Cat!Row \cup {Absent}], Backed(rows', offered),
             lost' \in 0..MaxAborts
      PROVE  CatalogueInv'
  <2>1. \A q \in Syncs : Cat!Idle.done \cap syncs[q].done = {}
    BY DEF Cat!Idle
  <2> QED
    BY <1>2, <1>4, <2>1, SyncIdle DEF Cat!Finish
\* An edit adds to the history what it puts on sale.
<1>5. ASSUME NEW p \in Cat!Prices, NEW new \in Cat!Price, Cat!Edit(p, new)
      PROVE  CatalogueInv'
  <2>1. /\ offered \subseteq offered'
        /\ offered' \subseteq Cat!Prices \X (Plans \cup {NoPlan})
    BY <1>5 DEF Cat!Edit, CatalogueInv, Cat!Price
  <2>2. stripe' \in Listings
    BY <1>5 DEF Cat!Edit, CatalogueInv, Listings
  <2>3. Backed(stripe', offered')
    <3>1. ASSUME NEW q \in Cat!Prices, stripe'[q] # Absent, stripe'[q].active
          PROVE  <<q, stripe'[q].plan>> \in offered'
      BY <1>5, <2>1, <3>1 DEF Cat!Edit, CatalogueInv, Backed, Listings
    <3> QED
      BY <3>1 DEF Backed
  <2>4. Backed(rows', offered')
    BY <1>5, <2>1 DEF Cat!Edit, CatalogueInv, Backed
  <2>5. \A r \in Syncs : SyncInv(syncs'[r], offered')
    BY <1>5, <2>1, SyncInvGrows DEF Cat!Edit, CatalogueInv
  <2>6. edits' \in 0..MaxEdits
    BY <1>5, PricedAssumption DEF Cat!Edit, CatalogueInv
  <2> QED
    BY <1>5, <2>1, <2>2, <2>3, <2>4, <2>5, <2>6 DEF Cat!Edit, CatalogueInv
<1>6. ASSUME NEW r \in Syncs, Cat!Begin(r) PROVE CatalogueInv'
  <2> DEFINE s == [syncs[r] EXCEPT !.pc = "list"]
  <2>1. syncs[r].pc = "idle" /\ syncs' = [syncs EXCEPT ![r] = s]
    BY <1>6 DEF Cat!Begin, Cat!At
  <2>2. /\ s \in SyncSlot /\ s.pc = "list" /\ s.todo = syncs[r].todo
        /\ s.done = syncs[r].done /\ s.listed = syncs[r].listed
    BY <1>3 DEF SyncSlot, Cat!Steps
  <2> HIDE DEF s
  <2>3. SyncInv(s, offered)
    BY <1>3, <2>1, <2>2 DEF SyncInv, Pending
  <2> QED
    BY <1>2, <1>3, <1>6, <2>1, <2>2, <2>3 DEF Cat!Begin
\* What is listed is on sale at that moment.
<1>7. ASSUME NEW r \in Syncs, Cat!List(r) PROVE CatalogueInv'
  <2>1. CASE Cat!Finish(r)
    BY <1>3, <1>4, <1>7, <2>1 DEF Cat!List
  <2>2. CASE ~Cat!Finish(r)
    <3> DEFINE S == {p \in Cat!OnPage : Cat!PlanOf(stripe[p]) # NoPlan}
    <3>1. PICK order \in Cat!ListOrders(S) :
            syncs' = [syncs EXCEPT ![r].pc = "upsert", ![r].todo = order,
                        ![r].listed = [p \in Cat!Prices |->
                          IF p \in Cat!Range(order) THEN stripe[p] ELSE Absent]]
      BY <1>7, <2>2 DEF Cat!List
    <3> DEFINE l == [p \in Cat!Prices |->
                       IF p \in Cat!Range(order) THEN stripe[p] ELSE Absent]
               s == [syncs[r] EXCEPT !.pc = "upsert", !.todo = order, !.listed = l]
    <3>2. S \subseteq Cat!Prices
      BY DEF Cat!OnPage, Cat!Active
    <3>3. order \in Seq(Cat!Prices) /\ Sorted(order) /\ Cat!Range(order) \subseteq S
      BY <3>1, <3>2, OrdersAreSorted
    <3>4. ASSUME NEW p \in Cat!Range(order)
          PROVE  /\ p \in Cat!Prices /\ l[p] = stripe[p] /\ stripe[p] \in Cat!Price
                 /\ stripe[p].plan \in Plans /\ <<p, stripe[p].plan>> \in offered
      <4>1. p \in Cat!Prices /\ stripe[p] # Absent /\ stripe[p].active
            /\ stripe[p].plan # NoPlan
        BY <3>3, <3>4 DEF Cat!OnPage, Cat!Active, Cat!PlanOf
      <4>2. stripe[p] \in Cat!Price
        BY <4>1 DEF CatalogueInv, Listings
      <4> QED
        BY <3>4, <4>1, <4>2 DEF CatalogueInv, Backed, Cat!Price
    <3>5. l \in Listings
      BY <3>4 DEF Listings
    <3>6. syncs[r].done = {}
      BY <1>3, <1>7 DEF Cat!List, Cat!At, SyncInv
    <3>7. /\ s \in SyncSlot /\ s.pc = "upsert" /\ s.todo = order /\ s.done = {}
          /\ s.listed = l
      <4> HIDE DEF l
      <4> QED
        BY <1>3, <3>3, <3>5, <3>6 DEF SyncSlot, Cat!Steps
    <3>8. syncs' = [syncs EXCEPT ![r] = s]
      BY <3>1
    <3> HIDE DEF s, l
    <3>9. Pending(s) = Cat!Range(order)
      BY <3>3, <3>7, RangeIs DEF Pending
    <3>10. SyncInv(s, offered)
      BY <3>3, <3>4, <3>7, <3>9 DEF SyncInv
    <3>11. UNCHANGED <<stripe, rows, offered, edits, lost>>
      BY <1>7 DEF Cat!List
    <3>12. \A q \in Syncs \ {r} : s.done \cap syncs[q].done = {}
      BY <3>7
    <3> QED
      BY <1>2, <1>3, <3>8, <3>10, <3>11, <3>12
  <2> QED
    BY <2>1, <2>2
\* The next price is older than all that is locked, and locked by nobody else.
<1>8. ASSUME NEW r \in Syncs, Cat!Upsert(r) PROVE CatalogueInv'
  <2> DEFINE t == syncs[r].todo
             s == [syncs[r] EXCEPT !.todo = Tail(t), !.done = syncs[r].done \cup {Head(t)}]
  <2>1. /\ syncs[r].pc = "upsert" /\ t # <<>> /\ ~Cat!Locked(r, Head(t))
        /\ syncs' = [syncs EXCEPT ![r] = s]
    BY <1>8 DEF Cat!Upsert, Cat!At
  <2>2. t \in Seq(Cat!Prices) /\ Sorted(t)
    BY <1>3 DEF SyncInv, SyncSlot
  <2>3. /\ Head(t) \in Cat!Prices /\ Tail(t) \in Seq(Cat!Prices) /\ Sorted(Tail(t))
        /\ {t[i] : i \in 1..Len(t)}
              = {Head(t)} \cup {Tail(t)[i] : i \in 1..Len(Tail(t))}
        /\ \A i \in 1..Len(Tail(t)) : Tail(t)[i] < Head(t)
    BY <2>1, <2>2, TailOfSorted
  <2>4. /\ s \in SyncSlot /\ s.pc = "upsert" /\ s.todo = Tail(t)
        /\ s.done = syncs[r].done \cup {Head(t)} /\ s.listed = syncs[r].listed
    BY <1>3, <2>1, <2>3 DEF SyncSlot
  <2>5. Pending(syncs[r]) = {Head(t)} \cup Pending(s)
    BY <2>3, <2>4 DEF Pending
  <2>6. \A p \in Pending(s) : p \in Cat!Prices /\ p < Head(t)
    BY <2>3, <2>4, ElementOfSeq DEF Pending
  <2>7. \A q \in Syncs \ {r} : Head(t) \notin syncs[q].done
    BY <2>1 DEF Cat!Locked
  <2> HIDE DEF s, t
  <2>8. \A d \in s.done, p \in Pending(s) : d > p
    BY <1>3, <2>3, <2>4, <2>5, <2>6 DEF SyncInv, SyncSlot, Cat!Prices
  <2>9. SyncInv(s, offered)
    BY <1>3, <2>1, <2>3, <2>4, <2>5, <2>8 DEF SyncInv
  <2>10. \A q \in Syncs \ {r} : s.done \cap syncs[q].done = {}
    BY <1>3, <2>4, <2>7
  <2> QED
    BY <1>2, <1>3, <1>8, <2>1, <2>9, <2>10 DEF Cat!Upsert
\* The rows written are of what was listed, which was for sale then.
<1>9. ASSUME NEW r \in Syncs, Cat!Commit(r) PROVE CatalogueInv'
  <2>1. \A p \in syncs[r].done :
          /\ syncs[r].listed[p] \in Cat!Price /\ syncs[r].listed[p].plan \in Plans
          /\ <<p, syncs[r].listed[p].plan>> \in offered
    BY <1>3 DEF SyncInv
  <2>2. rows' = [p \in Cat!Prices |-> IF p \in syncs[r].done
          THEN [plan |-> syncs[r].listed[p].plan, active |-> syncs[r].listed[p].active]
          ELSE rows[p]]
    BY <1>9 DEF Cat!Commit, Cat!PlanOf
  <2>3. rows' \in [Cat!Prices -> Cat!Row \cup {Absent}]
    BY <1>3, <2>1, <2>2 DEF Cat!Price, Cat!Row
  <2>4. Backed(rows', offered)
    BY <1>3, <2>1, <2>2 DEF Backed
  <2> QED
    BY <1>3, <1>4, <1>9, <2>3, <2>4 DEF Cat!Commit
<1>10. ASSUME NEW r \in Syncs, Cat!Abort(r) PROVE CatalogueInv'
  <2>1. lost' \in 0..MaxAborts
    BY <1>3, <1>10, SignupAssumption DEF Cat!Abort
  <2> QED
    BY <1>3, <1>4, <1>10, <2>1 DEF Cat!Abort
<1> QED
  BY <1>1, <1>5, <1>6, <1>7, <1>8, <1>9, <1>10 DEF Cat!Next, Cat!Step

-----------------------------------------------------------------------------
(* The catalogue: theorems                                                   *)

\* What Catalogue does by itself keeps its invariant.
THEOREM CatalogueInvariance ==
  Cat!Spec => []CatalogueInv
<1>1. Cat!Init => CatalogueInv
  BY CatalogueInitHolds
<1>2. CatalogueInv /\ [Cat!Next]_Cat!vars => CatalogueInv'
  BY CatalogueKeeps
<1> QED
  BY <1>1, <1>2, PTL DEF Cat!Spec

\* Types of the catalogue: no sync upserts a price twice, and no two have
\* written the same.
THEOREM CatalogueTypeCorrect ==
  Cat!Spec => []Cat!TypeOK
<1>1. CatalogueInv => Cat!TypeOK
  <2> SUFFICES ASSUME CatalogueInv PROVE Cat!TypeOK
    OBVIOUS
  <2>1. ASSUME NEW r \in Syncs
        PROVE  /\ syncs[r].pc \in Cat!Steps /\ syncs[r].listed \in Listings
               /\ Cat!Range(syncs[r].todo) \cap syncs[r].done = {}
               /\ \A p \in Cat!Range(syncs[r].todo) \cup syncs[r].done :
                    syncs[r].listed[p] # Absent
               /\ \A q \in Syncs \ {r} : syncs[r].done \cap syncs[q].done = {}
    <3>1. SyncInv(syncs[r], offered)
      BY DEF CatalogueInv
    <3>2. syncs[r] \in SyncSlot
      BY <3>1 DEF SyncInv
    <3>3. Cat!Range(syncs[r].todo) = Pending(syncs[r])
      BY <3>2, RangeIs DEF Pending, SyncSlot
    <3>4. syncs[r].done \subseteq Nat
      BY <3>2 DEF SyncSlot, Cat!Prices
    <3>5. Pending(syncs[r]) \cap syncs[r].done = {}
      BY <3>1, <3>4 DEF SyncInv
    <3>6. syncs[r].pc \in Cat!Steps /\ syncs[r].listed \in Listings
      BY <3>2 DEF SyncSlot
    <3>7. \A p \in Pending(syncs[r]) \cup syncs[r].done : syncs[r].listed[p] # Absent
      BY <3>1, PricedAssumption DEF SyncInv
    <3>8. \A q \in Syncs \ {r} : syncs[r].done \cap syncs[q].done = {}
      BY DEF CatalogueInv
    <3> QED
      BY <3>3, <3>5, <3>6, <3>7, <3>8
  <2> QED
    BY <2>1 DEF CatalogueInv, Cat!TypeOK, Listings
<1> QED
  BY <1>1, CatalogueInvariance, PTL

\* A signup that finds two prices of its plan finds them because Stripe has
\* offered two: no relabelling, no order of syncs and no crash makes another.
THEOREM LookupsAreUnique ==
  Cat!Spec => []Cat!LookupIsUnique
<1>1. CatalogueInv => Cat!LookupIsUnique
  <2> SUFFICES ASSUME CatalogueInv, NEW plan \in Plans,
                      Cardinality(Cat!ActiveByPlan(plan)) >= 2
               PROVE  Cardinality({p \in Cat!Prices : <<p, plan>> \in offered}) >= 2
    BY CatalogueCounts DEF Cat!LookupIsUnique
  <2> DEFINE S == {p \in Cat!Prices : <<p, plan>> \in offered}
  <2>1. IsFiniteSet(S)
    BY PricesAreFinite
  <2>2. Cat!ActiveByPlan(plan) \subseteq S
    BY DEF Cat!ActiveByPlan, CatalogueInv, Backed
  <2> HIDE DEF S
  <2>3. /\ Cardinality(Cat!ActiveByPlan(plan)) <= Cardinality(S)
        /\ Cardinality(S) \in Nat /\ Cardinality(Cat!ActiveByPlan(plan)) \in Nat
    BY <2>1, <2>2, FS_Subset, FS_CardinalityType
  <2>4. Cardinality(S) >= 2
    BY <2>3
  <2> QED
    BY <2>4 DEF S
<1> QED
  BY <1>1, CatalogueInvariance, PTL

\* No syncs wait for each other in a circle: of those that wait, the one that
\* has come to the oldest price would wait for one that is past an older price.
THEOREM SyncsNeverDeadlock ==
  Cat!Spec => []Cat!SyncsWaitInLine
<1>1. CatalogueInv => Cat!SyncsWaitInLine
  <2> SUFFICES ASSUME CatalogueInv, NEW S \in SUBSET Syncs, S # {},
                      \A r \in S : \E q \in S \ {r} : Cat!WaitsFor(r, q)
               PROVE  FALSE
    BY DEF Cat!SyncsWaitInLine
  <2>1. ASSUME NEW x \in S
        PROVE  /\ Head(syncs[x].todo) \in Cat!Prices /\ Head(syncs[x].todo) \in Nat
               /\ \A d \in syncs[x].done : d \in Nat /\ d > Head(syncs[x].todo)
    <3>1. SyncInv(syncs[x], offered) /\ syncs[x] \in SyncSlot /\ syncs[x].todo # <<>>
      BY DEF CatalogueInv, SyncInv, Cat!WaitsFor
    <3>2. Head(syncs[x].todo) \in Pending(syncs[x]) /\ Head(syncs[x].todo) \in Cat!Prices
      BY <3>1, TailOfSorted DEF SyncInv, SyncSlot, Pending, Cat!Prices
    <3> QED
      BY <3>1, <3>2 DEF SyncInv, SyncSlot, Cat!Prices
  <2> DEFINE Heads == {Head(syncs[x].todo) : x \in S}
             Below(h) == {p \in Cat!Prices : p < h}
             Older == {Below(h) : h \in Heads}
             Less == StrictSubsetOrdering(Cat!Prices)
  <2>2. PICK D \in Older : \A E \in Older : <<E, D>> \notin Less
    <3>1. IsWellFoundedOn(Less, FiniteSubsetsOf(Cat!Prices))
      BY FS_StrictSubsetOrderingWellFounded
    <3>2. FiniteSubsetsOf(Cat!Prices) = SUBSET Cat!Prices
      BY PricesAreFinite, FS_FiniteSubsetsOfFinite
    <3>3. Older \subseteq SUBSET Cat!Prices /\ Older # {}
      <4>1. PICK x \in S : TRUE
        OBVIOUS
      <4>2. Below(Head(syncs[x].todo)) \in Older
        BY <4>1
      <4>3. \A h : Below(h) \subseteq Cat!Prices
        OBVIOUS
      <4> QED
        BY <4>2, <4>3
    <3> HIDE DEF Older, Less
    <3> QED
      BY <3>1, <3>2, <3>3, WFMin
  <2>3. PICK r \in S : D = Below(Head(syncs[r].todo))
    BY <2>2
  <2> DEFINE h == Head(syncs[r].todo)
  <2>4. PICK q \in S : h \in syncs[q].done
    BY <2>3 DEF Cat!WaitsFor
  <2> DEFINE g == Head(syncs[q].todo)
             E == Below(g)
  <2>5. g < h /\ g \in Cat!Prices /\ h \in Nat
    BY <2>1, <2>4
  <2>6. E \in Older
    OBVIOUS
  <2>7. E \subseteq D /\ g \in D \ E /\ D \subseteq Cat!Prices
    BY <2>3, <2>5 DEF Cat!Prices
  <2>8. <<E, D>> \in Less
    BY <2>7 DEF StrictSubsetOrdering
  <2> QED
    BY <2>2, <2>6, <2>8
<1> QED
  BY <1>1, CatalogueInvariance, PTL

-----------------------------------------------------------------------------
(* The two together: each does what it does alone                            *)

LEMMA StepOfSignup == PricedNext => [Next]_vars
<1>1. ASSUME NEW r \in Requests, LookUpPrice(r) PROVE Next
  <2>1. \E known \in PriceKnown : AssignFreemium(r, known)
    BY <1>1, PricedAssumption DEF LookUpPrice
  <2> QED
    BY <2>1 DEF Next, Step
<1>2. ASSUME NEW r \in Requests,
             Unpriced(r) \/ BuyPrice(r) \/ NamePrice(r) \/ Drop(r)
      PROVE  Next
  BY <1>2 DEF Unpriced, BuyPrice, NamePrice, Drop, Next, Step
<1> QED
  BY <1>1, <1>2 DEF PricedNext, signupVars

LEMMA StepOfCatalogue == PricedNext => [Cat!Next]_Cat!vars
  BY DEF PricedNext, catalogueVars, Cat!vars

\* So what is proved of Signup holds where signups look their price up.
LEMMA PricedIsSignup == PricedSpec => Spec
<1>1. PricedInit => Init
  BY DEF PricedInit
<1>2. [PricedNext]_<<signupVars, catalogueVars>> => [Next]_vars
  BY StepOfSignup DEF signupVars
<1> QED
  BY <1>1, <1>2, PTL DEF PricedSpec, Spec

\* And what is proved of Catalogue.
LEMMA PricedIsCatalogue == PricedSpec => Cat!Spec
<1>1. PricedInit => Cat!Init
  BY DEF PricedInit
<1>2. [PricedNext]_<<signupVars, catalogueVars>> => [Cat!Next]_Cat!vars
  BY StepOfCatalogue DEF catalogueVars, Cat!vars
<1> QED
  BY <1>1, <1>2, PTL DEF PricedSpec, Cat!Spec

-----------------------------------------------------------------------------
(* The two together: the price that is bought                                *)

\* A signup holds a price from its lookup to its end, one that was on offer as
\* freemium, and when it names it Stripe has sold it.
PriceInv(r) ==
  /\ price[r] \in 0..MaxPrices
  /\ price[r] # 0 <=> tx[r].pc \in {"customer", "subscription", "store"}
  /\ price[r] # 0 => <<price[r], Freemium>> \in offered
  /\ At(r, "store") => price[r] \in bought[tx[r].email]

PricedInv ==
  /\ IInv /\ CatalogueInv
  /\ price = [r \in Requests |-> price[r]]
  /\ bought \in [Emails -> SUBSET Cat!Prices]
  /\ named \in [Emails -> 0..MaxPrices]
  /\ \A r \in Requests : PriceInv(r)
  /\ BoughtWasFreemium

LEMMA PricedInitHolds == PricedInit => PricedInv
<1> SUFFICES ASSUME PricedInit PROVE PricedInv
  OBVIOUS
<1>1. IInv /\ CatalogueInv
  BY InitHolds, CatalogueInitHolds DEF PricedInit
<1>2. \A r \in Requests : tx[r].pc = "idle"
  BY DEF PricedInit, Init, Idle
<1>3. \A e \in Emails : ~account[e].row /\ bought[e] = {}
  BY DEF PricedInit, Init, NoAccount
<1> QED
  BY <1>1, <1>2, <1>3, PricedAssumption
  DEF PricedInit, PricedInv, PriceInv, BoughtWasFreemium, At

\* What has been offered stays so.
LEMMA OfferedGrows == CatalogueInv /\ [Cat!Next]_Cat!vars => offered \subseteq offered'
  BY DEF Cat!Next, Cat!Step, Cat!Edit, Cat!Begin, Cat!List, Cat!Upsert,
         Cat!Commit, Cat!Abort, Cat!vars

LEMMA PricedKeeps ==
  PricedInv /\ [PricedNext]_<<signupVars, catalogueVars>> => PricedInv'
<1> SUFFICES ASSUME PricedInv, [PricedNext]_<<signupVars, catalogueVars>>
             PROVE  PricedInv'
  OBVIOUS
<1>1. IInv' /\ CatalogueInv' /\ offered \subseteq offered'
  <2>1. [Next]_vars /\ [Cat!Next]_Cat!vars
    BY StepOfSignup, StepOfCatalogue DEF signupVars, catalogueVars, Cat!vars
  <2> QED
    BY <2>1, NextKeeps, CatalogueKeeps, OfferedGrows DEF PricedInv
<1>2. /\ \A e \in Emails : account[e] \in Account /\ bought[e] \subseteq Cat!Prices
      /\ \A r \in Requests : ~At(r, "idle") => tx[r].email \in Emails
      /\ tx = [r \in Requests |-> tx[r]] /\ account = [e \in Emails |-> account[e]]
  BY DEF PricedInv, IInv, TypeOK, Slot, Idle, At
\* The dashboard and the syncs.
<1>3. CASE UNCHANGED signupVars
  BY <1>1, <1>3 DEF PricedInv, PriceInv, BoughtWasFreemium, signupVars, vars, At
\* Of the steps of one request, what each has to show of it.
<1>4. ASSUME NEW r \in Requests, \A q \in Requests \ {r} : tx'[q] = tx[q],
             NEW p, price' = [price EXCEPT ![r] = p],
             bought' \in [Emails -> SUBSET Cat!Prices],
             \A e \in Emails : bought[e] \subseteq bought'[e],
             named' \in [Emails -> 0..MaxPrices],
             PriceInv(r)', BoughtWasFreemium'
      PROVE  PricedInv'
  <2>1. ASSUME NEW q \in Requests \ {r} PROVE PriceInv(q)'
    <3>1. tx'[q] = tx[q] /\ price'[q] = price[q] /\ PriceInv(q)
      BY <1>4 DEF PricedInv
    <3>2. At(q, "store") => tx[q].email \in Emails
      BY <1>2 DEF At
    <3> QED
      BY <1>1, <1>4, <3>1, <3>2 DEF PriceInv, At
  <2> QED
    BY <1>1, <1>4, <2>1 DEF PricedInv
\* A request that has no price, and goes where none is needed.
<1>5. ASSUME NEW r \in Requests, \A q \in Requests \ {r} : tx'[q] = tx[q],
             tx'[r].pc \notin {"customer", "subscription", "store"},
             Forget(r), UNCHANGED <<account, bought, named>>
      PROVE  PricedInv'
  <2>1. price'[r] = 0
    BY <1>5 DEF Forget, PricedInv
  <2>2. PriceInv(r)'
    BY <1>5, <2>1, PricedAssumption DEF PriceInv, At
  <2>3. BoughtWasFreemium'
    BY <1>1, <1>5 DEF PricedInv, BoughtWasFreemium
  <2> QED
    BY <1>4, <1>5, <2>2, <2>3 DEF Forget, PricedInv
<1>6. ASSUME NEW r \in Requests, Finish(r)
      PROVE  tx'[r].pc = "idle" /\ \A q \in Requests \ {r} : tx'[q] = tx[q]
  BY <1>2, <1>6 DEF Finish, Idle
<1>7. ASSUME NEW r \in Requests, NEW step, Goto(r, step), ~At(r, "idle")
      PROVE  /\ tx'[r].pc = step /\ tx'[r].email = tx[r].email
             /\ \A q \in Requests \ {r} : tx'[q] = tx[q]
  <2>1. tx[r] \in Slot
    BY <1>7 DEF PricedInv, IInv, TypeOK, Idle, At
  <2> QED
    BY <1>2, <1>7, <2>1 DEF Goto, Slot
<1>8. ASSUME NEW r \in Requests, Unpriced(r) PROVE PricedInv'
  <2>1. CASE CreateCustomer(r)
    <3>1. /\ tx'[r].pc = "subscription" /\ tx'[r].email = tx[r].email
          /\ \A q \in Requests \ {r} : tx'[q] = tx[q]
          /\ At(r, "customer") /\ UNCHANGED <<account, price, bought, named>>
      BY <1>7, <1>8, <2>1 DEF CreateCustomer, At, Unpriced
    <3>2. PriceInv(r)'
      BY <1>1, <3>1 DEF PricedInv, PriceInv, At
    <3>3. BoughtWasFreemium'
      BY <1>1, <3>1 DEF PricedInv, BoughtWasFreemium
    <3>4. price' = [price EXCEPT ![r] = price[r]]
      BY <3>1 DEF PricedInv
    <3> QED
      BY <1>4, <3>1, <3>2, <3>3, <3>4 DEF PricedInv
  <2>2. CASE ~CreateCustomer(r)
    <3>1. /\ tx[r].pc \in {"idle", "check", "insert"}
          /\ tx'[r].pc \in {"idle", "check", "insert", "assign"}
          /\ \A q \in Requests \ {r} : tx'[q] = tx[q]
          /\ UNCHANGED <<account, price, bought, named>>
      <4>1. CASE \E e \in Emails, kind \in Kinds : Begin(r, e, kind)
        BY <1>2, <1>8, <4>1 DEF Begin, Unpriced, At
      <4>2. CASE CheckEmail(r) \/ InsertAccount(r)
        BY <1>6, <1>7, <1>8, <4>2 DEF CheckEmail, InsertAccount, Unpriced, At
      <4> QED
        BY <1>8, <2>2, <4>1, <4>2 DEF Unpriced
    <3>2. Forget(r)
      BY <3>1 DEF PricedInv, PriceInv, Forget
    <3> QED
      BY <1>5, <3>1, <3>2
  <2> QED
    BY <2>1, <2>2
\* What the lookup finds was on offer.
<1>9. ASSUME NEW r \in Requests, LookUpPrice(r) PROVE PricedInv'
  <2>1. /\ At(r, "assign") /\ UNCHANGED <<bought, named>>
    BY <1>9 DEF LookUpPrice, AssignFreemium
  <2>2. ASSUME NEW p \in Cat!ActiveByPlan(Freemium), AssignFreemium(r, TRUE),
               price' = [price EXCEPT ![r] = p]
        PROVE  PricedInv'
    <3>1. /\ tx'[r].pc = "customer"
          /\ \A q \in Requests \ {r} : tx'[q] = tx[q]
      BY <1>7, <2>1, <2>2 DEF AssignFreemium, At
    <3>2. p \in 1..MaxPrices /\ <<p, Freemium>> \in offered'
      BY <1>1, <2>2 DEF Cat!ActiveByPlan, Cat!Prices, PricedInv, CatalogueInv, Backed
    <3>3. PriceInv(r)'
      BY <2>2, <3>1, <3>2, PricedAssumption DEF PricedInv, PriceInv, At
    <3>4. \A e \in Emails \ {tx[r].email} : account'[e] = account[e]
      BY <1>2, <2>2 DEF AssignFreemium
    <3>5. tx[r].email \in Emails => account'[tx[r].email].row = FALSE
      <4> DEFINE a == [NoAccount EXCEPT !.exists = TRUE, !.profile = TRUE,
                                        !.linkedin = (tx[r].kind = "linkedin")]
      <4>1. a.row = FALSE
        BY DEF NoAccount
      <4>2. account' = [account EXCEPT ![tx[r].email] = a]
        BY <2>2 DEF AssignFreemium
      <4> HIDE DEF a
      <4> QED
        BY <1>2, <4>1, <4>2
    <3>6. BoughtWasFreemium'
      BY <1>1, <2>1, <3>4, <3>5 DEF PricedInv, BoughtWasFreemium
    <3> QED
      BY <1>4, <2>1, <2>2, <3>1, <3>3, <3>6 DEF PricedInv
  <2>3. ASSUME AssignFreemium(r, FALSE), UNCHANGED price PROVE PricedInv'
    <3>1. /\ tx'[r].pc = "idle" /\ UNCHANGED <<account, bought, named>>
          /\ \A q \in Requests \ {r} : tx'[q] = tx[q]
      BY <1>6, <2>1, <2>3 DEF AssignFreemium
    <3>2. Forget(r)
      BY <2>1, <2>3 DEF PricedInv, PriceInv, Forget, At
    <3> QED
      BY <1>5, <3>1, <3>2
  <2> QED
    BY <1>9, <2>2, <2>3 DEF LookUpPrice
<1>10. ASSUME NEW r \in Requests, BuyPrice(r) PROVE PricedInv'
  <2>1. /\ At(r, "subscription") /\ tx[r].email \in Emails
        /\ bought' = [bought EXCEPT ![tx[r].email] = @ \cup {price[r]}]
        /\ price[r] \in Cat!Prices /\ <<price[r], Freemium>> \in offered'
        /\ UNCHANGED <<account, named>>
    BY <1>1, <1>2, <1>10
    DEF BuyPrice, CreateSubscription, StripeTimeout, PricedInv, PriceInv, At, Cat!Prices
  <2>2. /\ bought' \in [Emails -> SUBSET Cat!Prices]
        /\ \A e \in Emails : bought[e] \subseteq bought'[e]
        /\ price[r] \in bought'[tx[r].email]
    BY <2>1 DEF PricedInv
  <2>3. BoughtWasFreemium'
    BY <1>1, <2>1, <2>2 DEF PricedInv, BoughtWasFreemium
  <2>4. CASE CreateSubscription(r) /\ UNCHANGED price
    <3>1. /\ tx'[r].pc = "store" /\ tx'[r].email = tx[r].email
          /\ \A q \in Requests \ {r} : tx'[q] = tx[q]
      BY <1>7, <2>1, <2>4 DEF CreateSubscription, At
    <3>2. PriceInv(r)'
      BY <1>1, <2>1, <2>2, <2>4, <3>1 DEF PricedInv, PriceInv, At
    <3>3. price' = [price EXCEPT ![r] = price[r]]
      BY <2>4 DEF PricedInv
    <3> QED
      BY <1>4, <2>1, <2>2, <2>3, <3>1, <3>2, <3>3 DEF PricedInv
  <2>5. CASE StripeTimeout(r) /\ Forget(r)
    <3>1. /\ tx'[r].pc = "idle" /\ price'[r] = 0
          /\ \A q \in Requests \ {r} : tx'[q] = tx[q]
      BY <1>6, <2>5 DEF StripeTimeout, Forget, PricedInv
    <3>2. PriceInv(r)'
      BY <3>1, PricedAssumption DEF PriceInv, At
    <3> QED
      BY <1>4, <2>1, <2>2, <2>3, <2>5, <3>1, <3>2 DEF PricedInv, Forget
  <2> QED
    BY <1>10, <2>4, <2>5 DEF BuyPrice
<1>11. ASSUME NEW r \in Requests, NamePrice(r) PROVE PricedInv'
  <2>1. /\ At(r, "store") /\ tx[r].email \in Emails /\ Finish(r)
        /\ named' = [named EXCEPT ![tx[r].email] = price[r]]
        /\ price[r] \in bought[tx[r].email] /\ price[r] \in 0..MaxPrices
        /\ bought' = bought /\ Forget(r)
    BY <1>2, <1>11 DEF NamePrice, StoreSubscription, PricedInv, PriceInv, At
  <2>2. \A e \in Emails \ {tx[r].email} : account'[e] = account[e]
    BY <1>2, <1>11 DEF NamePrice, StoreSubscription
  <2>3. named' \in [Emails -> 0..MaxPrices]
    BY <2>1 DEF PricedInv
  <2>4. BoughtWasFreemium'
    BY <1>1, <2>1, <2>2 DEF PricedInv, BoughtWasFreemium
  <2>5. tx'[r].pc = "idle" /\ price'[r] = 0 /\ \A q \in Requests \ {r} : tx'[q] = tx[q]
    BY <1>6, <2>1 DEF Forget, PricedInv
  <2>6. PriceInv(r)'
    BY <2>5, PricedAssumption DEF PriceInv, At
  <2> QED
    BY <1>4, <2>1, <2>3, <2>4, <2>5, <2>6 DEF PricedInv, Forget
<1>12. ASSUME NEW r \in Requests, Drop(r) PROVE PricedInv'
  <2>1. Finish(r) /\ Forget(r) /\ UNCHANGED <<account, bought, named>>
    BY <1>12 DEF Drop, Abort, StripeTimeout
  <2> QED
    BY <1>5, <1>6, <2>1
<1> QED
  BY <1>3, <1>8, <1>9, <1>10, <1>11, <1>12 DEF PricedNext, catalogueVars, signupVars

THEOREM PricedInvariance == PricedSpec => []PricedInv
  BY PricedInitHolds, PricedKeeps, PTL DEF PricedSpec

\* Types of a signup that has its price: both components keep theirs, and the
\* price is there exactly from the lookup to the end of the request.
THEOREM PricedTypeCorrect == PricedSpec => []PricedTypeOK
<1>1. PricedInv /\ TypeOK /\ Cat!TypeOK => PricedTypeOK
  <2> SUFFICES ASSUME PricedInv PROVE price \in [Requests -> 0..MaxPrices]
    BY DEF PricedInv, PriceInv, PricedTypeOK
  <2>1. \A r \in Requests : price[r] \in 0..MaxPrices
    BY DEF PricedInv, PriceInv
  <2> QED
    BY <2>1 DEF PricedInv
<1> QED
  BY <1>1, PricedInvariance, PricedIsSignup, PricedIsCatalogue, TypeCorrect,
     CatalogueTypeCorrect, PTL

\* While signups look prices up, no plan has two unless Stripe has offered two.
THEOREM PricesAreUnique == PricedSpec => []LookupIsUnique
<1>1. Cat!LookupIsUnique => LookupIsUnique
  BY DEF LookupIsUnique
<1> QED
  BY <1>1, PricedIsCatalogue, LookupsAreUnique, PTL

\* While signups look prices up, no number of syncs wait for each other.
THEOREM SyncsNeverWaitInACircle == PricedSpec => []SyncsWaitInLine
<1>1. Cat!SyncsWaitInLine => SyncsWaitInLine
  BY DEF SyncsWaitInLine
<1> QED
  BY <1>1, PricedIsCatalogue, SyncsNeverDeadlock, PTL

\* What a new account is subscribed to at Stripe was offered as freemium, and
\* its row names the price that Stripe was asked for.
THEOREM SoldWasFreemium == PricedSpec => []BoughtWasFreemium
<1>1. PricedInv => BoughtWasFreemium
  BY DEF PricedInv
<1> QED
  BY <1>1, PricedInvariance, PTL
=============================================================================
