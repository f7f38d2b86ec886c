------------------------ MODULE BillingWebhooksProofs ------------------------
(***************************************************************************)
(* Proofs about BillingWebhooks for every number of subscriptions, plans,  *)
(* events and handlers.                                                    *)
(***************************************************************************)
EXTENDS BillingWebhooks, SequenceTheorems, TLAPS

Plans == PaidPlans \cup {Freemium}
Slot == [pc : Steps, event : Nat, seen : Row \cup {NoRow}, new : Row \cup {NoRow}]

Types ==
  /\ stripe \in [Subs -> [status : StripeStatus, plan : Plans \cup {NoPlan}]]
  /\ current \in Subs
  /\ log \in Seq(Event)
  /\ pending \subseteq 1..Len(log)
  /\ row \in Row \cup {NoRow}
  /\ h \in [Handlers -> Slot]
  /\ disorder \subseteq {"early", "order", "repeat", "overlap"}
  /\ redelivered \in 0..MaxRedeliveries
  /\ aborts \in 0..MaxAborts

Bought(s) == stripe[s].status # "none"

\* Events are about bought subscriptions and name their plan.
StripeInv ==
  /\ \A s \in Subs : Bought(s) => stripe[s].plan \in Plans
  /\ \A i \in 1..Len(log) : Bought(log[i].sub) /\ log[i].plan = stripe[log[i].sub].plan
  /\ Bought(FreeSub) /\ stripe[FreeSub].plan = Freemium

\* What a handler holds by how far it has come.  A row never goes away.
HandlerInv ==
  \A k \in Handlers :
    /\ ~At(k, "idle") => h[k].event \in 1..Len(log)
    /\ At(k, "idle") => h[k].event = 0
    /\ h[k].pc \notin {"idle", "read"} => h[k].new \in Row
    /\ h[k].pc \in {"select", "write", "commitUpdate"} => row # NoRow
    /\ h[k].pc \in {"write", "commitUpdate"} => h[k].seen \in Row

\* One at a time, a handler writes what it made of the committed row.
Serial ==
  /\ \A j, k \in Handlers : ~At(j, "idle") /\ ~At(k, "idle") => j = k
  /\ \A k \in Handlers : h[k].pc \in {"write", "commitUpdate"} => h[k].seen = row

Consistent(x) ==
  /\ Bought(x.sub) /\ x.plan = stripe[x.sub].plan
  /\ \/ x.status = "pending"
     \/ x.status = "active" /\ x.sub = FreeSub
     \/ \E i \in 1..Len(log) : log[i].sub = x.sub /\ MapStatus(log[i].status) = x.status

RowInv ==
  "overlap" \notin disorder =>
    /\ Serial
    /\ row # NoRow => Consistent(row)
    /\ \A k \in Handlers : h[k].pc \notin {"idle", "read"} => Consistent(h[k].new)

IInv == Types /\ StripeInv /\ HandlerInv /\ RowInv

-----------------------------------------------------------------------------
(* Facts about the operators *)

LEMMA MapStatusType == \A s : MapStatus(s) \in Status
BY DEF MapStatus, Status

\* After an Emit the old events are where they were.
LEMMA Emitted ==
  ASSUME log \in Seq(Event), NEW events \in Seq(Event), Emit(events),
         pending \subseteq 1..Len(log)
  PROVE  /\ log' \in Seq(Event)
         /\ Len(log') = Len(log) + Len(events)
         /\ Len(log) \in Nat /\ Len(events) \in Nat
         /\ \A i \in 1..Len(log) : log'[i] = log[i]
         /\ \A i \in 1..Len(events) : log'[Len(log) + i] = events[i]
         /\ \A i \in 1..Len(log') : i \in 1..Len(log) \/ i - Len(log) \in 1..Len(events)
         /\ \A i \in 1..Len(log') \ 1..Len(log) : log'[i] = events[i - Len(log)]
         /\ pending' \subseteq 1..Len(log')
         /\ pending' = pending \cup (Len(log) + 1)..Len(log')
<1>1. log' = log \o events /\ pending' = pending \cup ((Len(log) + 1)..(Len(log) + Len(events)))
  BY DEF Emit
<1>2. Len(log) \in Nat /\ Len(events) \in Nat
  BY LenProperties
<1>3. /\ log' \in Seq(Event) /\ Len(log') = Len(log) + Len(events)
      /\ \A i \in 1..Len(log) + Len(events) :
           log'[i] = IF i <= Len(log) THEN log[i] ELSE events[i - Len(log)]
  BY <1>1, ConcatProperties
<1>4. \A i \in 1..Len(log) : log'[i] = log[i]
  BY <1>2, <1>3
<1>5. \A i \in 1..Len(events) : log'[Len(log) + i] = events[i]
  <2> SUFFICES ASSUME NEW i \in 1..Len(events) PROVE log'[Len(log) + i] = events[i]
    OBVIOUS
  <2>1. Len(log) + i \in 1..Len(log) + Len(events) /\ ~(Len(log) + i <= Len(log))
        /\ Len(log) + i - Len(log) = i
    BY <1>2
  <2> QED
    BY <1>3, <2>1
<1>6. \A i \in 1..Len(log') \ 1..Len(log) : log'[i] = events[i - Len(log)]
  BY <1>2, <1>3
<1>7. pending' = pending \cup (Len(log) + 1)..Len(log')
  BY <1>1, <1>3
<1>8. pending' \subseteq 1..Len(log')
  <2> DEFINE m == Len(log)
             n == Len(log')
  <2>1. m \in Nat /\ n \in Nat /\ m <= n /\ pending \subseteq 1..m
        /\ pending' = pending \cup ((m + 1)..n)
    BY <1>2, <1>3, <1>7
  <2> HIDE DEF m, n
  <2>2. pending' \subseteq 1..n
    BY <2>1
  <2> QED
    BY <2>2 DEF n
<1>9. \A i \in 1..Len(log') : i \in 1..Len(log) \/ i - Len(log) \in 1..Len(events)
  BY <1>2, <1>3
<1> QED
  BY <1>2, <1>3, <1>4, <1>5, <1>6, <1>7, <1>8, <1>9

LEMMA DirtyColumnsFacts ==
  ASSUME NEW seen \in Row, NEW new \in Row, NEW stored \in Row
  PROVE  /\ DirtyColumns(seen, new, stored) \in Row
         /\ stored = seen => DirtyColumns(seen, new, stored) = new
<1>1. /\ DOMAIN new = {"plan", "status", "sub"}
      /\ new = [c \in {"plan", "status", "sub"} |-> new[c]]
  BY DEF Row
<1> DEFINE d == DirtyColumns(seen, new, stored)
<1>2. d = [c \in {"plan", "status", "sub"} |-> IF new[c] # seen[c] THEN new[c] ELSE stored[c]]
  BY <1>1 DEF DirtyColumns
<1>3. d \in Row
  BY <1>2 DEF Row
<1>4. stored = seen => d = new
  BY <1>1, <1>2
<1> QED
  BY <1>3, <1>4

-----------------------------------------------------------------------------
(* Every action preserves the invariant *)

LEMMA InitHolds == Init => IInv
<1> SUFFICES ASSUME Init PROVE IInv
  OBVIOUS
<1> USE BillingAssumption
<1>1. Types
  <2>1. Len(log) = 0 /\ log \in Seq(Event)
    BY EmptySeq DEF Init
  <2>2. stripe \in [Subs -> [status : StripeStatus, plan : Plans \cup {NoPlan}]]
    BY DEF Init, StripeStatus, Plans
  <2>3. Idle \in Slot
    BY DEF Idle, Slot, Steps
  <2>4. FreeRow \in Row /\ FreeSub \in Subs
    BY DEF FreeRow, Row, Status, Subs
  <2> QED
    BY <2>1, <2>2, <2>3, <2>4 DEF Init, Types
<1>2. StripeInv
  BY EmptySeq DEF Init, StripeInv, Bought, Subs, Plans
<1>3. HandlerInv
  BY DEF Init, HandlerInv, Idle, At
<1>4. RowInv
  BY DEF Init, RowInv, Serial, Consistent, Idle, At, FreeRow, Bought, Subs
<1> QED
  BY <1>1, <1>2, <1>3, <1>4 DEF IInv

\* One handler moves, at Stripe nothing.
LEMMA OneMoves ==
  ASSUME IInv, NEW k \in Handlers, NEW s \in Slot, h' = [h EXCEPT ![k] = s],
         UNCHANGED <<stripe, current, log, row, disorder, redelivered>>,
         pending' \subseteq 1..Len(log), aborts' \in 0..MaxAborts,
         ~At(k, "idle"), s.pc # "idle" => s.event = h[k].event,
         s.pc = "idle" => s.event = 0,
         s.pc \notin {"idle", "read"} => s.new \in Row,
         s.pc \in {"select", "write", "commitUpdate"} => row # NoRow,
         s.pc \in {"write", "commitUpdate"} => s.seen \in Row,
         "overlap" \notin disorder =>
           /\ s.pc \in {"write", "commitUpdate"} => s.seen = row
           /\ s.pc \notin {"idle", "read"} => Consistent(s.new)
  PROVE  IInv'
<1>1. h' \in [Handlers -> Slot] /\ h'[k] = s /\ \A j \in Handlers \ {k} : h'[j] = h[j]
  BY DEF IInv, Types
<1>2. Types'
  BY <1>1 DEF IInv, Types
<1>3. StripeInv'
  BY DEF IInv, StripeInv, Bought
<1>4. HandlerInv'
  BY <1>1 DEF IInv, HandlerInv, At
<1>5. RowInv'
  <2>1. \A x : Consistent(x)' <=> Consistent(x)
    BY DEF Consistent, Bought
  <2> SUFFICES ASSUME "overlap" \notin disorder
               PROVE  /\ Serial'
                      /\ row # NoRow => Consistent(row)'
                      /\ \A j \in Handlers :
                           h'[j].pc \notin {"idle", "read"} => Consistent(h'[j].new)
    BY DEF RowInv, Consistent, Bought
  <2>2. Serial'
    BY <1>1 DEF IInv, RowInv, Serial, At
  <2>3. \A j \in Handlers : h'[j].pc \notin {"idle", "read"} => Consistent(h'[j].new)
    BY <1>1 DEF IInv, RowInv
  <2> QED
    BY <2>2, <2>3 DEF IInv, RowInv, Consistent, Bought
<1> QED
  BY <1>2, <1>3, <1>4, <1>5 DEF IInv

\* Stripe moves: what it emits is about bought subscriptions, whose plans stay.
LEMMA StripeMoves ==
  ASSUME IInv, NEW events \in Seq(Event), Emit(events),
         stripe' \in [Subs -> [status : StripeStatus, plan : Plans \cup {NoPlan}]],
         current' \in Subs, UNCHANGED <<row, h, redelivered, aborts>>,
         disorder \subseteq disorder',
         disorder' \subseteq {"early", "order", "repeat", "overlap"},
         \A s \in Subs : Bought(s) => Bought(s)' /\ stripe'[s].plan = stripe[s].plan,
         \A s \in Subs : Bought(s)' => stripe'[s].plan \in Plans,
         \A i \in 1..Len(events) :
           stripe'[events[i].sub].status # "none" /\ events[i].plan = stripe'[events[i].sub].plan
  PROVE  IInv'
<1>1. /\ log' \in Seq(Event)
      /\ Len(log) \in Nat /\ Len(log') \in Nat /\ Len(log) <= Len(log')
      /\ \A i \in 1..Len(log) : i \in 1..Len(log') /\ log'[i] = log[i]
      /\ \A i \in 1..Len(log') \ 1..Len(log) :
           i - Len(log) \in 1..Len(events) /\ log'[i] = events[i - Len(log)]
      /\ pending' \subseteq 1..Len(log')
  BY Emitted DEF IInv, Types
<1>2. Types'
  BY <1>1 DEF IInv, Types
<1>3. StripeInv'
  <2>1. \A i \in 1..Len(log) : log[i] \in Event
    BY ElementOfSeq DEF IInv, Types
  <2>2. ASSUME NEW i \in 1..Len(log')
        PROVE  stripe'[log'[i].sub].status # "none" /\ log'[i].plan = stripe'[log'[i].sub].plan
    <3>1. CASE i \in 1..Len(log)
      BY <1>1, <2>1, <3>1 DEF IInv, StripeInv, Event, Bought
    <3>2. CASE i \notin 1..Len(log)
      <4>1. PICK j \in 1..Len(events) : log'[i] = events[j]
        <5>1. i \in 1..Len(log') \ 1..Len(log)
          BY <3>2
        <5> QED
          BY <1>1, <5>1, Zenon
      <4> QED
        BY <4>1
    <3> QED
      BY <3>1, <3>2
  <2>3. Bought(FreeSub)' /\ stripe'[FreeSub].plan = Freemium
    BY DEF IInv, StripeInv, Subs
  <2> QED
    BY <2>2, <2>3 DEF StripeInv, Bought
<1>4. HandlerInv'
  BY <1>1 DEF IInv, HandlerInv, At
<1>5. ASSUME NEW x \in Row, Consistent(x) PROVE Consistent(x)'
  <2>1. x.sub \in Subs
    BY DEF Row
  <2> QED
    BY <1>1, <1>5, <2>1 DEF Consistent, Bought
<1>6. RowInv'
  <2> SUFFICES ASSUME "overlap" \notin disorder
               PROVE  /\ Serial'
                      /\ row # NoRow => Consistent(row)'
                      /\ \A j \in Handlers :
                           h[j].pc \notin {"idle", "read"} => Consistent(h[j].new)'
    BY DEF RowInv, Consistent, Bought
  <2>1. Serial'
    BY DEF IInv, RowInv, Serial, At
  <2>2. row # NoRow => Consistent(row)'
    BY <1>5 DEF IInv, Types, RowInv
  <2>3. \A j \in Handlers : h[j].pc \notin {"idle", "read"} => Consistent(h[j].new)'
    BY <1>5 DEF IInv, HandlerInv, RowInv
  <2> QED
    BY <2>1, <2>2, <2>3
<1> QED
  BY <1>2, <1>3, <1>4, <1>6 DEF IInv

LEMMA CheckoutKeeps ==
  ASSUME IInv, NEW s \in PaidSubs, NEW p \in Plans, Checkout(s, p)
  PROVE  IInv'
<1> USE BillingAssumption
<1> DEFINE completed == [kind |-> "checkout", sub |-> s, status |-> "active", plan |-> p]
           created == [completed EXCEPT !.kind = "created"]
<1>1. /\ s \in Subs /\ ~Bought(s)
      /\ stripe' = [stripe EXCEPT ![s] = [status |-> "active", plan |-> p]]
      /\ current' = s /\ UNCHANGED <<row, h, redelivered, aborts>>
  BY DEF Checkout, Purchase, Bought, Subs
<1>2. /\ completed \in Event /\ created \in Event
      /\ completed.sub = s /\ created.sub = s /\ completed.plan = p /\ created.plan = p
  BY <1>1 DEF Event, StripeStatus, Plans
<1>3. PICK events \in {<<completed, created>>, <<created, completed>>} :
        /\ Emit(events)
        /\ disorder' = disorder \/ disorder' = disorder \cup {"early"}
  BY DEF Checkout
<1> HIDE DEF completed, created
<1>4. /\ events \in Seq(Event) /\ Len(events) = 2
      /\ \A i \in 1..2 : events[i].sub = s /\ events[i].plan = p
  <2>1. \A a, b \in Event : /\ <<a, b>> \in Seq(Event) /\ Len(<<a, b>>) = 2
                           /\ <<a, b>>[1] = a /\ <<a, b>>[2] = b
    OBVIOUS
  <2>2. /\ events \in Seq(Event) /\ Len(events) = 2
        /\ events[1] \in {completed, created} /\ events[2] \in {completed, created}
    <3>1. CASE events = <<completed, created>>
      BY <1>2, <2>1, <3>1
    <3>2. CASE events = <<created, completed>>
      BY <1>2, <2>1, <3>2
    <3> QED
      BY <3>1, <3>2
  <2>3. \A i \in 1..2 : i = 1 \/ i = 2
    OBVIOUS
  <2> QED
    BY <1>2, <2>2, <2>3
<1>5. /\ stripe' \in [Subs -> [status : StripeStatus, plan : Plans \cup {NoPlan}]]
      /\ \A x \in Subs : Bought(x) => Bought(x)' /\ stripe'[x].plan = stripe[x].plan
      /\ \A x \in Subs : Bought(x)' => stripe'[x].plan \in Plans
      /\ Bought(s)' /\ stripe'[s].plan = p
  BY <1>1 DEF IInv, Types, StripeInv, Bought, StripeStatus
<1>6. disorder \subseteq disorder' /\ disorder' \subseteq {"early", "order", "repeat", "overlap"}
  BY <1>3 DEF IInv, Types
<1>7. \A i \in 1..Len(events) :
        stripe'[events[i].sub].status # "none" /\ events[i].plan = stripe'[events[i].sub].plan
  BY <1>4, <1>5 DEF Bought
<1> QED
  BY <1>1, <1>3, <1>4, <1>5, <1>6, <1>7, StripeMoves

LEMMA ChangeKeeps ==
  ASSUME IInv, NEW s \in Subs, NEW status \in Reported, Change(s, status)
  PROVE  IInv'
<1> USE ReportedAssumption
<1> DEFINE e == [kind |-> IF status = "canceled" THEN "deleted" ELSE "updated",
                 sub |-> s, status |-> status, plan |-> stripe[s].plan]
<1>1. /\ Bought(s) /\ stripe' = [stripe EXCEPT ![s].status = status] /\ Emit(<<e>>)
      /\ UNCHANGED <<current, row, h, disorder, redelivered, aborts>>
  BY DEF Change, Bought, counts
<1>2. stripe[s].plan \in Plans /\ status \in StripeStatus /\ status # "none"
  BY <1>1 DEF IInv, StripeInv
<1>3. e \in Event /\ e.sub = s /\ e.plan = stripe[s].plan
  BY <1>2 DEF Event, Plans
<1> HIDE DEF e
<1>4. <<e>> \in Seq(Event) /\ Len(<<e>>) = 1 /\ <<e>>[1] = e
  BY <1>3
<1>5. /\ stripe' \in [Subs -> [status : StripeStatus, plan : Plans \cup {NoPlan}]]
      /\ \A x \in Subs : Bought(x) => Bought(x)' /\ stripe'[x].plan = stripe[x].plan
      /\ \A x \in Subs : Bought(x)' => stripe'[x].plan \in Plans
      /\ Bought(s)' /\ stripe'[s].plan = e.plan
  BY <1>1, <1>2, <1>3 DEF IInv, Types, StripeInv, Bought
<1>6. \A i \in 1..Len(<<e>>) :
        stripe'[<<e>>[i].sub].status # "none" /\ <<e>>[i].plan = stripe'[<<e>>[i].sub].plan
  <2>1. \A i \in 1..1 : i = 1
    OBVIOUS
  <2> QED
    BY <1>3, <1>4, <1>5, <2>1 DEF Bought
<1>7. current' \in Subs /\ disorder \subseteq disorder'
      /\ disorder' \subseteq {"early", "order", "repeat", "overlap"}
  BY <1>1 DEF IInv, Types
<1> QED
  BY <1>1, <1>4, <1>5, <1>6, <1>7, StripeMoves

LEMMA DeliverKeeps ==
  ASSUME IInv, NEW k \in Handlers, NEW i \in 1..MaxEvents, Deliver(k, i)
  PROVE  IInv'
<1> DEFINE s == [Idle EXCEPT !.pc = "read", !.event = i]
<1>1. /\ At(k, "idle") /\ i \in pending /\ h' = [h EXCEPT ![k] = s]
      /\ UNCHANGED <<stripe, current, log, pending, row, redelivered, aborts>>
      /\ disorder \subseteq disorder'
      /\ disorder' \subseteq disorder \cup {"order", "overlap"}
      /\ "overlap" \notin disorder' => \A j \in Handlers : At(j, "idle")
  BY DEF Deliver
<1>2. /\ s \in Slot /\ s.pc = "read" /\ s.event = i
  <2>1. MaxEvents \in Nat
    BY BillingAssumption
  <2>2. i \in Nat
    BY <2>1
  <2>3. Idle \in Slot
    BY DEF Idle, Slot, Steps
  <2> QED
    BY <2>2, <2>3 DEF Idle, Slot, Steps
<1> HIDE DEF s
<1>3. h' \in [Handlers -> Slot] /\ h'[k] = s /\ \A j \in Handlers \ {k} : h'[j] = h[j]
  BY <1>1, <1>2 DEF IInv, Types
<1>4. Types'
  BY <1>1, <1>3 DEF IInv, Types
<1>5. StripeInv'
  BY <1>1 DEF IInv, StripeInv, Bought
<1>6. HandlerInv'
  BY <1>1, <1>2, <1>3 DEF IInv, Types, HandlerInv, At
<1>7. RowInv'
  <2> SUFFICES ASSUME "overlap" \notin disorder', "overlap" \notin disorder
               PROVE  /\ Serial'
                      /\ row # NoRow => Consistent(row)
                      /\ \A j \in Handlers : h'[j].pc \in {"idle", "read"}
    BY <1>1 DEF RowInv, Consistent, Bought
  <2>1. \A j \in Handlers : At(j, "idle")
    BY <1>1
  <2>2. \A j \in Handlers \ {k} : h'[j].pc = "idle"
    BY <1>3, <2>1 DEF At
  <2> QED
    BY <1>2, <1>3, <2>2 DEF IInv, RowInv, Serial, At
<1> QED
  BY <1>4, <1>5, <1>6, <1>7 DEF IInv

LEMMA RedeliverKeeps ==
  ASSUME IInv, NEW i \in 1..MaxEvents, Redeliver(i)
  PROVE  IInv'
<1>1. /\ i \in 1..Len(log) /\ pending' = pending \cup {i}
      /\ redelivered < MaxRedeliveries /\ redelivered' = redelivered + 1
      /\ disorder' = disorder \cup {"repeat"}
      /\ UNCHANGED <<stripe, current, log, row, h, aborts>>
  BY DEF Redeliver
<1>2. redelivered' \in 0..MaxRedeliveries
  BY <1>1, BillingAssumption DEF IInv, Types
<1>3. Types'
  BY <1>1, <1>2 DEF IInv, Types
<1>4. StripeInv' /\ HandlerInv'
  BY <1>1 DEF IInv, StripeInv, HandlerInv, Bought, At
<1>5. RowInv'
  BY <1>1 DEF IInv, RowInv, Serial, Consistent, Bought, At
<1> QED
  BY <1>3, <1>4, <1>5 DEF IInv

\* Answering and failing end a handler.
LEMMA EndKeeps ==
  ASSUME IInv, NEW k \in Handlers, ~At(k, "idle"), Answer(k) \/ Reject(k),
         UNCHANGED <<stripe, current, log, row, disorder, redelivered>>,
         aborts' \in 0..MaxAborts
  PROVE  IInv'
<1>1. Idle \in Slot /\ Idle.pc = "idle" /\ Idle.event = 0
  BY DEF Idle, Slot, Steps
<1>2. h' = [h EXCEPT ![k] = Idle] /\ pending' \subseteq 1..Len(log)
  BY DEF Answer, Reject, IInv, Types
<1> QED
  BY <1>1, <1>2, OneMoves

LEMMA EventFacts ==
  ASSUME IInv, NEW k \in Handlers, ~At(k, "idle")
  PROVE  /\ EventOf(k) \in Event /\ EventOf(k).sub \in Subs
         /\ EventOf(k).plan = stripe[EventOf(k).sub].plan
         /\ h[k].event \in 1..Len(log)
         /\ Bought(EventOf(k).sub)
<1>1. h[k].event \in 1..Len(log)
  BY DEF IInv, HandlerInv
<1>2. EventOf(k) \in Event
  BY <1>1, ElementOfSeq DEF IInv, Types, EventOf
<1> QED
  BY <1>1, <1>2 DEF IInv, StripeInv, EventOf, Event

\* The two first reads: what a handler makes of the row.
LEMMA ReadKeeps ==
  ASSUME IInv, NEW k \in Handlers, ReadForCheckout(k) \/ ReadForUpdate(k)
  PROVE  IInv'
<1> USE BillingAssumption
<1> DEFINE e == EventOf(k)
<1>1. /\ At(k, "read") /\ UNCHANGED <<stripe, current, log, row, disorder, redelivered, aborts>>
      /\ aborts' \in 0..MaxAborts
  BY DEF ReadForCheckout, ReadForUpdate, counts, IInv, Types
<1>2. /\ e \in Event /\ e.sub \in Subs /\ e.plan = stripe[e.sub].plan
      /\ h[k].event \in 1..Len(log) /\ e = log[h[k].event] /\ Bought(e.sub)
  BY <1>1, EventFacts DEF At, EventOf
<1> HIDE DEF e
<1>3. CASE Answer(k)
  BY <1>1, <1>3, EndKeeps DEF At
<1>4. CASE ReadForUpdate(k) /\ ~Answer(k)
  <2> DEFINE new == [row EXCEPT !.status = MapStatus(e.status)]
             s == [h[k] EXCEPT !.pc = "select", !.new = new]
  <2>1. h' = [h EXCEPT ![k] = s] /\ row.sub = e.sub /\ pending' = pending
    BY <1>4 DEF ReadForUpdate, e
  <2>2. row # NoRow /\ row \in Row
    BY <1>2, <2>1 DEF NoRow, Subs, IInv, Types
  <2>3. new \in Row /\ new.sub = e.sub /\ new.plan = row.plan /\ new.status = MapStatus(e.status)
    BY <2>1, <2>2, MapStatusType DEF Row
  <2>4. "overlap" \notin disorder => Consistent(new)
    BY <1>2, <2>1, <2>2, <2>3 DEF IInv, RowInv, Consistent
  <2> HIDE DEF new
  <2>5. /\ s \in Slot /\ s.pc = "select" /\ s.event = h[k].event /\ s.new = new
    BY <2>3 DEF IInv, Types, Slot, Steps
  <2> HIDE DEF s
  <2>6. pending' \subseteq 1..Len(log) /\ ~At(k, "idle")
    BY <1>1, <2>1 DEF IInv, Types, At
  <2> QED
    BY <1>1, <2>1, <2>2, <2>3, <2>4, <2>5, <2>6, OneMoves
<1>5. CASE ReadForCheckout(k)
  <2> DEFINE new == AssignPaidPlan(row, e)
             step == IF row = NoRow THEN "insert" ELSE "select"
             s == [h[k] EXCEPT !.pc = step, !.new = new]
  <2>1. h' = [h EXCEPT ![k] = s] /\ pending' = pending
    BY <1>5 DEF ReadForCheckout, e
  <2>2. new \in Row /\ new.sub = e.sub /\ new.plan = e.plan /\ new.status = "pending"
    BY <1>2 DEF AssignPaidPlan, Row, Event, Status
  <2>3. Consistent(new)
    BY <1>2, <2>2 DEF Consistent
  <2> HIDE DEF new
  <2>4. s \in Slot /\ s.pc = step /\ s.event = h[k].event /\ s.new = new
    BY <2>2 DEF IInv, Types, Slot, Steps
  <2> HIDE DEF s
  <2>5. pending' \subseteq 1..Len(log) /\ ~At(k, "idle")
    BY <1>1, <2>1 DEF IInv, Types, At
  <2>6. s.pc \notin {"write", "commitUpdate"} /\ (s.pc = "select" => row # NoRow)
    BY <2>4
  <2> QED
    BY <1>1, <2>1, <2>2, <2>3, <2>4, <2>5, <2>6, OneMoves
<1> QED
  BY <1>3, <1>4, <1>5

LEMMA NextKeeps == IInv /\ [Next]_vars => IInv'
<1> SUFFICES ASSUME IInv, [Next]_vars PROVE IInv'
  OBVIOUS
<1>1. CASE UNCHANGED vars
  BY <1>1 DEF vars, counts, IInv, Types, StripeInv, HandlerInv, RowInv, Serial, Consistent,
              Bought, At
<1>2. ASSUME NEW k \in Handlers, SelectRow(k) PROVE IInv'
  <2> DEFINE s == [h[k] EXCEPT !.pc = "write", !.seen = row]
  <2>1. /\ h[k].pc = "select" /\ h' = [h EXCEPT ![k] = s] /\ pending' = pending
        /\ UNCHANGED <<stripe, current, log, row, disorder, redelivered, aborts>>
    BY <1>2 DEF SelectRow, At, counts
  <2>2. row \in Row /\ row # NoRow /\ h[k] \in Slot
    BY <2>1 DEF IInv, Types, HandlerInv
  <2>3. /\ s \in Slot /\ s.pc = "write" /\ s.event = h[k].event /\ s.new = h[k].new
        /\ s.seen = row
    BY <2>2 DEF Slot, Steps
  <2> HIDE DEF s
  <2>4. /\ h[k].new \in Row
        /\ "overlap" \notin disorder => Consistent(h[k].new)
        /\ pending' \subseteq 1..Len(log) /\ aborts' \in 0..MaxAborts /\ ~At(k, "idle")
    BY <2>1 DEF IInv, Types, HandlerInv, RowInv, At
  <2> QED
    BY <2>1, <2>2, <2>3, <2>4, OneMoves
<1>3. ASSUME NEW k \in Handlers, WriteRow(k) PROVE IInv'
  <2> DEFINE s == [h[k] EXCEPT !.pc = "commitUpdate"]
  <2>1. /\ h[k].pc = "write" /\ h' = [h EXCEPT ![k] = s] /\ pending' = pending
        /\ UNCHANGED <<stripe, current, log, row, disorder, redelivered, aborts>>
    BY <1>3 DEF WriteRow, At, Goto, counts
  <2>2. /\ s \in Slot /\ s.pc = "commitUpdate" /\ s.event = h[k].event /\ s.new = h[k].new
        /\ s.seen = h[k].seen
    BY DEF IInv, Types, Slot, Steps
  <2> HIDE DEF s
  <2>3. /\ h[k].new \in Row /\ h[k].seen \in Row /\ row # NoRow
        /\ "overlap" \notin disorder => Consistent(h[k].new) /\ h[k].seen = row
        /\ pending' \subseteq 1..Len(log) /\ aborts' \in 0..MaxAborts /\ ~At(k, "idle")
    BY <2>1 DEF IInv, Types, HandlerInv, RowInv, Serial, At
  <2> QED
    BY <2>1, <2>2, <2>3, OneMoves
<1>4. ASSUME NEW k \in Handlers, InsertRow(k) PROVE IInv'
  <2>1. /\ h[k].pc = "insert" /\ aborts' \in 0..MaxAborts
        /\ UNCHANGED <<stripe, current, log, row, disorder, redelivered, aborts>>
    BY <1>4 DEF InsertRow, At, counts, IInv, Types
  <2>2. CASE Reject(k)
    BY <2>1, <2>2, EndKeeps DEF At
  <2>3. CASE ~Reject(k)
    <3> DEFINE s == [h[k] EXCEPT !.pc = "commitInsert"]
    <3>1. h' = [h EXCEPT ![k] = s] /\ pending' = pending
      BY <1>4, <2>3 DEF InsertRow, Goto
    <3>2. s \in Slot /\ s.pc = "commitInsert" /\ s.event = h[k].event /\ s.new = h[k].new
      BY DEF IInv, Types, Slot, Steps
    <3> HIDE DEF s
    <3>3. /\ h[k].new \in Row
          /\ "overlap" \notin disorder => Consistent(h[k].new)
          /\ pending' \subseteq 1..Len(log) /\ ~At(k, "idle")
      BY <2>1, <3>1 DEF IInv, Types, HandlerInv, RowInv, At
    <3> QED
      BY <2>1, <3>1, <3>2, <3>3, OneMoves
  <2> QED
    BY <2>2, <2>3
\* What is committed is a whole row, and what the handler made when it was alone.
<1>5. ASSUME NEW k \in Handlers, CommitRow(k) PROVE IInv'
  <2>1. /\ h[k].pc \in {"commitUpdate", "commitInsert"}
        /\ h' = [h EXCEPT ![k] = Idle] /\ pending' \subseteq pending
        /\ UNCHANGED <<stripe, current, log, disorder, redelivered, aborts>>
    BY <1>5 DEF CommitRow, Answer, At, counts
  <2>2. h[k].new \in Row /\ (h[k].pc = "commitUpdate" => h[k].seen \in Row /\ row \in Row)
    BY <2>1 DEF IInv, Types, HandlerInv
  <2>3. row' \in Row
    BY <1>5, <2>2, DirtyColumnsFacts DEF CommitRow, At
  <2>4. row' # NoRow
    BY <2>3, BillingAssumption DEF Row, NoRow, Subs
  <2>5. "overlap" \notin disorder => row' = h[k].new
    <3>1. h[k].pc = "commitUpdate" /\ "overlap" \notin disorder => h[k].seen = row
      BY DEF IInv, RowInv, Serial
    <3> QED
      BY <1>5, <2>2, <3>1, DirtyColumnsFacts DEF CommitRow, At
  <2>6. /\ h' \in [Handlers -> Slot] /\ h'[k].pc = "idle" /\ h'[k].event = 0
        /\ \A j \in Handlers \ {k} : h'[j] = h[j]
    <3>1. Idle \in Slot /\ Idle.pc = "idle" /\ Idle.event = 0
      BY DEF Idle, Slot, Steps
    <3> QED
      BY <2>1, <3>1 DEF IInv, Types
  <2>7. Types'
    BY <2>1, <2>3, <2>6 DEF IInv, Types
  <2>8. StripeInv'
    BY <2>1 DEF IInv, StripeInv, Bought
  <2>9. HandlerInv'
    BY <2>1, <2>4, <2>6 DEF IInv, HandlerInv, At
  <2>10. RowInv'
    <3> SUFFICES ASSUME "overlap" \notin disorder
                 PROVE  /\ \A j \in Handlers : h'[j].pc = "idle"
                        /\ Consistent(row')
      BY <2>1 DEF RowInv, Serial, Consistent, Bought, At
    <3>1. \A j \in Handlers \ {k} : At(j, "idle")
      BY <2>1 DEF IInv, RowInv, Serial, At
    <3>2. Consistent(h[k].new)
      BY <2>1 DEF IInv, RowInv
    <3> QED
      BY <2>5, <2>6, <3>1, <3>2 DEF At
  <2> QED
    BY <2>7, <2>8, <2>9, <2>10 DEF IInv
<1>6. ASSUME NEW k \in Handlers, Abort(k) PROVE IInv'
  <2>1. aborts' \in 0..MaxAborts
    BY <1>6, BillingAssumption DEF Abort, IInv, Types
  <2> QED
    BY <1>6, <2>1, EndKeeps DEF Abort
<1> QED
  BY <1>1, <1>2, <1>3, <1>4, <1>5, <1>6, CheckoutKeeps, ChangeKeeps, RedeliverKeeps,
     DeliverKeeps, ReadKeeps DEF Next, Step, Plans

LEMMA InvariantHolds == Spec => []IInv
BY InitHolds, NextKeeps, PTL DEF Spec

-----------------------------------------------------------------------------
(* The theorems *)

\* However deliveries interleave, fail and repeat, the row is absent or whole.
THEOREM TypeCorrect == Spec => []TypeOK
<1>1. IInv => TypeOK
  <2> SUFFICES ASSUME IInv PROVE TypeOK
    OBVIOUS
  <2>1. \A i \in 1..Len(log) : log[i] \in Event
    BY ElementOfSeq DEF IInv, Types
  <2>2. \A k \in Handlers : /\ h[k].pc \in Steps /\ h[k].event \in 0..Len(log)
                            /\ {h[k].seen, h[k].new} \subseteq Row \cup {NoRow}
    <3>1. Len(log) \in Nat
      BY LenProperties DEF IInv, Types
    <3> QED
      BY <3>1 DEF IInv, Types, HandlerInv, Slot, At
  <2> QED
    BY <2>1, <2>2 DEF IInv, Types, TypeOK
<1> QED
  BY <1>1, InvariantHolds, PTL

\* While no two handlers have overlapped, in whatever order the events came,
\* the plan and the status of the row belong to the subscription it names.
THEOREM RowsAreConsistent == Spec => []RowIsOneSubscription
<1>1. IInv => RowIsOneSubscription
  BY DEF IInv, RowInv, Consistent, RowIsOneSubscription
<1> QED
  BY <1>1, InvariantHolds, PTL

-----------------------------------------------------------------------------
(* In order, the row is the outcome of the events answered so far *)

\* The status that events i+1 to n of l tell of s.
Told(l, i, n, s, default, status) ==
  \/ \E j \in (i + 1)..n : /\ l[j].sub = s /\ status = MapStatus(l[j].status)
                           /\ \A k \in (j + 1)..n : l[k].sub # s
  \/ (\A j \in (i + 1)..n : l[j].sub # s) /\ status = default

NoCheckout(l, i, n) == \A j \in (i + 1)..n : l[j].kind # "checkout"
LastCheckout(l, n, i) ==
  i \in 1..n /\ l[i].kind = "checkout" /\ NoCheckout(l, i, n)

\* What the first n events of l make of the row, one after the other.
Outcome(l, n, x) ==
  \/ /\ NoCheckout(l, 0, n)
     /\ \/ x = NoRow
        \/ /\ x.plan = Freemium /\ x.sub = FreeSub
           /\ Told(l, 0, n, FreeSub, "active", x.status)
  \/ \E i \in 1..n : /\ LastCheckout(l, n, i)
                     /\ x.plan = l[i].plan /\ x.sub = l[i].sub
                     /\ Told(l, i, n, x.sub, "pending", x.status)

\* The log says all there is to know of Stripe.
LogInv ==
  /\ \/ current = FreeSub /\ NoCheckout(log, 0, Len(log))
     \/ \E i \in 1..Len(log) : LastCheckout(log, Len(log), i) /\ log[i].sub = current
  /\ \A j \in 1..Len(log) :
       (\A k \in (j + 1)..Len(log) : log[k].sub # log[j].sub) =>
         stripe[log[j].sub].status = log[j].status
  /\ (\A j \in 1..Len(log) : log[j].sub # FreeSub) => stripe[FreeSub].status = "active"

\* A purchase is completed before it is told of.
Followed ==
  \A i \in 1..Len(log) : log[i].kind = "checkout" =>
    i + 1 \in 1..Len(log) /\ log[i + 1].sub = log[i].sub

\* Answered up to n: the handler at work, if any, has the next event.
Reached(n) ==
  /\ pending = (n + 1)..Len(log)
  /\ Outcome(log, n, row)
  /\ \A k \in Handlers : ~At(k, "idle") =>
       /\ h[k].event = n + 1
       /\ h[k].pc # "read" => Outcome(log, n + 1, h[k].new)

OrderInv ==
  disorder = {} => Followed /\ \E n \in 0..Len(log) : Reached(n)

LEMMA OutcomeKept ==
  ASSUME NEW l, NEW m, NEW n \in Nat, NEW x, \A i \in 1..n : m[i] = l[i], Outcome(l, n, x)
  PROVE  Outcome(m, n, x)
<1>1. \A i \in 0..n : NoCheckout(m, i, n) <=> NoCheckout(l, i, n)
  BY DEF NoCheckout
<1>2. \A i \in 0..n : \A s, d, y : Told(l, i, n, s, d, y) => Told(m, i, n, s, d, y)
  <2> SUFFICES ASSUME NEW i \in 0..n, NEW s, NEW d, NEW y, Told(l, i, n, s, d, y)
               PROVE  Told(m, i, n, s, d, y)
    OBVIOUS
  <2>1. \A j \in (i + 1)..n : j \in 1..n
    OBVIOUS
  <2>2. \A j \in (i + 1)..n : \A k \in (j + 1)..n : k \in 1..n
    OBVIOUS
  <2> QED
    BY <2>1, <2>2, Zenon DEF Told
<1>3. \A i \in 1..n : LastCheckout(l, n, i) => LastCheckout(m, n, i)
  BY <1>1 DEF LastCheckout
<1>4. 0 \in 0..n /\ \A i \in 1..n : i \in 0..n
  OBVIOUS
<1> QED
  BY <1>1, <1>2, <1>3, <1>4, Zenon DEF Outcome

LEMMA OutcomeOfNext ==
  ASSUME NEW l, NEW n \in Nat, NEW x, Outcome(l, n, x)
  PROVE  /\ l[n + 1].kind = "checkout" =>
              \A y : y.plan = l[n + 1].plan /\ y.sub = l[n + 1].sub /\ y.status = "pending"
                       => Outcome(l, n + 1, y)
         /\ l[n + 1].kind # "checkout" /\ x # NoRow /\ x.sub = l[n + 1].sub =>
              \A y : y.plan = x.plan /\ y.sub = x.sub
                       /\ y.status = MapStatus(l[n + 1].status)
                       => Outcome(l, n + 1, y)
         /\ l[n + 1].kind # "checkout" /\ x.sub # l[n + 1].sub => Outcome(l, n + 1, x)
<1> DEFINE e == l[n + 1]
<1>1. \A i \in 0..n : (i + 1)..(n + 1) = ((i + 1)..n) \cup {n + 1}
  OBVIOUS
<1>2. (n + 2)..(n + 1) = {} /\ n + 1 \in 1..(n + 1) /\ 0 \in 0..n
      /\ (n + 1 + 1)..(n + 1) = {}
      /\ \A i \in 1..n : i \in 0..n /\ i \in 1..(n + 1)
  OBVIOUS
<1>3. ASSUME e.kind = "checkout", NEW y, y.plan = e.plan, y.sub = e.sub, y.status = "pending"
      PROVE  Outcome(l, n + 1, y)
  <2>1. LastCheckout(l, n + 1, n + 1)
    BY <1>2, <1>3 DEF LastCheckout, NoCheckout
  <2>2. Told(l, n + 1, n + 1, y.sub, "pending", y.status)
    BY <1>2, <1>3 DEF Told
  <2> QED
    BY <1>2, <1>3, <2>1, <2>2 DEF Outcome
<1>4. ASSUME e.kind # "checkout"
      PROVE  /\ \A i \in 0..n : NoCheckout(l, i, n) => NoCheckout(l, i, n + 1)
             /\ \A i \in 1..n : LastCheckout(l, n, i) => LastCheckout(l, n + 1, i)
  <2>1. \A i \in 0..n : NoCheckout(l, i, n) => NoCheckout(l, i, n + 1)
    BY <1>1, <1>4 DEF NoCheckout
  <2> QED
    BY <1>2, <2>1 DEF LastCheckout
<1>5. ASSUME e.kind # "checkout", x # NoRow, x.sub = e.sub,
             NEW y, y.plan = x.plan, y.sub = x.sub, y.status = MapStatus(e.status)
      PROVE  Outcome(l, n + 1, y)
  <2>1. \A i \in 0..n : \A d : Told(l, i, n + 1, y.sub, d, y.status)
    <3> SUFFICES ASSUME NEW i \in 0..n
                 PROVE  \E j \in (i + 1)..(n + 1) :
                          /\ l[j].sub = y.sub /\ y.status = MapStatus(l[j].status)
                          /\ \A k \in (j + 1)..(n + 1) : l[k].sub # y.sub
      BY DEF Told
    <3>1. n + 1 \in (i + 1)..(n + 1)
      OBVIOUS
    <3> QED
      BY <1>2, <1>5, <3>1
  <2> QED
    BY <1>2, <1>4, <1>5, <2>1, Zenon DEF Outcome
<1>6. ASSUME e.kind # "checkout", x.sub # e.sub PROVE Outcome(l, n + 1, x)
  <2>1. \A i \in 0..n : \A d : Told(l, i, n, x.sub, d, x.status) =>
                             Told(l, i, n + 1, x.sub, d, x.status)
    <3> SUFFICES ASSUME NEW i \in 0..n, NEW d, Told(l, i, n, x.sub, d, x.status)
                 PROVE  Told(l, i, n + 1, x.sub, d, x.status)
      OBVIOUS
    <3>1. CASE \A j \in (i + 1)..n : l[j].sub # x.sub
      BY <1>1, <1>6, <3>1 DEF Told
    <3>2. CASE \E j \in (i + 1)..n : l[j].sub = x.sub
      <4>1. PICK j \in (i + 1)..n : /\ l[j].sub = x.sub /\ x.status = MapStatus(l[j].status)
                                    /\ \A k \in (j + 1)..n : l[k].sub # x.sub
        BY <3>2 DEF Told
      <4>2. j \in 0..n /\ j \in (i + 1)..(n + 1)
        OBVIOUS
      <4>3. \A k \in (j + 1)..(n + 1) : l[k].sub # x.sub
        BY <1>1, <1>6, <4>1, <4>2
      <4> QED
        BY <4>1, <4>2, <4>3 DEF Told
    <3> QED
      BY <3>1, <3>2
  <2> QED
    BY <1>2, <1>4, <1>6, <2>1 DEF Outcome
<1> QED
  BY <1>3, <1>5, <1>6

LEMMA AnsweredInOrderAgrees ==
  ASSUME Types, StripeInv, LogInv, Followed, Outcome(log, Len(log), row)
  PROVE  Agrees
<1> USE BillingAssumption
<1> DEFINE n == Len(log)
<1>1. n \in Nat /\ \A i \in 1..n : log[i] \in Event
  BY LenProperties, ElementOfSeq DEF Types
<1>2. CASE NoCheckout(log, 0, n) /\ row = NoRow
  <2>1. current = FreeSub
    BY <1>1, <1>2 DEF LogInv, LastCheckout, NoCheckout
  <2> QED
    BY <1>2, <2>1 DEF Agrees
<1>3. CASE /\ NoCheckout(log, 0, n) /\ row # NoRow
           /\ row.plan = Freemium /\ row.sub = FreeSub
           /\ Told(log, 0, n, FreeSub, "active", row.status)
  <2>1. current = FreeSub
    BY <1>1, <1>3 DEF LogInv, LastCheckout, NoCheckout
  <2>2. row.status = MapStatus(stripe[FreeSub].status)
    BY <1>1, <1>3 DEF Told, LogInv, MapStatus
  <2> QED
    BY <1>3, <2>1, <2>2 DEF Agrees, StripeInv, Types, Row
<1>4. ASSUME NEW i \in 1..n, LastCheckout(log, n, i),
             row.plan = log[i].plan, row.sub = log[i].sub,
             Told(log, i, n, row.sub, "pending", row.status)
      PROVE  Agrees
  <2>1. current = log[i].sub
    <3>1. PICK j \in 1..n : LastCheckout(log, n, j) /\ log[j].sub = current
      BY <1>1, <1>4 DEF LogInv, LastCheckout, NoCheckout
    <3>2. i = j
      BY <1>1, <1>4, <3>1 DEF LastCheckout, NoCheckout
    <3> QED
      BY <3>1, <3>2
  <2>2. row.status = MapStatus(stripe[current].status)
    <3>1. i + 1 \in (i + 1)..n /\ log[i + 1].sub = current
      BY <1>1, <1>4, <2>1 DEF Followed, LastCheckout
    <3>2. PICK j \in (i + 1)..n : /\ log[j].sub = current
                                  /\ row.status = MapStatus(log[j].status)
                                  /\ \A k \in (j + 1)..n : log[k].sub # current
      BY <1>4, <2>1, <3>1 DEF Told
    <3>3. j \in 1..n
      BY <1>1
    <3> QED
      BY <3>2, <3>3 DEF LogInv
  <2>3. row.plan = stripe[current].plan
    BY <1>4, <2>1 DEF StripeInv
  <2>4. row # NoRow
    BY <1>1, <1>4 DEF NoRow, Event, Subs
  <2> QED
    BY <1>4, <2>1, <2>2, <2>3, <2>4 DEF Agrees, Types, Row
<1> QED
  BY <1>2, <1>3, <1>4 DEF Outcome

LEMMA InitOrder == Init => LogInv /\ OrderInv
<1> SUFFICES ASSUME Init PROVE LogInv /\ OrderInv
  OBVIOUS
<1>1. Len(log) = 0 /\ pending = {}
  BY EmptySeq DEF Init
<1>2. NoCheckout(log, 0, 0) /\ Told(log, 0, 0, FreeSub, "active", "active")
  BY DEF NoCheckout, Told
<1>3. LogInv
  BY <1>1, <1>2 DEF LogInv, Init, Subs
<1>4. Outcome(log, 0, row)
  BY <1>2 DEF Outcome, Init, FreeRow
<1>5. Reached(0)
  BY <1>1, <1>4 DEF Reached, Init, Idle, At
<1>6. Followed /\ 0 \in 0..Len(log)
  BY <1>1 DEF Followed
<1> QED
  BY <1>3, <1>5, <1>6 DEF OrderInv

LEMMA CheckoutOrder ==
  ASSUME IInv, LogInv, OrderInv, NEW s \in PaidSubs, NEW p \in Plans, Checkout(s, p)
  PROVE  LogInv' /\ (disorder' = {} => disorder = {} /\ Followed')
<1> USE BillingAssumption
<1> DEFINE n == Len(log)
           completed == [kind |-> "checkout", sub |-> s, status |-> "active", plan |-> p]
           created == [completed EXCEPT !.kind = "created"]
<1>1. /\ s \in Subs /\ ~Bought(s) /\ s # FreeSub
      /\ stripe' = [stripe EXCEPT ![s] = [status |-> "active", plan |-> p]] /\ current' = s
  BY DEF Checkout, Purchase, Bought, Subs
<1>2. /\ completed \in Event /\ created \in Event
      /\ completed.sub = s /\ created.sub = s
      /\ completed.status = "active" /\ created.status = "active"
      /\ completed.kind = "checkout" /\ created.kind = "created"
  BY <1>1 DEF Event, StripeStatus, Plans
<1>3. PICK a \in {completed, created}, b \in {completed, created} :
        /\ a # b /\ Emit(<<a, b>>)
        /\ disorder' = {} => disorder = {} /\ a = completed
  BY <1>2 DEF Checkout
<1> HIDE DEF completed, created
<1>4. <<a, b>> \in Seq(Event) /\ Len(<<a, b>>) = 2 /\ <<a, b>>[1] = a /\ <<a, b>>[2] = b
  BY <1>2
<1>5. /\ n \in Nat /\ Len(log') = n + 2 /\ \A i \in 1..n : log'[i] = log[i]
      /\ log'[n + 1] = a /\ log'[n + 2] = b
  <2> DEFINE events == <<a, b>>
  <2>1. events \in Seq(Event) /\ Emit(events) /\ Len(events) = 2
        /\ events[1] = a /\ events[2] = b
    BY <1>3, <1>4
  <2> HIDE DEF events
  <2>2. /\ n \in Nat /\ Len(log') = n + Len(events)
        /\ \A i \in 1..n : log'[i] = log[i]
        /\ \A i \in 1..Len(events) : log'[n + i] = events[i]
    BY <2>1, Emitted DEF IInv, Types
  <2> QED
    BY <2>1, <2>2
<1> HIDE DEF n
<1>6. \A i \in 1..(n + 2) : i \in 1..n \/ i = n + 1 \/ i = n + 2
  BY <1>5
<1>7. \A i \in {n + 1, n + 2} : log'[i].sub = s /\ log'[i].status = "active"
  BY <1>2, <1>3, <1>5
<1>8. \E i \in 1..(n + 2) : LastCheckout(log', n + 2, i) /\ log'[i].sub = s
  <2>1. n + 1 \in 1..(n + 2) /\ n + 2 \in 1..(n + 2)
        /\ (n + 1 + 1)..(n + 2) = {n + 2} /\ (n + 2 + 1)..(n + 2) = {}
    BY <1>5
  <2>2. CASE a = completed
    BY <1>2, <1>3, <1>5, <1>7, <2>1, <2>2 DEF LastCheckout, NoCheckout
  <2>3. CASE b = completed
    BY <1>2, <1>3, <1>5, <1>7, <2>1, <2>3 DEF LastCheckout, NoCheckout
  <2> QED
    BY <1>2, <1>3, <2>2, <2>3
<1>9. ASSUME NEW j \in 1..(n + 2), \A k \in (j + 1)..(n + 2) : log'[k].sub # log'[j].sub
      PROVE  stripe'[log'[j].sub].status = log'[j].status
  <2>1. CASE j \in 1..n
    <3>1. n + 2 \in (j + 1)..(n + 2) /\ \A k \in (j + 1)..n : k \in (j + 1)..(n + 2) /\ k \in 1..n
      BY <1>5, <2>1
    <3>2. log[j].sub # s /\ \A k \in (j + 1)..n : log[k].sub # log[j].sub
      BY <1>5, <1>7, <1>9, <2>1, <3>1
    <3>3. stripe[log[j].sub].status = log[j].status
      BY <2>1, <3>2 DEF LogInv, n
    <3>4. log[j] \in Event
      BY <2>1, ElementOfSeq DEF IInv, Types, n
    <3> QED
      BY <1>1, <1>5, <2>1, <3>2, <3>3, <3>4 DEF IInv, Types, Event
  <2>2. CASE j \in {n + 1, n + 2}
    BY <1>1, <1>7, <2>2 DEF IInv, Types
  <2> QED
    BY <1>6, <2>1, <2>2
<1>10. ASSUME \A j \in 1..(n + 2) : log'[j].sub # FreeSub
       PROVE  stripe'[FreeSub].status = "active"
  <2>1. \A j \in 1..n : log[j].sub # FreeSub
    BY <1>5, <1>10
  <2> QED
    BY <1>1, <2>1 DEF LogInv, IInv, Types, n, Subs
<1>11. LogInv'
  BY <1>1, <1>5, <1>8, <1>9, <1>10 DEF LogInv
<1>12. ASSUME disorder' = {} PROVE Followed'
  <2>1. disorder = {} /\ a = completed /\ b = created
    BY <1>3, <1>12
  <2> SUFFICES ASSUME NEW i \in 1..(n + 2), log'[i].kind = "checkout"
               PROVE  i + 1 \in 1..(n + 2) /\ log'[i + 1].sub = log'[i].sub
    BY <1>5 DEF Followed
  <2>2. CASE i \in 1..n
    <3>1. i + 1 \in 1..n /\ log[i + 1].sub = log[i].sub
      BY <1>5, <2>1, <2>2 DEF OrderInv, Followed, n
    <3> QED
      BY <1>5, <2>2, <3>1
  <2>3. CASE i = n + 1
    BY <1>5, <1>7, <2>3
  <2>4. i # n + 2
    BY <1>2, <1>5, <2>1
  <2> QED
    BY <1>6, <2>2, <2>3, <2>4
<1> QED
  BY <1>3, <1>11, <1>12

LEMMA ChangeOrder ==
  ASSUME IInv, LogInv, OrderInv, NEW s \in Subs, NEW status \in Reported, Change(s, status)
  PROVE  LogInv' /\ (disorder' = {} => disorder = {} /\ Followed')
<1> USE BillingAssumption, ReportedAssumption
<1> DEFINE n == Len(log)
           e == [kind |-> IF status = "canceled" THEN "deleted" ELSE "updated",
                 sub |-> s, status |-> status, plan |-> stripe[s].plan]
<1>1. /\ Bought(s) /\ stripe' = [stripe EXCEPT ![s].status = status] /\ Emit(<<e>>)
      /\ UNCHANGED <<current, disorder>>
  BY DEF Change, Bought, counts
<1>2. e \in Event /\ e.sub = s /\ e.status = status /\ e.kind # "checkout"
  BY <1>1 DEF IInv, StripeInv, Event, Plans
<1> HIDE DEF e
<1>3. <<e>> \in Seq(Event) /\ Len(<<e>>) = 1 /\ <<e>>[1] = e
  BY <1>2
<1>4. /\ n \in Nat /\ Len(log') = n + 1 /\ \A i \in 1..n : log'[i] = log[i]
      /\ log'[n + 1] = e
  <2> DEFINE events == <<e>>
  <2>1. events \in Seq(Event) /\ Emit(events) /\ Len(events) = 1 /\ events[1] = e
    BY <1>1, <1>3
  <2> HIDE DEF events
  <2>2. /\ n \in Nat /\ Len(log') = n + Len(events)
        /\ \A i \in 1..n : log'[i] = log[i]
        /\ \A i \in 1..Len(events) : log'[n + i] = events[i]
    BY <2>1, Emitted DEF IInv, Types
  <2> QED
    BY <2>1, <2>2
<1> HIDE DEF n
<1>5. \A i \in 1..(n + 1) : i \in 1..n \/ i = n + 1
  BY <1>4
<1>6. \A i \in 0..n : NoCheckout(log, i, n) => NoCheckout(log', i, n + 1)
  <2> SUFFICES ASSUME NEW i \in 0..n, NoCheckout(log, i, n), NEW j \in (i + 1)..(n + 1)
               PROVE  log'[j].kind # "checkout"
    BY DEF NoCheckout
  <2>1. j = n + 1 \/ (j \in (i + 1)..n /\ j \in 1..n)
    BY <1>4
  <2> QED
    BY <1>2, <1>4, <2>1 DEF NoCheckout
<1>7. \/ current = FreeSub /\ NoCheckout(log', 0, n + 1)
      \/ \E i \in 1..(n + 1) : LastCheckout(log', n + 1, i) /\ log'[i].sub = current
  <2>1. CASE current = FreeSub /\ NoCheckout(log, 0, n)
    BY <1>4, <1>6, <2>1
  <2>2. ASSUME NEW i \in 1..n, LastCheckout(log, n, i), log[i].sub = current
        PROVE  LastCheckout(log', n + 1, i) /\ log'[i].sub = current /\ i \in 1..(n + 1)
    BY <1>4, <1>6, <2>2 DEF LastCheckout
  <2> QED
    BY <2>1, <2>2 DEF LogInv, n
<1>8. ASSUME NEW j \in 1..(n + 1), \A k \in (j + 1)..(n + 1) : log'[k].sub # log'[j].sub
      PROVE  stripe'[log'[j].sub].status = log'[j].status
  <2>1. CASE j \in 1..n
    <3>1. n + 1 \in (j + 1)..(n + 1) /\ \A k \in (j + 1)..n : k \in (j + 1)..(n + 1) /\ k \in 1..n
      BY <1>4, <2>1
    <3>2. log[j].sub # s /\ \A k \in (j + 1)..n : log[k].sub # log[j].sub
      BY <1>2, <1>4, <1>8, <2>1, <3>1
    <3>3. stripe[log[j].sub].status = log[j].status
      BY <2>1, <3>2 DEF LogInv, n
    <3>4. log[j] \in Event
      BY <2>1, ElementOfSeq DEF IInv, Types, n
    <3> QED
      BY <1>1, <1>4, <2>1, <3>2, <3>3, <3>4 DEF IInv, Types, Event
  <2>2. CASE j = n + 1
    BY <1>1, <1>2, <1>4, <2>2 DEF IInv, Types
  <2> QED
    BY <1>5, <2>1, <2>2
<1>9. ASSUME \A j \in 1..(n + 1) : log'[j].sub # FreeSub
      PROVE  stripe'[FreeSub].status = "active"
  <2>1. (\A j \in 1..n : log[j].sub # FreeSub) /\ s # FreeSub
    BY <1>2, <1>4, <1>9
  <2> QED
    BY <1>1, <2>1 DEF LogInv, IInv, Types, n, Subs
<1>10. LogInv'
  BY <1>1, <1>4, <1>7, <1>8, <1>9 DEF LogInv
<1>11. ASSUME disorder = {} PROVE Followed'
  <2> SUFFICES ASSUME NEW i \in 1..(n + 1), log'[i].kind = "checkout"
               PROVE  i + 1 \in 1..(n + 1) /\ log'[i + 1].sub = log'[i].sub
    BY <1>4 DEF Followed
  <2>1. i \in 1..n
    BY <1>2, <1>4, <1>5
  <2>2. i + 1 \in 1..n /\ log[i + 1].sub = log[i].sub
    BY <1>4, <1>11, <2>1 DEF OrderInv, Followed, n
  <2> QED
    BY <1>4, <2>1, <2>2
<1> QED
  BY <1>1, <1>10, <1>11

\* More events at the end do not change where the handlers are.
LEMMA StripeOrder ==
  ASSUME IInv, OrderInv, disorder = {}, NEW events \in Seq(Event), Emit(events),
         UNCHANGED <<row, h>>
  PROVE  \E n \in 0..Len(log') : Reached(n)'
<1>1. PICK n \in 0..Len(log) : Reached(n)
  BY DEF OrderInv
<1>2. /\ Len(log) \in Nat /\ Len(log') \in Nat /\ Len(log) <= Len(log')
      /\ \A i \in 1..Len(log) : log'[i] = log[i]
      /\ pending' = pending \cup (Len(log) + 1)..Len(log')
  BY Emitted DEF IInv, Types
<1>3. pending' = (n + 1)..Len(log') /\ n \in 0..Len(log')
  <2> DEFINE m == Len(log)
             o == Len(log')
  <2>1. /\ m \in Nat /\ o \in Nat /\ m <= o /\ n \in 0..m
        /\ pending = (n + 1)..m /\ pending' = pending \cup ((m + 1)..o)
    BY <1>1, <1>2 DEF Reached
  <2> HIDE DEF m, o
  <2>2. pending' = (n + 1)..o /\ n \in 0..o
    BY <2>1
  <2> QED
    BY <2>2 DEF o
<1>4. Outcome(log', n, row)
  BY <1>1, <1>2, OutcomeKept DEF Reached
<1>5. ASSUME NEW k \in Handlers, ~At(k, "idle")
      PROVE  /\ h[k].event = n + 1
             /\ h[k].pc # "read" => Outcome(log', n + 1, h[k].new)
  <2>1. h[k].event = n + 1 /\ n + 1 \in 1..Len(log)
    BY <1>1, <1>5 DEF Reached, IInv, HandlerInv
  <2>2. h[k].pc # "read" => Outcome(log, n + 1, h[k].new)
    BY <1>1, <1>5 DEF Reached
  <2>3. n + 1 \in Nat /\ \A i \in 1..(n + 1) : log'[i] = log[i]
    BY <1>2, <2>1
  <2> QED
    BY <2>1, <2>2, <2>3, OutcomeKept
<1>6. Reached(n)'
  BY <1>3, <1>4, <1>5 DEF Reached, At
<1> QED
  BY <1>3, <1>6

\* A handler moves and answers nothing: the rows it holds are outcomes.
LEMMA HandlerOrder ==
  ASSUME IInv, OrderInv, NEW k \in Handlers, NEW s, h' = [h EXCEPT ![k] = s],
         UNCHANGED <<stripe, current, log, pending, row, disorder>>,
         ~At(k, "idle"), s.pc # "idle" => s.event = h[k].event,
         disorder = {} /\ s.pc \notin {"idle", "read"} =>
           \A n \in 0..Len(log) : Reached(n) => Outcome(log, n + 1, s.new)
  PROVE  OrderInv'
<1>1. h'[k] = s /\ \A j \in Handlers \ {k} : h'[j] = h[j]
  BY DEF IInv, Types
<1>2. ASSUME NEW n \in 0..Len(log), Reached(n), disorder = {} PROVE Reached(n)'
  BY <1>1, <1>2 DEF Reached, At
<1> QED
  BY <1>2 DEF OrderInv, Followed

\* The next event is answered, and the row is its outcome.
LEMMA AnswerOrder ==
  ASSUME IInv, OrderInv, NEW k \in Handlers, ~At(k, "idle"), Answer(k),
         UNCHANGED <<stripe, current, log, disorder>>,
         disorder = {} =>
           \A n \in 0..Len(log) : Reached(n) => Outcome(log, n + 1, row')
  PROVE  OrderInv'
<1> SUFFICES ASSUME disorder = {} PROVE \E n \in 0..Len(log) : Reached(n)'
  BY DEF OrderInv, Followed
<1>1. PICK n \in 0..Len(log) : Reached(n)
  BY DEF OrderInv
<1>2. h[k].event = n + 1 /\ n + 1 \in 1..Len(log) /\ Len(log) \in Nat
  BY <1>1, LenProperties DEF Reached, IInv, HandlerInv, Types
<1>3. pending' = pending \ {n + 1} /\ pending = (n + 1)..Len(log)
  BY <1>1, <1>2 DEF Answer, Reached
<1>4. pending' = (n + 1 + 1)..Len(log) /\ n + 1 \in 0..Len(log)
  <2> DEFINE m == Len(log)
  <2>1. m \in Nat /\ n \in 0..m /\ n + 1 \in 1..m
        /\ pending' = pending \ {n + 1} /\ pending = (n + 1)..m
    BY <1>2, <1>3
  <2> HIDE DEF m
  <2>2. pending' = (n + 1 + 1)..m /\ n + 1 \in 0..m
    BY <2>1
  <2> QED
    BY <2>2 DEF m
<1>5. \A j \in Handlers : h'[j].pc = "idle"
  <2>1. \A j \in Handlers \ {k} : At(j, "idle")
    BY DEF IInv, RowInv, Serial
  <2>2. h' = [h EXCEPT ![k] = Idle]
    BY DEF Answer
  <2> QED
    BY <2>1, <2>2 DEF IInv, Types, Idle, At
<1>6. Outcome(log, n + 1, row')
  BY <1>1
<1>7. Reached(n + 1)'
  BY <1>4, <1>5, <1>6 DEF Reached, At
<1> QED
  BY <1>4, <1>7

LEMMA NextOrder == IInv /\ LogInv /\ OrderInv /\ [Next]_vars => LogInv' /\ OrderInv'
<1> SUFFICES ASSUME IInv, LogInv, OrderInv, [Next]_vars PROVE LogInv' /\ OrderInv'
  OBVIOUS
<1> USE BillingAssumption
<1>1. CASE UNCHANGED vars
  BY <1>1 DEF vars, counts, LogInv, OrderInv, Followed, Reached, At
<1>2. ASSUME UNCHANGED <<stripe, current, log>> PROVE LogInv'
  BY <1>2 DEF LogInv
<1>3. ASSUME NEW events \in Seq(Event), Emit(events), UNCHANGED <<row, h>>,
             disorder' = {} => disorder = {} /\ Followed'
      PROVE  OrderInv'
  BY <1>3, StripeOrder DEF OrderInv
<1>4. ASSUME NEW s \in PaidSubs, NEW p \in Plans, Checkout(s, p)
      PROVE  LogInv' /\ OrderInv'
  <2> DEFINE completed == [kind |-> "checkout", sub |-> s, status |-> "active", plan |-> p]
             created == [completed EXCEPT !.kind = "created"]
  <2>1. completed \in Event /\ created \in Event
    BY DEF Event, Subs, StripeStatus, Plans
  <2>2. PICK a \in Event, b \in Event : Emit(<<a, b>>)
    BY <1>4, <2>1 DEF Checkout
  <2>3. <<a, b>> \in Seq(Event) /\ UNCHANGED <<row, h>>
    BY <1>4 DEF Checkout
  <2> QED
    BY <1>3, <1>4, <2>2, <2>3, CheckoutOrder
<1>5. ASSUME NEW s \in Subs, NEW status \in Reported, Change(s, status)
      PROVE  LogInv' /\ OrderInv'
  <2>1. PICK e : Emit(<<e>>) /\ e = [kind |-> IF status = "canceled" THEN "deleted" ELSE "updated",
             sub |-> s, status |-> status, plan |-> stripe[s].plan]
    BY <1>5 DEF Change
  <2>2. e \in Event
    BY <1>5, <2>1, ReportedAssumption DEF Change, IInv, StripeInv, Bought, Event, Plans
  <2>3. <<e>> \in Seq(Event) /\ UNCHANGED <<row, h>>
    BY <1>5, <2>2 DEF Change
  <2> QED
    BY <1>3, <1>5, <2>1, <2>3, ChangeOrder
<1>6. ASSUME NEW i \in 1..MaxEvents, Redeliver(i) PROVE LogInv' /\ OrderInv'
  <2>1. disorder' # {} /\ UNCHANGED <<stripe, current, log>>
    BY <1>6 DEF Redeliver
  <2> QED
    BY <1>2, <2>1 DEF OrderInv
\* In order, the next event is the first that is pending.
<1>7. ASSUME NEW k \in Handlers, NEW i \in 1..MaxEvents, Deliver(k, i)
      PROVE  LogInv' /\ OrderInv'
  <2>1. UNCHANGED <<stripe, current, log, pending, row>> /\ disorder \subseteq disorder'
    BY <1>7 DEF Deliver
  <2>2. ASSUME disorder' = {}, NEW n \in 0..Len(log), Reached(n) PROVE Reached(n)'
    <3>1. i \in pending /\ i = Min(pending) /\ \A j \in Handlers : At(j, "idle")
      BY <1>7, <2>2 DEF Deliver
    <3>2. pending = (n + 1)..Len(log) /\ Len(log) \in Nat
      BY <2>2, LenProperties DEF Reached, IInv, Types
    <3>3. i = n + 1
      <4>1. n + 1 \in pending /\ \A j \in pending : n + 1 <= j /\ j \in Nat
        BY <3>1, <3>2
      <4>2. \A j \in pending : Min(pending) <= j
        BY <4>1 DEF Min
      <4> QED
        BY <3>1, <4>1, <4>2
    <3>4. h' = [h EXCEPT ![k] = [Idle EXCEPT !.pc = "read", !.event = i]]
      BY <1>7 DEF Deliver
    <3>5. \A j \in Handlers : h'[j].pc # "idle" =>
                                h'[j].event = n + 1 /\ h'[j].pc = "read"
      BY <3>1, <3>3, <3>4 DEF IInv, Types, At, Idle
    <3> QED
      BY <2>1, <2>2, <3>5 DEF Reached, At
  <2>3. disorder' = {} => disorder = {}
    BY <2>1
  <2> QED
    BY <1>2, <2>1, <2>2, <2>3 DEF OrderInv, Followed
<1>8. ASSUME NEW k \in Handlers, ReadForCheckout(k) \/ ReadForUpdate(k)
      PROVE  LogInv' /\ OrderInv'
  <2>1. h[k].pc = "read" /\ ~At(k, "idle")
        /\ UNCHANGED <<stripe, current, log, row, disorder>>
    BY <1>8 DEF ReadForCheckout, ReadForUpdate, At, counts
  <2>2. EventOf(k) \in Event /\ EventOf(k).plan = stripe[EventOf(k).sub].plan
        /\ EventOf(k).sub \in Subs
    BY <2>1, EventFacts
  <2>3. ASSUME NEW n \in 0..Len(log), Reached(n)
        PROVE  /\ EventOf(k) = log[n + 1] /\ Outcome(log, n, row) /\ n \in Nat
    BY <2>1, <2>3 DEF Reached, EventOf, At
  <2>4. CASE Answer(k)
    <3>1. EventOf(k).kind # "checkout" /\ row.sub # EventOf(k).sub
      <4>1. h'[k].pc = "idle"
        BY <2>4 DEF Answer, Idle, IInv, Types
      <4>2. ~ReadForCheckout(k)
        <5> SUFFICES ASSUME ReadForCheckout(k) PROVE h'[k].pc \in {"insert", "select"}
          BY <4>1
        <5> QED
          BY DEF ReadForCheckout, IInv, Types, Slot
      <4>3. ReadForUpdate(k) /\ h' # [h EXCEPT ![k].pc = "select",
               ![k].new = [row EXCEPT !.status = MapStatus(EventOf(k).status)]]
        BY <1>8, <4>1, <4>2 DEF IInv, Types, Slot
      <4> QED
        BY <4>3 DEF ReadForUpdate
    <3>2. ASSUME NEW n \in 0..Len(log), Reached(n) PROVE Outcome(log, n + 1, row')
      BY <2>1, <2>3, <3>1, <3>2, OutcomeOfNext
    <3> QED
      BY <1>2, <2>1, <2>4, <3>2, AnswerOrder
  <2>5. CASE ReadForUpdate(k) /\ ~Answer(k)
    <3> DEFINE new == [row EXCEPT !.status = MapStatus(EventOf(k).status)]
               s == [h[k] EXCEPT !.pc = "select", !.new = new]
    <3>1. h' = [h EXCEPT ![k] = s] /\ pending' = pending
          /\ row.sub = EventOf(k).sub /\ EventOf(k).kind # "checkout"
      BY <2>5 DEF ReadForUpdate
    <3>2. row # NoRow /\ row \in Row
      BY <2>2, <3>1 DEF NoRow, Subs, IInv, Types
    <3>3. new.plan = row.plan /\ new.sub = row.sub /\ new.status = MapStatus(EventOf(k).status)
      BY <3>2 DEF Row
    <3> HIDE DEF new
    <3>4. s.event = h[k].event /\ s.new = new /\ s.pc = "select"
      BY DEF IInv, Types, Slot
    <3> HIDE DEF s
    <3>5. ASSUME NEW n \in 0..Len(log), Reached(n) PROVE Outcome(log, n + 1, s.new)
      BY <2>3, <3>1, <3>2, <3>3, <3>4, <3>5, OutcomeOfNext
    <3> QED
      BY <1>2, <2>1, <3>1, <3>4, <3>5, HandlerOrder
  <2>6. CASE ReadForCheckout(k)
    <3> DEFINE new == AssignPaidPlan(row, EventOf(k))
               step == IF row = NoRow THEN "insert" ELSE "select"
               s == [h[k] EXCEPT !.pc = step, !.new = new]
    <3>1. h' = [h EXCEPT ![k] = s] /\ pending' = pending /\ EventOf(k).kind = "checkout"
      BY <2>6 DEF ReadForCheckout
    <3>2. new.plan = EventOf(k).plan /\ new.sub = EventOf(k).sub /\ new.status = "pending"
      BY DEF AssignPaidPlan
    <3> HIDE DEF new
    <3>3. s.event = h[k].event /\ s.new = new
      BY DEF IInv, Types, Slot
    <3> HIDE DEF s
    <3>4. ASSUME NEW n \in 0..Len(log), Reached(n) PROVE Outcome(log, n + 1, s.new)
      BY <2>3, <3>1, <3>2, <3>3, <3>4, OutcomeOfNext
    <3> QED
      BY <1>2, <2>1, <3>1, <3>3, <3>4, HandlerOrder
  <2> QED
    BY <1>8, <2>4, <2>5, <2>6
\* Selecting, flushing and failing leave the rows as they are.
<1>9. ASSUME NEW k \in Handlers, SelectRow(k) \/ WriteRow(k) \/ InsertRow(k) \/ Abort(k)
      PROVE  LogInv' /\ OrderInv'
  <2>1. /\ ~At(k, "idle") /\ UNCHANGED <<stripe, current, log, row, disorder>>
        /\ pending' = pending
    BY <1>9 DEF SelectRow, WriteRow, InsertRow, Abort, Reject, At, counts
  <2>2. h' = [h EXCEPT ![k] = h'[k]]
    BY <1>9 DEF SelectRow, WriteRow, InsertRow, Abort, Reject, Goto, IInv, Types
  <2>3. \/ h'[k].pc = "idle"
        \/ h'[k].event = h[k].event /\ h'[k].new = h[k].new /\ h[k].pc # "read"
    BY <1>9 DEF SelectRow, WriteRow, InsertRow, Abort, Reject, Goto, IInv, Types, Slot, At, Idle
  <2>4. ASSUME NEW n \in 0..Len(log), Reached(n), h'[k].pc # "idle"
        PROVE  Outcome(log, n + 1, h'[k].new)
    BY <2>1, <2>3, <2>4 DEF Reached
  <2> DEFINE s == h'[k]
  <2>5. h' = [h EXCEPT ![k] = s] /\ (s.pc # "idle" => s.event = h[k].event)
        /\ (s.pc \notin {"idle", "read"} =>
              \A n \in 0..Len(log) : Reached(n) => Outcome(log, n + 1, s.new))
    BY <2>2, <2>3, <2>4
  <2> HIDE DEF s
  <2> QED
    BY <1>2, <2>1, <2>5, HandlerOrder
<1>10. ASSUME NEW k \in Handlers, CommitRow(k) PROVE LogInv' /\ OrderInv'
  <2>1. /\ h[k].pc \in {"commitUpdate", "commitInsert"} /\ ~At(k, "idle") /\ Answer(k)
        /\ UNCHANGED <<stripe, current, log, disorder>>
    BY <1>10 DEF CommitRow, At, counts
  <2>2. disorder = {} => row' = h[k].new
    <3> SUFFICES ASSUME disorder = {} PROVE row' = h[k].new
      OBVIOUS
    <3>1. h[k].new \in Row
          /\ (h[k].pc = "commitUpdate" => h[k].seen = row /\ row \in Row)
      BY <2>1 DEF IInv, Types, HandlerInv, RowInv, Serial
    <3> QED
      BY <1>10, <3>1, DirtyColumnsFacts DEF CommitRow, At
  <2>3. ASSUME NEW n \in 0..Len(log), Reached(n), disorder = {} PROVE Outcome(log, n + 1, row')
    BY <2>1, <2>2, <2>3 DEF Reached
  <2> QED
    BY <1>2, <2>1, <2>3, AnswerOrder
<1> QED
  BY <1>1, <1>4, <1>5, <1>6, <1>7, <1>8, <1>9, <1>10 DEF Next, Step, Plans

\* When events come one at a time and in the order in which they were emitted,
\* failed deliveries included, and all have been answered, the row says of the
\* last checkout what Stripe says.
THEOREM RowsConverge == Spec => []Converged
<1>1. IInv /\ LogInv /\ OrderInv => Converged
  <2> SUFFICES ASSUME IInv, LogInv, OrderInv, pending = {}, disorder = {} PROVE Agrees
    BY DEF Converged, Quiet
  <2>1. PICK n \in 0..Len(log) : Reached(n)
    BY DEF OrderInv
  <2>2. Len(log) \in Nat
    BY LenProperties DEF IInv, Types
  <2>3. n = Len(log)
    <3>1. (n + 1)..Len(log) = {}
      BY <2>1 DEF Reached
    <3> QED
      BY <2>2, <3>1
  <2> QED
    BY <2>1, <2>3, AnsweredInOrderAgrees DEF IInv, OrderInv, Reached
<1> QED
  BY <1>1, InitHolds, NextKeeps, InitOrder, NextOrder, PTL DEF Spec

-----------------------------------------------------------------------------
(* What ends a delivery *)

\* An INSERT is open only while there is no row, and one at a time.
OneInsert ==
  /\ \A k \in Handlers : At(k, "commitInsert") => row = NoRow
  /\ \A j, k \in Handlers : At(j, "commitInsert") /\ At(k, "commitInsert") => j = k

\* The row another delivery has inserted since k looked.
TooLate(k) == At(k, "insert") /\ row # NoRow

EndsForAReason ==
  /\ row # NoRow => row' # NoRow
  /\ \A k \in Handlers :
       /\ ~At(k, "idle") /\ At(k, "idle")' =>
            h[k].event \notin pending' \/ aborts' = aborts + 1 \/ TooLate(k)
       /\ ~At(k, "insert") /\ At(k, "insert")' => row = NoRow

LEMMA NextInsert == IInv /\ OneInsert /\ [Next]_vars => OneInsert' /\ [EndsForAReason]_vars
<1> SUFFICES ASSUME IInv, OneInsert, [Next]_vars PROVE OneInsert' /\ [EndsForAReason]_vars
  OBVIOUS
<1> USE DEF At
<1>1. CASE UNCHANGED vars
  BY <1>1 DEF vars, counts, OneInsert
<1>2. ASSUME row' = row,
             \A k \in Handlers : h'[k] = h[k] \/ (h[k].pc = "idle" /\ h'[k].pc = "read")
      PROVE  OneInsert' /\ EndsForAReason
  BY <1>2 DEF OneInsert, EndsForAReason
<1>3. ASSUME NEW k \in Handlers, row' = row,
             \A j \in Handlers \ {k} : h'[j] = h[j],
             h'[k].pc = "commitInsert" =>
               row = NoRow /\ \A j \in Handlers : ~At(j, "commitInsert"),
             h'[k].pc = "insert" => row = NoRow,
             h'[k].pc = "idle" =>
               h[k].event \notin pending' \/ aborts' = aborts + 1 \/ TooLate(k)
      PROVE  OneInsert' /\ EndsForAReason
  BY <1>3 DEF OneInsert, EndsForAReason, TooLate
<1>4. ASSUME NEW k \in Handlers PROVE \A s : h' = [h EXCEPT ![k] = s] =>
        h'[k] = s /\ \A j \in Handlers \ {k} : h'[j] = h[j]
  BY DEF IInv, Types
<1>5. ASSUME NEW k \in Handlers, NEW i \in 1..MaxEvents, Deliver(k, i)
      PROVE  OneInsert' /\ EndsForAReason
  <2>1. h[k].pc = "idle" /\ h'[k].pc = "read" /\ row' = row
        /\ \A j \in Handlers \ {k} : h'[j] = h[j]
    BY <1>5 DEF Deliver, Idle, IInv, Types
  <2> QED
    BY <1>2, <2>1
<1>6. ASSUME NEW k \in Handlers, ReadForCheckout(k) \/ ReadForUpdate(k)
      PROVE  OneInsert' /\ EndsForAReason
  <2>1. row' = row /\ \A j \in Handlers \ {k} : h'[j] = h[j]
    BY <1>6 DEF ReadForCheckout, ReadForUpdate, Answer, IInv, Types
  <2>2. \/ h'[k].pc = "select"
        \/ (h'[k].pc = "insert" /\ row = NoRow)
        \/ (h'[k].pc = "idle" /\ h[k].event \notin pending')
    BY <1>6 DEF ReadForCheckout, ReadForUpdate, Answer, Idle, IInv, Types, Slot
  <2> QED
    BY <1>3, <2>1, <2>2
<1>7. ASSUME NEW k \in Handlers, SelectRow(k) \/ WriteRow(k)
      PROVE  OneInsert' /\ EndsForAReason
  <2>1. row' = row /\ (\A j \in Handlers \ {k} : h'[j] = h[j])
        /\ h'[k].pc \in {"write", "commitUpdate"}
    BY <1>7 DEF SelectRow, WriteRow, Goto, IInv, Types, Slot
  <2> QED
    BY <1>3, <2>1
\* INSERT waits for the one that is open, and fails when that one has committed.
<1>8. ASSUME NEW k \in Handlers, InsertRow(k) PROVE OneInsert' /\ EndsForAReason
  <2>1. row' = row /\ \A j \in Handlers \ {k} : h'[j] = h[j]
    BY <1>8 DEF InsertRow, Goto, Reject, IInv, Types
  <2>2. \/ /\ h'[k].pc = "commitInsert" /\ row = NoRow
           /\ \A j \in Handlers : ~At(j, "commitInsert")
        \/ h'[k].pc = "idle" /\ TooLate(k)
    BY <1>8 DEF InsertRow, Goto, Reject, Idle, TooLate, IInv, Types, Slot
  <2> QED
    BY <1>3, <2>1, <2>2
\* Who commits an UPDATE found a row: nobody is inserting one.
<1>9. ASSUME NEW k \in Handlers, CommitRow(k) PROVE OneInsert' /\ EndsForAReason
  <2>1. /\ h[k].pc \in {"commitUpdate", "commitInsert"} /\ h[k].new \in Row
        /\ h[k].pc = "commitUpdate" => h[k].seen \in Row /\ row \in Row /\ row # NoRow
    BY <1>9 DEF CommitRow, IInv, Types, HandlerInv
  <2>2. row' \in Row
    BY <1>9, <2>1, DirtyColumnsFacts DEF CommitRow
  <2>3. row' # NoRow
    BY <2>2, BillingAssumption DEF Row, NoRow, Subs
  <2>4. /\ h'[k].pc = "idle" /\ h[k].event \notin pending'
        /\ \A j \in Handlers \ {k} : h'[j] = h[j]
    BY <1>9 DEF CommitRow, Answer, Idle, IInv, Types
  <2>5. \A j \in Handlers \ {k} : ~At(j, "commitInsert")
    BY <2>1 DEF OneInsert
  <2> QED
    BY <2>3, <2>4, <2>5 DEF OneInsert, EndsForAReason
<1>10. ASSUME NEW k \in Handlers, Abort(k) PROVE OneInsert' /\ EndsForAReason
  <2>1. /\ row' = row /\ aborts' = aborts + 1 /\ h'[k].pc = "idle"
        /\ \A j \in Handlers \ {k} : h'[j] = h[j]
    BY <1>10 DEF Abort, Reject, Idle, IInv, Types
  <2> QED
    BY <1>3, <2>1
<1>11. ASSUME UNCHANGED <<row, h>> PROVE OneInsert' /\ EndsForAReason
  BY <1>2, <1>11
<1> QED
  BY <1>1, <1>5, <1>6, <1>7, <1>8, <1>9, <1>10, <1>11
     DEF Next, Step, Checkout, Change, Redeliver

\* What a retry can rely on, the part of EveryEventIsAnswered that is about
\* steps: a delivery ends without an answer only when it failed or when its
\* INSERT came after that of another delivery.  INSERTs of the user's row are
\* one at a time, a row once there stays, and no delivery that sees it tries to
\* insert, so the retry of a refused INSERT is an UPDATE.
THEOREM RetriesSettle == Spec => []OneInsert /\ [][EndsForAReason]_vars
<1>1. Init => OneInsert
  BY DEF Init, OneInsert, At, Idle
<1> QED
  BY <1>1, InvariantHolds, NextInsert, PTL DEF Spec
=============================================================================
