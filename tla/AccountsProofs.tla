--------------------------- MODULE AccountsProofs ---------------------------
(***************************************************************************)
(* Proofs about Accounts for every number of accounts, identities,         *)
(* requests and aborts.                                                    *)
(***************************************************************************)
EXTENDS Accounts, TLAPS

Slot == [kind : Kinds, pc : Steps, user : Users \cup {NoUser},
         link : Links \cup {NoLink}, seen : Links \cup {NoLink},
         victims : SUBSET Users, locked : SUBSET Users, outrun : SUBSET Users]

\* NewLink and OldLink of a request and of a row given as values.
New(s) == IF s.kind = "patch" THEN s.seen ELSE s.link
LinkOf(row) == IF row = Absent THEN NoLink ELSE row.link
Writer(s) == s.kind \in {"patch", "link", "signup"}

\* What a request knows of the committed rows.
SlotInv(s, rows) ==
  /\ s \in Slot
  /\ s.kind # "purge" =>
       /\ s.victims = {}
       /\ s.pc # "idle" => s.user \in Users
       /\ s.locked = IF s.pc \in {"key", "commit"} THEN {s.user} ELSE {}
       /\ s.pc # "delete"
  /\ s.kind = "purge" =>
       /\ s.pc \in {"select", "delete", "commit"}
       /\ s.locked \subseteq s.victims
       /\ s.pc = "select" => s.victims = {}
  /\ s.outrun \subseteq s.victims
  /\ s.pc = "key" => Writer(s)
  /\ s.kind = "signup" => s.user \in Users /\ rows[s.user] = Absent
  /\ s.kind \notin {"signup", "purge"} => \A u \in s.locked : rows[u] # Absent
  \* the index entry is made: no other committed row has the key
  /\ s.pc = "commit" /\ Writer(s) /\ New(s) # NoLink =>
       \A u \in Users \ {s.user} : LinkOf(rows[u]) # New(s)
  \* attach_linkedin has seen no other identity
  /\ s.kind = "link" /\ s.pc \in {"select", "write", "key", "commit"} =>
       s.seen \in {NoLink, s.link}
  \* a victim is as it was selected, or somebody has written it since
  /\ \A u \in s.victims \ s.outrun :
       rows[u] = Absent \/ rows[u].deletion = "expired"

\* What two requests exclude: each other's rows and keys, and a new row.
Pair(s, q) ==
  /\ s.locked \cap q.locked = {}
  /\ s.kind = "signup" =>
       s.user \notin q.victims /\ (q.kind = "signup" => s.user # q.user)
  /\ s.pc = "commit" /\ Writer(s) /\ q.pc = "commit" /\ Writer(q) /\ New(s) # NoLink =>
       New(s) # New(q)

IInv ==
  /\ users \in [Users -> Row \cup {Absent}]
  /\ aborts \in 0..MaxAborts
  /\ tx \in [Requests -> Slot]
  /\ \A r \in Requests : SlotInv(tx[r], users)
  /\ \A r, q \in Requests : r # q => Pair(tx[r], tx[q])
  /\ LinkedInUnique

-----------------------------------------------------------------------------
(* Every action preserves the invariant *)

LEMMA IdleHolds == \A rows : SlotInv(Idle, rows)
  BY DEF SlotInv, Pair, Idle, Slot, Steps, Kinds, Writer, New

LEMMA InitHolds == Init => IInv
<1> SUFFICES ASSUME Init PROVE IInv
  OBVIOUS
<1>1. users \in [Users -> Row \cup {Absent}] /\ \A u \in Users : OldLink(u) = NoLink
  BY DEF Init, NewRow, Row, Deletion, OldLink, Exists
<1>2. \A r \in Requests : SlotInv(tx[r], users) /\ tx[r] = Idle
  BY IdleHolds DEF Init
<1>3. \A r, q \in Requests : Pair(tx[r], tx[q])
  BY <1>2 DEF Pair, Idle
<1>4. LinkedInUnique
  BY <1>1 DEF LinkedInUnique, OldLink, Exists
<1> QED
  BY <1>1, <1>2, <1>3, <1>4, AccountsAssumption DEF IInv, Init, SlotInv

LEMMA NextKeeps == IInv /\ [Next]_vars => IInv'
<1> SUFFICES ASSUME IInv, [Next]_vars PROVE IInv'
  OBVIOUS
<1> USE AccountsAssumption, AbsentAssumption
<1>1. ASSUME NEW r \in Requests PROVE tx[r] \in Slot /\ SlotInv(tx[r], users)
  BY <1>1 DEF IInv
\* One request moves, and no row is committed.
<1>2. ASSUME NEW r \in Requests, NEW s, tx' = [tx EXCEPT ![r] = s],
             users' = users, aborts' \in 0..MaxAborts, SlotInv(s, users),
             \A q \in Requests \ {r} : Pair(s, tx[q]) /\ Pair(tx[q], s)
      PROVE  IInv'
  <2>1. tx' \in [Requests -> Slot] /\ tx'[r] = s
        /\ \A q \in Requests \ {r} : tx'[q] = tx[q]
    BY <1>2 DEF IInv, SlotInv
  <2>2. \A q \in Requests : SlotInv(tx'[q], users)
    BY <1>2, <2>1 DEF IInv
  <2>3. \A p, q \in Requests : p # q => Pair(tx'[p], tx'[q])
    BY <1>2, <2>1 DEF IInv
  <2> QED
    BY <1>2, <2>1, <2>2, <2>3 DEF IInv, LinkedInUnique, Exists
<1>3. ASSUME NEW r \in Requests, Finish(r), users' = users, aborts' \in 0..MaxAborts
      PROVE  IInv'
  <2>1. \A q \in Requests \ {r} : Pair(Idle, tx[q]) /\ Pair(tx[q], Idle)
    BY DEF Pair, Idle, Writer, New
  <2> QED
    BY <1>2, <1>3, <2>1, IdleHolds DEF Finish
\* Before it locks a row a request can do no harm.
<1>4. ASSUME NEW r \in Requests, NEW s \in Slot, tx' = [tx EXCEPT ![r] = s],
             users' = users, aborts' = aborts,
             tx[r].pc \in {"check", "load", "select"}, tx[r].kind # "purge",
             s.kind = tx[r].kind, s.user = tx[r].user, s.victims = tx[r].victims,
             s.locked = tx[r].locked, s.outrun = tx[r].outrun,
             s.pc \in {"load", "select", "write"},
             s.kind = "link" =>
               s.pc = "load" \/ s.seen \in {NoLink, s.link}
      PROVE  IInv'
  <2>1. SlotInv(s, users)
    BY <1>1, <1>4 DEF SlotInv
  <2>2. \A q \in Requests \ {r} : Pair(s, tx[q]) /\ Pair(tx[q], s)
    BY <1>4 DEF IInv, Pair
  <2> QED
    BY <1>2, <1>4, <2>1, <2>2 DEF IInv
<1>5. CASE UNCHANGED vars
  BY <1>5 DEF vars, IInv, LinkedInUnique, Exists
<1>6. ASSUME NEW r \in Requests, Start(r) PROVE IInv'
  <2>1. PICK kind \in Kinds, u \in Users \cup {NoUser}, l \in Links \cup {NoLink} :
          /\ Begin(r, kind, u, l)
          /\ kind # "purge" => u \in Users
    BY <1>6 DEF Start, Kinds
  <2> DEFINE s == [Idle EXCEPT !.kind = kind, !.user = u, !.link = l,
       !.pc = CASE kind \in {"link", "signup"} -> "check"
                [] kind \in {"softDelete", "restore"} -> "load"
                [] OTHER -> "select"]
  <2>2. tx' = [tx EXCEPT ![r] = s] /\ users' = users /\ aborts' = aborts
    BY <2>1 DEF Begin
  <2>3. /\ s \in Slot /\ s.kind = kind /\ s.user = u
        /\ s.victims = {} /\ s.locked = {} /\ s.outrun = {}
        /\ kind = "purge" => s.pc = "select"
        /\ kind # "purge" => s.pc \in {"check", "load", "select"}
        /\ kind = "link" => s.pc = "check"
    BY DEF Idle, Slot, Steps, Kinds
  <2> HIDE DEF s
  <2>4. kind = "signup" =>
          users[u] = Absent /\ \A q \in Requests : u # tx[q].user /\ u \notin tx[q].victims
    BY <2>1 DEF Begin, Exists
  <2>5. SlotInv(s, users)
    BY <2>1, <2>3, <2>4 DEF SlotInv
  <2>6. \A q \in Requests : Pair(s, tx[q]) /\ Pair(tx[q], s)
    BY <2>3, <2>4 DEF Pair
  <2> QED
    BY <1>2, <2>2, <2>5, <2>6 DEF IInv
<1>7. ASSUME NEW r \in Requests, CheckLink(r) PROVE IInv'
  <2>1. CASE Finish(r)
    BY <1>3, <1>7, <2>1 DEF CheckLink, IInv
  <2>2. CASE ~Finish(r)
    <3> DEFINE step == IF Is(r, "link") THEN "load" ELSE "write"
               s == [tx[r] EXCEPT !.pc = step]
    <3>1. tx[r].pc = "check" /\ tx' = [tx EXCEPT ![r] = s]
          /\ users' = users /\ aborts' = aborts
      BY <1>1, <1>7, <2>2 DEF CheckLink, Goto, At, IInv
    <3>2. /\ s \in Slot /\ s.kind = tx[r].kind /\ s.user = tx[r].user
          /\ s.victims = tx[r].victims /\ s.locked = tx[r].locked
          /\ s.outrun = tx[r].outrun /\ s.pc = step
      BY <1>1 DEF Slot, Steps
    <3>3. tx[r].kind # "purge"
      BY <1>1, <3>1 DEF SlotInv
    <3> HIDE DEF s
    <3> QED
      BY <1>4, <3>1, <3>2, <3>3 DEF Is
  <2> QED
    BY <2>1, <2>2
<1>8. ASSUME NEW r \in Requests, Load(r) \/ Select(r) PROVE IInv'
  <2>1. CASE Finish(r)
    BY <1>3, <1>8, <2>1 DEF Load, Select, IInv
  <2>2. CASE ~Finish(r)
    <3> DEFINE row == users[tx[r].user]
               step == IF tx[r].pc = "load" /\ tx[r].kind = "link" THEN "select" ELSE "write"
               l == IF tx[r].pc = "load" \/ tx[r].kind = "patch" THEN row.link ELSE tx[r].seen
               s == [tx[r] EXCEPT !.pc = step, !.seen = l]
    <3>1. /\ tx[r].kind # "purge" /\ tx[r].pc \in {"load", "select"}
          /\ row # Absent /\ users' = users /\ aborts' = aborts
      BY <1>1, <1>8, <2>2 DEF Load, Select, At, Is, SlotInv
    <3>2. row \in Row /\ row.link \in Links \cup {NoLink}
      BY <1>1, <3>1 DEF SlotInv, IInv, Row
    <3>3. tx' = [tx EXCEPT ![r] = s]
      <4>1. CASE Load(r)
        BY <2>2, <4>1 DEF Load, At, Is
      <4>2. CASE ~Load(r)
        BY <1>8, <2>2, <4>2 DEF Select, At, Is
      <4> QED
        BY <4>1, <4>2
    <3>4. tx[r].kind = "link" => l \in {NoLink, tx[r].link}
      BY <1>1, <1>8, <2>2, <3>1 DEF Load, Select, At, Is, SlotInv
    <3>5. l \in Links \cup {NoLink}
      BY <1>1, <3>2 DEF Slot
    <3>6. /\ s \in Slot /\ s.kind = tx[r].kind /\ s.user = tx[r].user
          /\ s.victims = tx[r].victims /\ s.locked = tx[r].locked
          /\ s.outrun = tx[r].outrun /\ s.link = tx[r].link /\ s.pc = step /\ s.seen = l
      <4> HIDE DEF l
      <4> QED
        BY <1>1, <3>5 DEF Slot, Steps
    <3> HIDE DEF s
    <3> QED
      BY <1>4, <3>1, <3>3, <3>4, <3>6
  <2> QED
    BY <2>1, <2>2
\* An UPDATE or an INSERT locks the one row of the request.
<1>9. ASSUME NEW r \in Requests, NEW s \in Slot, tx' = [tx EXCEPT ![r] = s],
             users' = users, aborts' = aborts,
             tx[r].pc = "write", tx[r].kind # "purge",
             s.kind = tx[r].kind, s.user = tx[r].user, s.link = tx[r].link,
             s.seen = tx[r].seen, s.victims = tx[r].victims,
             s.outrun = tx[r].outrun, s.locked = {s.user},
             s.pc = "key" => Writer(s),
             \/ s.pc = "key"
             \/ s.pc = "commit" /\ (Writer(s) => New(s) = LinkOf(users[s.user])),
             s.kind = "signup" => s.pc = "key",
             s.kind # "signup" =>
               users[s.user] # Absent /\ \A q \in Requests \ {r} : s.user \notin tx[q].locked
      PROVE  IInv'
  <2>1. s.user \in Users /\ (s.kind = "signup" => users[s.user] = Absent)
    BY <1>1, <1>9 DEF SlotInv
  <2>2. s.pc = "commit" /\ Writer(s) /\ New(s) # NoLink =>
          \A u \in Users \ {s.user} : LinkOf(users[u]) # New(s)
    BY <1>9, <2>1 DEF IInv, LinkedInUnique, Exists, LinkOf
  <2>3. SlotInv(s, users)
    BY <1>1, <1>9, <2>1, <2>2 DEF SlotInv, Writer, New
  <2>4. ASSUME NEW q \in Requests, q # r PROVE Pair(s, tx[q]) /\ Pair(tx[q], s)
    <3>1. Pair(tx[r], tx[q]) /\ Pair(tx[q], tx[r])
      BY <2>4 DEF IInv
    <3>2. /\ s.kind = "signup" => s.user \notin tx[q].victims
          /\ tx[q].kind = "signup" => tx[q].user \notin s.victims
          /\ s.kind = "signup" /\ tx[q].kind = "signup" => s.user # tx[q].user
      BY <1>9, <3>1 DEF Pair
    <3>3. s.user \notin tx[q].locked
      <4>1. /\ tx[q].kind = "purge" => tx[q].locked \subseteq tx[q].victims
            /\ tx[q].kind # "purge" => tx[q].locked \subseteq {tx[q].user}
            /\ tx[q].kind \notin {"signup", "purge"} =>
                 \A u \in tx[q].locked : users[u] # Absent
        BY <1>1 DEF SlotInv
      <4>2. s.kind # "signup" => s.user \notin tx[q].locked
        BY <1>9, <2>4
      <4> QED
        BY <2>1, <3>2, <4>1, <4>2
    <3>4. ASSUME s.pc = "commit", Writer(s), tx[q].pc = "commit", Writer(tx[q]),
                 New(s) # NoLink, New(s) = New(tx[q])
          PROVE  FALSE
      <4>1. tx[q].locked = {tx[q].user}
        BY <1>1, <3>4 DEF SlotInv, Writer
      <4>2. s.user \in Users \ {tx[q].user}
        BY <2>1, <3>3, <4>1
      <4>3. LinkOf(users[s.user]) # New(tx[q])
        BY <1>1, <3>4, <4>2 DEF SlotInv
      <4> QED
        BY <1>9, <3>4, <4>3
    <3>5. s.locked \cap tx[q].locked = {} /\ tx[q].locked \cap s.locked = {}
      BY <1>9, <3>3
    <3> QED
      BY <3>2, <3>4, <3>5 DEF Pair, Writer
  <2> QED
    BY <1>2, <1>9, <2>3, <2>4 DEF IInv
<1>10. ASSUME NEW r \in Requests, WriteRow(r) \/ InsertRow(r) PROVE IInv'
  <2>1. CASE Finish(r)
    BY <1>3, <1>10, <2>1 DEF WriteRow, InsertRow, IInv
  <2>2. CASE ~Finish(r)
    <3> DEFINE u == tx[r].user
               step == IF tx[r].kind = "signup"
                            \/ (WritesLink(r) /\ NewLink(r) # OldLink(u))
                       THEN "key" ELSE "commit"
               s == [tx[r] EXCEPT !.locked = {u}, !.pc = step]
    <3>1. /\ tx[r].pc = "write" /\ tx[r].kind # "purge"
          /\ users' = users /\ aborts' = aborts /\ u \in Users
      BY <1>1, <1>10 DEF WriteRow, InsertRow, At, SlotInv
    <3>2. tx[r].kind # "signup" =>
            users[u] # Absent /\ \A q \in Requests \ {r} : u \notin tx[q].locked
      BY <1>10, <2>2 DEF WriteRow, InsertRow, Is, Exists, RowFree
    <3>3. tx' = [tx EXCEPT ![r] = s]
      BY <1>10, <2>2 DEF WriteRow, InsertRow, Is
    <3>4. /\ s \in Slot /\ s.kind = tx[r].kind /\ s.user = u
          /\ s.victims = tx[r].victims /\ s.outrun = tx[r].outrun
          /\ s.link = tx[r].link /\ s.seen = tx[r].seen
          /\ s.pc = step /\ s.locked = {u}
      BY <1>1, <3>1 DEF Slot, Steps
    <3>5. New(s) = NewLink(r) /\ (Writer(s) <=> WritesLink(r))
      BY <3>4 DEF New, NewLink, Is, Writer, WritesLink
    <3>6. OldLink(u) = LinkOf(users[u])
      BY DEF OldLink, LinkOf, Exists
    <3>7. tx[r].kind = "signup" => WritesLink(r)
      BY DEF WritesLink
    <3> HIDE DEF s
    <3>8. /\ s.pc = "key" => Writer(s)
          /\ \/ s.pc = "key"
             \/ s.pc = "commit" /\ (Writer(s) => New(s) = LinkOf(users[s.user]))
          /\ s.kind = "signup" => s.pc = "key"
      BY <3>4, <3>5, <3>6, <3>7
    <3>9. s.kind # "signup" =>
            /\ users[s.user] # Absent
            /\ \A q \in Requests \ {r} : s.user \notin tx[q].locked
      BY <3>2, <3>4
    <3> HIDE DEF step
    <3> QED
      BY <1>9, <3>1, <3>3, <3>4, <3>8, <3>9
  <2> QED
    BY <2>1, <2>2
\* The index entry: no committed row has the key, and no uncommitted one.
<1>11. ASSUME NEW r \in Requests, EnterKey(r) PROVE IInv'
  <2>1. CASE Finish(r)
    BY <1>3, <1>11, <2>1 DEF EnterKey, IInv
  <2>2. CASE ~Finish(r)
    <3> DEFINE s == [tx[r] EXCEPT !.pc = "commit"]
    <3>1. /\ tx[r].pc = "key" /\ Writer(tx[r]) /\ users' = users /\ aborts' = aborts
          /\ tx' = [tx EXCEPT ![r] = s]
      BY <1>1, <1>11, <2>2 DEF EnterKey, Goto, At, SlotInv
    <3>2. /\ s \in Slot /\ s.kind = tx[r].kind /\ s.user = tx[r].user
          /\ s.victims = tx[r].victims /\ s.outrun = tx[r].outrun
          /\ s.link = tx[r].link /\ s.seen = tx[r].seen
          /\ s.pc = "commit" /\ s.locked = tx[r].locked
      BY <1>1 DEF Slot, Steps
    <3>3. New(s) = NewLink(r) /\ Writer(s) /\ s.kind # "purge"
      BY <3>1, <3>2 DEF New, NewLink, Is, Writer
    <3> HIDE DEF s
    <3>4. New(s) # NoLink => \A u \in Users \ {s.user} : LinkOf(users[u]) # New(s)
      BY <1>11, <2>2, <3>2, <3>3 DEF EnterKey, OldLink, LinkOf, Exists
    <3>5. SlotInv(s, users)
      BY <1>1, <3>1, <3>2, <3>3, <3>4 DEF SlotInv
    <3>6. ASSUME NEW q \in Requests \ {r}, tx[q].pc = "commit", Writer(tx[q]),
                 New(s) # NoLink
          PROVE  New(s) # New(tx[q])
      <4>1. New(tx[q]) = NewLink(q) /\ WritesLink(q) /\ tx[q].user \in tx[q].locked
        BY <1>1, <3>6 DEF New, NewLink, Is, Writer, WritesLink, SlotInv
      <4>2. NewLink(q) \in OpenKeys(q)
        BY <4>1 DEF OpenKeys
      <4>3. NewLink(r) \notin OpenKeys(q)
        BY <1>11, <3>3, <3>6 DEF EnterKey, KeyFree, At
      <4> QED
        BY <3>3, <4>1, <4>2, <4>3
    <3>7. \A q \in Requests \ {r} : Pair(s, tx[q]) /\ Pair(tx[q], s)
      BY <3>2, <3>6 DEF IInv, Pair, Writer
    <3> QED
      BY <1>2, <3>1, <3>5, <3>7 DEF IInv
  <2> QED
    BY <2>1, <2>2
<1>12. ASSUME NEW r \in Requests, SelectVictims(r) PROVE IInv'
  <2> DEFINE V == {u \in Users : Exists(u) /\ users[u].deletion = "expired"}
             s == [tx[r] EXCEPT !.pc = "delete", !.victims = V]
  <2>1. /\ tx[r].pc = "select" /\ tx[r].kind = "purge"
        /\ users' = users /\ aborts' = aborts /\ tx' = [tx EXCEPT ![r] = s]
    BY <1>12 DEF SelectVictims, At, Is
  <2>2. tx[r].victims = {} /\ tx[r].locked = {} /\ tx[r].outrun = {}
    BY <1>1, <2>1 DEF SlotInv
  <2>3. /\ s \in Slot /\ s.kind = "purge" /\ s.pc = "delete" /\ s.victims = V
        /\ s.locked = {} /\ s.outrun = {}
    BY <1>1, <2>1, <2>2 DEF Slot, Steps
  <2> HIDE DEF s
  <2>4. SlotInv(s, users)
    BY <2>3 DEF SlotInv
  <2>5. \A q \in Requests \ {r} : Pair(s, tx[q]) /\ Pair(tx[q], s)
    <3>1. \A q \in Requests : tx[q].kind = "signup" => tx[q].user \notin V
      BY <1>1 DEF SlotInv, Exists
    <3> QED
      BY <2>3, <3>1 DEF Pair
  <2> QED
    BY <1>2, <2>1, <2>4, <2>5 DEF IInv
<1>13. ASSUME NEW r \in Requests, NEW u \in Users, DeleteVictim(r, u) PROVE IInv'
  <2> DEFINE s == [tx[r] EXCEPT !.locked = @ \cup {u}]
  <2>1. /\ tx[r].pc = "delete" /\ tx[r].kind = "purge" /\ u \in tx[r].victims
        /\ users' = users /\ aborts' = aborts /\ tx' = [tx EXCEPT ![r] = s]
    BY <1>1, <1>13 DEF DeleteVictim, At, SlotInv
  <2>2. /\ s \in Slot /\ s.kind = "purge" /\ s.pc = "delete"
        /\ s.victims = tx[r].victims /\ s.outrun = tx[r].outrun
        /\ s.locked = tx[r].locked \cup {u}
    BY <1>1, <2>1 DEF Slot
  <2> HIDE DEF s
  <2>3. SlotInv(s, users)
    BY <1>1, <2>1, <2>2 DEF SlotInv
  <2>4. \A q \in Requests \ {r} : u \notin tx[q].locked
    BY <1>13 DEF DeleteVictim, RowFree
  <2>5. \A q \in Requests \ {r} : Pair(s, tx[q]) /\ Pair(tx[q], s)
    BY <2>1, <2>2, <2>4 DEF IInv, Pair
  <2> QED
    BY <1>2, <2>1, <2>3, <2>5 DEF IInv
<1>14. ASSUME NEW r \in Requests, AllDeleted(r) PROVE IInv'
  <2> DEFINE s == [tx[r] EXCEPT !.pc = "commit"]
  <2>1. /\ tx[r].pc = "delete" /\ tx[r].kind = "purge"
        /\ users' = users /\ aborts' = aborts /\ tx' = [tx EXCEPT ![r] = s]
    BY <1>1, <1>14 DEF AllDeleted, Goto, At, SlotInv
  <2>2. /\ s \in Slot /\ s.kind = "purge" /\ s.pc = "commit"
        /\ s.victims = tx[r].victims /\ s.outrun = tx[r].outrun
        /\ s.locked = tx[r].locked /\ ~Writer(s)
    BY <1>1, <2>1 DEF Slot, Steps, Writer
  <2> HIDE DEF s
  <2>3. SlotInv(s, users)
    BY <1>1, <2>1, <2>2 DEF SlotInv
  <2>4. \A q \in Requests \ {r} : Pair(s, tx[q]) /\ Pair(tx[q], s)
    BY <2>1, <2>2 DEF IInv, Pair
  <2> QED
    BY <1>2, <2>1, <2>3, <2>4 DEF IInv
<1>15. ASSUME NEW r \in Requests, Commit(r) PROVE IInv'
  <2> DEFINE s == tx[r]
             L == tx[r].locked
  <2>1. /\ s \in Slot /\ s.pc = "commit" /\ aborts' = aborts /\ L \subseteq Users
        /\ \A u \in Users : users'[u] = IF u \in L THEN Written(r) ELSE users[u]
    BY <1>1, <1>15 DEF Commit, At, Slot
  <2>2. s.kind = "purge" => Written(r) = Absent /\ L \subseteq s.victims
    BY <1>1 DEF Written, Is, SlotInv
  <2>3. ASSUME s.kind # "purge"
        PROVE  /\ L = {s.user} /\ s.user \in Users /\ Written(r) \in Row
               /\ Writer(s) => Written(r).link = New(s)
               /\ ~Writer(s) => Written(r).link = LinkOf(users[s.user])
    <3>1. L = {s.user} /\ s.user \in Users
      BY <1>1, <2>1, <2>3 DEF SlotInv
    <3>2. s.kind # "signup" => users[s.user] \in Row
      BY <1>1, <2>3, <3>1 DEF SlotInv, IInv
    <3>3. s.link \in Links \cup {NoLink} /\ s.seen \in Links \cup {NoLink}
          /\ s.kind \in Kinds
      BY <2>1 DEF Slot
    <3>4. CASE s.kind = "signup"
      BY <3>1, <3>3, <3>4 DEF Written, Is, NewRow, Row, Deletion, Writer, New
    <3>5. CASE s.kind \in {"softDelete", "restore"}
      BY <3>1, <3>2, <3>5 DEF Written, Is, Row, Deletion, Writer, LinkOf
    <3>6. CASE s.kind \in {"patch", "link"}
      BY <3>1, <3>2, <3>3, <3>6 DEF Written, Is, Row, Writer, New, NewLink
    <3> QED
      BY <2>3, <3>3, <3>4, <3>5, <3>6 DEF Kinds
  <2>4. users' \in [Users -> Row \cup {Absent}]
    <3>1. \A u \in Users : users'[u] \in Row \cup {Absent}
      BY <2>1, <2>2, <2>3 DEF IInv
    <3> QED
      BY <1>15, <3>1 DEF Commit
  \* Any other row keeps its key, which the row written does not take.
  <2>5. \A u, v \in Users : /\ u \in L /\ v \notin L
                           /\ LinkOf(users'[u]) # NoLink
          => LinkOf(users'[v]) # LinkOf(users'[u])
    <3> SUFFICES ASSUME NEW u \in L, NEW v \in Users \ L,
                        LinkOf(users'[u]) # NoLink
                 PROVE  LinkOf(users[v]) # LinkOf(Written(r))
      BY <2>1
    <3>1. s.kind # "purge"
      BY <2>1, <2>2 DEF LinkOf
    <3>2. u = s.user /\ v # u /\ LinkOf(Written(r)) = Written(r).link
      BY <2>3, <3>1 DEF LinkOf
    <3>3. Written(r).link # NoLink
      BY <2>1, <3>2
    <3>4. CASE Writer(s)
      <4>1. New(s) = Written(r).link
        BY <2>3, <3>1, <3>4
      <4>2. \A w \in Users \ {s.user} : LinkOf(users[w]) # New(s)
        <5>1. SlotInv(s, users) /\ s.pc = "commit" /\ New(s) # NoLink
          BY <1>1, <2>1, <3>3, <4>1
        <5> QED
          BY <3>4, <5>1 DEF SlotInv
      <4> QED
        BY <3>2, <4>1, <4>2
    <3>5. CASE ~Writer(s)
      BY <2>1, <2>3, <3>1, <3>2, <3>3, <3>5 DEF IInv, LinkedInUnique, LinkOf, Exists
    <3> QED
      BY <3>4, <3>5
  <2>6. LinkedInUnique'
    <3> SUFFICES ASSUME NEW u \in Users, NEW v \in Users,
                        users'[u] # Absent, users'[v] # Absent,
                        users'[u].link = users'[v].link,
                        u # v, users'[u].link # NoLink
                 PROVE  FALSE
      BY DEF LinkedInUnique, Exists
    <3>1. /\ LinkOf(users'[u]) = LinkOf(users'[v])
          /\ LinkOf(users'[u]) # NoLink
      BY DEF LinkOf
    <3>2. CASE u \notin L /\ v \notin L
      BY <2>1, <3>2 DEF IInv, LinkedInUnique, Exists
    <3>3. CASE u \in L /\ v \in L
      BY <2>1, <2>2, <2>3, <3>3
    <3> QED
      BY <2>5, <3>1, <3>2, <3>3
  <2>7. tx'[r] = Idle /\ SlotInv(Idle, users')
    BY <1>15, IdleHolds DEF Commit
  <2>8. ASSUME NEW q \in Requests, q # r
        PROVE  /\ tx'[q] \in Slot
               /\ tx'[q].kind = tx[q].kind /\ tx'[q].pc = tx[q].pc
               /\ tx'[q].user = tx[q].user /\ tx'[q].link = tx[q].link
               /\ tx'[q].seen = tx[q].seen /\ tx'[q].victims = tx[q].victims
               /\ tx'[q].locked = tx[q].locked
               /\ tx'[q].outrun = tx[q].outrun \cup (tx[q].victims \cap L)
    <3>1. tx'[q] = [tx[q] EXCEPT !.outrun = @ \cup (tx[q].victims \cap L)]
      BY <1>15, <2>8 DEF Commit
    <3> QED
      BY <1>1, <3>1 DEF Slot
  <2>9. ASSUME NEW q \in Requests, q # r PROVE SlotInv(tx'[q], users')
    <3> DEFINE t == tx[q]
    <3>1. t \in Slot /\ SlotInv(t, users)
          /\ Pair(s, t) /\ Pair(t, s)
      BY <1>1, <2>9 DEF IInv
    <3>2. t.kind = "signup" => t.user \in Users /\ t.user \notin L
      <4> SUFFICES ASSUME t.kind = "signup", t.user \in L PROVE FALSE
        BY <3>1 DEF SlotInv, Pair, Slot
      <4>1. users[t.user] = Absent /\ t.user \notin s.victims
            /\ (s.kind = "signup" => t.user # s.user)
        BY <3>1 DEF SlotInv, Pair
      <4>2. s.kind \notin {"signup", "purge"} => \A u \in L : users[u] # Absent
        BY <1>1 DEF SlotInv
      <4> QED
        BY <2>2, <2>3, <4>1, <4>2
    <3>3. \A u \in t.locked : u \in Users /\ u \notin L
      BY <3>1 DEF Pair, Slot
    <3>4. ASSUME t.pc = "commit", Writer(t), New(t) # NoLink,
                 NEW u \in Users \ {t.user}
          PROVE  LinkOf(users'[u]) # New(t)
      <4>1. LinkOf(users[u]) # New(t)
        BY <3>1, <3>4 DEF SlotInv
      <4>2. CASE u \notin L
        BY <2>1, <4>1, <4>2
      <4>3. CASE s.kind = "purge" /\ u \in L
        BY <2>1, <2>2, <3>4, <4>3 DEF LinkOf
      <4>4. CASE s.kind # "purge" /\ u \in L
        <5>1. u = s.user /\ LinkOf(users'[u]) = Written(r).link
          BY <2>1, <2>3, <4>4 DEF LinkOf
        <5>2. Writer(s) /\ New(s) # NoLink => New(s) # New(t)
          BY <2>1, <3>1, <3>4 DEF Pair
        <5> QED
          BY <2>3, <3>4, <4>1, <4>4, <5>1, <5>2
      <4> QED
        BY <4>2, <4>3, <4>4
    <3>5. \A u \in t.victims \ (t.outrun \cup (t.victims \cap L)) :
            users'[u] = Absent \/ users'[u].deletion = "expired"
      BY <2>1, <3>1 DEF SlotInv, Slot
    <3> DEFINE w == tx'[q]
    <3>6. /\ w \in Slot
          /\ w.kind = t.kind /\ w.pc = t.pc /\ w.user = t.user /\ w.link = t.link
          /\ w.seen = t.seen /\ w.victims = t.victims /\ w.locked = t.locked
          /\ w.outrun = t.outrun \cup (t.victims \cap L)
          /\ (Writer(w) <=> Writer(t)) /\ New(w) = New(t)
      BY <2>8, <2>9 DEF Writer, New
    <3> HIDE DEF w
    <3>7. /\ w.kind # "purge" =>
               /\ w.victims = {}
               /\ w.pc # "idle" => w.user \in Users
               /\ w.locked = IF w.pc \in {"key", "commit"} THEN {w.user} ELSE {}
               /\ w.pc # "delete"
          /\ w.kind = "purge" =>
               /\ w.pc \in {"select", "delete", "commit"}
               /\ w.locked \subseteq w.victims
               /\ w.pc = "select" => w.victims = {}
          /\ w.outrun \subseteq w.victims
          /\ w.pc = "key" => Writer(w)
          /\ w.kind = "link" /\ w.pc \in {"select", "write", "key", "commit"} =>
               w.seen \in {NoLink, w.link}
      BY <3>1, <3>6 DEF SlotInv
    <3>8. /\ w.kind = "signup" => w.user \in Users /\ users'[w.user] = Absent
          /\ w.kind \notin {"signup", "purge"} => \A u \in w.locked : users'[u] # Absent
      BY <2>1, <3>1, <3>2, <3>3, <3>6 DEF SlotInv
    <3>9. w.pc = "commit" /\ Writer(w) /\ New(w) # NoLink =>
            \A u \in Users \ {w.user} : LinkOf(users'[u]) # New(w)
      BY <3>4, <3>6
    <3>10. SlotInv(w, users')
      BY <3>5, <3>6, <3>7, <3>8, <3>9 DEF SlotInv
    <3> QED
      BY <3>10 DEF w
  <2>10. \A p, q \in Requests : p # q => Pair(tx'[p], tx'[q])
    <3>1. \A q \in Requests \ {r} : Pair(Idle, tx'[q]) /\ Pair(tx'[q], Idle)
      BY DEF Pair, Idle, Writer, New
    <3>2. ASSUME NEW p \in Requests \ {r}, NEW q \in Requests \ {r}, p # q
          PROVE  Pair(tx'[p], tx'[q])
      <4>1. Pair(tx[p], tx[q])
        BY <3>2 DEF IInv
      <4> QED
        BY <2>8, <4>1 DEF Pair, Writer, New
    <3> QED
      BY <2>7, <3>1, <3>2
  <2>11. tx' \in [Requests -> Slot]
    <3>1. \A q \in Requests : tx'[q] \in Slot
      BY <2>7, <2>8 DEF SlotInv
    <3> QED
      BY <1>15, <3>1 DEF Commit
  <2> QED
    BY <2>1, <2>4, <2>6, <2>7, <2>9, <2>10, <2>11 DEF IInv
<1>16. ASSUME NEW u \in Users, Expire(u) PROVE IInv'
  <2>1. /\ users[u] \in Row /\ tx' = tx /\ aborts' = aborts
        /\ users' = [users EXCEPT ![u].deletion = "expired"]
    BY <1>16 DEF Expire, IInv, Exists
  <2>2. ASSUME NEW v \in Users
        PROVE  /\ users'[v] \in Row \cup {Absent}
               /\ (users'[v] = Absent) <=> (users[v] = Absent)
               /\ users[v] # Absent => users'[v].link = users[v].link
               /\ LinkOf(users'[v]) = LinkOf(users[v])
               /\ users[v] # Absent /\ users[v].deletion = "expired" =>
                    users'[v].deletion = "expired"
    BY <2>1 DEF Row, Deletion, LinkOf, IInv
  <2>3. users' \in [Users -> Row \cup {Absent}]
    BY <2>1, <2>2 DEF IInv
  <2>4. LinkedInUnique'
    BY <2>2 DEF LinkedInUnique, Exists, IInv
  <2>5. ASSUME NEW r \in Requests PROVE SlotInv(tx[r], users')
    <3>1. tx[r] \in Slot /\ SlotInv(tx[r], users) /\ tx[r].locked \subseteq Users
          /\ tx[r].victims \subseteq Users
      BY <1>1 DEF Slot
    <3>2. tx[r].kind = "signup" => tx[r].user \in Users
      BY <3>1 DEF SlotInv
    <3> QED
      BY <2>2, <3>1, <3>2 DEF SlotInv
  <2> QED
    BY <2>1, <2>3, <2>4, <2>5 DEF IInv
<1>17. ASSUME NEW r \in Requests, DeadlockDetected(r) PROVE IInv'
  BY <1>3, <1>17 DEF DeadlockDetected, IInv
<1>18. ASSUME NEW r \in Requests, Abort(r) PROVE IInv'
  <2>1. aborts' \in 0..MaxAborts
    BY <1>18 DEF Abort, IInv
  <2> QED
    BY <1>3, <1>18, <2>1 DEF Abort
<1> QED
  BY <1>5, <1>6, <1>7, <1>8, <1>10, <1>11, <1>12, <1>13, <1>14, <1>15, <1>16,
     <1>17, <1>18 DEF Next, Step

-----------------------------------------------------------------------------
(* The theorems *)

LEMMA InvariantHolds == Spec => []IInv
BY InitHolds, NextKeeps, PTL DEF Spec

\* Whatever the requests and however they interleave, rows and requests keep
\* their types, and a request holds locks on rows it names or selected.
THEOREM TypeCorrect == Spec => []TypeOK
<1>1. IInv => TypeOK
  <2> SUFFICES ASSUME IInv, NEW r \in Requests
               PROVE  /\ tx[r].kind \in Kinds /\ tx[r].pc \in Steps
                      /\ tx[r].user \in Users \cup {NoUser}
                      /\ {tx[r].link, tx[r].seen} \subseteq Links \cup {NoLink}
                      /\ tx[r].locked \subseteq tx[r].victims \cup {tx[r].user}
                      /\ tx[r].outrun \subseteq tx[r].victims
                      /\ (~Is(r, "signup") /\ ~Is(r, "purge")) =>
                           \A u \in tx[r].locked : Exists(u)
    BY DEF IInv, TypeOK
  <2> QED
    BY DEF IInv, SlotInv, Slot, Is, Exists
<1> QED
  BY <1>1, InvariantHolds, PTL

\* No two accounts ever carry the same LinkedIn identity, although the look for
\* one is a statement of its own: the index decides between two that race.
THEOREM IdentitiesAreUnique == Spec => []LinkedInUnique
<1>1. IInv => LinkedInUnique
  BY DEF IInv
<1> QED
  BY <1>1, InvariantHolds, PTL

\* A commit changes only the rows it has locked, and Expire no link.
LEMMA OnlyCommitWrites ==
  ASSUME IInv, Next, NEW u \in Users, users'[u] # users[u]
  PROVE  \/ \E r \in Requests : /\ Commit(r) /\ u \in tx[r].locked
                               /\ users'[u] = Written(r)
         \/ users[u] # Absent /\ users'[u] # Absent /\ users'[u].link = users[u].link
<1>1. CASE \E v \in Users : Expire(v)
  <2>1. PICK v \in Users : Expire(v)
    BY <1>1
  <2>2. users[v] \in Row /\ users' = [users EXCEPT ![v].deletion = "expired"]
    BY <2>1 DEF Expire, Exists, IInv
  <2>3. v = u /\ users'[u] \in Row /\ users'[u].link = users[u].link
    BY <2>2 DEF IInv, Row, Deletion
  <2> QED
    BY <2>2, <2>3, AbsentAssumption
<1>2. CASE \E r \in Requests : Commit(r)
  BY <1>2 DEF Commit
<1>3. CASE UNCHANGED users
  BY <1>3
<1> QED
  BY <1>1, <1>2, <1>3 DEF Next, Start, Begin, Step, CheckLink, Load, Select, WriteRow,
     InsertRow, EnterKey, SelectVictims, DeleteVictim, AllDeleted, DeadlockDetected, Abort

\* An identity in a committed row is changed only by a request that read the
\* row when it had another one: attach_linkedin refuses to replace it, and
\* every other update writes back the one it selected.
THEOREM LinksAreKept == Spec => LinkIsKept
<1> DEFINE Kept(u) ==
      Exists(u) /\ users[u].link # NoLink /\ Exists(u)' /\ users'[u].link # users[u].link
        => \E r \in Requests : /\ At(r, "commit") /\ u \in tx[r].locked
                               /\ tx[r].seen # users[u].link
<1>1. ASSUME IInv, Next, NEW u \in Users PROVE Kept(u)
  <2> SUFFICES ASSUME users[u] # Absent, users[u].link # NoLink, users'[u] # Absent,
                      users'[u].link # users[u].link
               PROVE  \E r \in Requests : /\ At(r, "commit") /\ u \in tx[r].locked
                                          /\ tx[r].seen # users[u].link
    BY DEF Exists
  <2>1. PICK r \in Requests :
          Commit(r) /\ u \in tx[r].locked /\ users'[u] = Written(r)
    BY <1>1, OnlyCommitWrites
  <2> DEFINE s == tx[r]
  <2>2. s.pc = "commit" /\ s \in Slot /\ SlotInv(s, users)
    BY <1>1, <2>1 DEF Commit, At, IInv
  <2>3. s.kind \notin {"purge", "signup"} /\ u = s.user
    <3>1. s.kind # "purge"
      BY <2>1 DEF Written, Is
    <3>2. u = s.user
      BY <2>1, <2>2, <3>1 DEF SlotInv
    <3> QED
      BY <2>2, <3>1, <3>2 DEF SlotInv
  <2>4. users[u] \in Row
    BY <1>1 DEF IInv
  <2>5. s.kind \in {"patch", "link"}
    BY <2>1, <2>2, <2>3, <2>4 DEF Written, Is, Row, Deletion, Slot, Kinds
  <2>6. users'[u].link = NewLink(r)
    BY <2>1, <2>3, <2>4, <2>5 DEF Written, Is, Row
  <2>7. s.kind = "link" => s.seen \in {NoLink, s.link}
    BY <2>2 DEF SlotInv
  <2>8. s.seen # users[u].link
    BY <2>5, <2>6, <2>7 DEF NewLink, Is
  <2> QED
    BY <2>1, <2>2, <2>8 DEF At
<1>2. IInv /\ [Next]_vars => [\A u \in Users : Kept(u)]_vars
  BY <1>1
<1> QED
  BY <1>2, InvariantHolds, PTL DEF Spec, LinkIsKept

\* A purge takes no account whose deletion is recent or was undone, unless
\* somebody wrote the row between the selection and the DELETE by id.
THEOREM PurgesAreDue == Spec => PurgedWasDeleted
<1> DEFINE Due(u) ==
      Exists(u) /\ ~Exists(u)' =>
        \/ users[u].deletion = "expired"
        \/ \E r \in Requests : Is(r, "purge") /\ u \in tx[r].outrun
<1>1. ASSUME IInv, Next, NEW u \in Users PROVE Due(u)
  <2> SUFFICES ASSUME users[u] # Absent, users'[u] = Absent, users[u].deletion # "expired"
               PROVE  \E r \in Requests : Is(r, "purge") /\ u \in tx[r].outrun
    BY DEF Exists
  <2>1. PICK r \in Requests :
          Commit(r) /\ u \in tx[r].locked /\ users'[u] = Written(r)
    BY <1>1, OnlyCommitWrites
  <2> DEFINE s == tx[r]
  <2>2. s \in Slot /\ SlotInv(s, users)
    BY <1>1 DEF IInv
  <2>3. s.kind = "purge"
    <3> SUFFICES ASSUME s.kind # "purge" PROVE Written(r) # Absent
      BY <2>1
    <3>1. u = s.user
      BY <2>1, <2>2 DEF SlotInv
    <3>2. users[u] \in Row
      BY <1>1 DEF IInv
    <3>3. Written(r) \in Row
      BY <2>2, <3>1, <3>2
         DEF Written, Is, Row, NewRow, Deletion, NewLink, Slot
    <3> QED
      BY <3>3, AbsentAssumption
  <2>4. u \in s.victims /\ u \in s.outrun
    BY <2>1, <2>2, <2>3 DEF SlotInv
  <2> QED
    BY <2>3, <2>4 DEF Is
<1>2. IInv /\ [Next]_vars => [\A u \in Users : Due(u)]_vars
  BY <1>1
<1> QED
  BY <1>2, InvariantHolds, PTL DEF Spec, PurgedWasDeleted

-----------------------------------------------------------------------------
(* Waiting for rows and for keys                                             *)

\* r cannot take its next step: the guards of WriteRow, EnterKey and
\* DeleteVictim that look at other requests.
Blocked(r) ==
  \/ /\ At(r, "write") /\ ~Is(r, "signup")
     /\ Exists(tx[r].user) /\ ~RowFree(r, tx[r].user)
  \/ At(r, "key") /\ ~KeyFree(r)
  \/ /\ At(r, "delete") /\ tx[r].victims # tx[r].locked
     /\ \A u \in tx[r].victims \ tx[r].locked : ~RowFree(r, u)

\* What DeadlockDetected looks for.
Circle(S) == S # {} /\ \A x \in S : \E q \in S : WaitsFor(x, q)

\* A request that another one waits for has written, and is not idle; if it
\* waits too, then to delete a victim or to enter a key.
LEMMA WaitedFor ==
  ASSUME IInv, NEW r \in Requests, NEW q \in Requests, WaitsFor(r, q)
  PROVE  ~At(q, "idle") /\ ~At(q, "write") /\ (At(r, "key") => ~At(q, "key"))
<1>1. tx[q].locked # {}
  BY DEF WaitsFor, OpenKeys
<1>2. SlotInv(tx[q], users)
  BY DEF IInv
<1> QED
  BY <1>1, <1>2 DEF SlotInv, At, WaitsFor

\* While requests are in progress one of them can take its next step, or some
\* wait for each other and PostgreSQL fails one.  The latter takes a purge: a
\* request for one account locks its row before it waits for a key, and those
\* that wait for a key hold none that another one waits for.
THEOREM OnlyPurgesDeadlock ==
  Spec => [](/\ (\E r \in Requests : ~At(r, "idle")) =>
                  \/ \E r \in Requests : ~At(r, "idle") /\ ~Blocked(r)
                  \/ \E S \in SUBSET Requests : Circle(S)
             /\ \A S \in SUBSET Requests :
                  Circle(S) => \E r \in S : Is(r, "purge") /\ At(r, "delete"))
<1>1. ASSUME IInv, NEW r \in Requests, Blocked(r)
      PROVE  \E q \in Requests : WaitsFor(r, q)
  <2>1. SlotInv(tx[r], users) /\ tx[r] \in Slot
    BY <1>1 DEF IInv
  <2>2. CASE At(r, "write") \/ At(r, "key")
    BY <1>1, <2>2 DEF Blocked, RowFree, KeyFree, WaitsFor, At
  <2>3. CASE At(r, "delete")
    <3>1. PICK u \in tx[r].victims \ tx[r].locked : ~RowFree(r, u)
      BY <1>1, <2>1, <2>3 DEF Blocked, SlotInv, At
    <3> QED
      BY <2>3, <3>1 DEF RowFree, WaitsFor
  <2> QED
    BY <1>1, <2>2, <2>3 DEF Blocked
<1>2. IInv => ((\E r \in Requests : ~At(r, "idle")) =>
                 \/ \E r \in Requests : ~At(r, "idle") /\ ~Blocked(r)
                 \/ \E S \in SUBSET Requests : Circle(S))
  <2> DEFINE Busy == {r \in Requests : ~At(r, "idle")}
  <2> SUFFICES ASSUME IInv, Busy # {}, \A r \in Busy : Blocked(r)
               PROVE  Circle(Busy)
    OBVIOUS
  <2>1. ASSUME NEW r \in Busy PROVE \E q \in Busy : WaitsFor(r, q)
    BY <1>1, WaitedFor
  <2> QED
    BY <2>1 DEF Circle
<1>3. IInv => \A S \in SUBSET Requests :
                Circle(S) => \E r \in S : Is(r, "purge") /\ At(r, "delete")
  <2> SUFFICES ASSUME IInv, NEW S \in SUBSET Requests, Circle(S),
                      \A r \in S : ~At(r, "delete")
               PROVE  FALSE
    BY DEF IInv, SlotInv, At, Is
  <2>1. PICK x \in S : TRUE
    BY DEF Circle
  <2>2. PICK y \in S : WaitsFor(x, y)
    BY DEF Circle
  <2>3. PICK z \in S : WaitsFor(y, z)
    BY DEF Circle
  <2>4. At(y, "key")
    BY <2>2, <2>3, WaitedFor DEF WaitsFor
  <2>5. PICK w \in S : WaitsFor(z, w)
    BY DEF Circle
  <2>6. ~At(z, "write") /\ ~At(z, "key")
    BY <2>3, <2>4, WaitedFor
  <2> QED
    BY <2>5, <2>6 DEF WaitsFor
<1> QED
  BY <1>2, <1>3, InvariantHolds, PTL DEF Spec
=============================================================================
