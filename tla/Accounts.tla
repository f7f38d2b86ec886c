------------------------------ MODULE Accounts ------------------------------
(***************************************************************************)
(* The rows of users as everything but signup with a password and the      *)
(* password reset writes them: an administrator's PATCH, the soft          *)
(* deletion, restoration and purge of CandidateService, the linking of a   *)
(* LinkedIn identity, and the account a first LinkedIn login creates.      *)
(* Each request is one READ COMMITTED transaction.  The purge and the      *)
(* restoration have no route yet; they are modelled as the service offers  *)
(* them.                                                                   *)
(***************************************************************************)
EXTENDS Naturals

CONSTANTS Users,
          Links,     \* LinkedIn identities
          NoLink, NoUser, Absent,
          Requests,
          MaxAborts  \* bound on the crashes and lost connections

ASSUME AccountsAssumption ==
  /\ NoLink \notin Links /\ NoUser \notin Users
  /\ MaxAborts \in Nat

VARIABLES
  users,   \* users[u] : the committed row of u, or Absent
  tx,      \* tx[r] : progress and local variables of request r
  aborts

vars == <<users, tx, aborts>>

Deletion == {"no", "recent", "expired"}
Row == [link : Links \cup {NoLink}, deletion : Deletion]
ASSUME AbsentAssumption == Absent \notin Row
NewRow == [link |-> NoLink, deletion |-> "no"]

Kinds == {"patch", "link", "signup", "softDelete", "restore", "purge"}
Steps == {"idle", "check", "load", "select", "write", "key", "delete", "commit"}

\* seen : the link in the row, as update() or the use case has read it.
Idle == [kind |-> "patch", pc |-> "idle", user |-> NoUser, link |-> NoLink,
         seen |-> NoLink, victims |-> {}, locked |-> {}, outrun |-> {}]

Init ==
  /\ users \in [Users -> {NewRow, Absent}]
  /\ tx = [r \in Requests |-> Idle]
  /\ aborts = 0

At(r, step) == tx[r].pc = step
Is(r, kind) == tx[r].kind = kind
Goto(r, step) == tx' = [tx EXCEPT ![r].pc = step]
Finish(r) == tx' = [tx EXCEPT ![r] = Idle]
Exists(u) == users[u] # Absent

\* A write locks its row until the transaction ends, and with a new link the
\* keys of the old and the new one in the unique index.
RowFree(r, u) == \A q \in Requests \ {r} : u \notin tx[q].locked

\* The link a request writes: PATCH writes back what update() selected.
NewLink(r) == IF Is(r, "patch") THEN tx[r].seen ELSE tx[r].link
OldLink(u) == IF Exists(u) THEN users[u].link ELSE NoLink
WritesLink(r) == tx[r].kind \in {"patch", "link", "signup"}

\* Keys of the unique index on linkedin_id that an uncommitted write of q
\* leaves open.
OpenKeys(q) ==
  {OldLink(u) : u \in {v \in tx[q].locked :
      Is(q, "purge") \/ (WritesLink(q) /\ NewLink(q) # OldLink(v))}}
  \cup {NewLink(q) : u \in {v \in tx[q].locked : WritesLink(q)}}

-----------------------------------------------------------------------------
(* Requests *)

Begin(r, kind, u, l) ==
  /\ At(r, "idle")
  /\ kind = "signup" => ~Exists(u) /\ \A q \in Requests :
                          u # tx[q].user /\ u \notin tx[q].victims
  /\ tx' = [tx EXCEPT ![r] = [Idle EXCEPT !.kind = kind, !.user = u, !.link = l,
       !.pc = CASE kind \in {"link", "signup"} -> "check"
                [] kind \in {"softDelete", "restore"} -> "load"
                [] OTHER -> "select"]]
  /\ UNCHANGED <<users, aborts>>

\* find_by_linkedin_id: an identity that has an account is not linked to
\* another one, and logs in to its own instead of signing up.
CheckLink(r) ==
  /\ At(r, "check")
  /\ LET taken == {u \in Users : Exists(u) /\ users[u].link = tx[r].link} IN
       IF taken \subseteq {tx[r].user}
       THEN Goto(r, IF Is(r, "link") THEN "load" ELSE "write")
       ELSE Finish(r)
  /\ UNCHANGED <<users, aborts>>

\* Faulty variant for LinkIsKept: attach_linkedin takes every identity.
LoadUnchecked(r) ==
  /\ At(r, "load")
  /\ LET row == users[tx[r].user] IN
       IF row = Absent \/ (Is(r, "restore") /\ row.deletion = "no")
       THEN Finish(r)
       ELSE tx' = [tx EXCEPT ![r].seen = row.link,
                     ![r].pc = IF Is(r, "link") THEN "select" ELSE "write"]
  /\ UNCHANGED <<users, aborts>>

\* get_by_id, and what the use case asks of the row: an account keeps its
\* LinkedIn identity (attach_linkedin), and a restoration needs a deletion.
Load(r) ==
  /\ At(r, "load")
  /\ LET row == users[tx[r].user] IN
       IF \/ row = Absent
          \/ Is(r, "restore") /\ row.deletion = "no"
          \/ Is(r, "link") /\ row.link \notin {NoLink, tx[r].link}
       THEN Finish(r)
       ELSE tx' = [tx EXCEPT ![r].seen = row.link,
                     ![r].pc = IF Is(r, "link") THEN "select" ELSE "write"]
  /\ UNCHANGED <<users, aborts>>

\* The SELECT of update().
Select(r) ==
  /\ At(r, "select") /\ tx[r].kind \in {"patch", "link"}
  /\ LET row == users[tx[r].user] IN
       IF row = Absent THEN Finish(r)
       ELSE tx' = [tx EXCEPT ![r].pc = "write",
                     ![r].seen = IF Is(r, "patch") THEN row.link ELSE @]
  /\ UNCHANGED <<users, aborts>>

\* Faulty variant for TypeOK: the UPDATE does not wait for the row.
WriteRowUnlocked(r) ==
  /\ At(r, "write") /\ ~Is(r, "signup")
  /\ LET u == tx[r].user IN
       IF ~Exists(u) THEN Finish(r)
       ELSE tx' = [tx EXCEPT ![r].locked = {u},
              ![r].pc = IF WritesLink(r) /\ NewLink(r) # OldLink(u)
                        THEN "key" ELSE "commit"]
  /\ UNCHANGED <<users, aborts>>

\* The UPDATE waits for the lock of the row; if the row has gone it changes
\* nothing, which only a PATCH reports.
WriteRow(r) ==
  /\ At(r, "write") /\ ~Is(r, "signup")
  /\ LET u == tx[r].user IN
       IF ~Exists(u) THEN Finish(r)
       ELSE /\ RowFree(r, u)
            /\ tx' = [tx EXCEPT ![r].locked = {u},
                 ![r].pc = IF WritesLink(r) /\ NewLink(r) # OldLink(u)
                           THEN "key" ELSE "commit"]
  /\ UNCHANGED <<users, aborts>>

InsertRow(r) ==
  /\ At(r, "write") /\ Is(r, "signup")
  /\ tx' = [tx EXCEPT ![r].locked = {tx[r].user}, ![r].pc = "key"]
  /\ UNCHANGED <<users, aborts>>

\* Faulty variant for LinkedInUnique: linkedin_id has no unique index.
EnterKeyAnyway(r) ==
  /\ At(r, "key")
  /\ Goto(r, "commit")
  /\ UNCHANGED <<users, aborts>>

\* The entry in the unique index: it waits for a transaction that may take or
\* give up the same key, and fails when another row has it.
KeyFree(r) ==
  NewLink(r) = NoLink
    \/ \A q \in Requests \ {r} : NewLink(r) \notin OpenKeys(q) \/ At(q, "key")
EnterKey(r) ==
  /\ At(r, "key")
  /\ KeyFree(r)
  /\ IF NewLink(r) # NoLink /\
          \E u \in Users \ {tx[r].user} : OldLink(u) = NewLink(r)
     THEN Finish(r)
     ELSE Goto(r, "commit")
  /\ UNCHANGED <<users, aborts>>

\* Faulty variant for PurgedWasDeleted: the cutoff is not compared.
SelectAllDeleted(r) ==
  /\ At(r, "select") /\ Is(r, "purge")
  /\ tx' = [tx EXCEPT ![r].pc = "delete", ![r].victims =
              {u \in Users : Exists(u) /\ users[u].deletion # "no"}]
  /\ UNCHANGED <<users, aborts>>

\* purge_older_than: the accounts deleted before the cutoff.
SelectVictims(r) ==
  /\ At(r, "select") /\ Is(r, "purge")
  /\ tx' = [tx EXCEPT ![r].pc = "delete", ![r].victims =
              {u \in Users : Exists(u) /\ users[u].deletion = "expired"}]
  /\ UNCHANGED <<users, aborts>>

\* The flush at the commit deletes them one by one, by id; one that has gone
\* only causes a warning.
DeleteVictim(r, u) ==
  /\ At(r, "delete")
  /\ u \in tx[r].victims \ tx[r].locked
  /\ RowFree(r, u)
  /\ tx' = [tx EXCEPT ![r].locked = @ \cup {u}]
  /\ UNCHANGED <<users, aborts>>

AllDeleted(r) ==
  /\ At(r, "delete")
  /\ tx[r].victims = tx[r].locked
  /\ Goto(r, "commit")
  /\ UNCHANGED <<users, aborts>>

\* The row r commits; updated_at and the like are left out.
Written(r) ==
  CASE Is(r, "purge") -> Absent
    [] Is(r, "signup") -> [NewRow EXCEPT !.link = tx[r].link]
    [] Is(r, "softDelete") -> [users[tx[r].user] EXCEPT !.deletion = "recent"]
    [] Is(r, "restore") -> [users[tx[r].user] EXCEPT !.deletion = "no"]
    [] OTHER -> [users[tx[r].user] EXCEPT !.link = NewLink(r)]

\* outrun (history): victims of a purge that another request has written since.
Commit(r) ==
  /\ At(r, "commit")
  /\ users' = [u \in Users |-> IF u \in tx[r].locked THEN Written(r) ELSE users[u]]
  /\ tx' = [q \in Requests |-> IF q = r THEN Idle ELSE
              [tx[q] EXCEPT !.outrun = @ \cup (tx[q].victims \cap tx[r].locked)]]
  /\ UNCHANGED aborts

\* Time passes: a soft deletion gets older than the cutoff of a purge.
Expire(u) ==
  /\ Exists(u) /\ users[u].deletion = "recent"
  /\ users' = [users EXCEPT ![u].deletion = "expired"]
  /\ UNCHANGED <<tx, aborts>>

WaitsFor(r, q) ==
  /\ q # r
  /\ \/ /\ At(r, "write") /\ ~Is(r, "signup")
        /\ tx[r].user \in tx[q].locked
     \/ /\ At(r, "delete")
        /\ (tx[r].victims \ tx[r].locked) \cap tx[q].locked # {}
     \/ /\ At(r, "key") /\ ~At(q, "key") /\ NewLink(r) # NoLink
        /\ NewLink(r) \in OpenKeys(q)

\* PostgreSQL ends a circle of waiting transactions by failing one of them: a
\* purge and a link can wait for each other, for a row and for a key.
DeadlockDetected(r) ==
  /\ \E S \in SUBSET Requests :
       r \in S /\ \A x \in S : \E q \in S : WaitsFor(x, q)
  /\ Finish(r)
  /\ UNCHANGED <<users, aborts>>

\* A crash, a lost connection, or an unexpected exception: rollback.
Abort(r) ==
  /\ aborts < MaxAborts
  /\ ~At(r, "idle")
  /\ aborts' = aborts + 1
  /\ Finish(r)
  /\ UNCHANGED users

Start(r) ==
  \/ \E u \in Users, kind \in {"patch", "softDelete", "restore"} :
       Begin(r, kind, u, NoLink)
  \/ \E u \in Users, l \in Links, kind \in {"link", "signup"} : Begin(r, kind, u, l)
  \/ Begin(r, "purge", NoUser, NoLink)

Step(r) ==
  \/ CheckLink(r) \/ Load(r) \/ Select(r) \/ WriteRow(r) \/ InsertRow(r)
  \/ EnterKey(r) \/ SelectVictims(r) \/ (\E u \in Users : DeleteVictim(r, u))
  \/ AllDeleted(r) \/ Commit(r)

Next ==
  \/ \E r \in Requests : Start(r) \/ Step(r) \/ DeadlockDetected(r) \/ Abort(r)
  \/ \E u \in Users : Expire(u)

Spec == Init /\ [][Next]_vars

-----------------------------------------------------------------------------
(* Properties *)

\* Types: an account is absent or has all its columns; a request locks rows it
\* names or selected.
TypeOK ==
  /\ users \in [Users -> Row \cup {Absent}]
  /\ \A r \in Requests :
       /\ tx[r].kind \in Kinds /\ tx[r].pc \in Steps
       /\ tx[r].user \in Users \cup {NoUser}
       /\ {tx[r].link, tx[r].seen} \subseteq Links \cup {NoLink}
       /\ tx[r].locked \subseteq tx[r].victims \cup {tx[r].user}
       /\ tx[r].outrun \subseteq tx[r].victims
       /\ ~Is(r, "signup") /\ ~Is(r, "purge") => \A u \in tx[r].locked : Exists(u)
  /\ aborts \in 0..MaxAborts

\* A LinkedIn identity logs in to one account: the look for another account
\* that has it is a statement of its own, and linking races with signing up.
LinkedInUnique ==
  \A u, v \in Users :
    Exists(u) /\ Exists(v) /\ users[u].link = users[v].link =>
      u = v \/ users[u].link = NoLink

\* A link that was committed is changed or wiped out only by a request that
\* had read the row before (PATCH and link write the whole row back), or goes
\* with the account.
LinkIsKept ==
  [][\A u \in Users :
       Exists(u) /\ users[u].link # NoLink /\ Exists(u)'
         /\ users'[u].link # users[u].link
       => \E r \in Requests : /\ At(r, "commit") /\ u \in tx[r].locked
                              /\ tx[r].seen # users[u].link]_vars

\* The purge removes an account whose deletion is older than the cutoff, or one
\* that was restored or deleted again after the purge had selected it.
PurgedWasDeleted ==
  [][\A u \in Users :
       Exists(u) /\ ~Exists(u)' =>
         \/ users[u].deletion = "expired"
         \/ \E r \in Requests : Is(r, "purge") /\ u \in tx[r].outrun]_vars
=============================================================================
