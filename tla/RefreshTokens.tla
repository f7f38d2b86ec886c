---------------------------- MODULE RefreshTokens ----------------------------
(***************************************************************************)
(* Refresh tokens: issued at registration, login and LinkedIn callback,    *)
(* rotated by RefreshTokenUseCase, revoked by LogoutUseCase.  Each request *)
(* is one READ COMMITTED transaction whose statements interleave with      *)
(* those of the others; row is the committed refresh_tokens table.  A JWT  *)
(* is valid by its signature: owner[t] is its subject claim, and a token   *)
(* exists for a client whether or not the table has a row for it.          *)
(***************************************************************************)
EXTENDS Naturals, FiniteSets

CONSTANTS Users, Tokens, Requests, NoUser, NoToken,
          MaxAborts   \* bound on the crashes and lost connections

ASSUME SessionAssumption ==
  /\ NoUser \notin Users
  /\ NoToken \notin Tokens
  /\ IsFiniteSet(Requests)
  /\ MaxAborts \in Nat

VARIABLES
  active,    \* users.is_active
  owner,     \* owner[t] : subject of token t, NoUser until t is created
  row,       \* row[t] : "absent", "live" or "revoked"
  parent,    \* parent[t] : the token t was rotated from (history)
  held,      \* tokens clients have received in their cookie
  loggedOut, \* tokens a logout answered 204 for (history)
  swallowed, \* those of them whose revocation raised (history)
  tx,        \* tx[r] : progress and private data of request r
  aborts     \* requests cut off so far

logouts == <<loggedOut, swallowed>>
vars == <<active, owner, row, parent, held, logouts, tx, aborts>>

Idle == [pc |-> "idle", token |-> NoToken, fresh |-> NoToken, updated |-> FALSE]

Steps == {"idle", "find", "loadUser", "revoke", "commit",
          "logout", "commitLogout"}

Tx == [pc : Steps, token : Tokens \cup {NoToken},
       fresh : Tokens \cup {NoToken}, updated : BOOLEAN]

Init ==
  /\ active = [u \in Users |-> TRUE]
  /\ owner = [t \in Tokens |-> NoUser]
  /\ row = [t \in Tokens |-> "absent"]
  /\ parent = [t \in Tokens |-> NoToken]
  /\ held = {}
  /\ loggedOut = {}
  /\ swallowed = {}
  /\ tx = [r \in Requests |-> Idle]
  /\ aborts = 0

At(r, step) == tx[r].pc = step
Goto(r, step) == tx' = [tx EXCEPT ![r].pc = step]
Finish(r) == tx' = [tx EXCEPT ![r] = Idle]

\* The UPDATE of revoke() locks the row it changed until the commit.
RowFree(t) == \A q \in Requests : ~(tx[q].updated /\ tx[q].token = t)

\* revoke(): UPDATE ... WHERE revoked_at IS NULL.  Whether a row was changed
\* is not looked at.
RevokeRow(r, fresh, step) ==
  /\ RowFree(tx[r].token)
  /\ tx' = [tx EXCEPT ![r].pc = step, ![r].fresh = fresh,
                      ![r].updated = (row[tx[r].token] = "live")]

\* What a transaction that ran revoke() commits to the row it named.
RevokedBy(r) ==
  IF tx[r].updated THEN [row EXCEPT ![tx[r].token] = "revoked"] ELSE row

-----------------------------------------------------------------------------
(* Tokens issued outside a rotation *)

\* RegisterUseCase stores the token it returns, in the transaction that
\* creates the account (module Signup has its steps).
Register(u, t) ==
  /\ owner[t] = NoUser
  /\ \A s \in Tokens : owner[s] # u
  /\ owner' = [owner EXCEPT ![t] = u]
  /\ row' = [row EXCEPT ![t] = "live"]
  /\ held' = held \cup {t}
  /\ UNCHANGED <<active, parent, logouts, tx, aborts>>

\* AuthService.login: an active account gets a token; no row is written.
Login(u, t) ==
  /\ active[u]
  /\ owner[t] = NoUser
  /\ owner' = [owner EXCEPT ![t] = u]
  /\ held' = held \cup {t}
  /\ UNCHANGED <<active, row, parent, logouts, tx, aborts>>

\* LinkedInCallbackUseCase: as login, without looking at is_active.
LinkedInLogin(u, t) ==
  /\ owner[t] = NoUser
  /\ owner' = [owner EXCEPT ![t] = u]
  /\ held' = held \cup {t}
  /\ UNCHANGED <<active, row, parent, logouts, tx, aborts>>

\* PATCH /users/{id} changes is_active.
SetActive(u, b) ==
  /\ active[u] # b
  /\ active' = [active EXCEPT ![u] = b]
  /\ UNCHANGED <<owner, row, parent, held, logouts, tx, aborts>>

-----------------------------------------------------------------------------
(* POST /auth/refresh *)

\* _decode_refresh_token finds signature, type and expiry in order; a token
\* it rejects changes nothing, so expiry is not part of the state.
RefreshBegin(r, t) ==
  /\ At(r, "idle")
  /\ t \in held
  /\ tx' = [tx EXCEPT ![r] = [Idle EXCEPT !.pc = "find", !.token = t]]
  /\ UNCHANGED <<active, owner, row, parent, held, logouts, aborts>>

\* Faulty variant for FanOut: a revoked row is as good as a live one.
FindStoredUnchecked(r) ==
  /\ At(r, "find")
  /\ IF row[tx[r].token] # "absent" THEN Goto(r, "loadUser") ELSE Finish(r)
  /\ UNCHANGED <<active, owner, row, parent, held, logouts, aborts>>

\* stored is None or stored.is_revoked: 401.
FindStored(r) ==
  /\ At(r, "find")
  /\ \/ row[tx[r].token] = "live" /\ Goto(r, "loadUser")
     \/ row[tx[r].token] # "live" /\ Finish(r)
  /\ UNCHANGED <<active, owner, row, parent, held, logouts, aborts>>

\* not user.is_active: 401.
LoadUser(r) ==
  /\ At(r, "loadUser")
  /\ \/ active[owner[tx[r].token]] /\ Goto(r, "revoke")
     \/ ~active[owner[tx[r].token]] /\ Finish(r)
  /\ UNCHANGED <<active, owner, row, parent, held, logouts, aborts>>

\* The old token is revoked, then its successor is created; the row of the
\* successor is flushed by the commit.
RevokeOld(r, fresh) ==
  /\ At(r, "revoke")
  /\ owner[fresh] = NoUser
  /\ RevokeRow(r, fresh, "commit")
  /\ owner' = [owner EXCEPT ![fresh] = owner[tx[r].token]]
  /\ UNCHANGED <<active, row, parent, held, logouts, aborts>>

\* Faulty variant for RotationAtomic: the successor is not stored.
CommitRefreshUnsaved(r) ==
  /\ At(r, "commit")
  /\ row' = RevokedBy(r)
  /\ held' = held \cup {tx[r].fresh}
  /\ Finish(r)
  /\ UNCHANGED <<active, owner, parent, logouts, aborts>>

\* Both rows become visible together; the response may never arrive.
CommitRefresh(r) ==
  /\ At(r, "commit")
  /\ row' = [RevokedBy(r) EXCEPT ![tx[r].fresh] = "live"]
  /\ parent' = [parent EXCEPT ![tx[r].fresh] = tx[r].token]
  /\ \/ held' = held \cup {tx[r].fresh}
     \/ held' = held
  /\ Finish(r)
  /\ UNCHANGED <<active, owner, logouts, aborts>>

-----------------------------------------------------------------------------
(* POST /auth/logout *)

LogoutBegin(r, t) ==
  /\ At(r, "idle")
  /\ t \in held
  /\ tx' = [tx EXCEPT ![r] = [Idle EXCEPT !.pc = "logout", !.token = t]]
  /\ UNCHANGED <<active, owner, row, parent, held, logouts, aborts>>

LogoutRevoke(r) ==
  /\ At(r, "logout")
  /\ RevokeRow(r, NoToken, "commitLogout")
  /\ UNCHANGED <<active, owner, row, parent, held, logouts, aborts>>

\* Faulty variant for LogoutRevokes: the revocation is never committed.
CommitLogoutLost(r) ==
  /\ At(r, "commitLogout")
  /\ loggedOut' = loggedOut \cup {tx[r].token}
  /\ swallowed' = swallowed \ {tx[r].token}
  /\ Finish(r)
  /\ UNCHANGED <<active, owner, row, parent, held, aborts>>

CommitLogout(r) ==
  /\ At(r, "commitLogout")
  /\ row' = RevokedBy(r)
  /\ loggedOut' = loggedOut \cup {tx[r].token}
  /\ swallowed' = swallowed \ {tx[r].token}
  /\ Finish(r)
  /\ UNCHANGED <<active, owner, parent, held, aborts>>

\* execute() swallows the exception of revoke(): 204 all the same.
LogoutFails(r) ==
  /\ aborts < MaxAborts
  /\ At(r, "logout")
  /\ aborts' = aborts + 1
  /\ loggedOut' = loggedOut \cup {tx[r].token}
  /\ swallowed' = swallowed \cup {tx[r].token}
  /\ Finish(r)
  /\ UNCHANGED <<active, owner, row, parent, held>>

-----------------------------------------------------------------------------
\* A crash, a lost connection or an unexpected exception: rollback.
Abort(r) ==
  /\ aborts < MaxAborts
  /\ ~At(r, "idle")
  /\ aborts' = aborts + 1
  /\ Finish(r)
  /\ UNCHANGED <<active, owner, row, parent, held, logouts>>

Step(r) ==
  \/ FindStored(r) \/ LoadUser(r) \/ (\E t \in Tokens : RevokeOld(r, t))
  \/ CommitRefresh(r)
  \/ LogoutRevoke(r) \/ CommitLogout(r)

\* Token values never run out in the program: a rotation that has none left
\* in the instance is abandoned.
OutOfTokens(r) ==
  /\ At(r, "revoke")
  /\ \A t \in Tokens : owner[t] # NoUser
  /\ Finish(r)
  /\ UNCHANGED <<active, owner, row, parent, held, logouts, aborts>>

Issue ==
  \E u \in Users, t \in Tokens :
    Register(u, t) \/ Login(u, t) \/ LinkedInLogin(u, t)

Next ==
  \/ Issue
  \/ \E u \in Users, b \in BOOLEAN : SetActive(u, b)
  \/ \E r \in Requests :
       \/ \E t \in Tokens : RefreshBegin(r, t) \/ LogoutBegin(r, t)
       \/ Step(r) \/ OutOfTokens(r) \/ LogoutFails(r) \/ Abort(r)

Spec == Init /\ [][Next]_vars

-----------------------------------------------------------------------------
(* Properties *)

\* Types of the rows, of what clients hold and of each request.
TypeOK ==
  /\ active \in [Users -> BOOLEAN]
  /\ owner \in [Tokens -> Users \cup {NoUser}]
  /\ row \in [Tokens -> {"absent", "live", "revoked"}]
  /\ parent \in [Tokens -> Tokens \cup {NoToken}]
  /\ held \subseteq Tokens
  /\ loggedOut \subseteq Tokens
  /\ swallowed \subseteq loggedOut
  /\ tx \in [Requests -> Tx]
  /\ aborts \in 0..MaxAborts

Successors(t) == {s \in Tokens : parent[s] = t}

\* A rotation is all or nothing: a token with a successor is revoked, and a
\* token is revoked only by a logout or by the commit that stored a successor.
RotationAtomic ==
  \A t \in Tokens :
    /\ Successors(t) # {} => row[t] = "revoked"
    /\ row[t] = "revoked" => t \in loggedOut \/ Successors(t) # {}

\* Replaying a token gives at most one successor to each request that was in
\* progress together: after the first commit no request gets past find.
FanOut ==
  \A t \in Tokens : Cardinality(Successors(t)) <= Cardinality(Requests)

\* A token answered 204 by a logout is no longer live, whatever refreshes of
\* it were in progress, unless revoke() raised
\* (test_refresh_cookie_replay_after_logout_returns_401).
LogoutRevokes == \A t \in loggedOut \ swallowed : row[t] # "live"

\* A request has presented its token once find() found it live, and until its
\* commit or its end.
Presented(r) ==
  IF tx[r].pc \in {"loadUser", "revoke", "commit"} THEN tx[r].token ELSE NoToken

\* The statements of refresh and logout, with whatever overlaps or is cut off,
\* implement a token that is rotated and revoked in one step.
Promise == INSTANCE RotatingToken WITH
  Clients <- Requests, status <- row,
  admitted <- [r \in Requests |-> Presented(r)]
ImplementsRotatingToken == Promise!Spec
=============================================================================
