---------------------------- MODULE PasswordReset ----------------------------
(***************************************************************************)
(* The password-reset subsystem: ForgotPasswordUseCase,                    *)
(* ResetPasswordUseCase and the administrator's PATCH of a user, each run  *)
(* as an HTTP request inside one READ COMMITTED database transaction       *)
(* (get_async_session commits after the handler and rolls back on any      *)
(* exception).  A request is a slot whose pc says which statement it       *)
(* executes next; the statements of different requests interleave freely.  *)
(*                                                                         *)
(* tokenRow and users are the committed tables.  What a transaction has    *)
(* written but not committed lives in its slot, and the row locks that     *)
(* PostgreSQL holds for it follow from its pc: an UPDATE of a row waits    *)
(* for the transaction that updated it before, and then looks at the       *)
(* committed row again.                                                    *)
(***************************************************************************)
EXTENDS Naturals

CONSTANTS Users,      \* candidates with a row in the users table
          Passwords,  \* hashed passwords
          Tokens,     \* signed token values generate() may return
          Requests,   \* slots for requests in progress
          NoUser, NoToken, NoPassword,
          TTL,        \* PASSWORD_RESET_TOKEN_TTL in clock ticks
          MaxClock,   \* bound on the clock
          MaxAborts   \* bound on the crashes and disconnections

ASSUME NullAssumption ==
  /\ NoUser \notin Users
  /\ NoToken \notin Tokens
  /\ NoPassword \notin Passwords

ASSUME BoundAssumption ==
  /\ TTL \in Nat \ {0}
  /\ MaxClock \in Nat
  /\ MaxAborts \in Nat

VARIABLES
  clock,     \* datetime.now(UTC)
  users,     \* users[u] : the committed columns a full-row UPDATE rewrites
  tokenRow,  \* tokenRow[t] : the committed row of password_reset_tokens
  inbox,     \* tokens whose e-mail has reached the candidate
  minted,    \* tokens PasswordResetToken.generate has returned
  tx,        \* tx[r] : progress and private data of request r
  uses,      \* uses[t] : committed password changes paid with t (history)
  aborts     \* requests cut off so far

vars == <<clock, users, tokenRow, inbox, minted, tx, uses, aborts>>

Times == 0..MaxClock

UserRow == [pwd : Passwords \cup {NoPassword}, active : BOOLEAN]

Status == {"absent", "available", "consumed"}

TokenRow == [status : Status, owner : Users \cup {NoUser},
             created : Times, consumed : Times]

NoRow == [status |-> "absent", owner |-> NoUser, created |-> 0, consumed |-> 0]

Steps == {"idle",
          "mail", "storeToken",                            \* forgot password
          "find", "claim", "loadUser", "writeUser", "commitReset",
          "writePatch", "commitPatch"}                     \* PATCH /users/{id}

Tx == [pc : Steps, user : Users \cup {NoUser}, token : Tokens \cup {NoToken},
       at : Times, row : UserRow]

Idle == [pc |-> "idle", user |-> NoUser, token |-> NoToken, at |-> 0,
         row |-> [pwd |-> NoPassword, active |-> FALSE]]

Init ==
  /\ clock = 0
  /\ users \in [Users -> [pwd : Passwords, active : {TRUE}]]
  /\ tokenRow = [t \in Tokens |-> NoRow]
  /\ inbox = {}
  /\ minted = {}
  /\ tx = [r \in Requests |-> Idle]
  /\ uses = [t \in Tokens |-> 0]
  /\ aborts = 0

(* Row locks: held from the UPDATE of the row to the end of the transaction. *)
HoldsToken(r) == tx[r].pc \in {"loadUser", "writeUser", "commitReset"}
HoldsUser(r) == tx[r].pc \in {"commitReset", "commitPatch"}

TokenFree(t) == \A q \in Requests : HoldsToken(q) => tx[q].token # t
UserFree(u) == \A q \in Requests : HoldsUser(q) => tx[q].user # u

At(r, step) == tx[r].pc = step
Goto(r, step) == tx' = [tx EXCEPT ![r].pc = step]
Finish(r) == tx' = [tx EXCEPT ![r] = Idle]

\* Faulty variant for FreshWhenConsumed: > for >= at the end of the lifetime.
IsExpiredLate(row, at) == at > row.created + TTL

\* PasswordResetToken.is_expired, at the time the request was checked.
IsExpired(row, at) == at >= row.created + TTL

\* PasswordResetToken.consume: what the row read by find_by_token_hash allows.
\* A malformed or tampered value is a value without a row.
Consumable(row, at) == row.status = "available" /\ ~IsExpired(row, at)

Tick ==
  /\ clock < MaxClock
  /\ clock' = clock + 1
  /\ UNCHANGED <<users, tokenRow, inbox, minted, tx, uses, aborts>>

-----------------------------------------------------------------------------
(* POST /auth/password/forgot *)

\* The candidate is found, a token is generated and its row flushed.
ForgotBegin(r, u, t) ==
  /\ At(r, "idle")
  /\ t \notin minted
  /\ minted' = minted \cup {t}
  /\ tx' = [tx EXCEPT ![r] = [Idle EXCEPT !.pc = "mail", !.user = u,
                                          !.token = t, !.at = clock]]
  /\ UNCHANGED <<clock, users, tokenRow, inbox, uses, aborts>>

\* The mail gateway accepts the message, before anything is committed.
ForgotMailed(r) ==
  /\ At(r, "mail")
  /\ inbox' = inbox \cup {tx[r].token}
  /\ Goto(r, "storeToken")
  /\ UNCHANGED <<clock, users, tokenRow, minted, uses, aborts>>

\* The gateway raises: the transaction rolls back.  After a timeout the
\* message may have been accepted all the same.
ForgotMailFails(r) ==
  /\ At(r, "mail")
  /\ \/ inbox' = inbox
     \/ inbox' = inbox \cup {tx[r].token}
  /\ Finish(r)
  /\ UNCHANGED <<clock, users, tokenRow, minted, uses, aborts>>

\* get_async_session commits the flushed row.
ForgotCommit(r) ==
  /\ At(r, "storeToken")
  /\ tokenRow' = [tokenRow EXCEPT ![tx[r].token] =
                    [status |-> "available", owner |-> tx[r].user,
                     created |-> tx[r].at, consumed |-> 0]]
  /\ Finish(r)
  /\ UNCHANGED <<clock, users, inbox, minted, uses, aborts>>

-----------------------------------------------------------------------------
(* POST /auth/password/reset *)

\* checked_at is read once, before the first statement.
ResetBegin(r, t) ==
  /\ At(r, "idle")
  /\ t \in inbox
  /\ tx' = [tx EXCEPT ![r] = [Idle EXCEPT !.pc = "find", !.token = t,
                                          !.at = clock]]
  /\ UNCHANGED <<clock, users, tokenRow, inbox, minted, uses, aborts>>

\* Faulty variant for TypeOK: the row of an unknown token is not told from
\* None, and a time outside the clock is passed on.
FindTokenStale(r) ==
  /\ At(r, "find")
  /\ tx' = [tx EXCEPT ![r].pc = "claim",
                      ![r].at = tokenRow[tx[r].token].created + TTL + 1]
  /\ UNCHANGED <<clock, users, tokenRow, inbox, minted, uses, aborts>>

\* find_by_token_hash and PasswordResetToken.consume.
FindToken(r) ==
  /\ At(r, "find")
  /\ LET row == tokenRow[tx[r].token] IN
       \/ /\ Consumable(row, tx[r].at)
          /\ tx' = [tx EXCEPT ![r].pc = "claim", ![r].user = row.owner]
       \/ /\ ~Consumable(row, tx[r].at)
          /\ Finish(r)
  /\ UNCHANGED <<clock, users, tokenRow, inbox, minted, uses, aborts>>

\* Faulty variant for SingleUse: no WHERE consumed_at IS NULL.
ClaimUnconditionally(r) ==
  /\ At(r, "claim")
  /\ TokenFree(tx[r].token)
  /\ Goto(r, "loadUser")
  /\ UNCHANGED <<clock, users, tokenRow, inbox, minted, uses, aborts>>

\* Faulty variant for EveryRequestEnds: a lost claim is tried again.
ClaimRetried(r) ==
  /\ At(r, "claim")
  /\ TokenFree(tx[r].token)
  /\ tokenRow[tx[r].token].status = "available"
  /\ Goto(r, "loadUser")
  /\ UNCHANGED <<clock, users, tokenRow, inbox, minted, uses, aborts>>

\* consume_if_available: UPDATE ... WHERE consumed_at IS NULL.
Claim(r) ==
  /\ At(r, "claim")
  /\ TokenFree(tx[r].token)
  /\ \/ /\ tokenRow[tx[r].token].status = "available"
        /\ Goto(r, "loadUser")
     \/ /\ tokenRow[tx[r].token].status # "available"
        /\ Finish(r)
  /\ UNCHANGED <<clock, users, tokenRow, inbox, minted, uses, aborts>>

\* get_by_id reads the whole row and the new password replaces the old one.
LoadUser(r, p) ==
  /\ At(r, "loadUser")
  /\ tx' = [tx EXCEPT ![r].pc = "writeUser",
                      ![r].row = [users[tx[r].user] EXCEPT !.pwd = p]]
  /\ UNCHANGED <<clock, users, tokenRow, inbox, minted, uses, aborts>>

\* Faulty variant for SomeAttemptWins: the request gives up on a locked row.
WriteUserNoWait(r) ==
  /\ At(r, "writeUser")
  /\ IF UserFree(tx[r].user) THEN Goto(r, "commitReset") ELSE Finish(r)
  /\ UNCHANGED <<clock, users, tokenRow, inbox, minted, uses, aborts>>

\* UserRepository.update: every column is written from the loaded object.
WriteUser(r) ==
  /\ At(r, "writeUser")
  /\ UserFree(tx[r].user)
  /\ Goto(r, "commitReset")
  /\ UNCHANGED <<clock, users, tokenRow, inbox, minted, uses, aborts>>

\* Faulty variant for the refinement: consumed_at is the time of the commit,
\* not the time at which the lifetime was checked.
CommitResetNow(r) ==
  /\ At(r, "commitReset")
  /\ tokenRow' = [tokenRow EXCEPT ![tx[r].token].status = "consumed",
                                  ![tx[r].token].consumed = clock]
  /\ users' = [users EXCEPT ![tx[r].user] = tx[r].row]
  /\ uses' = [uses EXCEPT ![tx[r].token] = @ + 1]
  /\ Finish(r)
  /\ UNCHANGED <<clock, inbox, minted, aborts>>

\* The claim and the new password become visible together.
CommitReset(r) ==
  /\ At(r, "commitReset")
  /\ tokenRow' = [tokenRow EXCEPT ![tx[r].token].status = "consumed",
                                  ![tx[r].token].consumed = tx[r].at]
  /\ users' = [users EXCEPT ![tx[r].user] = tx[r].row]
  /\ uses' = [uses EXCEPT ![tx[r].token] = @ + 1]
  /\ Finish(r)
  /\ UNCHANGED <<clock, inbox, minted, aborts>>

-----------------------------------------------------------------------------
(* PATCH /users/{id} by an administrator *)

\* update() selects the row; is_active comes from the payload or the row,
\* the password always from the row.
PatchBegin(r, u, active) ==
  /\ At(r, "idle")
  /\ tx' = [tx EXCEPT ![r] = [Idle EXCEPT !.pc = "writePatch", !.user = u,
                                !.row = [users[u] EXCEPT !.active = active]]]
  /\ UNCHANGED <<clock, users, tokenRow, inbox, minted, uses, aborts>>

WritePatch(r) ==
  /\ At(r, "writePatch")
  /\ UserFree(tx[r].user)
  /\ Goto(r, "commitPatch")
  /\ UNCHANGED <<clock, users, tokenRow, inbox, minted, uses, aborts>>

CommitPatch(r) ==
  /\ At(r, "commitPatch")
  /\ users' = [users EXCEPT ![tx[r].user] = tx[r].row]
  /\ Finish(r)
  /\ UNCHANGED <<clock, tokenRow, inbox, minted, uses, aborts>>

-----------------------------------------------------------------------------
\* A crash, a lost connection or an unexpected exception: rollback.
Abort(r) ==
  /\ aborts < MaxAborts
  /\ ~At(r, "idle")
  /\ aborts' = aborts + 1
  /\ Finish(r)
  /\ UNCHANGED <<clock, users, tokenRow, inbox, minted, uses>>

\* The steps a request that has begun takes towards its end.
Step(r) ==
  \/ ForgotMailed(r) \/ ForgotMailFails(r) \/ ForgotCommit(r)
  \/ FindToken(r) \/ Claim(r) \/ (\E p \in Passwords : LoadUser(r, p))
  \/ WriteUser(r) \/ CommitReset(r)
  \/ WritePatch(r) \/ CommitPatch(r)

Begin(r) ==
  \/ \E u \in Users, t \in Tokens : ForgotBegin(r, u, t)
  \/ \E t \in Tokens : ResetBegin(r, t)
  \/ \E u \in Users, active \in BOOLEAN : PatchBegin(r, u, active)

Next == Tick \/ \E r \in Requests : Begin(r) \/ Step(r) \/ Abort(r)

Spec == Init /\ [][Next]_vars

\* Coroutines are scheduled, calls have timeouts, and PostgreSQL queues the
\* waiters of a row lock, so a request that can step again and again does.
FairSpec == Spec /\ \A r \in Requests : SF_vars(Step(r))

-----------------------------------------------------------------------------
(* Properties *)

\* Every variable has its type.
TypeOK ==
  /\ clock \in Times
  /\ users \in [Users -> UserRow]
  /\ tokenRow \in [Tokens -> TokenRow]
  /\ inbox \subseteq Tokens
  /\ minted \subseteq Tokens
  /\ tx \in [Requests -> Tx]
  /\ uses \in [Tokens -> Nat]
  /\ aborts \in 0..MaxAborts

\* A token pays for one password change and no more, however many requests
\* present it at once, and claim and change are one transaction: a row is
\* consumed exactly when one password change was committed with it
\* (ResetPasswordUseCase, consume_if_available).
SingleUse ==
  \A t \in Tokens : uses[t] = IF tokenRow[t].status = "consumed" THEN 1 ELSE 0

\* A consumed token was asked for within its lifetime, never before it was
\* created, although the check and the claim are different statements.
FreshWhenConsumed ==
  \A t \in Tokens : tokenRow[t].status = "consumed" =>
    /\ tokenRow[t].created <= tokenRow[t].consumed
    /\ tokenRow[t].consumed < tokenRow[t].created + TTL

\* A stored token was mailed: a failed mail leaves no row behind.
StoredWasMailed ==
  \A t \in Tokens : tokenRow[t].status # "absent" => t \in inbox

\* Whatever the interleaving, a request ends: nobody waits for a lock for ever.
EveryRequestEnds ==
  \A r \in Requests : tx[r].pc # "idle" ~> tx[r].pc = "idle"

\* When requests reach the claim of a token and no request is cut off, one of
\* them consumes it: racing attempts never defeat each other.
SomeAttemptWins ==
  \A r \in Requests, t \in Tokens :
    (tx[r].pc = "claim" /\ tx[r].token = t)
      ~> (tokenRow[t].status = "consumed" \/ aborts > 0)

\* The subsystem implements the one-time token: its five statements and its
\* commit appear as one atomic redemption, and no request that was cut off or
\* whose mail failed issues a token.
Abs == INSTANCE OneTimeToken WITH token <- tokenRow, delivered <- inbox
ImplementsOneTimeToken == Abs!Spec
=============================================================================
