---------------------------- MODULE OneTimeToken ----------------------------
(***************************************************************************)
(* What a password-reset token promises, whatever the requests, crashes    *)
(* and retries behind it: a token is issued once, to one candidate, only   *)
(* when its e-mail has been delivered, and is redeemed at most once, at a  *)
(* time inside its lifetime.  Redeeming is one atomic step, although the   *)
(* program takes five database statements and a commit to do it.           *)
(***************************************************************************)
EXTENDS Naturals

CONSTANTS Tokens,   \* signed token values
          Users,    \* candidates
          NoUser,   \* owner of a token nobody was issued
          Times,    \* instants at which a token is issued or asked for
          TTL       \* lifetime of a token, in clock ticks

VARIABLES token,      \* token[t] : what the issuer knows of t
          uses,       \* uses[t]  : password changes t has paid for
          delivered   \* tokens that have reached their candidate by e-mail

tokenVars == <<token, uses, delivered>>

Init ==
  /\ token = [t \in Tokens |->
                [status |-> "absent", owner |-> NoUser,
                 created |-> 0, consumed |-> 0]]
  /\ uses = [t \in Tokens |-> 0]
  /\ delivered = {}

\* The e-mail with token t arrives, which does not yet make it worth anything.
Deliver(t) ==
  /\ delivered' = delivered \cup {t}
  /\ UNCHANGED <<token, uses>>

\* Token t is issued to u at time at.
Issue(t, u, at) ==
  /\ t \in delivered
  /\ token[t].status = "absent"
  /\ token' = [token EXCEPT ![t] = [status |-> "available", owner |-> u,
                                    created |-> at, consumed |-> 0]]
  /\ UNCHANGED <<uses, delivered>>

\* Token t, asked for at time at, pays for one password change.
Redeem(t, at) ==
  /\ token[t].status = "available"
  /\ token[t].created <= at
  /\ at < token[t].created + TTL
  /\ token' = [token EXCEPT ![t].status = "consumed", ![t].consumed = at]
  /\ uses' = [uses EXCEPT ![t] = 1]
  /\ UNCHANGED delivered

Next ==
  \E t \in Tokens, at \in Times :
    \/ Deliver(t)
    \/ \E u \in Users : Issue(t, u, at)
    \/ Redeem(t, at)

Spec == Init /\ [][Next]_tokenVars
=============================================================================
