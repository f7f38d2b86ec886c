--------------------------- MODULE RotatingToken ---------------------------
(***************************************************************************)
(* What a stored refresh token promises, whatever the statements, crashes  *)
(* and overlaps behind it: it lives until it is revoked, and no longer; a  *)
(* successor is stored in the same step that revokes the token it is for;  *)
(* and whoever gets one presented the token while it was live.  That the   *)
(* token is rotated once is not promised: several may have presented it.   *)
(***************************************************************************)
CONSTANTS Tokens, NoToken,
          Clients   \* who may be rotating a token at the same time

VARIABLES status,    \* status[t] : "absent", "live" or "revoked"
          parent,    \* parent[t] : the token t was rotated from
          admitted   \* admitted[c] : the token c has presented, or NoToken

tokenVars == <<status, parent, admitted>>

Init ==
  /\ status = [t \in Tokens |-> "absent"]
  /\ parent = [t \in Tokens |-> NoToken]
  /\ admitted = [c \in Clients |-> NoToken]

Issue(t) ==
  /\ status[t] = "absent"
  /\ status' = [status EXCEPT ![t] = "live"]
  /\ UNCHANGED <<parent, admitted>>

Admit(c, t) ==
  /\ status[t] = "live"
  /\ admitted[c] = NoToken
  /\ admitted' = [admitted EXCEPT ![c] = t]
  /\ UNCHANGED <<status, parent>>

Withdraw(c) ==
  /\ admitted[c] # NoToken
  /\ admitted' = [admitted EXCEPT ![c] = NoToken]
  /\ UNCHANGED <<status, parent>>

\* The token may have been revoked since it was presented.
Rotate(c, new) ==
  /\ admitted[c] # NoToken
  /\ status[new] = "absent"
  /\ status' = [status EXCEPT ![admitted[c]] = "revoked", ![new] = "live"]
  /\ parent' = [parent EXCEPT ![new] = admitted[c]]
  /\ admitted' = [admitted EXCEPT ![c] = NoToken]

Revoke(t) ==
  /\ status[t] = "live"
  /\ status' = [status EXCEPT ![t] = "revoked"]
  /\ UNCHANGED <<parent, admitted>>

Next ==
  \/ \E t \in Tokens : Issue(t) \/ Revoke(t)
  \/ \E c \in Clients : \/ Withdraw(c)
                        \/ \E t \in Tokens : Admit(c, t) \/ Rotate(c, t)

Spec == Init /\ [][Next]_tokenVars
=============================================================================
