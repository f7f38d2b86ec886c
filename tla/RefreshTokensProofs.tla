------------------------- MODULE RefreshTokensProofs -------------------------
(***************************************************************************)
(* Proofs about RefreshTokens for every number of users, tokens, requests  *)
(* and aborts.                                                             *)
(***************************************************************************)
EXTENDS RefreshTokens, FiniteSetTheorems, TLAPS

\* What a request knows of the committed rows: the token it was given is held
\* by a client; a stored token stays stored; revoke() leaves no live row behind
\* when it changed none; and the successor it has made is known to nobody else.
SlotInv(r) ==
  /\ ~At(r, "idle") => tx[r].token \in held
  /\ tx[r].pc \in {"loadUser", "revoke", "commit"} => row[tx[r].token] # "absent"
  /\ tx[r].pc \in {"commit", "commitLogout"} /\ ~tx[r].updated =>
       row[tx[r].token] # "live"
  /\ At(r, "commit") =>
       /\ tx[r].fresh \in Tokens \ held
       /\ owner[tx[r].fresh] # NoUser
       /\ row[tx[r].fresh] = "absent"
       /\ parent[tx[r].fresh] = NoToken

\* No two requests make the same token.
PairInv ==
  \A r, q \in Requests :
    At(r, "commit") /\ At(q, "commit") /\ tx[r].fresh = tx[q].fresh => r = q

\* Nothing is known of a token before it is created.
UnusedInv ==
  \A t \in Tokens : owner[t] = NoUser =>
    row[t] = "absent" /\ parent[t] = NoToken /\ t \notin held

IInv ==
  /\ TypeOK
  /\ \A r \in Requests : SlotInv(r)
  /\ PairInv
  /\ UnusedInv
  /\ loggedOut \subseteq held
  /\ RotationAtomic
  /\ LogoutRevokes

-----------------------------------------------------------------------------
(* Every action preserves the invariant *)

LEMMA InitHolds == Init => IInv
<1> SUFFICES ASSUME Init PROVE IInv
  OBVIOUS
<1>1. Idle \in Tx
  BY DEF Idle, Tx, Steps
<1>2. TypeOK
  BY <1>1, SessionAssumption DEF Init, TypeOK
<1>3. \A r \in Requests : At(r, "idle")
  BY DEF Init, At, Idle
<1>4. (\A r \in Requests : SlotInv(r)) /\ PairInv /\ UnusedInv
  BY <1>3 DEF Init, SlotInv, PairInv, UnusedInv, At
<1>5. \A t \in Tokens : Successors(t) = {} /\ row[t] = "absent"
  BY SessionAssumption DEF Init, Successors
<1> QED
  BY <1>2, <1>4, <1>5 DEF Init, IInv, RotationAtomic, LogoutRevokes

LEMMA NextKeeps == IInv /\ [Next]_vars => IInv'
<1> SUFFICES ASSUME IInv, [Next]_vars PROVE IInv'
  OBVIOUS
<1> USE SessionAssumption
<1>1. Idle \in Tx /\ Idle.pc = "idle"
  BY DEF Idle, Tx, Steps
<1>2. ASSUME NEW r \in Requests, Finish(r)
      PROVE  /\ tx' \in [Requests -> Tx]
             /\ \A q \in Requests : tx'[q] = IF q = r THEN Idle ELSE tx[q]
  BY <1>1, <1>2 DEF Finish, IInv, TypeOK
\* What an action that touches no row and no token has to show.
<1>3. ASSUME owner' = owner, row' = row, parent' = parent, held' = held,
             logouts' = logouts, active' = active, aborts' \in 0..MaxAborts,
             tx' \in [Requests -> Tx],
             NEW r \in Requests, \A q \in Requests \ {r} : tx'[q] = tx[q],
             SlotInv(r)', tx'[r].pc # "commit"
      PROVE  IInv'
  <2>1. \A q \in Requests : SlotInv(q)'
    BY <1>3 DEF IInv, SlotInv, At
  <2>2. PairInv'
    BY <1>3 DEF IInv, PairInv, At
  <2> QED
    BY <1>3, <2>1, <2>2
    DEF IInv, TypeOK, logouts, UnusedInv, RotationAtomic, LogoutRevokes, Successors
<1>4. ASSUME NEW r \in Requests, Finish(r), owner' = owner, row' = row,
             parent' = parent, held' = held, logouts' = logouts,
             active' = active, aborts' \in 0..MaxAborts
      PROVE  IInv'
  BY <1>1, <1>2, <1>3, <1>4 DEF SlotInv, At
<1>5. CASE UNCHANGED vars
  BY <1>5 DEF vars, logouts, IInv, TypeOK, SlotInv, PairInv, UnusedInv, At,
              RotationAtomic, LogoutRevokes, Successors
\* A new token, stored or not, is nobody's successor and in no request.
<1>6. ASSUME Issue PROVE IInv'
  <2>1. PICK u \in Users, t \in Tokens :
          Register(u, t) \/ Login(u, t) \/ LinkedInLogin(u, t)
    BY <1>6 DEF Issue
  <2>2. /\ owner[t] = NoUser /\ owner' = [owner EXCEPT ![t] = u]
        /\ row' = row \/ row' = [row EXCEPT ![t] = "live"]
        /\ held' = held \cup {t}
        /\ UNCHANGED <<active, parent, loggedOut, swallowed, tx, aborts>>
    BY <2>1 DEF Register, Login, LinkedInLogin, logouts
  <2>3. row[t] = "absent" /\ t \notin held /\ Successors(t) = {}
    BY <2>2 DEF IInv, UnusedInv, RotationAtomic
  <2>4. TypeOK'
    BY <2>2 DEF IInv, TypeOK
  <2>5. ASSUME NEW q \in Requests PROVE SlotInv(q)'
    <3>1. ~At(q, "idle") => tx[q].token # t /\ tx[q].token \in Tokens
      BY <2>3 DEF IInv, SlotInv, TypeOK
    <3>2. At(q, "commit") => tx[q].fresh # t /\ tx[q].fresh \in Tokens
      BY <2>2 DEF IInv, SlotInv
    <3> QED
      BY <2>2, <3>1, <3>2 DEF IInv, SlotInv, At, TypeOK
  <2>6. PairInv' /\ UnusedInv'
    BY <2>2 DEF IInv, PairInv, UnusedInv, At, TypeOK
  <2>7. RotationAtomic'
    BY <2>2, <2>3 DEF IInv, RotationAtomic, Successors, TypeOK
  <2>8. LogoutRevokes'
    BY <2>2, <2>3 DEF IInv, LogoutRevokes, TypeOK
  <2> QED
    BY <2>2, <2>4, <2>5, <2>6, <2>7, <2>8 DEF IInv
<1>7. ASSUME NEW u \in Users, NEW b \in BOOLEAN, SetActive(u, b) PROVE IInv'
  <2>1. /\ active' \in [Users -> BOOLEAN]
        /\ UNCHANGED <<owner, row, parent, held, loggedOut, swallowed, tx, aborts>>
    BY <1>7 DEF SetActive, logouts, IInv, TypeOK
  <2>2. TypeOK'
    BY <2>1 DEF IInv, TypeOK
  <2>3. (\A q \in Requests : SlotInv(q)') /\ PairInv' /\ UnusedInv'
    BY <2>1 DEF IInv, SlotInv, PairInv, UnusedInv, At
  <2> QED
    BY <2>1, <2>2, <2>3 DEF IInv, RotationAtomic, LogoutRevokes, Successors
<1>8. ASSUME NEW r \in Requests, NEW t \in Tokens,
             RefreshBegin(r, t) \/ LogoutBegin(r, t)
      PROVE  IInv'
  <2> DEFINE Begun(step) == [Idle EXCEPT !.pc = step, !.token = t]
  <2>0. \A step \in {"find", "logout"} :
          Begun(step) \in Tx /\ Begun(step).pc = step /\ Begun(step).token = t
    BY DEF Idle, Tx, Steps
  <2>1. PICK s \in Tx : /\ tx' = [tx EXCEPT ![r] = s]
                        /\ s.pc \in {"find", "logout"} /\ s.token = t
    <3>1. tx' = [tx EXCEPT ![r] = Begun("find")]
            \/ tx' = [tx EXCEPT ![r] = Begun("logout")]
      BY <1>8 DEF RefreshBegin, LogoutBegin
    <3> HIDE DEF Begun
    <3> QED
      BY <2>0, <3>1
  <2>2. tx' \in [Requests -> Tx] /\ tx'[r] = s
        /\ \A q \in Requests \ {r} : tx'[q] = tx[q]
    BY <2>1 DEF IInv, TypeOK
  <2> QED
    BY <1>3, <1>8, <2>1, <2>2
    DEF RefreshBegin, LogoutBegin, SlotInv, At, IInv, TypeOK
<1>9. ASSUME NEW r \in Requests, FindStored(r) \/ LoadUser(r) PROVE IInv'
  <2>1. CASE Finish(r)
    BY <1>4, <1>9, <2>1 DEF FindStored, LoadUser, IInv, TypeOK
  <2>2. CASE ~Finish(r)
    <3>1. PICK s \in Tx : /\ tx' = [tx EXCEPT ![r] = s]
                          /\ s.pc \in {"loadUser", "revoke"}
                          /\ s.token = tx[r].token
                          /\ tx[r].pc \in {"find", "loadUser"}
                          /\ row[tx[r].token] # "absent"
      BY <1>9, <2>2
      DEF FindStored, LoadUser, Goto, At, IInv, TypeOK, SlotInv, Tx, Steps
    <3>2. tx' \in [Requests -> Tx] /\ tx'[r] = s
          /\ \A q \in Requests \ {r} : tx'[q] = tx[q]
      BY <3>1 DEF IInv, TypeOK
    <3> QED
      BY <1>3, <1>9, <3>1, <3>2
      DEF FindStored, LoadUser, SlotInv, At, IInv, TypeOK
  <2> QED
    BY <2>1, <2>2
<1>10. ASSUME NEW r \in Requests, NEW t \in Tokens, RevokeOld(r, t)
       PROVE  IInv'
  <2> DEFINE old == tx[r].token
             s == [tx[r] EXCEPT !.pc = "commit", !.fresh = t,
                                !.updated = (row[old] = "live")]
  <2>1. /\ tx[r] \in Tx /\ tx[r].pc = "revoke" /\ owner[t] = NoUser
        /\ tx' = [tx EXCEPT ![r] = s]
        /\ owner' = [owner EXCEPT ![t] = owner[old]]
        /\ UNCHANGED <<active, row, parent, held, loggedOut, swallowed, aborts>>
    BY <1>10 DEF RevokeOld, RevokeRow, At, logouts, IInv, TypeOK
  <2>2. old \in held /\ row[old] # "absent" /\ old \in Tokens
    BY <2>1 DEF IInv, SlotInv, At, TypeOK
  <2>3. /\ row[t] = "absent" /\ parent[t] = NoToken /\ t \notin held
        /\ owner[old] \in Users /\ owner[old] # NoUser
    BY <2>1, <2>2 DEF IInv, UnusedInv, TypeOK
  <2>4. /\ s \in Tx /\ s.pc = "commit" /\ s.token = old /\ s.fresh = t
        /\ s.updated = (row[old] = "live")
    BY <2>1 DEF Tx, Steps
  <2> HIDE DEF s
  <2>5. /\ tx' \in [Requests -> Tx] /\ tx'[r] = s
        /\ \A q \in Requests \ {r} : tx'[q] = tx[q]
    BY <2>1, <2>4 DEF IInv, TypeOK
  <2>6. TypeOK'
    BY <2>1, <2>3, <2>5 DEF IInv, TypeOK
  <2>7. owner'[t] # NoUser /\ \A v \in Tokens \ {t} : owner'[v] = owner[v]
    BY <2>1, <2>3 DEF IInv, TypeOK
  <2>8. ASSUME NEW q \in Requests PROVE SlotInv(q)'
    <3>1. CASE q = r
      BY <2>1, <2>2, <2>3, <2>4, <2>5, <2>7, <3>1 DEF SlotInv, At
    <3>2. CASE q # r
      BY <2>1, <2>5, <2>7, <3>2 DEF IInv, SlotInv, At
    <3> QED
      BY <3>1, <3>2
  <2>9. \A q \in Requests \ {r} : At(q, "commit") => tx[q].fresh # t
    BY <2>1 DEF IInv, SlotInv
  <2>10. PairInv'
    BY <2>4, <2>5, <2>9 DEF IInv, PairInv, At
  <2>11. UnusedInv'
    BY <2>1, <2>7 DEF IInv, UnusedInv
  <2> QED
    BY <2>1, <2>6, <2>8, <2>10, <2>11
    DEF IInv, RotationAtomic, LogoutRevokes, Successors
\* The commit of a rotation: the old row is revoked, its successor live.
<1>11. ASSUME NEW r \in Requests, CommitRefresh(r) PROVE IInv'
  <2> DEFINE old == tx[r].token
             new == tx[r].fresh
  <2>1. /\ tx[r] \in Tx /\ tx[r].pc = "commit"
        /\ row' = [RevokedBy(r) EXCEPT ![new] = "live"]
        /\ parent' = [parent EXCEPT ![new] = old]
        /\ held' = held \cup {new} \/ held' = held
        /\ UNCHANGED <<active, owner, loggedOut, swallowed, aborts>>
    BY <1>11 DEF CommitRefresh, At, logouts, IInv, TypeOK
  <2>2. /\ old \in held /\ old \in Tokens /\ row[old] # "absent"
        /\ ~tx[r].updated => row[old] # "live"
        /\ new \in Tokens \ held /\ owner[new] # NoUser
        /\ row[new] = "absent" /\ parent[new] = NoToken
    BY <2>1 DEF IInv, SlotInv, At, TypeOK
  <2>3. old # new /\ Successors(new) = {}
    BY <2>2 DEF IInv, RotationAtomic
  <2>4. /\ row' \in [Tokens -> {"absent", "live", "revoked"}]
        /\ row'[new] = "live" /\ row'[old] = "revoked"
        /\ \A v \in Tokens \ {old, new} : row'[v] = row[v]
    BY <2>1, <2>2, <2>3 DEF RevokedBy, IInv, TypeOK
  <2>5. /\ parent' \in [Tokens -> Tokens \cup {NoToken}] /\ parent'[new] = old
        /\ \A v \in Tokens \ {new} : parent'[v] = parent[v]
    BY <2>1, <2>2 DEF IInv, TypeOK
  <2>6. /\ tx' \in [Requests -> Tx] /\ tx'[r].pc = "idle"
        /\ \A q \in Requests \ {r} : tx'[q] = tx[q]
    BY <1>1, <1>2, <1>11 DEF CommitRefresh
  <2>7. held \subseteq held' /\ held' \subseteq held \cup {new}
    BY <2>1
  <2>8. TypeOK'
    BY <2>1, <2>2, <2>4, <2>5, <2>6, <2>7 DEF IInv, TypeOK
  <2>9. ASSUME NEW q \in Requests PROVE SlotInv(q)'
    <3>1. CASE q = r
      BY <2>6, <3>1 DEF SlotInv, At
    <3>2. CASE q # r
      <4>1. At(q, "commit") => tx[q].fresh \notin {old, new}
        BY <2>1, <2>2, <3>2 DEF IInv, SlotInv, PairInv, At
      <4>2. tx'[q] = tx[q] /\ tx[q] \in Tx /\ SlotInv(q)
        BY <2>6, <3>2 DEF IInv, TypeOK
      <4>3. ~At(q, "idle") => tx[q].token # new /\ tx[q].token \in Tokens
        BY <2>2, <4>2 DEF SlotInv, IInv, TypeOK
      <4>4. /\ tx[q].pc \in {"loadUser", "revoke", "commit"} =>
                   row'[tx[q].token] # "absent"
            /\ tx[q].pc \in {"commit", "commitLogout"} /\ ~tx[q].updated =>
                   row'[tx[q].token] # "live"
        BY <2>4, <4>2, <4>3 DEF SlotInv, At
      <4>5. At(q, "commit") =>
              /\ tx[q].fresh \in Tokens \ held' /\ owner[tx[q].fresh] # NoUser
              /\ row'[tx[q].fresh] = "absent" /\ parent'[tx[q].fresh] = NoToken
        BY <2>4, <2>5, <2>7, <4>1, <4>2 DEF SlotInv
      <4> QED
        BY <2>1, <2>7, <4>2, <4>4, <4>5 DEF SlotInv, At
    <3> QED
      BY <3>1, <3>2
  <2>10. PairInv'
    BY <2>6 DEF IInv, PairInv, At
  <2>11. UnusedInv'
    BY <2>1, <2>2, <2>3, <2>4, <2>5, <2>7 DEF IInv, UnusedInv
  <2>12. RotationAtomic'
    <3> SUFFICES ASSUME NEW v \in Tokens
                 PROVE  /\ Successors(v)' # {} => row'[v] = "revoked"
                        /\ row'[v] = "revoked" =>
                             v \in loggedOut' \/ Successors(v)' # {}
      BY DEF RotationAtomic
    <3>1. CASE v = old
      BY <2>2, <2>4, <2>5, <3>1 DEF Successors
    <3>2. CASE v # old
      <4>1. Successors(v)' = Successors(v)
        BY <2>2, <2>5, <3>2, SessionAssumption DEF Successors
      <4>2. CASE v = new
        BY <2>3, <2>4, <4>1, <4>2
      <4>3. CASE v # new
        BY <2>1, <2>4, <3>2, <4>1, <4>3 DEF IInv, RotationAtomic
      <4> QED
        BY <4>2, <4>3
    <3> QED
      BY <3>1, <3>2
  <2>13. LogoutRevokes'
    BY <2>1, <2>2, <2>4 DEF IInv, LogoutRevokes, TypeOK
  <2> QED
    BY <2>1, <2>7, <2>8, <2>9, <2>10, <2>11, <2>12, <2>13 DEF IInv
<1>12. ASSUME NEW r \in Requests, LogoutRevoke(r) PROVE IInv'
  <2> DEFINE s == [tx[r] EXCEPT !.pc = "commitLogout", !.fresh = NoToken,
                                !.updated = (row[tx[r].token] = "live")]
  <2>1. tx[r] \in Tx /\ tx[r].pc = "logout" /\ tx' = [tx EXCEPT ![r] = s]
    BY <1>12 DEF LogoutRevoke, RevokeRow, At, IInv, TypeOK
  <2>2. /\ s \in Tx /\ s.pc = "commitLogout" /\ s.token = tx[r].token
        /\ s.updated = (row[tx[r].token] = "live")
    BY <2>1 DEF Tx, Steps
  <2> HIDE DEF s
  <2>3. tx' \in [Requests -> Tx] /\ tx'[r] = s
        /\ \A q \in Requests \ {r} : tx'[q] = tx[q]
    BY <2>1, <2>2 DEF IInv, TypeOK
  <2> QED
    BY <1>3, <1>12, <2>1, <2>2, <2>3
    DEF LogoutRevoke, SlotInv, At, IInv, TypeOK
<1>13. ASSUME NEW r \in Requests, CommitLogout(r) PROVE IInv'
  <2> DEFINE old == tx[r].token
  <2>1. /\ tx[r] \in Tx /\ tx[r].pc = "commitLogout"
        /\ row' = RevokedBy(r)
        /\ loggedOut' = loggedOut \cup {old} /\ swallowed' = swallowed \ {old}
        /\ UNCHANGED <<active, owner, parent, held, aborts>>
    BY <1>13 DEF CommitLogout, At, IInv, TypeOK
  <2>2. /\ old \in held /\ old \in Tokens
        /\ ~tx[r].updated => row[old] # "live"
    BY <2>1 DEF IInv, SlotInv, At, TypeOK
  <2>3. /\ row' \in [Tokens -> {"absent", "live", "revoked"}]
        /\ row'[old] # "live"
        /\ row'[old] = row[old] \/ row'[old] = "revoked"
        /\ \A v \in Tokens \ {old} : row'[v] = row[v]
    BY <2>1, <2>2 DEF RevokedBy, IInv, TypeOK
  <2>4. /\ tx' \in [Requests -> Tx] /\ tx'[r].pc = "idle"
        /\ \A q \in Requests \ {r} : tx'[q] = tx[q]
    BY <1>1, <1>2, <1>13 DEF CommitLogout
  <2>5. TypeOK'
    BY <2>1, <2>2, <2>3, <2>4 DEF IInv, TypeOK
  <2>6. ASSUME NEW q \in Requests PROVE SlotInv(q)'
    <3>1. CASE q = r
      BY <2>4, <3>1 DEF SlotInv, At
    <3>2. CASE q # r
      <4>1. tx'[q] = tx[q] /\ tx[q] \in Tx /\ SlotInv(q)
        BY <2>4, <3>2 DEF IInv, TypeOK
      <4>2. At(q, "commit") => tx[q].fresh # old
        BY <2>2, <4>1 DEF SlotInv
      <4>3. ~At(q, "idle") => tx[q].token \in Tokens
        BY <4>1 DEF SlotInv, IInv, TypeOK
      <4>4. row[old] = "absent" => row'[old] = "absent" \/ row'[old] = "revoked"
        BY <2>3
      <4> QED
        BY <2>1, <2>3, <4>1, <4>2, <4>3, <4>4 DEF SlotInv, At
    <3> QED
      BY <3>1, <3>2
  <2>7. PairInv'
    BY <2>4 DEF IInv, PairInv, At
  <2>8. UnusedInv'
    BY <2>1, <2>2, <2>3 DEF IInv, UnusedInv
  <2>9. RotationAtomic'
    BY <2>1, <2>2, <2>3 DEF IInv, RotationAtomic, Successors
  <2>10. LogoutRevokes'
    BY <2>1, <2>2, <2>3 DEF IInv, LogoutRevokes, TypeOK
  <2> QED
    BY <2>1, <2>2, <2>5, <2>6, <2>7, <2>8, <2>9, <2>10 DEF IInv
<1>14. ASSUME NEW r \in Requests, LogoutFails(r) PROVE IInv'
  <2> DEFINE old == tx[r].token
  <2>1. /\ At(r, "logout") /\ aborts' \in 0..MaxAborts
        /\ loggedOut' = loggedOut \cup {old} /\ swallowed' = swallowed \cup {old}
        /\ UNCHANGED <<active, owner, row, parent, held>>
    BY <1>14 DEF LogoutFails, IInv, TypeOK
  <2>2. old \in held /\ old \in Tokens
    BY <2>1 DEF IInv, SlotInv, At, TypeOK
  <2>3. /\ tx' \in [Requests -> Tx] /\ tx'[r].pc = "idle"
        /\ \A q \in Requests \ {r} : tx'[q] = tx[q]
    BY <1>1, <1>2, <1>14 DEF LogoutFails
  <2>4. TypeOK'
    BY <2>1, <2>2, <2>3 DEF IInv, TypeOK
  <2>5. (\A q \in Requests : SlotInv(q)') /\ PairInv' /\ UnusedInv'
    BY <2>1, <2>3 DEF IInv, SlotInv, PairInv, UnusedInv, At
  <2>6. RotationAtomic' /\ LogoutRevokes'
    BY <2>1 DEF IInv, RotationAtomic, LogoutRevokes, Successors
  <2> QED
    BY <2>1, <2>2, <2>4, <2>5, <2>6 DEF IInv
<1>15. ASSUME NEW r \in Requests, OutOfTokens(r) \/ Abort(r) PROVE IInv'
  BY <1>4, <1>15 DEF OutOfTokens, Abort, IInv, TypeOK
<1> QED
  BY <1>5, <1>6, <1>7, <1>8, <1>9, <1>10, <1>11, <1>12, <1>13, <1>14, <1>15
  DEF Next, Step

LEMMA Invariant == Spec => []IInv
BY InitHolds, NextKeeps, PTL DEF Spec

-----------------------------------------------------------------------------
(* Successors: each takes the place of a request that rotates the token *)

Rotating(t) ==
  {r \in Requests : tx[r].pc \in {"loadUser", "revoke", "commit"}
                      /\ tx[r].token = t}

\* Once a token has a successor no request starts to rotate it, and each commit
\* ends one that did.
FanInv ==
  \A t \in Tokens :
    /\ IsFiniteSet(Successors(t))
    /\ Successors(t) # {} =>
         Cardinality(Successors(t)) + Cardinality(Rotating(t)) <= Cardinality(Requests)

LEMMA RotatingFinite ==
  \A t : /\ IsFiniteSet(Rotating(t)) /\ Cardinality(Rotating(t)) \in Nat
         /\ Cardinality(Rotating(t)) <= Cardinality(Requests)
         /\ Cardinality(Requests) \in Nat
BY SessionAssumption, FS_Subset, FS_CardinalityType DEF Rotating

LEMMA FanHolds == Init => FanInv
<1> SUFFICES ASSUME Init, NEW t \in Tokens PROVE Successors(t) = {}
  BY FS_EmptySet DEF FanInv
<1> QED
  BY SessionAssumption DEF Init, Successors

LEMMA FanKeeps == IInv /\ FanInv /\ [Next]_vars => FanInv'
<1> SUFFICES ASSUME IInv, FanInv, [Next]_vars PROVE FanInv'
  OBVIOUS
<1> USE SessionAssumption
<1>1. ASSUME parent' = parent,
             \A q \in Requests :
               tx'[q].pc \in {"loadUser", "revoke", "commit"} =>
                 /\ tx[q].pc \in {"loadUser", "revoke", "commit"}
                      \/ row[tx'[q].token] = "live"
                 /\ tx[q].token = tx'[q].token
      PROVE  FanInv'
  <2> SUFFICES ASSUME NEW t \in Tokens
               PROVE  /\ IsFiniteSet(Successors(t))'
                      /\ Successors(t)' # {} =>
                           Cardinality(Successors(t))' + Cardinality(Rotating(t))'
                             <= Cardinality(Requests)
    BY DEF FanInv
  <2>1. Successors(t)' = Successors(t)
    BY <1>1 DEF Successors
  <2>2. CASE Successors(t) = {}
    BY <2>1, <2>2, FS_EmptySet
  <2>3. CASE Successors(t) # {}
    <3>1. row[t] # "live"
      BY <2>3 DEF IInv, RotationAtomic
    <3>2. Rotating(t)' \subseteq Rotating(t)
      BY <1>1, <3>1 DEF Rotating
    <3>3. Cardinality(Rotating(t)') <= Cardinality(Rotating(t))
          /\ Cardinality(Rotating(t)') \in Nat
      BY <3>2, RotatingFinite, FS_Subset, FS_CardinalityType
    <3>4. Cardinality(Successors(t)) \in Nat
      BY FS_CardinalityType DEF FanInv
    <3> QED
      BY <2>1, <2>3, <3>3, <3>4, RotatingFinite DEF FanInv
  <2> QED
    BY <2>2, <2>3
<1>2. ASSUME NEW r \in Requests, CommitRefresh(r) PROVE FanInv'
  <2> DEFINE old == tx[r].token
             new == tx[r].fresh
  <2>1. /\ tx[r].pc = "commit" /\ parent' = [parent EXCEPT ![new] = old]
        /\ tx' = [tx EXCEPT ![r] = Idle]
    BY <1>2 DEF CommitRefresh, At, Finish
  <2>2. /\ old \in Tokens /\ new \in Tokens /\ parent[new] = NoToken
        /\ parent \in [Tokens -> Tokens \cup {NoToken}]
        /\ tx \in [Requests -> Tx]
    BY <2>1 DEF IInv, SlotInv, At, TypeOK
  <2>3. \A q \in Requests :
          tx'[q].pc \in {"loadUser", "revoke", "commit"} => q # r /\ tx'[q] = tx[q]
    BY <2>1, <2>2 DEF Idle
  <2> SUFFICES ASSUME NEW t \in Tokens
               PROVE  /\ IsFiniteSet(Successors(t)')
                      /\ Successors(t)' # {} =>
                           Cardinality(Successors(t)') + Cardinality(Rotating(t)')
                             <= Cardinality(Requests)
    BY DEF FanInv
  <2>4. CASE t = old
    <3>1. Successors(t)' = Successors(t) \cup {new} /\ new \notin Successors(t)
      BY <2>1, <2>2, <2>4 DEF Successors
    <3>2. Rotating(t)' \subseteq Rotating(t) \ {r} /\ r \in Rotating(t)
      BY <2>1, <2>3, <2>4 DEF Rotating
    <3>3. /\ IsFiniteSet(Rotating(t) \ {r})
          /\ Cardinality(Rotating(t) \ {r}) = Cardinality(Rotating(t)) - 1
      BY <3>2, RotatingFinite, FS_RemoveElement
    <3>4. Cardinality(Rotating(t)') \in Nat
          /\ Cardinality(Rotating(t)') <= Cardinality(Rotating(t)) - 1
      BY <3>2, <3>3, FS_Subset, FS_CardinalityType
    <3>5. /\ IsFiniteSet(Successors(t)) /\ IsFiniteSet(Successors(t)')
          /\ Cardinality(Successors(t)') = Cardinality(Successors(t)) + 1
          /\ Cardinality(Successors(t)) \in Nat
      BY <3>1, FS_AddElement, FS_CardinalityType DEF FanInv
    <3>6. CASE Successors(t) = {}
      BY <3>4, <3>5, <3>6, RotatingFinite, FS_EmptySet
    <3>7. CASE Successors(t) # {}
      BY <3>4, <3>5, <3>7, RotatingFinite DEF FanInv
    <3> QED
      BY <3>6, <3>7
  <2>5. CASE t # old
    <3>1. Successors(t)' = Successors(t)
      BY <2>1, <2>2, <2>5 DEF Successors
    <3>2. Rotating(t)' \subseteq Rotating(t)
      BY <2>3 DEF Rotating
    <3>3. Cardinality(Rotating(t)') <= Cardinality(Rotating(t))
          /\ Cardinality(Rotating(t)') \in Nat
      BY <3>2, RotatingFinite, FS_Subset, FS_CardinalityType
    <3>4. Cardinality(Successors(t)) \in Nat
      BY FS_CardinalityType DEF FanInv
    <3> QED
      BY <3>1, <3>3, <3>4, RotatingFinite DEF FanInv
  <2> QED
    BY <2>4, <2>5
<1>3. ASSUME UNCHANGED <<parent, tx>> PROVE FanInv'
  BY <1>1, <1>3
<1>4. ASSUME NEW r \in Requests, Finish(r), parent' = parent PROVE FanInv'
  <2>1. \A q \in Requests :
          tx'[q].pc \in {"loadUser", "revoke", "commit"} => tx'[q] = tx[q]
    BY <1>4 DEF Finish, Idle, IInv, TypeOK
  <2> QED
    BY <1>1, <1>4, <2>1
<1>5. ASSUME NEW r \in Requests, parent' = parent, tx[r] \in Tx,
             \/ tx[r].pc \in {"idle", "logout"}
                /\ tx'[r].pc \notin {"loadUser", "revoke", "commit"}
             \/ /\ tx[r].pc \in {"loadUser", "revoke"} \/ row[tx[r].token] = "live"
                /\ tx'[r].token = tx[r].token,
             \A q \in Requests \ {r} : tx'[q] = tx[q]
      PROVE  FanInv'
  BY <1>1, <1>5
<1>6. ASSUME NEW r \in Requests, FindStored(r) \/ LoadUser(r) PROVE FanInv'
  <2>1. CASE Finish(r)
    BY <1>4, <1>6, <2>1 DEF FindStored, LoadUser
  <2>2. CASE ~Finish(r)
    BY <1>5, <1>6, <2>2
    DEF FindStored, LoadUser, Goto, At, IInv, TypeOK, Tx, Steps
  <2> QED
    BY <2>1, <2>2
<1>7. ASSUME NEW r \in Requests, NEW t, NEW step \in {"commit", "commitLogout"},
             RevokeRow(r, t, step), parent' = parent,
             tx[r].pc = (IF step = "commit" THEN "revoke" ELSE "logout")
      PROVE  FanInv'
  <2>1. /\ tx[r] \in Tx /\ tx'[r].pc = step /\ tx'[r].token = tx[r].token
        /\ \A q \in Requests \ {r} : tx'[q] = tx[q]
    BY <1>7 DEF RevokeRow, IInv, TypeOK, Tx
  <2> QED
    BY <1>5, <1>7, <2>1
<1>8. ASSUME NEW r \in Requests, NEW t \in Tokens,
             RefreshBegin(r, t) \/ LogoutBegin(r, t)
      PROVE  FanInv'
  <2>1. /\ tx[r] \in Tx /\ tx[r].pc = "idle" /\ parent' = parent
        /\ tx'[r].pc \in {"find", "logout"}
        /\ \A q \in Requests \ {r} : tx'[q] = tx[q]
    BY <1>8 DEF RefreshBegin, LogoutBegin, At, Idle, IInv, TypeOK
  <2> QED
    BY <1>5, <2>1
<1>9. ASSUME NEW r \in Requests,
             CommitLogout(r) \/ LogoutFails(r) \/ OutOfTokens(r) \/ Abort(r)
      PROVE  FanInv'
  BY <1>4, <1>9 DEF CommitLogout, LogoutFails, OutOfTokens, Abort
<1>10. CASE Issue \/ (\E u \in Users, b \in BOOLEAN : SetActive(u, b)) \/ UNCHANGED vars
  BY <1>3, <1>10 DEF Issue, Register, Login, LinkedInLogin, SetActive, vars
<1>11. ASSUME NEW r \in Requests, (\E t \in Tokens : RevokeOld(r, t)) \/ LogoutRevoke(r)
       PROVE  FanInv'
  BY <1>7, <1>11 DEF RevokeOld, LogoutRevoke, At
<1> QED
  BY <1>2, <1>6, <1>8, <1>9, <1>10, <1>11 DEF Next, Step

-----------------------------------------------------------------------------
(* Every step is a step of the token promised, or changes nothing of it *)

\* What revoke() changed was stored.
UpdatedInv ==
  \A r \in Requests :
    tx[r].updated => tx[r].token \in Tokens /\ row[tx[r].token] # "absent"

LEMMA UpdatedKeeps == IInv /\ UpdatedInv /\ [Next]_vars => UpdatedInv'
<1> SUFFICES ASSUME IInv, UpdatedInv, [Next]_vars PROVE UpdatedInv'
  OBVIOUS
\* No step takes a stored row away.
<1>1. \A t \in Tokens : row[t] # "absent" => row'[t] # "absent"
  <2>1. CASE row' = row
    BY <2>1
  <2>2. ASSUME NEW u \in Users, NEW t \in Tokens, Register(u, t)
        PROVE  \A v \in Tokens : row[v] # "absent" => row'[v] # "absent"
    BY <2>2 DEF Register, IInv, TypeOK
  <2>3. ASSUME NEW r \in Requests, CommitRefresh(r) \/ CommitLogout(r)
        PROVE  \A v \in Tokens : row[v] # "absent" => row'[v] # "absent"
    BY <2>3 DEF CommitRefresh, CommitLogout, RevokedBy, IInv, TypeOK
  <2>4. Next => \/ row' = row
                \/ \E u \in Users, t \in Tokens : Register(u, t)
                \/ \E r \in Requests : CommitRefresh(r) \/ CommitLogout(r)
    BY DEF Next, Step, Issue, Login, LinkedInLogin, SetActive, RefreshBegin,
           LogoutBegin, FindStored, LoadUser, RevokeOld, LogoutRevoke,
           OutOfTokens, LogoutFails, Abort
  <2> QED
    BY <2>1, <2>2, <2>3, <2>4 DEF vars
<1>2. \A q \in Requests : tx'[q].updated =>
        \/ tx[q].updated /\ tx'[q].token = tx[q].token
        \/ tx'[q].token \in Tokens /\ row[tx'[q].token] = "live"
  <2>1. ASSUME NEW r \in Requests, NEW step, Goto(r, step)
        PROVE  \A q \in Requests : tx'[q].updated => tx[q].updated /\ tx'[q].token = tx[q].token
    BY <2>1 DEF Goto, IInv, TypeOK, Tx
  <2>2. ASSUME NEW r \in Requests, Finish(r)
        PROVE  \A q \in Requests : tx'[q].updated => tx[q].updated /\ tx'[q].token = tx[q].token
    BY <2>2 DEF Finish, Idle, IInv, TypeOK
  <2>3. ASSUME NEW r \in Requests, NEW t, NEW step, RevokeRow(r, t, step), ~At(r, "idle")
        PROVE  \A q \in Requests : tx'[q].updated =>
                 \/ tx[q].updated /\ tx'[q].token = tx[q].token
                 \/ tx'[q].token \in Tokens /\ row[tx'[q].token] = "live"
    BY <2>3 DEF RevokeRow, IInv, SlotInv, TypeOK, Tx
  <2>4. ASSUME NEW r \in Requests, NEW t \in Tokens, RefreshBegin(r, t) \/ LogoutBegin(r, t)
        PROVE  \A q \in Requests : tx'[q].updated => tx[q].updated /\ tx'[q].token = tx[q].token
    BY <2>4 DEF RefreshBegin, LogoutBegin, Idle, IInv, TypeOK
  <2>5. Next => \/ tx' = tx
                \/ \E r \in Requests :
                     \/ Finish(r) \/ (\E step \in Steps : Goto(r, step))
                     \/ \E t \in Tokens : RefreshBegin(r, t) \/ LogoutBegin(r, t)
                     \/ \E t \in Tokens \cup {NoToken}, step \in Steps :
                          RevokeRow(r, t, step) /\ ~At(r, "idle")
    BY DEF Next, Step, Issue, Register, Login, LinkedInLogin, SetActive, Steps,
           FindStored, LoadUser, RevokeOld, CommitRefresh, LogoutRevoke,
           CommitLogout, OutOfTokens, LogoutFails, Abort, At
  <2> QED
    BY <2>1, <2>2, <2>3, <2>4, <2>5 DEF vars
<1> QED
  BY <1>1, <1>2 DEF UpdatedInv

LEMMA StepMaps ==
  ASSUME IInv, UpdatedInv, [Next]_vars
  PROVE  [Promise!Next]_Promise!tokenVars
<1> DEFINE adm == [r \in Requests |-> Presented(r)]
<1>1. ASSUME row' = row, parent' = parent,
             \A q \in Requests : Presented(q)' = Presented(q)
      PROVE  UNCHANGED Promise!tokenVars
  BY <1>1 DEF Promise!tokenVars
\* A request ends, or has not been admitted and is not now.
<1>2. ASSUME row' = row, parent' = parent, NEW r \in Requests,
             Presented(r)' = NoToken,
             \A q \in Requests \ {r} : tx'[q] = tx[q]
      PROVE  [Promise!Next]_Promise!tokenVars
  <2>1. \A q \in Requests \ {r} : Presented(q)' = Presented(q)
    BY <1>2 DEF Presented
  <2>2. CASE Presented(r) = NoToken
    BY <1>1, <1>2, <2>1, <2>2
  <2>3. CASE Presented(r) # NoToken
    <3>1. adm' = [adm EXCEPT ![r] = NoToken]
      BY <1>2, <2>1
    <3>2. Promise!Withdraw(r)
      BY <1>2, <2>3, <3>1 DEF Promise!Withdraw
    <3> QED
      BY <3>2 DEF Promise!Next
  <2> QED
    BY <2>2, <2>3
<1>3. ASSUME NEW r \in Requests, Finish(r), row' = row, parent' = parent
      PROVE  [Promise!Next]_Promise!tokenVars
  <2>1. /\ tx'[r] = Idle
        /\ \A q \in Requests \ {r} : tx'[q] = tx[q]
    BY <1>3 DEF Finish, IInv, TypeOK
  <2> QED
    BY <1>2, <1>3, <2>1 DEF Presented, Idle
<1>4. CASE UNCHANGED vars
  BY <1>1, <1>4 DEF vars, Presented
<1>5. CASE Issue
  <2>1. PICK u \in Users, t \in Tokens :
          Register(u, t) \/ Login(u, t) \/ LinkedInLogin(u, t)
    BY <1>5 DEF Issue
  <2>2. tx' = tx /\ parent' = parent /\ \A q \in Requests : Presented(q)' = Presented(q)
    BY <2>1 DEF Register, Login, LinkedInLogin, Presented
  <2>3. CASE row' = row
    BY <1>1, <2>2, <2>3
  <2>4. CASE Register(u, t)
    <3>1. row[t] = "absent" /\ row' = [row EXCEPT ![t] = "live"]
      BY <2>4 DEF Register, IInv, UnusedInv
    <3>2. Promise!Issue(t)
      BY <2>2, <3>1 DEF Promise!Issue
    <3> QED
      BY <3>2 DEF Promise!Next
  <2> QED
    BY <2>1, <2>3, <2>4 DEF Login, LinkedInLogin
<1>6. ASSUME NEW u \in Users, NEW b \in BOOLEAN, SetActive(u, b)
      PROVE  [Promise!Next]_Promise!tokenVars
  BY <1>1, <1>6 DEF SetActive, Presented
<1>7. ASSUME NEW r \in Requests, NEW t \in Tokens, RefreshBegin(r, t) \/ LogoutBegin(r, t)
      PROVE  [Promise!Next]_Promise!tokenVars
  <2>1. /\ tx'[r].pc \in {"find", "logout"} /\ row' = row /\ parent' = parent
        /\ \A q \in Requests \ {r} : tx'[q] = tx[q]
    BY <1>7 DEF RefreshBegin, LogoutBegin, Idle, IInv, TypeOK
  <2> QED
    BY <1>2, <2>1 DEF Presented
\* find() admits a request while the token is live.
<1>8. ASSUME NEW r \in Requests, FindStored(r)
      PROVE  [Promise!Next]_Promise!tokenVars
  <2>1. CASE Finish(r)
    BY <1>3, <1>8, <2>1 DEF FindStored
  <2>2. CASE ~Finish(r)
    <3>1. /\ tx[r].pc = "find" /\ row[tx[r].token] = "live" /\ Goto(r, "loadUser")
          /\ row' = row /\ parent' = parent
      BY <1>8, <2>2 DEF FindStored, At
    <3>2. /\ tx'[r].pc = "loadUser" /\ tx'[r].token = tx[r].token
          /\ \A q \in Requests \ {r} : tx'[q] = tx[q]
      BY <3>1 DEF Goto, IInv, TypeOK, Tx
    <3>3. tx[r].token \in Tokens
      BY <3>1 DEF IInv, SlotInv, TypeOK, At
    <3>4. /\ Presented(r) = NoToken /\ Presented(r)' = tx[r].token
          /\ \A q \in Requests \ {r} : Presented(q)' = Presented(q)
      BY <3>1, <3>2 DEF Presented
    <3>5. adm' = [adm EXCEPT ![r] = tx[r].token]
      BY <3>4
    <3>6. Promise!Admit(r, tx[r].token)
      BY <3>1, <3>4, <3>5 DEF Promise!Admit
    <3> QED
      BY <3>3, <3>6 DEF Promise!Next
  <2> QED
    BY <2>1, <2>2
<1>9. ASSUME NEW r \in Requests, LoadUser(r)
      PROVE  [Promise!Next]_Promise!tokenVars
  <2>1. CASE Finish(r)
    BY <1>3, <1>9, <2>1 DEF LoadUser
  <2>2. CASE ~Finish(r)
    <3>1. /\ tx[r].pc = "loadUser" /\ Goto(r, "revoke") /\ row' = row /\ parent' = parent
      BY <1>9, <2>2 DEF LoadUser, At
    <3>2. /\ tx'[r].pc = "revoke" /\ tx'[r].token = tx[r].token
          /\ \A q \in Requests \ {r} : tx'[q] = tx[q]
      BY <3>1 DEF Goto, IInv, TypeOK, Tx
    <3>3. \A q \in Requests : Presented(q)' = Presented(q)
      BY <3>1, <3>2 DEF Presented
    <3> QED
      BY <1>1, <3>1, <3>3
  <2> QED
    BY <2>1, <2>2
<1>10. ASSUME NEW r \in Requests, NEW t \in Tokens \cup {NoToken},
              NEW step \in {"commit", "commitLogout"}, RevokeRow(r, t, step),
              tx[r].pc = (IF step = "commit" THEN "revoke" ELSE "logout"),
              row' = row, parent' = parent
       PROVE  [Promise!Next]_Promise!tokenVars
  <2>1. /\ tx'[r].pc = step /\ tx'[r].token = tx[r].token
        /\ \A q \in Requests \ {r} : tx'[q] = tx[q]
    BY <1>10 DEF RevokeRow, IInv, TypeOK, Tx
  <2>2. \A q \in Requests : Presented(q)' = Presented(q)
    BY <1>10, <2>1 DEF Presented
  <2> QED
    BY <1>1, <1>10, <2>2
\* The commit rotates the token the request was admitted for.
<1>11. ASSUME NEW r \in Requests, CommitRefresh(r)
       PROVE  [Promise!Next]_Promise!tokenVars
  <2> DEFINE old == tx[r].token
             new == tx[r].fresh
  <2>1. /\ tx[r] \in Tx /\ tx[r].pc = "commit"
        /\ row' = [RevokedBy(r) EXCEPT ![new] = "live"]
        /\ parent' = [parent EXCEPT ![new] = old]
    BY <1>11 DEF CommitRefresh, At, IInv, TypeOK
  <2>2. /\ old \in Tokens /\ new \in Tokens /\ old # new
        /\ row[new] = "absent" /\ row[old] # "absent"
        /\ ~tx[r].updated => row[old] # "live"
        /\ row \in [Tokens -> {"absent", "live", "revoked"}]
    BY <2>1 DEF IInv, SlotInv, At, TypeOK
  <2>3. row' = [row EXCEPT ![old] = "revoked", ![new] = "live"]
    <3>1. RevokedBy(r) = [row EXCEPT ![old] = "revoked"]
      BY <2>2 DEF RevokedBy
    <3> QED
      BY <2>1, <3>1
  <2>4. /\ tx'[r] = Idle
        /\ \A q \in Requests \ {r} : tx'[q] = tx[q]
    BY <1>11 DEF CommitRefresh, Finish, IInv, TypeOK
  <2>5. /\ Presented(r) = old /\ Presented(r)' = NoToken
        /\ \A q \in Requests \ {r} : Presented(q)' = Presented(q)
    BY <2>1, <2>4 DEF Presented, Idle
  <2>6. adm' = [adm EXCEPT ![r] = NoToken] /\ adm[r] = old /\ old # NoToken
    BY <2>2, <2>5, SessionAssumption
  <2>7. Promise!Rotate(r, new)
    BY <2>1, <2>2, <2>3, <2>6 DEF Promise!Rotate
  <2> QED
    BY <2>2, <2>7 DEF Promise!Next
<1>12. ASSUME NEW r \in Requests, CommitLogout(r)
       PROVE  [Promise!Next]_Promise!tokenVars
  <2>1. /\ tx[r].pc = "commitLogout" /\ row' = RevokedBy(r) /\ parent' = parent
        /\ tx[r].token \in Tokens /\ row \in [Tokens -> {"absent", "live", "revoked"}]
    BY <1>12 DEF CommitLogout, At, IInv, SlotInv, TypeOK
  <2>2. /\ tx'[r] = Idle
        /\ \A q \in Requests \ {r} : tx'[q] = tx[q]
    BY <1>12 DEF CommitLogout, Finish, IInv, TypeOK
  <2>3. \A q \in Requests : Presented(q)' = Presented(q)
    BY <2>1, <2>2 DEF Presented, Idle
  <2>4. CASE row' = row
    BY <1>1, <2>1, <2>3, <2>4
  <2>5. CASE row' # row
    <3>1. row[tx[r].token] = "live" /\ row' = [row EXCEPT ![tx[r].token] = "revoked"]
      BY <2>1, <2>5 DEF RevokedBy, UpdatedInv
    <3>2. Promise!Revoke(tx[r].token)
      BY <2>1, <2>3, <3>1 DEF Promise!Revoke
    <3> QED
      BY <2>1, <3>2 DEF Promise!Next
  <2> QED
    BY <2>4, <2>5
<1>13. ASSUME NEW r \in Requests, LogoutFails(r) \/ OutOfTokens(r) \/ Abort(r)
       PROVE  [Promise!Next]_Promise!tokenVars
  BY <1>3, <1>13 DEF LogoutFails, OutOfTokens, Abort
<1>14. ASSUME NEW r \in Requests, (\E t \in Tokens : RevokeOld(r, t)) \/ LogoutRevoke(r)
       PROVE  [Promise!Next]_Promise!tokenVars
  BY <1>10, <1>14 DEF RevokeOld, LogoutRevoke, At
<1> QED
  BY <1>4, <1>5, <1>6, <1>7, <1>8, <1>9, <1>11, <1>12, <1>13, <1>14 DEF Next, Step

-----------------------------------------------------------------------------
(* Theorems *)

\* Rows, requests and what clients hold keep their types.
THEOREM TypeCorrect == Spec => []TypeOK
<1> IInv => TypeOK
  BY DEF IInv
<1> QED
  BY Invariant, PTL

\* A rotation is all or nothing, whatever requests overlap it and are cut off:
\* the old token is revoked by the commit that stores its successor, and by
\* nothing else but a logout.
THEOREM RotationIsAtomic == Spec => []RotationAtomic
<1> IInv => RotationAtomic
  BY DEF IInv
<1> QED
  BY Invariant, PTL

\* However many requests replay a token at once, and whatever is cut off, it
\* gets at most one successor for each of them.
THEOREM FanOutIsBounded == Spec => []FanOut
<1>1. FanInv => FanOut
  <2> SUFFICES ASSUME FanInv, NEW t \in Tokens
               PROVE  Cardinality(Successors(t)) <= Cardinality(Requests)
    BY DEF FanOut
  <2>1. IsFiniteSet(Successors(t)) /\ Cardinality(Successors(t)) \in Nat
    BY FS_CardinalityType DEF FanInv
  <2> QED
    BY <2>1, RotatingFinite, FS_EmptySet DEF FanInv
<1>2. Spec => []FanInv
  BY FanHolds, FanKeeps, Invariant, PTL DEF Spec
<1> QED
  BY <1>1, <1>2, PTL

\* A logout that was answered and did not raise lasts, whatever refreshes of
\* the token were in progress.
THEOREM LogoutLasts == Spec => []LogoutRevokes
<1> IInv => LogoutRevokes
  BY DEF IInv
<1> QED
  BY Invariant, PTL

\* The statements of refresh and logout implement a token that is rotated in
\* one step by a request that presented it while it was live, and that is never
\* live again once it is revoked.
THEOREM Refinement == Spec => ImplementsRotatingToken
<1>1. Init => Promise!Init
  BY DEF Init, Promise!Init, Presented, Idle
<1>2. Init => UpdatedInv
  BY DEF Init, UpdatedInv, Idle
<1>3. Spec => []UpdatedInv
  BY <1>2, UpdatedKeeps, Invariant, PTL DEF Spec
<1> QED
  BY <1>1, <1>3, StepMaps, Invariant, PTL DEF Spec, ImplementsRotatingToken, Promise!Spec

-----------------------------------------------------------------------------
(* What a token never does                                                   *)

\* A successor has the subject of the token it was rotated from.
OwnerInv ==
  /\ \A t \in Tokens : parent[t] # NoToken =>
       owner[t] # NoUser /\ owner[t] = owner[parent[t]]
  /\ \A r \in Requests :
       At(r, "commit") => owner[tx[r].fresh] = owner[tx[r].token]

LEMMA OwnersStay ==
  ASSUME IInv, [Next]_vars, NEW t \in Tokens, owner[t] # NoUser
  PROVE  owner'[t] = owner[t]
<1>1. Next => \/ owner' = owner
              \/ \E u \in Users, x \in Tokens :
                   owner[x] = NoUser /\ owner' = [owner EXCEPT ![x] = u]
              \/ \E r \in Requests, x \in Tokens : RevokeOld(r, x)
  BY DEF Next, Step, Issue, Register, Login, LinkedInLogin, SetActive,
         RefreshBegin, LogoutBegin, FindStored, LoadUser, CommitRefresh,
         LogoutRevoke, CommitLogout, OutOfTokens, LogoutFails, Abort
<1> QED
  BY <1>1 DEF IInv, TypeOK, RevokeOld, vars

\* What is revoked stays so, and a token has one parent for good.
LEMMA RowsStay ==
  ASSUME IInv, [Next]_vars, NEW t \in Tokens
  PROVE  /\ row[t] = "revoked" => row'[t] = "revoked"
         /\ parent[t] # NoToken => parent'[t] = parent[t]
<1>1. CASE row' = row /\ parent' = parent
  BY <1>1
<1>2. ASSUME NEW u \in Users, NEW x \in Tokens, Register(u, x)
      PROVE  /\ row[t] = "revoked" => row'[t] = "revoked"
             /\ parent' = parent
  BY <1>2 DEF Register, IInv, TypeOK, UnusedInv
<1>3. ASSUME NEW r \in Requests, CommitRefresh(r)
      PROVE  /\ row[t] = "revoked" => row'[t] = "revoked"
             /\ parent[t] # NoToken => parent'[t] = parent[t]
  BY <1>3 DEF CommitRefresh, RevokedBy, IInv, TypeOK, SlotInv, At
<1>4. ASSUME NEW r \in Requests, CommitLogout(r)
      PROVE  /\ row[t] = "revoked" => row'[t] = "revoked"
             /\ parent' = parent
  BY <1>4 DEF CommitLogout, RevokedBy, IInv, TypeOK
<1>5. Next => \/ row' = row /\ parent' = parent
              \/ \E u \in Users, x \in Tokens : Register(u, x)
              \/ \E r \in Requests : CommitRefresh(r) \/ CommitLogout(r)
  BY DEF Next, Step, Issue, Login, LinkedInLogin, SetActive, RefreshBegin,
         LogoutBegin, FindStored, LoadUser, RevokeOld, LogoutRevoke,
         OutOfTokens, LogoutFails, Abort
<1> QED
  BY <1>1, <1>2, <1>3, <1>4, <1>5 DEF vars

LEMMA OwnerKeeps == IInv /\ OwnerInv /\ [Next]_vars => OwnerInv'
<1> SUFFICES ASSUME IInv, OwnerInv, [Next]_vars PROVE OwnerInv'
  OBVIOUS
<1> USE SessionAssumption
\* A token in use has a subject.
<1>1. \A r \in Requests : ~At(r, "idle") =>
        tx[r].token \in Tokens /\ owner[tx[r].token] # NoUser
  BY DEF IInv, SlotInv, UnusedInv, TypeOK
<1>2. \A r \in Requests : At(r, "commit") =>
        tx[r].fresh \in Tokens /\ owner[tx[r].fresh] # NoUser
  BY DEF IInv, SlotInv
<1>3. \A r \in Requests : At(r, "commit")' =>
        owner'[tx'[r].fresh] = owner'[tx'[r].token]
  <2>1. ASSUME NEW r \in Requests, At(r, "commit"), tx'[r] = tx[r]
        PROVE  owner'[tx'[r].fresh] = owner'[tx'[r].token]
    BY <1>1, <1>2, <2>1, OwnersStay DEF OwnerInv, At
  <2>2. ASSUME NEW r \in Requests, NEW x \in Tokens, RevokeOld(r, x)
        PROVE  /\ owner'[tx'[r].fresh] = owner'[tx'[r].token]
               /\ \A q \in Requests \ {r} : tx'[q] = tx[q]
    <3>1. /\ tx'[r].fresh = x /\ tx'[r].token = tx[r].token
          /\ \A q \in Requests \ {r} : tx'[q] = tx[q]
      BY <2>2 DEF RevokeOld, RevokeRow, IInv, TypeOK, Tx
    <3>2. owner[x] = NoUser /\ owner' = [owner EXCEPT ![x] = owner[tx[r].token]]
      BY <2>2 DEF RevokeOld
    <3>3. tx[r].token \in Tokens /\ tx[r].token # x
      BY <1>1, <2>2, <3>2 DEF RevokeOld, At
    <3> QED
      BY <3>1, <3>2, <3>3 DEF IInv, TypeOK
  <2>3. ASSUME NEW r \in Requests, At(r, "commit")'
        PROVE  \/ At(r, "commit") /\ tx'[r] = tx[r]
               \/ \E x \in Tokens : RevokeOld(r, x)
    <3>1. CASE tx' = tx
      BY <2>3, <3>1 DEF At
    <3>2. ASSUME NEW q \in Requests, NEW step \in {"loadUser", "revoke"}, Goto(q, step)
          PROVE  At(r, "commit") /\ tx'[r] = tx[r]
      BY <2>3, <3>2 DEF Goto, At, IInv, TypeOK, Tx
    <3>3. ASSUME NEW q \in Requests, Finish(q)
          PROVE  At(r, "commit") /\ tx'[r] = tx[r]
      BY <2>3, <3>3 DEF Finish, Idle, At, IInv, TypeOK
    <3>4. ASSUME NEW q \in Requests, NEW x \in Tokens,
                 RefreshBegin(q, x) \/ LogoutBegin(q, x)
          PROVE  At(r, "commit") /\ tx'[r] = tx[r]
      BY <2>3, <3>4 DEF RefreshBegin, LogoutBegin, Idle, At, IInv, TypeOK
    <3>5. ASSUME NEW q \in Requests, LogoutRevoke(q)
          PROVE  At(r, "commit") /\ tx'[r] = tx[r]
      BY <2>3, <3>5 DEF LogoutRevoke, RevokeRow, At, IInv, TypeOK, Tx
    <3>6. ASSUME NEW q \in Requests, NEW x \in Tokens, RevokeOld(q, x), q # r
          PROVE  At(r, "commit") /\ tx'[r] = tx[r]
      BY <2>3, <2>2, <3>6 DEF At
    <3>7. Next => \/ tx' = tx
                  \/ \E q \in Requests :
                       \/ Finish(q) \/ Goto(q, "loadUser") \/ Goto(q, "revoke")
                       \/ LogoutRevoke(q)
                       \/ \E x \in Tokens : \/ RefreshBegin(q, x) \/ LogoutBegin(q, x)
                                            \/ RevokeOld(q, x)
      BY DEF Next, Step, Issue, Register, Login, LinkedInLogin, SetActive,
             FindStored, LoadUser, CommitRefresh, CommitLogout, OutOfTokens,
             LogoutFails, Abort
    <3> QED
      BY <3>1, <3>2, <3>3, <3>4, <3>5, <3>6, <3>7 DEF vars
  <2> QED
    BY <2>1, <2>2, <2>3
<1>4. ASSUME NEW t \in Tokens, parent'[t] # NoToken
      PROVE  owner'[t] # NoUser /\ owner'[t] = owner'[parent'[t]]
  <2>1. CASE parent[t] # NoToken
    <3>1. parent'[t] = parent[t] /\ parent[t] \in Tokens
      BY <2>1, RowsStay DEF IInv, TypeOK
    <3> QED
      BY <2>1, <3>1, OwnersStay DEF OwnerInv
  <2>2. CASE parent[t] = NoToken
    <3>1. PICK r \in Requests : CommitRefresh(r)
      BY <1>4, <2>2
      DEF Next, Step, Issue, Register, Login, LinkedInLogin, SetActive,
          RefreshBegin, LogoutBegin, FindStored, LoadUser, RevokeOld, vars,
          LogoutRevoke, CommitLogout, OutOfTokens, LogoutFails, Abort
    <3>2. t = tx[r].fresh /\ parent'[t] = tx[r].token /\ At(r, "commit")
      BY <1>4, <2>2, <3>1 DEF CommitRefresh, IInv, TypeOK
    <3>3. owner[t] # NoUser /\ owner[t] = owner[tx[r].token] /\ owner' = owner
      BY <1>2, <3>1, <3>2 DEF OwnerInv, CommitRefresh
    <3> QED
      BY <3>2, <3>3
  <2> QED
    BY <2>1, <2>2
<1> QED
  BY <1>3, <1>4 DEF OwnerInv

\* A token that is revoked, by a rotation or by a logout, is never live again,
\* however late the commit of a request that overlapped; and a successor is of
\* the user of the token it was made from, who never changes.
THEOREM RevokedForGood ==
  Spec => /\ [][\A t \in Tokens :
                  /\ row[t] = "revoked" => row'[t] = "revoked"
                  /\ owner[t] # NoUser => owner'[t] = owner[t]]_vars
          /\ [](\A t \in Tokens : parent[t] # NoToken =>
                  owner[t] # NoUser /\ owner[t] = owner[parent[t]])
<1>1. IInv /\ [Next]_vars =>
        [\A t \in Tokens : /\ row[t] = "revoked" => row'[t] = "revoked"
                           /\ owner[t] # NoUser => owner'[t] = owner[t]]_vars
  BY RowsStay, OwnersStay
<1>2. Init => OwnerInv
  BY DEF Init, OwnerInv, At, Idle
<1>3. OwnerInv => \A t \in Tokens : parent[t] # NoToken =>
                    owner[t] # NoUser /\ owner[t] = owner[parent[t]]
  BY DEF OwnerInv
<1> QED
  BY <1>1, <1>2, <1>3, OwnerKeeps, Invariant, PTL DEF Spec
=============================================================================
