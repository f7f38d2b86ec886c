------------------------- MODULE PasswordResetProofs -------------------------
(***************************************************************************)
(* Proofs about PasswordReset for every number of candidates, tokens and   *)
(* requests, every lifetime and every bound on the clock.                  *)
(***************************************************************************)
EXTENDS PasswordReset, TLAPS

Forgetting(r) == tx[r].pc \in {"mail", "storeToken"}
Accepted(r) == tx[r].pc \in {"claim", "loadUser", "writeUser", "commitReset"}
Resetting(r) == At(r, "find") \/ Accepted(r)

\* A time inside the lifetime of the token of a row.
Within(row, at) == row.created <= at /\ at < row.created + TTL

\* What a stored row says, and what its history says of it.
RowInv(t) ==
  /\ tokenRow[t].status # "absent" =>
       /\ tokenRow[t].owner \in Users
       /\ t \in inbox
       /\ tokenRow[t].created <= clock
  /\ tokenRow[t].status = "consumed" =>
       uses[t] = 1 /\ Within(tokenRow[t], tokenRow[t].consumed)
  /\ tokenRow[t].status # "consumed" => uses[t] = 0

\* What a request knows, by how far it has come.
SlotInv(r) ==
  /\ tx[r].at <= clock
  /\ tx[r].pc \notin {"idle", "find"} => tx[r].user \in Users
  /\ Forgetting(r) =>
       tx[r].token \in minted /\ tokenRow[tx[r].token].status = "absent"
  /\ At(r, "storeToken") => tx[r].token \in inbox
  /\ Resetting(r) => tx[r].token \in inbox
  /\ At(r, "find") /\ tokenRow[tx[r].token].status # "absent" =>
       tokenRow[tx[r].token].created <= tx[r].at
  /\ Accepted(r) =>
       /\ tokenRow[tx[r].token].status # "absent"
       /\ Within(tokenRow[tx[r].token], tx[r].at)
  /\ HoldsToken(r) => tokenRow[tx[r].token].status = "available"

\* Two requests never mint the same token, never hold the lock of the same
\* row, and a reset is checked after the token it presents was minted.
PairInv(r, q) ==
  /\ Forgetting(r) /\ Forgetting(q) => tx[r].token # tx[q].token
  /\ HoldsToken(r) /\ HoldsToken(q) => tx[r].token # tx[q].token
  /\ At(r, "find") /\ Forgetting(q) /\ tx[r].token = tx[q].token =>
       tx[q].at <= tx[r].at

IInv ==
  /\ TypeOK
  /\ inbox \subseteq minted
  /\ \A t \in Tokens : RowInv(t)
  /\ \A r \in Requests : SlotInv(r)
  /\ \A r, q \in Requests : r # q => PairInv(r, q)

-----------------------------------------------------------------------------
(* Lemmas about the slots *)

\* What the invariant says of the data of a request in progress.
LEMMA SlotData ==
  ASSUME IInv, NEW r \in Requests
  PROVE /\ tx[r] \in Tx
        /\ tx[r].pc \in Steps /\ tx[r].at \in Times /\ tx[r].row \in UserRow
        /\ tx[r].pc \notin {"idle", "find"} => tx[r].user \in Users
        /\ Forgetting(r) \/ Resetting(r) => tx[r].token \in Tokens
        /\ Accepted(r) => tokenRow[tx[r].token].owner \in Users
<1>1. tx[r] \in Tx
  BY DEF IInv, TypeOK
<1>2. tx[r].pc \in Steps /\ tx[r].at \in Times /\ tx[r].row \in UserRow
  BY <1>1 DEF Tx
<1>3. SlotInv(r)
  BY DEF IInv
<1>4. Forgetting(r) \/ Resetting(r) => tx[r].token \in Tokens
  BY <1>3 DEF IInv, TypeOK, SlotInv
<1>5. Accepted(r) => tokenRow[tx[r].token].owner \in Users
  BY <1>3, <1>4 DEF IInv, SlotInv, RowInv, Resetting
<1> QED
  BY <1>1, <1>2, <1>3, <1>4, <1>5 DEF SlotInv

\* Ending a request, or moving it to another step, leaves tx well typed.
LEMMA FinishTyped ==
  ASSUME TypeOK, NEW r \in Requests, Finish(r)
  PROVE tx' \in [Requests -> Tx]
<1>1. Idle \in Tx
  BY BoundAssumption DEF Idle, Tx, Steps, Times, UserRow
<1> QED
  BY <1>1 DEF TypeOK, Finish

LEMMA GotoTyped ==
  ASSUME TypeOK, NEW r \in Requests, NEW step \in Steps, Goto(r, step)
  PROVE tx' \in [Requests -> Tx]
<1>1. [tx[r] EXCEPT !.pc = step] \in Tx
  BY DEF TypeOK, Tx
<1> QED
  BY <1>1 DEF TypeOK, Goto

-----------------------------------------------------------------------------
(* Every action preserves the invariant *)

LEMMA ForgotBeginKeeps ==
  ASSUME IInv, NEW r \in Requests, NEW u \in Users, NEW t \in Tokens,
                     ForgotBegin(r, u, t)
  PROVE IInv'
<1>1. TypeOK'
  BY BoundAssumption
  DEF IInv, TypeOK, ForgotBegin, Idle, Tx, Steps, Times, UserRow
<1>2. (inbox \subseteq minted)'
  BY DEF IInv, TypeOK, SlotInv, Forgetting, ForgotBegin, Idle, At
<1>3. \A x \in Tokens : RowInv(x)'
  BY DEF IInv, TypeOK, Tx, Times, RowInv, SlotInv, Within, ForgotBegin,
     Idle, At, Forgetting, Accepted, Resetting, HoldsToken
<1>4. \A x \in Requests : SlotInv(x)'
  BY DEF IInv, TypeOK, Tx, Times, RowInv, SlotInv, PairInv, Within,
     ForgotBegin, Idle, At, Forgetting, Accepted, Resetting, HoldsToken
<1>5. \A x, y \in Requests : x # y => PairInv(x, y)'
  BY DEF IInv, TypeOK, Tx, Times, SlotInv, PairInv, ForgotBegin,
     Idle, At, Forgetting, Accepted, Resetting, HoldsToken
<1> QED
  BY <1>1, <1>2, <1>3, <1>4, <1>5 DEF IInv

LEMMA ForgotMailedKeeps ==
  ASSUME IInv, NEW r \in Requests, ForgotMailed(r)
  PROVE IInv'
<1>1. TypeOK'
  <2>1. tx[r].token \in Tokens
    BY SlotData DEF ForgotMailed, At, Forgetting
  <2> QED
    BY <2>1, GotoTyped DEF IInv, TypeOK, ForgotMailed, Steps
<1>2. (inbox \subseteq minted)'
  BY DEF IInv, TypeOK, SlotInv, Forgetting, ForgotMailed, Goto, At
<1>3. \A x \in Tokens : RowInv(x)'
  BY DEF IInv, TypeOK, Tx, RowInv, SlotInv, Within, ForgotMailed,
     Goto, At, Forgetting, Accepted, Resetting, HoldsToken
<1>4. \A x \in Requests : SlotInv(x)'
  BY DEF IInv, TypeOK, Tx, Times, RowInv, SlotInv, PairInv, Within,
     ForgotMailed, Goto, At, Forgetting, Accepted, Resetting, HoldsToken
<1>5. \A x, y \in Requests : x # y => PairInv(x, y)'
  BY DEF IInv, TypeOK, Tx, SlotInv, PairInv, ForgotMailed,
     Goto, At, Forgetting, Accepted, Resetting, HoldsToken
<1> QED
  BY <1>1, <1>2, <1>3, <1>4, <1>5 DEF IInv

LEMMA ForgotMailFailsKeeps ==
  ASSUME IInv, NEW r \in Requests, ForgotMailFails(r)
  PROVE IInv'
<1>1. TypeOK'
  <2>1. tx[r].token \in Tokens
    BY SlotData DEF ForgotMailFails, At, Forgetting
  <2> QED
    BY <2>1, FinishTyped DEF IInv, TypeOK, ForgotMailFails
<1>2. (inbox \subseteq minted)'
  BY DEF IInv, TypeOK, SlotInv, Forgetting, ForgotMailFails, Finish, Idle, At
<1>3. \A x \in Tokens : RowInv(x)'
  BY DEF IInv, TypeOK, Tx, RowInv, SlotInv, Within, ForgotMailFails,
     Finish, Idle, At, Forgetting, Accepted, Resetting, HoldsToken
<1>4. \A x \in Requests : SlotInv(x)'
  BY DEF IInv, TypeOK, Tx, Times, RowInv, SlotInv, PairInv, Within,
     ForgotMailFails, Finish, Idle, At, Forgetting, Accepted, Resetting,
     HoldsToken
<1>5. \A x, y \in Requests : x # y => PairInv(x, y)'
  BY DEF IInv, TypeOK, Tx, SlotInv, PairInv, ForgotMailFails,
     Finish, Idle, At, Forgetting, Accepted, Resetting, HoldsToken
<1> QED
  BY <1>1, <1>2, <1>3, <1>4, <1>5 DEF IInv

LEMMA ForgotCommitKeeps ==
  ASSUME IInv, NEW r \in Requests, ForgotCommit(r)
  PROVE IInv'
<1>1. TypeOK'
  <2>1. tx[r].token \in Tokens /\ tx[r].user \in Users /\ tx[r].at \in Times
    BY SlotData DEF ForgotCommit, At, Forgetting
  <2>2. tokenRow' \in [Tokens -> TokenRow]
    BY <2>1, BoundAssumption
    DEF IInv, TypeOK, ForgotCommit, TokenRow, Status, Times
  <2> QED
    BY <2>2, FinishTyped DEF IInv, TypeOK, ForgotCommit
<1>2. (inbox \subseteq minted)'
  BY DEF IInv, TypeOK, SlotInv, Forgetting, ForgotCommit, Finish, Idle, At
<1>3. \A x \in Tokens : RowInv(x)'
  BY DEF IInv, TypeOK, Tx, Times, TokenRow, Status, RowInv, SlotInv, Within,
     ForgotCommit, Finish, Idle, At, Forgetting, Accepted, Resetting,
     HoldsToken
<1>4. \A x \in Requests : SlotInv(x)'
  BY DEF IInv, TypeOK, Tx, Times, TokenRow, Status, RowInv, SlotInv, PairInv,
     Within, ForgotCommit, Finish, Idle, At, Forgetting, Accepted, Resetting,
     HoldsToken
<1>5. \A x, y \in Requests : x # y => PairInv(x, y)'
  BY DEF IInv, TypeOK, Tx, Times, TokenRow, Status, SlotInv, PairInv,
     ForgotCommit, Finish, Idle, At, Forgetting, Accepted, Resetting,
     HoldsToken
<1> QED
  BY <1>1, <1>2, <1>3, <1>4, <1>5 DEF IInv

LEMMA ResetBeginKeeps ==
  ASSUME IInv, NEW r \in Requests, NEW t \in Tokens, ResetBegin(r, t)
  PROVE IInv'
<1>1. TypeOK'
  BY BoundAssumption
  DEF IInv, TypeOK, ResetBegin, Idle, Tx, Steps, Times, UserRow
<1>2. (inbox \subseteq minted)'
  BY DEF IInv, TypeOK, SlotInv, Forgetting, ResetBegin, Idle, At
<1>3. \A x \in Tokens : RowInv(x)'
  BY DEF IInv, TypeOK, Tx, Times, RowInv, SlotInv, Within, ResetBegin,
     Idle, At, Forgetting, Accepted, Resetting, HoldsToken
<1>4. \A x \in Requests : SlotInv(x)'
  BY DEF IInv, TypeOK, Tx, Times, RowInv, SlotInv, PairInv, Within,
     ResetBegin, Idle, At, Forgetting, Accepted, Resetting, HoldsToken
<1>5. \A x, y \in Requests : x # y => PairInv(x, y)'
  BY DEF IInv, TypeOK, Tx, Times, SlotInv, PairInv, ResetBegin,
     Idle, At, Forgetting, Accepted, Resetting, HoldsToken
<1> QED
  BY <1>1, <1>2, <1>3, <1>4, <1>5 DEF IInv

LEMMA FindTokenKeeps ==
  ASSUME IInv, NEW r \in Requests, FindToken(r)
  PROVE IInv'
<1>1. TypeOK'
  <2>1. tx[r] \in Tx /\ tx[r].token \in Tokens
    BY SlotData DEF FindToken, At, Resetting
  <2>2. tokenRow[tx[r].token].owner \in Users \cup {NoUser}
    BY <2>1 DEF IInv, TypeOK, TokenRow
  <2>3. CASE Finish(r)
    BY <2>3, FinishTyped DEF IInv, TypeOK, FindToken
  <2>4. CASE tx' = [tx EXCEPT ![r].pc = "claim",
                              ![r].user = tokenRow[tx[r].token].owner]
    <3>1. tx'[r] \in Tx
      BY <2>1, <2>2, <2>4 DEF IInv, TypeOK, Tx, Steps
    <3> QED
      BY <2>4, <3>1 DEF IInv, TypeOK, FindToken
  <2> QED
    BY <2>3, <2>4 DEF FindToken
<1>2. (inbox \subseteq minted)'
  BY DEF IInv, TypeOK, SlotInv, Forgetting, FindToken, Finish, Idle, At
<1>3. \A x \in Tokens : RowInv(x)'
  BY DEF IInv, TypeOK, Tx, Times, RowInv, SlotInv, Within, FindToken,
     Finish, Idle, At, Forgetting, Accepted, Resetting, HoldsToken
<1>4. \A x \in Requests : SlotInv(x)'
  <2>1. ASSUME NEW x \in Requests, x # r
        PROVE SlotInv(x)'
    BY <2>1
    DEF IInv, TypeOK, SlotInv, FindToken, Finish, At, Forgetting, Accepted,
        Resetting, HoldsToken
  <2>2. CASE Finish(r)
    BY <2>2
    DEF IInv, TypeOK, Times, SlotInv, FindToken, Finish, Idle, At,
        Forgetting, Accepted, Resetting, HoldsToken
  <2>3. CASE ~Finish(r)
    <3> DEFINE row == tokenRow[tx[r].token]
    <3>1. /\ tx[r].token \in Tokens /\ tx[r].at \in Times
          /\ row.created \in Times /\ SlotInv(r)
      BY SlotData DEF IInv, TypeOK, TokenRow, FindToken, At, Resetting
    <3>2. /\ Consumable(row, tx[r].at)
          /\ tx' = [tx EXCEPT ![r].pc = "claim", ![r].user = row.owner]
      BY <2>3 DEF FindToken
    <3>3. row.owner \in Users /\ row.status = "available"
      BY <3>1, <3>2 DEF IInv, RowInv, Consumable
    <3>4. Within(row, tx[r].at)
      BY <3>1, <3>2, <3>3, BoundAssumption
      DEF SlotInv, FindToken, At, Consumable, IsExpired, Within, Times
    <3>5. SlotInv(r)'
      BY <3>1, <3>2, <3>3, <3>4
      DEF IInv, TypeOK, SlotInv, FindToken, At, Forgetting, Accepted, Resetting,
          HoldsToken
    <3> QED
      BY <2>1, <3>5
  <2> QED
    BY <2>1, <2>2, <2>3
<1>5. \A x, y \in Requests : x # y => PairInv(x, y)'
  BY DEF IInv, TypeOK, Tx, Times, SlotInv, PairInv, FindToken,
     Finish, Idle, At, Forgetting, Accepted, Resetting, HoldsToken
<1> QED
  BY <1>1, <1>2, <1>3, <1>4, <1>5 DEF IInv

LEMMA ClaimKeeps ==
  ASSUME IInv, NEW r \in Requests, Claim(r)
  PROVE IInv'
<1>1. TypeOK'
  BY FinishTyped, GotoTyped DEF IInv, TypeOK, Steps, Claim
<1>2. (inbox \subseteq minted)'
  BY DEF IInv, TypeOK, SlotInv, Forgetting, Claim, Goto, Finish, Idle, At
<1>3. \A x \in Tokens : RowInv(x)'
  BY DEF IInv, TypeOK, Tx, RowInv, SlotInv, Within, Claim,
     Goto, Finish, Idle, At, Forgetting, Accepted, Resetting, HoldsToken
<1>4. \A x \in Requests : SlotInv(x)'
  BY DEF IInv, TypeOK, Tx, Times, RowInv, SlotInv, PairInv, Within, Claim,
     Goto, Finish, Idle, At, Forgetting, Accepted, Resetting, HoldsToken
<1>5. \A x, y \in Requests : x # y => PairInv(x, y)'
  BY DEF IInv, TypeOK, Tx, SlotInv, PairInv, Claim, TokenFree, Goto, Finish,
     Idle, At, Forgetting, Accepted, Resetting, HoldsToken
<1> QED
  BY <1>1, <1>2, <1>3, <1>4, <1>5 DEF IInv

LEMMA LoadUserKeeps ==
  ASSUME IInv, NEW r \in Requests, NEW p \in Passwords, LoadUser(r, p)
  PROVE IInv'
<1>1. TypeOK'
  <2>1. tx[r] \in Tx /\ tx[r].user \in Users
    BY SlotData DEF LoadUser, At
  <2>2. [users[tx[r].user] EXCEPT !.pwd = p] \in UserRow
    BY <2>1 DEF IInv, TypeOK, UserRow
  <2>3. tx'[r] \in Tx
    BY <2>1, <2>2 DEF IInv, TypeOK, LoadUser, Tx, Steps
  <2> QED
    BY <2>3 DEF IInv, TypeOK, LoadUser
<1>2. (inbox \subseteq minted)'
  BY DEF IInv, TypeOK, SlotInv, Forgetting, LoadUser, At
<1>3. \A x \in Tokens : RowInv(x)'
  BY DEF IInv, TypeOK, Tx, RowInv, SlotInv, Within, LoadUser,
     At, Forgetting, Accepted, Resetting, HoldsToken
<1>4. \A x \in Requests : SlotInv(x)'
  BY DEF IInv, TypeOK, Tx, Times, RowInv, SlotInv, PairInv, Within, LoadUser,
     At, Forgetting, Accepted, Resetting, HoldsToken
<1>5. \A x, y \in Requests : x # y => PairInv(x, y)'
  BY DEF IInv, TypeOK, Tx, SlotInv, PairInv, LoadUser,
     At, Forgetting, Accepted, Resetting, HoldsToken
<1> QED
  BY <1>1, <1>2, <1>3, <1>4, <1>5 DEF IInv

LEMMA WriteUserKeeps ==
  ASSUME IInv, NEW r \in Requests, WriteUser(r)
  PROVE IInv'
<1>1. TypeOK'
  BY GotoTyped DEF IInv, TypeOK, Steps, WriteUser
<1>2. (inbox \subseteq minted)'
  BY DEF IInv, TypeOK, SlotInv, Forgetting, WriteUser, Goto, At
<1>3. \A x \in Tokens : RowInv(x)'
  BY DEF IInv, TypeOK, Tx, RowInv, SlotInv, Within, WriteUser,
     Goto, At, Forgetting, Accepted, Resetting, HoldsToken
<1>4. \A x \in Requests : SlotInv(x)'
  BY DEF IInv, TypeOK, Tx, Times, RowInv, SlotInv, PairInv, Within, WriteUser,
     Goto, At, Forgetting, Accepted, Resetting, HoldsToken
<1>5. \A x, y \in Requests : x # y => PairInv(x, y)'
  BY DEF IInv, TypeOK, Tx, SlotInv, PairInv, WriteUser,
     Goto, At, Forgetting, Accepted, Resetting, HoldsToken
<1> QED
  BY <1>1, <1>2, <1>3, <1>4, <1>5 DEF IInv

LEMMA CommitResetKeeps ==
  ASSUME IInv, NEW r \in Requests, CommitReset(r)
  PROVE IInv'
<1>1. TypeOK'
  <2>1. /\ tx[r].token \in Tokens /\ tx[r].user \in Users
        /\ tx[r].at \in Times /\ tx[r].row \in UserRow
    BY SlotData DEF CommitReset, At, Accepted, Resetting
  <2>2. tokenRow' \in [Tokens -> TokenRow]
    BY <2>1 DEF IInv, TypeOK, CommitReset, TokenRow, Status
  <2>3. users' \in [Users -> UserRow] /\ uses' \in [Tokens -> Nat]
    BY <2>1 DEF IInv, TypeOK, CommitReset
  <2> QED
    BY <2>2, <2>3, FinishTyped DEF IInv, TypeOK, CommitReset
<1>2. (inbox \subseteq minted)'
  BY DEF IInv, TypeOK, SlotInv, Forgetting, CommitReset, Finish, Idle, At
<1>3. \A x \in Tokens : RowInv(x)'
  BY DEF IInv, TypeOK, Tx, TokenRow, Status, RowInv, SlotInv, Within,
     CommitReset, Finish, Idle, At, Forgetting, Accepted, Resetting,
     HoldsToken
<1>4. \A x \in Requests : SlotInv(x)'
  BY DEF IInv, TypeOK, Tx, Times, TokenRow, Status, RowInv, SlotInv, PairInv,
     Within, CommitReset, Finish, Idle, At, Forgetting, Accepted, Resetting,
     HoldsToken
<1>5. \A x, y \in Requests : x # y => PairInv(x, y)'
  BY DEF IInv, TypeOK, Tx, TokenRow, Status, SlotInv, PairInv, CommitReset,
     Finish, Idle, At, Forgetting, Accepted, Resetting, HoldsToken
<1> QED
  BY <1>1, <1>2, <1>3, <1>4, <1>5 DEF IInv

LEMMA PatchBeginKeeps ==
  ASSUME IInv, NEW r \in Requests, NEW u \in Users, NEW active \in BOOLEAN,
                     PatchBegin(r, u, active)
  PROVE IInv'
<1>1. TypeOK'
  <2>1. [users[u] EXCEPT !.active = active] \in UserRow
    BY DEF IInv, TypeOK, UserRow
  <2>2. tx'[r] = [pc |-> "writePatch", user |-> u, token |-> NoToken, at |-> 0,
                   row |-> [users[u] EXCEPT !.active = active]]
    BY DEF IInv, TypeOK, PatchBegin, Idle
  <2>3. tx'[r] \in Tx
    BY <2>1, <2>2, BoundAssumption DEF Tx, Steps, Times
  <2> QED
    BY <2>3 DEF IInv, TypeOK, PatchBegin
<1>2. (inbox \subseteq minted)'
  BY DEF IInv, TypeOK, SlotInv, Forgetting, PatchBegin, Idle, At
<1>3. \A x \in Tokens : RowInv(x)'
  BY DEF IInv, TypeOK, Tx, RowInv, SlotInv, Within, PatchBegin,
     Idle, At, Forgetting, Accepted, Resetting, HoldsToken
<1>4. \A x \in Requests : SlotInv(x)'
  BY DEF IInv, TypeOK, Tx, Times, RowInv, SlotInv, PairInv, Within,
     PatchBegin, Idle, At, Forgetting, Accepted, Resetting, HoldsToken
<1>5. \A x, y \in Requests : x # y => PairInv(x, y)'
  BY DEF IInv, TypeOK, Tx, SlotInv, PairInv, PatchBegin,
     Idle, At, Forgetting, Accepted, Resetting, HoldsToken
<1> QED
  BY <1>1, <1>2, <1>3, <1>4, <1>5 DEF IInv

LEMMA WritePatchKeeps ==
  ASSUME IInv, NEW r \in Requests, WritePatch(r)
  PROVE IInv'
<1>1. TypeOK'
  BY GotoTyped DEF IInv, TypeOK, Steps, WritePatch
<1>2. (inbox \subseteq minted)'
  BY DEF IInv, TypeOK, SlotInv, Forgetting, WritePatch, Goto, At
<1>3. \A x \in Tokens : RowInv(x)'
  BY DEF IInv, TypeOK, Tx, RowInv, SlotInv, Within, WritePatch,
     Goto, At, Forgetting, Accepted, Resetting, HoldsToken
<1>4. \A x \in Requests : SlotInv(x)'
  BY DEF IInv, TypeOK, Tx, Times, RowInv, SlotInv, PairInv, Within,
     WritePatch, Goto, At, Forgetting, Accepted, Resetting, HoldsToken
<1>5. \A x, y \in Requests : x # y => PairInv(x, y)'
  BY DEF IInv, TypeOK, Tx, SlotInv, PairInv, WritePatch,
     Goto, At, Forgetting, Accepted, Resetting, HoldsToken
<1> QED
  BY <1>1, <1>2, <1>3, <1>4, <1>5 DEF IInv

LEMMA CommitPatchKeeps ==
  ASSUME IInv, NEW r \in Requests, CommitPatch(r)
  PROVE IInv'
<1>1. TypeOK'
  <2>1. tx[r].user \in Users /\ tx[r].row \in UserRow
    BY SlotData DEF CommitPatch, At
  <2> QED
    BY <2>1, FinishTyped DEF IInv, TypeOK, CommitPatch
<1>2. (inbox \subseteq minted)'
  BY DEF IInv, TypeOK, SlotInv, Forgetting, CommitPatch, Finish, Idle, At
<1>3. \A x \in Tokens : RowInv(x)'
  BY DEF IInv, TypeOK, Tx, RowInv, SlotInv, Within, CommitPatch,
     Finish, Idle, At, Forgetting, Accepted, Resetting, HoldsToken
<1>4. \A x \in Requests : SlotInv(x)'
  BY DEF IInv, TypeOK, Tx, Times, RowInv, SlotInv, PairInv, Within,
     CommitPatch, Finish, Idle, At, Forgetting, Accepted, Resetting,
     HoldsToken
<1>5. \A x, y \in Requests : x # y => PairInv(x, y)'
  BY DEF IInv, TypeOK, Tx, SlotInv, PairInv, CommitPatch,
     Finish, Idle, At, Forgetting, Accepted, Resetting, HoldsToken
<1> QED
  BY <1>1, <1>2, <1>3, <1>4, <1>5 DEF IInv

LEMMA AbortKeeps ==
  ASSUME IInv, NEW r \in Requests, Abort(r)
  PROVE IInv'
<1>1. TypeOK'
  BY FinishTyped, BoundAssumption DEF IInv, TypeOK, Abort
<1>2. (inbox \subseteq minted)'
  BY DEF IInv, TypeOK, SlotInv, Forgetting, Abort, Finish, Idle, At
<1>3. \A x \in Tokens : RowInv(x)'
  BY DEF IInv, TypeOK, Tx, RowInv, SlotInv, Within, Abort,
     Finish, Idle, At, Forgetting, Accepted, Resetting, HoldsToken
<1>4. \A x \in Requests : SlotInv(x)'
  BY DEF IInv, TypeOK, Tx, Times, RowInv, SlotInv, PairInv, Within, Abort,
     Finish, Idle, At, Forgetting, Accepted, Resetting, HoldsToken
<1>5. \A x, y \in Requests : x # y => PairInv(x, y)'
  BY DEF IInv, TypeOK, Tx, SlotInv, PairInv, Abort,
     Finish, Idle, At, Forgetting, Accepted, Resetting, HoldsToken
<1> QED
  BY <1>1, <1>2, <1>3, <1>4, <1>5 DEF IInv

LEMMA TickKeeps ==
  ASSUME IInv, Tick
  PROVE IInv'
<1>1. TypeOK'
  BY BoundAssumption DEF IInv, TypeOK, Tick, Times
<1>2. \A x \in Tokens : RowInv(x)'
  BY BoundAssumption DEF IInv, TypeOK, TokenRow, Times, RowInv, Within, Tick
<1>3. \A x \in Requests : SlotInv(x)'
  BY BoundAssumption
  DEF IInv, TypeOK, Tx, Times, SlotInv, Within, Tick, At, Forgetting,
      Accepted, Resetting, HoldsToken
<1>4. \A x, y \in Requests : x # y => PairInv(x, y)'
  BY DEF IInv, PairInv, Tick, At, Forgetting, HoldsToken
<1> QED
  BY <1>1, <1>2, <1>3, <1>4 DEF IInv, Tick

LEMMA StutterKeeps ==
  ASSUME IInv, UNCHANGED vars
  PROVE IInv'
BY DEF vars, IInv, TypeOK, RowInv, SlotInv, PairInv, Within, At, Forgetting,
       Accepted, Resetting, HoldsToken

LEMMA InitEstablishes == Init => IInv
<1> SUFFICES ASSUME Init
             PROVE IInv
  OBVIOUS
<1>1. Idle \in Tx /\ NoRow \in TokenRow /\ clock \in Times
  BY BoundAssumption
  DEF Init, Idle, NoRow, Tx, Steps, Times, UserRow, TokenRow, Status
<1>2. users \in [Users -> UserRow]
  BY DEF Init, UserRow
<1>3. TypeOK
  BY <1>1, <1>2, BoundAssumption DEF Init, TypeOK
<1>4. \A r \in Requests : tx[r] = Idle
  BY DEF Init
<1>5. \A t \in Tokens : RowInv(t)
  BY DEF Init, NoRow, RowInv
<1>6. \A r \in Requests : SlotInv(r)
  BY <1>4
  DEF Init, Idle, SlotInv, At, Forgetting, Accepted, Resetting, HoldsToken
<1>7. \A r, q \in Requests : PairInv(r, q)
  BY <1>4 DEF Idle, PairInv, At, Forgetting, HoldsToken
<1> QED
  BY <1>3, <1>5, <1>6, <1>7 DEF Init, IInv

-----------------------------------------------------------------------------
(* Theorems *)

\* The invariant holds in every reachable state: the program's transactions
\* never let two requests own the same token.
THEOREM Invariance == Spec => []IInv
<1>1. IInv /\ [Next]_vars => IInv'
  <2> SUFFICES ASSUME IInv, [Next]_vars
               PROVE IInv'
    OBVIOUS
  <2>1. CASE Tick
    BY <2>1, TickKeeps
  <2>2. ASSUME NEW r \in Requests, Begin(r)
        PROVE IInv'
    BY <2>2, ForgotBeginKeeps, ResetBeginKeeps, PatchBeginKeeps DEF Begin
  <2>3. ASSUME NEW r \in Requests, Step(r)
        PROVE IInv'
    BY <2>3, ForgotMailedKeeps, ForgotMailFailsKeeps, ForgotCommitKeeps,
       FindTokenKeeps, ClaimKeeps, LoadUserKeeps, WriteUserKeeps,
       CommitResetKeeps, WritePatchKeeps, CommitPatchKeeps
    DEF Step
  <2>4. ASSUME NEW r \in Requests, Abort(r)
        PROVE IInv'
    BY <2>4, AbortKeeps
  <2>5. CASE UNCHANGED vars
    BY <2>5, StutterKeeps
  <2> QED
    BY <2>1, <2>2, <2>3, <2>4, <2>5 DEF Next
<1> QED
  BY InitEstablishes, <1>1, PTL DEF Spec

\* Every variable keeps its type.
THEOREM TypeCorrect == Spec => []TypeOK
<1>1. IInv => TypeOK
  BY DEF IInv
<1> QED
  BY <1>1, Invariance, PTL

\* A reset token pays for at most one password change, however many requests
\* race for it and wherever they crash (ResetPasswordUseCase).
THEOREM TokensAreSingleUse == Spec => []SingleUse
<1>1. IInv => SingleUse
  BY DEF IInv, TypeOK, TokenRow, Status, RowInv, SingleUse
<1> QED
  BY <1>1, Invariance, PTL

\* The lifetime check made before the claim still holds of the committed row.
THEOREM ConsumedTokensWereFresh == Spec => []FreshWhenConsumed
<1>1. IInv => FreshWhenConsumed
  BY DEF IInv, RowInv, Within, FreshWhenConsumed
<1> QED
  BY <1>1, Invariance, PTL

\* No token is stored that was not mailed (ForgotPasswordUseCase).
THEOREM StoredTokensWereMailed == Spec => []StoredWasMailed
<1>1. IInv => StoredWasMailed
  BY DEF IInv, RowInv, StoredWasMailed
<1> QED
  BY <1>1, Invariance, PTL

\* The transactions implement the one-time token: an accepted mail delivers it,
\* a committed forgot request issues it, a committed reset redeems it, and
\* every other step stutters.
THEOREM Refinement == Spec => ImplementsOneTimeToken
<1>1. Init => Abs!Init
  BY DEF Init, NoRow, Abs!Init
<1>2. ASSUME IInv, [Next]_vars
      PROVE [Abs!Next]_(Abs!tokenVars)
  <2>1. ASSUME NEW r \in Requests, ForgotCommit(r)
        PROVE Abs!Next
    <3>1. /\ tx[r].token \in Tokens
          /\ tx[r].user \in Users
          /\ tx[r].at \in Times
      BY <1>2, <2>1, SlotData DEF ForgotCommit, At, Forgetting
    <3>2. tokenRow[tx[r].token].status = "absent" /\ tx[r].token \in inbox
      BY <1>2, <2>1 DEF IInv, SlotInv, ForgotCommit, At, Forgetting
    <3>3. Abs!Issue(tx[r].token, tx[r].user, tx[r].at)
      BY <2>1, <3>2 DEF ForgotCommit, Abs!Issue
    <3> QED
      BY <3>1, <3>3 DEF Abs!Next
  <2>2. ASSUME NEW r \in Requests, CommitReset(r)
        PROVE Abs!Next
    <3>1. tx[r].token \in Tokens /\ tx[r].at \in Times
      BY <1>2, <2>2, SlotData DEF CommitReset, At, Accepted, Resetting
    <3>2. /\ tokenRow[tx[r].token].status = "available"
          /\ Within(tokenRow[tx[r].token], tx[r].at)
      BY <1>2, <2>2 DEF IInv, SlotInv, CommitReset, At, Accepted, HoldsToken
    <3>3. uses[tx[r].token] = 0
      BY <1>2, <3>1, <3>2 DEF IInv, RowInv
    <3>4. uses' = [uses EXCEPT ![tx[r].token] = 1]
      BY <1>2, <2>2, <3>1, <3>3 DEF IInv, TypeOK, CommitReset
    <3>5. Abs!Redeem(tx[r].token, tx[r].at)
      BY <2>2, <3>2, <3>4 DEF CommitReset, Within, Abs!Redeem
    <3> QED
      BY <3>1, <3>5 DEF Abs!Next
  <2>3. ASSUME NEW r \in Requests, Step(r), ~ForgotCommit(r), ~CommitReset(r)
        PROVE [Abs!Next]_(Abs!tokenVars)
    <3>1. CASE ForgotMailed(r) \/ ForgotMailFails(r)
      <4>1. tx[r].token \in Tokens /\ 0 \in Times
        BY <1>2, <3>1, SlotData, BoundAssumption
        DEF ForgotMailed, ForgotMailFails, At, Forgetting, Times
      <4>2. UNCHANGED Abs!tokenVars \/ Abs!Deliver(tx[r].token)
        BY <3>1 DEF ForgotMailed, ForgotMailFails, Abs!tokenVars, Abs!Deliver
      <4> QED
        BY <4>1, <4>2 DEF Abs!Next
    <3>2. CASE ~ForgotMailed(r) /\ ~ForgotMailFails(r)
      BY <2>3, <3>2
      DEF Step, Abs!tokenVars, FindToken, Claim, LoadUser, WriteUser, WritePatch,
          CommitPatch
    <3> QED
      BY <3>1, <3>2
  <2>4. ASSUME NEW r \in Requests, Begin(r) \/ Abort(r)
        PROVE UNCHANGED Abs!tokenVars
    BY <2>4
    DEF Begin, Abs!tokenVars, ForgotBegin, ResetBegin, PatchBegin, Abort
  <2>5. CASE Tick \/ UNCHANGED vars
    BY <2>5 DEF Tick, vars, Abs!tokenVars
  <2> QED
    BY <1>2, <2>1, <2>2, <2>3, <2>4, <2>5 DEF Next
<1> QED
  BY <1>1, <1>2, Invariance, PTL DEF Spec, ImplementsOneTimeToken, Abs!Spec

-----------------------------------------------------------------------------
(* Why every request ends: what can be shown of it without fairness          *)

\* The statements a request has still to execute, at most.
Left(pc) ==
  CASE pc = "find" -> 5
    [] pc = "claim" -> 4
    [] pc = "loadUser" -> 3
    [] pc \in {"mail", "writeUser", "writePatch"} -> 2
    [] pc \in {"storeToken", "commitReset", "commitPatch"} -> 1
    [] OTHER -> 0

\* r waits for q to end: for the row of its token, or for that of its user.
WaitsFor(r, q) ==
  \/ At(r, "claim") /\ HoldsToken(q) /\ tx[q].token = tx[r].token
  \/ /\ tx[r].pc \in {"writeUser", "writePatch"}
     /\ HoldsUser(q) /\ tx[q].user = tx[r].user
Waits(r) == \E q \in Requests : WaitsFor(r, q)

\* That is what the guards of Claim, WriteUser and WritePatch say, and no other
\* step of a request waits for another request.
LEMMA WaitsIsTheGuard ==
  ASSUME NEW r \in Requests
  PROVE  /\ At(r, "claim") => (Waits(r) <=> ~TokenFree(tx[r].token))
         /\ tx[r].pc \in {"writeUser", "writePatch"} =>
              (Waits(r) <=> ~UserFree(tx[r].user))
         /\ tx[r].pc \notin {"claim", "writeUser", "writePatch"} => ~Waits(r)
BY DEF Waits, WaitsFor, At, TokenFree, UserFree

\* A row is locked by one request at a time.
LocksAreExclusive ==
  \A r, q \in Requests :
    \/ HoldsToken(r) /\ HoldsToken(q) /\ tx[r].token = tx[q].token
    \/ HoldsUser(r) /\ HoldsUser(q) /\ tx[r].user = tx[q].user
    => r = q

\* A request takes the lock of a user when nobody has it.
Moves(r) ==
  /\ \A q \in Requests \ {r} : tx'[q] = tx[q]
  /\ tx'[r] # tx[r] =>
       At(r, "idle") \/ tx'[r] = Idle \/ Left(tx'[r].pc) < Left(tx[r].pc)
  /\ HoldsUser(r)' =>
       tx'[r].user = tx[r].user /\ (HoldsUser(r) \/ UserFree(tx[r].user))

LEMMA OneMoves ==
  ASSUME IInv, Next
  PROVE  (UNCHANGED tx) \/ \E r \in Requests : Moves(r)
<1> USE DEF IInv, TypeOK, Moves, HoldsUser, Left, At, Idle, Goto, Finish
<1>1. CASE Tick
  BY <1>1 DEF Tick
<1>2. ASSUME NEW r \in Requests, Begin(r) PROVE Moves(r)
  BY <1>2 DEF Begin, ForgotBegin, ResetBegin, PatchBegin
<1>3. ASSUME NEW r \in Requests, Step(r) PROVE Moves(r)
  <2>1. tx[r] \in Tx
    OBVIOUS
  <2>2. CASE ForgotMailed(r) \/ ForgotMailFails(r) \/ ForgotCommit(r)
    BY <2>1, <2>2 DEF ForgotMailed, ForgotMailFails, ForgotCommit, Tx
  <2>3. CASE FindToken(r) \/ Claim(r) \/ (\E p \in Passwords : LoadUser(r, p))
    BY <2>1, <2>3 DEF FindToken, Claim, LoadUser, Tx
  <2>4. CASE WriteUser(r) \/ WritePatch(r)
    BY <2>1, <2>4 DEF WriteUser, WritePatch, Tx
  <2>5. CASE CommitReset(r) \/ CommitPatch(r)
    BY <2>5 DEF CommitReset, CommitPatch
  <2> QED
    BY <1>3, <2>2, <2>3, <2>4, <2>5 DEF Step
<1>4. ASSUME NEW r \in Requests, Abort(r) PROVE Moves(r)
  BY <1>4 DEF Abort
<1> QED
  BY <1>1, <1>2, <1>3, <1>4 DEF Next

\* No statement is executed twice: a lost claim is refused and not tried again,
\* so that a request ends after five statements, if none of them waits for ever.
THEOREM RequestsAdvance ==
  Spec => [][\A r \in Requests : tx'[r] # tx[r] =>
               At(r, "idle") \/ tx'[r] = Idle \/ Left(tx'[r].pc) < Left(tx[r].pc)]_vars
<1>1. IInv /\ [Next]_vars =>
        [\A r \in Requests : tx'[r] # tx[r] =>
           At(r, "idle") \/ tx'[r] = Idle \/ Left(tx'[r].pc) < Left(tx[r].pc)]_vars
  BY OneMoves DEF Moves, vars
<1> QED
  BY <1>1, Invariance, PTL DEF Spec

\* Nor can it: the lock a request waits for has one holder, and the holder
\* executes its next statement, or waits for one that does.  The lock of a user
\* is the last a reset takes, so that a reset that holds its token, another
\* one and a PATCH never close a circle.
THEOREM WaitsAreShort ==
  Spec => [](/\ LocksAreExclusive
             /\ \A r \in Requests : Waits(r) =>
                  \E q \in Requests :
                    /\ ~At(q, "idle") /\ ~Waits(q)
                    /\ \/ WaitsFor(r, q)
                       \/ \E x \in Requests : WaitsFor(r, x) /\ WaitsFor(x, q))
<1>1. Init => LocksAreExclusive
  BY DEF Init, Idle, LocksAreExclusive, HoldsToken, HoldsUser
<1>2. IInv /\ IInv' /\ LocksAreExclusive /\ [Next]_vars => LocksAreExclusive'
  <2> SUFFICES ASSUME IInv, IInv', LocksAreExclusive, [Next]_vars,
                      NEW r \in Requests, NEW q \in Requests, r # q
               PROVE  /\ ~(HoldsToken(r) /\ HoldsToken(q) /\ tx[r].token = tx[q].token)'
                      /\ ~(HoldsUser(r) /\ HoldsUser(q) /\ tx[r].user = tx[q].user)'
    BY DEF LocksAreExclusive
  <2>1. ~(HoldsToken(r) /\ HoldsToken(q) /\ tx[r].token = tx[q].token)'
    BY DEF IInv, PairInv
  <2>2. CASE UNCHANGED tx
    BY <2>1, <2>2 DEF LocksAreExclusive, HoldsUser
  <2>3. ASSUME NEW x \in Requests, Moves(x)
        PROVE  ~(HoldsUser(r) /\ HoldsUser(q) /\ tx[r].user = tx[q].user)'
    <3>1. CASE x = r
      BY <2>3, <3>1 DEF Moves, LocksAreExclusive, HoldsUser, UserFree
    <3>2. CASE x = q
      BY <2>3, <3>2 DEF Moves, LocksAreExclusive, HoldsUser, UserFree
    <3>3. CASE x # r /\ x # q
      BY <2>3, <3>3 DEF Moves, LocksAreExclusive, HoldsUser
    <3> QED
      BY <3>1, <3>2, <3>3
  <2> QED
    BY <2>1, <2>2, <2>3, OneMoves DEF vars
\* Who has the lock of a user commits next.
<1>3. ASSUME NEW r \in Requests, NEW q \in Requests, WaitsFor(r, q)
      PROVE  ~At(q, "idle") /\ (HoldsUser(q) \/ ~Waits(q) \/ At(q, "writeUser"))
  BY <1>3 DEF WaitsFor, Waits, HoldsToken, HoldsUser, At
<1>4. ASSUME NEW q \in Requests, HoldsUser(q) PROVE ~Waits(q)
  BY <1>4 DEF WaitsFor, Waits, HoldsUser, At
<1>5. ASSUME NEW r \in Requests, Waits(r)
      PROVE  \E q \in Requests :
               /\ ~At(q, "idle") /\ ~Waits(q)
               /\ \/ WaitsFor(r, q)
                  \/ \E x \in Requests : WaitsFor(r, x) /\ WaitsFor(x, q)
  <2>1. PICK x \in Requests : WaitsFor(r, x)
    BY <1>5 DEF Waits
  <2>2. CASE ~Waits(x)
    BY <1>3, <2>1, <2>2
  <2>3. CASE Waits(x)
    <3>1. At(x, "writeUser")
      BY <1>3, <1>4, <2>1, <2>3
    <3>2. PICK q \in Requests : WaitsFor(x, q)
      BY <2>3 DEF Waits
    <3>3. HoldsUser(q)
      BY <3>1, <3>2 DEF WaitsFor, At
    <3> QED
      BY <1>3, <1>4, <2>1, <3>2, <3>3
  <2> QED
    BY <2>2, <2>3
<1>6. \A r \in Requests : Waits(r) =>
        \E q \in Requests :
          /\ ~At(q, "idle") /\ ~Waits(q)
          /\ \/ WaitsFor(r, q)
             \/ \E x \in Requests : WaitsFor(r, x) /\ WaitsFor(x, q)
  BY <1>5
<1> QED
  BY <1>1, <1>2, <1>6, Invariance, PTL DEF Spec
=============================================================================
