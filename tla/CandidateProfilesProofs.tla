----------------------- MODULE CandidateProfilesProofs -----------------------
(***************************************************************************)
(* Proofs about CandidateProfiles for every number of candidates,          *)
(* requests, objects and aborts: a profile does not outlive its account,   *)
(* and the object it names is there, but for five named causes.  And about *)
(* PreviewEnvironments, whose things too are at services outside of any    *)
(* transaction, for every number of refs, jobs, pushes and failures: what  *)
(* a job deletes.  The two share no variable.                              *)
(***************************************************************************)
EXTENDS CandidateProfiles, FiniteSetTheorems, TLAPS

CONSTANTS Refs, Protected, NoRef, TTL, PageSize, Cleaners, Janitors,
          MaxPushes, MaxFailures
VARIABLES branches, deployments, settings, deploy, job, made, pushes, failures

Pre == INSTANCE PreviewEnvironments

Slot == [user : Candidates \cup {NoOne}, pc : Steps, kind : Kinds,
         file : Urls \cup {Keep}, cv_url : Urls, locked : BOOLEAN, doubt : Doubts]

\* An upload gives a row an object of its candidate's own, so the URL of any
\* other was sent.
Known(c, url) == url \in StorageUrls => url \in Sent \/ Owner[url.key] = c

\* What holds of one request: an object is stored, a URL is erased, and a
\* request that has written the row holds a lock the purge waits for.
SlotInv(s, accounts) ==
  /\ s \in Slot
  /\ s.pc # "idle" => s.user \in Candidates
  /\ s.kind = "upload" => s.file \in StorageUrls /\ Owner[s.file.key] = s.user
  /\ s.kind = "put" => s.file \in Sent \cup {Keep}
  /\ s.pc = "store" => s.kind = "upload"
  /\ s.pc = "erase" => s.kind = "delete" /\ s.file \in Files
  /\ Known(s.user, s.cv_url)
  /\ s.kind = "delete" => Known(s.user, s.file)
  /\ s.locked => s.user \in Candidates /\ accounts[s.user] = "live"

IInv ==
  /\ TypeOK
  /\ DOMAIN tx = Requests /\ tx = [r \in Requests |-> tx[r]]
  /\ \A r \in Requests : SlotInv(tx[r], account)
  /\ \A c \in Candidates : Known(c, profile[c])
  /\ HasAccount

-----------------------------------------------------------------------------
(* Every action preserves the invariant *)

\* The values that are no URLs.
LEMMA NoUrls ==
  /\ NoFile \notin StorageUrls /\ Keep \notin StorageUrls /\ Absent \notin StorageUrls
  /\ NoFile \notin Files /\ Keep \notin Urls /\ Absent \notin Urls
  /\ StorageUrls \subseteq Files /\ Files \subseteq Urls
  BY ProfilesAssumption DEF Files, Urls

LEMMA IdleHolds == \A accounts : SlotInv(Idle, accounts)
  BY NoUrls DEF SlotInv, Idle, Slot, Steps, Kinds, Urls, Doubts, Known

\* The requests' part of TypeOK follows from SlotInv.
LEMMA SlotTyped ==
  ASSUME NEW s, NEW accounts, SlotInv(s, accounts)
  PROVE  /\ s.pc # "idle" => s.user \in Candidates
         /\ s.kind \in Kinds /\ s.pc \in Steps
         /\ s.file \in Urls \cup {Keep} /\ s.cv_url \in Urls
         /\ s.locked \in BOOLEAN /\ s.doubt \in Doubts
         /\ s.pc = "erase" => s.file \in Files
  BY DEF SlotInv, Slot

LEMMA InitHolds == Init => IInv
<1> SUFFICES ASSUME Init PROVE IInv
  OBVIOUS
<1>1. \A r \in Requests : SlotInv(tx[r], account)
  BY IdleHolds DEF Init
<1>2. TypeOK
  BY <1>1, SlotTyped, ProfilesAssumption DEF Init, TypeOK, At, User, Doubts, Urls
<1> QED
  BY <1>1, <1>2, NoUrls DEF Init, IInv, HasAccount, Known

\* What a request has in memory after an edit.
LEMMA EditedKnown ==
  ASSUME NEW r \in Requests, SlotInv(tx[r], account), NEW url \in Urls,
         Known(User(r), url)
  PROVE  Edited(r, url) \in Urls /\ Known(User(r), Edited(r, url))
<1>1. CASE Is(r, "delete")
  <2>1. Edited(r, url) = NoFile
    BY <1>1, Zenon DEF Edited, Is
  <2> QED
    BY <2>1, NoUrls DEF Known, Urls
<1>2. CASE tx[r].kind \in {"put", "upload"} /\ tx[r].file # Keep
  <2>1. Edited(r, url) = tx[r].file /\ tx[r].file \in Urls
    BY <1>2 DEF Edited, Is, SlotInv, Slot
  <2> QED
    BY <1>2, <2>1, NoUrls DEF Known, SlotInv, User
<1>3. CASE ~Is(r, "delete") /\ ~(tx[r].kind \in {"put", "upload"} /\ tx[r].file # Keep)
  BY <1>3 DEF Edited
<1> QED
  BY <1>1, <1>2, <1>3

\* What a request knows after the first read.
LEMMA ReadHolds ==
  ASSUME NEW r \in Requests, SlotInv(tx[r], account), tx[r].pc = "load",
         NEW url \in Urls, Known(User(r), url), NEW step \in Steps,
         step = "store" => Is(r, "upload"),
         step = "erase" => Is(r, "delete") /\ url \in Files
  PROVE  SlotInv([Read(r, url) EXCEPT !.pc = step], account)
<1> DEFINE s == [Read(r, url) EXCEPT !.pc = step]
<1> SUFFICES SlotInv(s, account)
  OBVIOUS
<1>1. Edited(r, url) \in Urls /\ Known(User(r), Edited(r, url))
  BY EditedKnown
<1>2. CASE Is(r, "put")
  <2>1. s = [[tx[r] EXCEPT !.cv_url = Edited(r, url), !.file = Keep,
               !.doubt = IF tx[r].file = Keep THEN "stale" ELSE "client"]
             EXCEPT !.pc = step]
    BY <1>2, Zenon DEF Read, Is
  <2>2. /\ s \in Slot /\ s.user = tx[r].user /\ s.kind = "put" /\ s.pc = step
        /\ s.file = Keep /\ s.cv_url = Edited(r, url) /\ s.locked = tx[r].locked
    BY <1>1, <1>2, <2>1 DEF SlotInv, Slot, Is, Doubts, Causes
  <2> HIDE DEF s
  <2> QED
    BY <1>1, <1>2, <2>2 DEF SlotInv, User, Is
<1>3. CASE Is(r, "delete")
  <2>1. s = [[tx[r] EXCEPT !.cv_url = url, !.file = url] EXCEPT !.pc = step]
    BY <1>3 DEF Read, Is
  <2>2. /\ s \in Slot /\ s.user = tx[r].user /\ s.kind = "delete" /\ s.pc = step
        /\ s.file = url /\ s.cv_url = url /\ s.locked = tx[r].locked
    BY <1>3, <2>1 DEF SlotInv, Slot, Is
  <2> HIDE DEF s
  <2> QED
    BY <1>3, <2>2 DEF SlotInv, User, Is
<1>4. CASE ~Is(r, "put") /\ ~Is(r, "delete")
  <2>1. s = [[tx[r] EXCEPT !.cv_url = url] EXCEPT !.pc = step]
    BY <1>4 DEF Read, Is
  <2>2. /\ s \in Slot /\ s.user = tx[r].user /\ s.kind = tx[r].kind /\ s.pc = step
        /\ s.file = tx[r].file /\ s.cv_url = url /\ s.locked = tx[r].locked
    BY <2>1 DEF SlotInv, Slot
  <2> HIDE DEF s
  <2> QED
    BY <1>4, <2>2 DEF SlotInv, User, Is
<1> QED
  BY <1>2, <1>3, <1>4

LEMMA NextKeeps == IInv /\ [Next]_vars => IInv'
<1> SUFFICES ASSUME IInv, [Next]_vars PROVE IInv'
  OBVIOUS
<1> USE ProfilesAssumption
\* IInv' out of its parts.
<1>1. ASSUME profile' \in [Candidates -> Urls \cup {Absent}], bucket' \subseteq Keys,
             account' \in [Candidates -> {"live", "purging", "purged"}],
             doubt' \in [Candidates -> Doubts], aborts' \in 0..MaxAborts,
             DOMAIN tx' = Requests, tx' = [q \in Requests |-> tx'[q]],
             \A q \in Requests : SlotInv(tx'[q], account'),
             \A c \in Candidates : Known(c, profile'[c]),
             \A c \in Candidates : account'[c] = "purged" => profile'[c] = Absent
      PROVE  IInv'
  BY <1>1, SlotTyped DEF IInv, TypeOK, At, User, HasAccount
\* An action that changes the slot of one request.
<1>2. ASSUME NEW r \in Requests, NEW s, tx' = [tx EXCEPT ![r] = s],
             SlotInv(s, account), account' = account
      PROVE  /\ DOMAIN tx' = Requests /\ tx' = [q \in Requests |-> tx'[q]]
             /\ \A q \in Requests : SlotInv(tx'[q], account')
  BY <1>2 DEF IInv
<1>3. ASSUME NEW new \in [Candidates -> Doubts], Doubt(new)
      PROVE  doubt' \in [Candidates -> Doubts]
  BY <1>3 DEF Doubt, First, IInv, TypeOK, Doubts
<1>4. ASSUME NEW r \in Requests PROVE SlotInv(tx[r], account) /\ tx[r] \in Slot
  BY <1>4 DEF IInv, SlotInv
<1>5. ASSUME NEW r \in Requests, Finish(r), account' = account
      PROVE  /\ DOMAIN tx' = Requests /\ tx' = [q \in Requests |-> tx'[q]]
             /\ \A q \in Requests : SlotInv(tx'[q], account')
  BY <1>2, <1>5, IdleHolds DEF Finish
<1>6. ASSUME NEW c, NEW cause \in Doubts PROVE Only(c, cause) \in [Candidates -> Doubts]
  BY <1>6 DEF Only, Doubts
<1>7. "none" \in Doubts /\ "torn" \in Doubts /\ "foreign" \in Doubts /\ "crossed" \in Doubts
  BY DEF Doubts, Causes
\* A step that leaves alone all but the slot of one request.
<1> DEFINE quiet == UNCHANGED <<profile, bucket, account, doubt, aborts>>
<1>8. ASSUME NEW r \in Requests, NEW s, tx' = [tx EXCEPT ![r] = s],
             SlotInv(s, account), quiet
      PROVE  IInv'
  BY <1>1, <1>2, <1>8 DEF IInv, TypeOK, HasAccount
<1>9. ASSUME NEW r \in Requests, Finish(r), quiet PROVE IInv'
  BY <1>8, <1>9, IdleHolds DEF Finish
<1>10. CASE UNCHANGED vars
  BY <1>10 DEF vars, IInv, TypeOK, HasAccount, At, User
<1>11. ASSUME NEW r \in Requests, NEW c \in Candidates, NEW kind \in Kinds,
              NEW f \in Urls \cup {Keep}, Begin(r, c, kind, f)
       PROVE  IInv'
  <2> DEFINE s == [Idle EXCEPT !.user = c, !.kind = kind, !.pc = "load", !.file = f]
  <2>1. /\ s \in Slot /\ s.user = c /\ s.kind = kind /\ s.pc = "load"
        /\ s.file = f /\ s.cv_url = NoFile /\ ~s.locked
    BY <1>7 DEF Idle, Slot, Steps, Urls
  <2> HIDE DEF s
  <2>2. SlotInv(s, account)
    BY <1>11, <2>1, NoUrls DEF Begin, SlotInv, Known
  <2>3. tx' = [tx EXCEPT ![r] = s] /\ quiet
    BY <1>11 DEF Begin, s
  <2> HIDE DEF quiet
  <2> QED
    BY <1>8, <2>2, <2>3
<1>12. ASSUME NEW r \in Requests, Load(r) PROVE IInv'
  <2> DEFINE seen == IF Row(r) = Absent THEN NoFile ELSE Row(r)
             s == [Read(r, seen) EXCEPT !.pc = NextStep(r)]
  <2>1. CASE NextStep(r) = "idle"
    BY <1>9, <1>12, <2>1 DEF Load
  <2>2. CASE NextStep(r) # "idle"
    <3>1. tx[r].pc = "load" /\ User(r) \in Candidates
      BY <1>4, <1>12 DEF Load, At, User, SlotInv
    <3>2. NextStep(r) \in Steps
      BY DEF NextStep, Steps, Is
    <3>3. /\ seen \in Urls /\ Known(User(r), seen)
          /\ Row(r) # Absent /\ Row(r) # NoFile => seen \in Files
      BY <3>1, NoUrls DEF Row, IInv, TypeOK, Urls, Known
    <3>4. /\ NextStep(r) = "store" => Is(r, "upload")
          /\ NextStep(r) = "erase" => Is(r, "delete") /\ Row(r) # Absent /\ Row(r) # NoFile
      BY <1>4 DEF NextStep, Is, Slot, Kinds
    <3> HIDE DEF seen
    <3>5. SlotInv(s, account)
      BY <1>4, <3>1, <3>2, <3>3, <3>4, ReadHolds
    <3>6. tx' = [tx EXCEPT ![r] = s] /\ quiet
      BY <1>12, <2>2 DEF Load, seen
    <3> HIDE DEF s, quiet
    <3> QED
      BY <1>8, <3>5, <3>6
  <2> QED
    BY <2>1, <2>2
<1>13. ASSUME NEW r \in Requests, Refuse(r) PROVE IInv'
  BY <1>9, <1>13 DEF Refuse
<1>14. ASSUME NEW r \in Requests, Store(r) PROVE IInv'
  <2> DEFINE s == [tx[r] EXCEPT !.pc = "select", !.cv_url = Edited(r, @)]
  <2>1. tx[r].file.key \in Keys
    BY <1>4, <1>14 DEF SlotInv, Store, At, StorageUrls
  <2>2. Edited(r, tx[r].cv_url) \in Urls /\ Known(User(r), Edited(r, tx[r].cv_url))
    BY <1>4, EditedKnown DEF SlotInv, Slot, User
  <2>3. SlotInv(s, account)
    BY <1>4, <1>14, <2>2 DEF SlotInv, Slot, Steps, User, Store, At
  <2>4. tx' = [tx EXCEPT ![r] = s] /\ account' = account
    BY <1>14 DEF Store
  <2>5. doubt' \in [Candidates -> Doubts]
    BY <1>3, <1>6, <1>7, <1>14 DEF Store
  <2> HIDE DEF s
  <2> QED
    BY <1>1, <1>2, <1>14, <2>1, <2>3, <2>4, <2>5 DEF Store, IInv, TypeOK, HasAccount
<1>15. ASSUME NEW r \in Requests, Erase(r) PROVE IInv'
  <2>1. ASSUME NEW q \in Requests PROVE SlotInv(tx'[q], account')
    <3>1. SlotInv([tx[r] EXCEPT !.pc = "select", !.cv_url = Edited(r, @)], account)
      <4>1. Edited(r, tx[r].cv_url) \in Urls /\ Known(User(r), Edited(r, tx[r].cv_url))
        BY <1>4, EditedKnown DEF SlotInv, Slot, User
      <4> QED
        BY <1>4, <1>15, <4>1 DEF SlotInv, Slot, Steps, User, Erase, At
    <3>2. SlotInv([tx[q] EXCEPT !.doubt = First(@, Blame(r, User(q)))], account)
      <4>1. First(tx[q].doubt, Blame(r, User(q))) \in Doubts
        BY <1>4, <1>7 DEF First, Blame, Slot
      <4> QED
        BY <1>4, <4>1 DEF SlotInv, Slot
    <3> QED
      BY <1>4, <1>15, <3>1, <3>2 DEF Erase
  <2>2. doubt' \in [Candidates -> Doubts]
    <3> DEFINE new == [c \in Candidates |->
                 IF c # User(r) /\ Names(c, ExtractKey(tx[r].file)) THEN "foreign" ELSE "none"]
    <3>1. new \in [Candidates -> Doubts] /\ Doubt(new)
      BY <1>7, <1>15 DEF Erase
    <3> HIDE DEF new
    <3> QED
      BY <1>3, <3>1
  <2> QED
    BY <1>1, <1>15, <2>1, <2>2 DEF Erase, IInv, TypeOK, HasAccount
<1>16. ASSUME NEW r \in Requests, Select(r) PROVE IInv'
  <2>1. tx[r].pc = "select" /\ tx[r].pc # "idle"
    BY <1>16 DEF Select, At
  <2> DEFINE step == IF Row(r) = Absent THEN "insert"
                     ELSE IF tx[r].cv_url # Row(r) THEN "update" ELSE "commit"
  <2>2. SlotInv([tx[r] EXCEPT !.pc = step], account)
    BY <1>4, <2>1 DEF SlotInv, Slot, Steps
  <2>3. tx' = [tx EXCEPT ![r] = [tx[r] EXCEPT !.pc = step]] /\ quiet
    BY <1>16 DEF Select, Goto
  <2> HIDE DEF step, quiet
  <2> QED
    BY <1>8, <2>2, <2>3
<1>17. ASSUME NEW r \in Requests, Insert(r) \/ Update(r) PROVE IInv'
  <2> DEFINE s == [[tx[r] EXCEPT !.pc = "commit"] EXCEPT !.locked = TRUE]
  <2>1. /\ tx[r].pc \in {"insert", "update"} /\ User(r) \in Candidates
        /\ account[User(r)] \in {"live", "purged"} /\ quiet
    BY <1>4, <1>17 DEF Insert, Update, At, IInv, TypeOK, SlotInv, User
  <2>2. CASE Finish(r)
    BY <1>9, <2>1, <2>2
  <2>3. CASE ~Finish(r)
    <3>1. account[User(r)] = "live" /\ tx' = [tx EXCEPT ![r] = s]
      BY <1>17, <2>1, <2>3 DEF Insert, Update, Write, Row, IInv, HasAccount
    <3>2. SlotInv(s, account)
      BY <1>4, <2>1, <3>1 DEF SlotInv, Slot, Steps, User
    <3> HIDE DEF s, quiet
    <3> QED
      BY <1>8, <2>1, <3>1, <3>2
  <2> QED
    BY <2>2, <2>3
\* A request that writes the row still holds its lock, so the account is live.
<1>18. ASSUME NEW r \in Requests, Commit(r) PROVE IInv'
  <2>1. CASE tx[r].locked
    <3>1. User(r) \in Candidates /\ account[User(r)] = "live"
      BY <1>4, <2>1 DEF SlotInv, User
    <3>2. tx[r].cv_url \in Urls /\ Known(User(r), tx[r].cv_url) /\ tx[r].doubt \in Doubts
      BY <1>4 DEF SlotInv, Slot, User
    <3>3. doubt' \in [Candidates -> Doubts]
      BY <1>3, <1>6, <1>18, <2>1, <3>2 DEF Commit
    <3>4. profile' = [profile EXCEPT ![User(r)] = tx[r].cv_url]
      BY <1>18, <2>1 DEF Commit
    <3> QED
      BY <1>1, <1>5, <1>18, <3>1, <3>2, <3>3, <3>4 DEF Commit, IInv, TypeOK, HasAccount
  <2>2. CASE ~tx[r].locked
    BY <1>9, <1>18, <2>2 DEF Commit
  <2> QED
    BY <2>1, <2>2
<1>19. ASSUME NEW r \in Requests, Abort(r) PROVE IInv'
  <2>1. doubt' \in [Candidates -> Doubts]
    BY <1>3, <1>6, <1>7, <1>19 DEF Abort
  <2>2. aborts' \in 0..MaxAborts
    BY <1>19 DEF Abort, IInv, TypeOK
  <2> QED
    BY <1>1, <1>5, <1>19, <2>1, <2>2 DEF Abort, IInv, TypeOK, HasAccount
\* The purge starts when nobody holds the lock.
<1>20. ASSUME NEW c \in Candidates, PurgeDelete(c) PROVE IInv'
  <2>1. ASSUME NEW q \in Requests PROVE SlotInv(tx'[q], account')
    <3>1. tx[q].locked => tx[q].user \in Candidates /\ tx[q].user # c
      BY <1>4, <1>20 DEF PurgeDelete, Locked, User, SlotInv
    <3> QED
      BY <1>4, <1>20, <3>1 DEF PurgeDelete, SlotInv, IInv, TypeOK
  <2> QED
    BY <1>1, <1>20, <2>1 DEF PurgeDelete, IInv, TypeOK, HasAccount
<1>21. ASSUME NEW c \in Candidates, PurgeCommit(c) \/ PurgeAbort(c) PROVE IInv'
  <2>1. ASSUME NEW q \in Requests PROVE SlotInv(tx'[q], account')
    <3>1. tx[q].locked => tx[q].user \in Candidates /\ tx[q].user # c
      BY <1>4, <1>21 DEF PurgeCommit, PurgeAbort, SlotInv
    <3> QED
      BY <1>4, <1>21, <3>1 DEF PurgeCommit, PurgeAbort, SlotInv, IInv, TypeOK
  <2>2. doubt' \in [Candidates -> Doubts]
    BY <1>3, <1>6, <1>7, <1>21 DEF PurgeCommit, PurgeAbort, IInv, TypeOK
  <2>3. aborts' \in 0..MaxAborts
    BY <1>21 DEF PurgeCommit, PurgeAbort, IInv, TypeOK
  <2>4. \A d \in Candidates : Known(d, profile'[d])
    BY <1>21, NoUrls DEF PurgeCommit, PurgeAbort, IInv, TypeOK, Known
  <2> QED
    BY <1>1, <1>21, <2>1, <2>2, <2>3, <2>4
    DEF PurgeCommit, PurgeAbort, IInv, TypeOK, HasAccount
<1> QED
  BY <1>10, <1>11, <1>12, <1>13, <1>14, <1>15, <1>16, <1>17, <1>18, <1>19, <1>20,
     <1>21 DEF Next, Step

-----------------------------------------------------------------------------
(* The object a profile names *)

\* What a request is about to save.  An upload that has stored its object finds
\* it there, or has been crossed.
FileInv(s, objects) ==
  s.pc \in {"select", "insert", "update", "commit"} =>
    /\ s.kind \in {"get", "delete"} => s.cv_url = NoFile
    /\ s.kind = "put" => s.doubt # "none"
    /\ s.kind = "upload" =>
         s.cv_url = s.file /\ (s.file.key \in objects \/ s.doubt # "none")

\* A deletion that has erased what the row of c names and is bound to clear it.
\* One that inserts, or commits without having written, is not: it found another
\* row than the one there is now.
Clears(s, c, key) ==
  /\ s.kind = "delete" /\ s.user = c /\ s.file.key = key
  /\ s.pc \in {"select", "update"} \/ (s.pc = "commit" /\ s.locked)

ExplainedOf(c) ==
  Missing(c) => doubt[c] # "none" \/ \E r \in Requests : Clears(tx[r], c, profile[c].key)

Explained == \A c \in Candidates : ExplainedOf(c)

NameInv ==
  /\ IInv
  /\ \A r \in Requests : FileInv(tx[r], bucket)
  /\ Explained

LEMMA MissingIs ==
  ASSUME NEW c \in Candidates
  PROVE  /\ Missing(c) <=> profile[c] \in StorageUrls /\ profile[c].key \notin bucket
         /\ Missing(c)' <=> profile'[c] \in StorageUrls /\ profile'[c].key \notin bucket'
  BY DEF Missing, Names, StorageUrls

LEMMA DoubtIs ==
  ASSUME NEW new, Doubt(new), NEW c \in Candidates, Missing(c)',
         doubt[c] # "none" \/ new[c] # "none"
  PROVE  doubt'[c] # "none"
  BY DEF Doubt, First

LEMMA IdleClearsNothing ==
  \A objects, c, key : FileInv(Idle, objects) /\ ~Clears(Idle, c, key)
  BY DEF FileInv, Clears, Idle

LEMMA NameInitHolds == Init => NameInv
<1> SUFFICES ASSUME Init PROVE NameInv
  OBVIOUS
<1>1. \A c \in Candidates : ~Missing(c)
  BY NoUrls DEF Init, Missing, Names
<1> QED
  BY <1>1, InitHolds, IdleClearsNothing DEF Init, NameInv, Explained, ExplainedOf

LEMMA NameKeeps == NameInv /\ [Next]_vars => NameInv'
<1> SUFFICES ASSUME NameInv, [Next]_vars PROVE NameInv'
  OBVIOUS
<1>1. IInv'
  BY NextKeeps DEF NameInv
<1>2. ASSUME NEW r \in Requests
      PROVE  /\ FileInv(tx[r], bucket) /\ SlotInv(tx[r], account)
             /\ tx[r] \in Slot
  BY <1>2 DEF NameInv, IInv, SlotInv
<1>3. CASE UNCHANGED vars
  BY <1>1, <1>3 DEF vars, NameInv, Explained, ExplainedOf, Missing, Names
<1>4. ASSUME NEW r \in Requests, NEW s, tx' = [tx EXCEPT ![r] = s]
      PROVE  \A q \in Requests : tx'[q] = IF q = r THEN s ELSE tx[q]
  BY <1>4 DEF NameInv, IInv
\* A step of r that leaves the rows and the objects alone.
<1>5. ASSUME NEW r \in Requests, NEW s, tx' = [tx EXCEPT ![r] = s],
             FileInv(s, bucket), UNCHANGED <<profile, bucket, doubt>>,
             \A c \in Candidates :
               Clears(tx[r], c, profile[c].key) /\ profile[c] \in StorageUrls =>
                 Clears(s, c, profile[c].key)
      PROVE  NameInv'
  <2>1. \A q \in Requests : FileInv(tx'[q], bucket')
    BY <1>2, <1>4, <1>5
  <2>2. ASSUME NEW c \in Candidates PROVE ExplainedOf(c)'
    BY <1>4, <1>5, MissingIs DEF NameInv, Explained, ExplainedOf
  <2> QED
    BY <1>1, <2>1, <2>2 DEF NameInv, Explained
<1>6. ASSUME NEW r \in Requests, Finish(r), UNCHANGED <<profile, bucket, doubt>>,
             \A c \in Candidates :
               ~Clears(tx[r], c, profile[c].key) \/ profile[c] \notin StorageUrls
      PROVE  NameInv'
  BY <1>5, <1>6, IdleClearsNothing DEF Finish
<1>7. ASSUME NEW r \in Requests, tx[r].pc \in {"idle", "load", "store", "erase"}
      PROVE  \A c, key : ~Clears(tx[r], c, key)
  BY <1>7 DEF Clears
<1>8. ASSUME NEW r \in Requests, NEW c \in Candidates, NEW kind \in Kinds,
             NEW f \in Urls \cup {Keep}, Begin(r, c, kind, f)
      PROVE  NameInv'
  <2> DEFINE s == [Idle EXCEPT !.user = c, !.kind = kind, !.pc = "load", !.file = f]
  <2>1. FileInv(s, bucket) /\ tx[r].pc = "idle"
    BY <1>8 DEF Begin, At, FileInv, Idle
  <2>2. tx' = [tx EXCEPT ![r] = s] /\ UNCHANGED <<profile, bucket, doubt>>
    BY <1>8 DEF Begin
  <2> HIDE DEF s
  <2> QED
    BY <1>5, <1>7, <2>1, <2>2
<1>9. ASSUME NEW r \in Requests, Load(r) \/ Refuse(r) PROVE NameInv'
  <2> DEFINE seen == IF Row(r) = Absent THEN NoFile ELSE Row(r)
             s == [Read(r, seen) EXCEPT !.pc = NextStep(r)]
  <2>1. tx[r].pc = "load" /\ UNCHANGED <<profile, bucket, doubt>>
    BY <1>9 DEF Load, Refuse, At
  <2>2. CASE Finish(r)
    BY <1>6, <1>7, <2>1, <2>2
  <2>3. CASE ~Finish(r)
    <3>1. tx' = [tx EXCEPT ![r] = s]
      BY <1>9, <2>3 DEF Load, Refuse
    <3>2. /\ NextStep(r) \in {"select", "idle", "store", "erase"}
          /\ NextStep(r) = "select" /\ ~Is(r, "put") => Is(r, "get") /\ seen = NoFile
      BY <1>2 DEF NextStep, Is, Slot, Kinds
    <3> HIDE DEF seen
    <3>3. FileInv(s, bucket)
      <4>1. CASE Is(r, "put")
        <5>1. s = [[tx[r] EXCEPT !.cv_url = Edited(r, seen), !.file = Keep,
                     !.doubt = IF tx[r].file = Keep THEN "stale" ELSE "client"]
                   EXCEPT !.pc = NextStep(r)]
          BY <4>1, Zenon DEF Read, Is
        <5>2. s.kind = "put" /\ s.doubt # "none"
          BY <1>2, <4>1, <5>1 DEF Slot, Is
        <5> HIDE DEF s
        <5> QED
          BY <5>2 DEF FileInv
      <4>2. CASE ~Is(r, "put") /\ NextStep(r) = "select"
        <5>1. s = [[tx[r] EXCEPT !.cv_url = seen] EXCEPT !.pc = NextStep(r)]
          BY <3>2, <4>2 DEF Read, Is
        <5>2. s.kind = "get" /\ s.cv_url = NoFile
          BY <1>2, <3>2, <4>2, <5>1 DEF Slot, Is
        <5> HIDE DEF s
        <5> QED
          BY <5>2 DEF FileInv
      <4>3. CASE NextStep(r) # "select"
        <5>1. s.pc = NextStep(r) \/ "pc" \notin DOMAIN Read(r, seen)
          OBVIOUS
        <5>2. "pc" \in DOMAIN Read(r, seen)
          <6>1. DOMAIN tx[r] = {"user", "pc", "kind", "file", "cv_url", "locked", "doubt"}
            BY <1>2 DEF Slot
          <6> QED
            BY <6>1, Zenon DEF Read, Is
        <5> HIDE DEF s
        <5> QED
          BY <3>2, <4>3, <5>1, <5>2 DEF FileInv
      <4> QED
        BY <4>1, <4>2, <4>3
    <3> HIDE DEF s
    <3> QED
      BY <1>5, <1>7, <2>1, <3>1, <3>3
  <2> QED
    BY <2>2, <2>3
\* Objects are added: what was explained is there, or still explained.
<1>10. ASSUME NEW r \in Requests, Store(r) PROVE NameInv'
  <2> DEFINE s == [tx[r] EXCEPT !.pc = "select", !.cv_url = Edited(r, @)]
             new == Only(User(r), "none")
  <2>1. /\ tx' = [tx EXCEPT ![r] = s] /\ profile' = profile
        /\ bucket' = bucket \cup {tx[r].file.key} /\ Doubt(new) /\ tx[r].pc = "store"
        /\ tx[r].kind = "upload" /\ tx[r].file \in StorageUrls
    BY <1>2, <1>10 DEF Store, At, SlotInv
  <2>2. Edited(r, tx[r].cv_url) = tx[r].file
    BY <2>1, NoUrls DEF Edited, Is
  <2>3. s.kind = "upload" /\ s.file = tx[r].file /\ s.cv_url = tx[r].file
    BY <1>2, <2>1, <2>2 DEF Slot
  <2> HIDE DEF s
  <2>4. FileInv(s, bucket')
    BY <2>1, <2>3 DEF FileInv
  <2>5. \A q \in Requests : FileInv(tx'[q], bucket')
    BY <1>2, <1>4, <2>1, <2>4 DEF FileInv
  <2>6. ASSUME NEW c \in Candidates, Missing(c)'
        PROVE  doubt'[c] # "none" \/ \E q \in Requests : Clears(tx'[q], c, profile'[c].key)
    <3>1. doubt[c] # "none" \/ \E q \in Requests : Clears(tx[q], c, profile[c].key)
      BY <2>1, <2>6, MissingIs DEF NameInv, Explained, ExplainedOf
    <3> QED
      BY <1>4, <1>7, <2>1, <2>6, <3>1, DoubtIs
  <2> QED
    BY <1>1, <2>5, <2>6 DEF NameInv, Explained, ExplainedOf
\* Whoever erases what the own row names is about to clear it; the row of
\* another has a stranger to blame.
<1>11. ASSUME NEW r \in Requests, Erase(r) PROVE NameInv'
  <2> DEFINE key == ExtractKey(tx[r].file)
             mine == [tx[r] EXCEPT !.pc = "select", !.cv_url = Edited(r, @)]
             hit(q) == [tx[q] EXCEPT !.doubt = First(@, Blame(r, User(q)))]
             new == [c \in Candidates |->
                       IF c # User(r) /\ Names(c, key) THEN "foreign" ELSE "none"]
  <2>1. /\ tx[r].pc = "erase" /\ tx[r].kind = "delete" /\ bucket' = bucket \ {key}
        /\ profile' = profile /\ Doubt(new)
    BY <1>2, <1>11 DEF Erase, At, SlotInv
  <2>2. /\ tx'[r] = mine
        /\ \A q \in Requests \ {r} : tx'[q] = IF Uploaded(q, key) THEN hit(q) ELSE tx[q]
    BY <1>11 DEF Erase
  <2>3. /\ mine.kind = "delete" /\ mine.pc = "select" /\ mine.user = User(r)
        /\ mine.file.key = key /\ mine.cv_url = NoFile
    BY <1>2, <2>1 DEF Slot, User, ExtractKey, Edited, Is
  <2>4. ASSUME NEW q \in Requests \ {r}
        PROVE  /\ FileInv(tx'[q], bucket')
               /\ \A c, k : Clears(tx[q], c, k) => Clears(tx'[q], c, k)
    <3>1. CASE Uploaded(q, key)
      <4>1. /\ hit(q).kind = "upload" /\ tx[q].kind = "upload"
            /\ hit(q).pc = tx[q].pc /\ hit(q).cv_url = tx[q].cv_url
            /\ hit(q).file = tx[q].file /\ hit(q).doubt # "none"
        BY <1>2, <3>1 DEF Slot, Uploaded, Is, First, Blame
      <4> QED
        BY <1>2, <2>2, <3>1, <4>1 DEF FileInv, Clears
    <3>2. CASE ~Uploaded(q, key)
      BY <1>2, <2>1, <2>2, <3>2 DEF FileInv, Is, Uploaded, Saving
    <3> QED
      BY <3>1, <3>2
  <2>5. \A q \in Requests : FileInv(tx'[q], bucket')
    BY <2>2, <2>3, <2>4 DEF FileInv
  <2>6. ASSUME NEW c \in Candidates, Missing(c)'
        PROVE  doubt'[c] # "none" \/ \E q \in Requests : Clears(tx'[q], c, profile'[c].key)
    <3>1. profile[c] \in StorageUrls /\ (profile[c].key \notin bucket \/ profile[c].key = key)
      BY <2>1, <2>6, MissingIs
    <3>2. CASE profile[c].key = key /\ c = User(r)
      BY <2>1, <2>2, <2>3, <3>2 DEF Clears
    <3>3. CASE profile[c].key = key /\ c # User(r)
      BY <2>1, <2>6, <3>1, <3>3, DoubtIs DEF Names
    <3>4. CASE profile[c].key # key
      <4>1. doubt[c] # "none" \/ \E q \in Requests : Clears(tx[q], c, profile[c].key)
        BY <3>1, <3>4, MissingIs DEF NameInv, Explained, ExplainedOf
      <4>2. ~Clears(tx[r], c, profile[c].key)
        BY <1>7, <2>1
      <4> HIDE DEF new
      <4> QED
        BY <2>1, <2>4, <2>6, <4>1, <4>2, DoubtIs
    <3> QED
      BY <3>2, <3>3, <3>4
  <2> QED
    BY <1>1, <2>5, <2>6 DEF NameInv, Explained, ExplainedOf
\* A deletion whose row still names the object it has erased goes on to write it.
<1>12. ASSUME NEW r \in Requests, Select(r) PROVE NameInv'
  <2> DEFINE step == IF Row(r) = Absent THEN "insert"
                     ELSE IF tx[r].cv_url # Row(r) THEN "update" ELSE "commit"
             s == [tx[r] EXCEPT !.pc = step]
  <2>1. /\ tx' = [tx EXCEPT ![r] = s] /\ tx[r].pc = "select"
        /\ UNCHANGED <<profile, bucket, doubt>>
    BY <1>12 DEF Select, Goto, At
  <2>2. /\ s.pc = step /\ s.kind = tx[r].kind /\ s.user = tx[r].user
        /\ s.file = tx[r].file /\ s.cv_url = tx[r].cv_url /\ s.doubt = tx[r].doubt
    BY <1>2 DEF Slot
  <2>3. FileInv(s, bucket)
    BY <1>2, <2>1, <2>2 DEF FileInv
  <2>4. tx[r].kind = "delete" /\ Row(r) \in StorageUrls => step = "update"
    BY <1>2, <2>1, NoUrls DEF FileInv
  <2> HIDE DEF s
  <2>5. ASSUME NEW c \in Candidates, Clears(tx[r], c, profile[c].key),
               profile[c] \in StorageUrls
        PROVE  Clears(s, c, profile[c].key)
    BY <2>2, <2>4, <2>5 DEF Clears, Row, User
  <2> QED
    BY <1>5, <2>1, <2>3, <2>5
<1>13. ASSUME NEW r \in Requests, Insert(r) \/ Update(r) PROVE NameInv'
  <2> DEFINE s == [[tx[r] EXCEPT !.pc = "commit"] EXCEPT !.locked = TRUE]
  <2>1. /\ tx[r].pc \in {"insert", "update"}
        /\ UNCHANGED <<profile, bucket, doubt>>
    BY <1>13 DEF Insert, Update, At
  <2>2. CASE Finish(r)
    <3>1. tx[r].pc = "insert" \/ Row(r) = Absent
      <4>1. ASSUME tx[r].pc = "update", Row(r) # Absent PROVE FALSE
        <5>1. tx' = [tx EXCEPT ![r] = s]
          BY <1>13, <4>1 DEF Insert, Update, At, Write
        <5>2. tx'[r] = s /\ tx'[r] = Idle
          BY <2>2, <5>1 DEF Finish, NameInv, IInv
        <5>3. s.locked /\ ~Idle.locked
          BY <1>2 DEF Slot, Idle
        <5> QED
          BY <5>2, <5>3
      <4> QED
        BY <2>1, <4>1
    <3> QED
      BY <1>6, <2>1, <2>2, <3>1, NoUrls DEF Clears, Row, User
  <2>3. CASE ~Finish(r)
    <3>1. tx' = [tx EXCEPT ![r] = s]
      BY <1>13, <2>3 DEF Insert, Update, Write
    <3>2. /\ s.pc = "commit" /\ s.kind = tx[r].kind /\ s.user = tx[r].user
          /\ s.file = tx[r].file /\ s.cv_url = tx[r].cv_url
          /\ s.doubt = tx[r].doubt /\ s.locked
      BY <1>2 DEF Slot
    <3> HIDE DEF s
    <3>3. FileInv(s, bucket)
      BY <1>2, <2>1, <3>2 DEF FileInv
    <3>4. \A c, key : Clears(tx[r], c, key) => Clears(s, c, key)
      BY <3>2 DEF Clears
    <3> QED
      BY <1>5, <2>1, <3>1, <3>3, <3>4
  <2> QED
    BY <2>2, <2>3
\* The row gets an object that is there, or a reason to doubt, or is cleared.
<1>14. ASSUME NEW r \in Requests, Commit(r) PROVE NameInv'
  <2>1. tx[r].pc = "commit" /\ Finish(r) /\ bucket' = bucket
    BY <1>14 DEF Commit, At
  <2>2. CASE tx[r].locked
    <3> DEFINE new == Only(User(r), tx[r].doubt)
    <3>1. /\ profile' = [profile EXCEPT ![User(r)] = tx[r].cv_url] /\ Doubt(new)
          /\ User(r) \in Candidates /\ DOMAIN profile = Candidates
      BY <1>2, <1>14, <2>2 DEF Commit, SlotInv, User, NameInv, IInv, TypeOK
    <3>2. \A q \in Requests : tx'[q] = IF q = r THEN Idle ELSE tx[q]
      BY <1>4, <2>1 DEF Finish
    <3>3. \A q \in Requests : FileInv(tx'[q], bucket')
      BY <1>2, <2>1, <3>2, IdleClearsNothing
    <3>4. ASSUME NEW c \in Candidates, Missing(c)'
          PROVE  doubt'[c] # "none" \/ \E q \in Requests : Clears(tx'[q], c, profile'[c].key)
      <4>1. CASE c = User(r)
        <5>1. tx[r].cv_url \in StorageUrls /\ tx[r].cv_url.key \notin bucket
          BY <2>1, <3>1, <3>4, <4>1, MissingIs
        <5>2. tx[r].doubt # "none"
          BY <1>2, <2>1, <5>1, NoUrls DEF FileInv, Slot, Kinds
        <5>3. new[c] # "none"
          BY <4>1, <5>2 DEF Only
        <5> HIDE DEF new
        <5> QED
          BY <3>1, <3>4, <5>3, DoubtIs
      <4>2. CASE c # User(r)
        <5>1. profile'[c] = profile[c] /\ Missing(c)
          BY <2>1, <3>1, <3>4, <4>2, MissingIs
        <5>2. ~Clears(tx[r], c, profile[c].key)
          BY <4>2 DEF Clears, User
        <5>3. doubt[c] # "none" \/ \E q \in Requests : Clears(tx[q], c, profile[c].key)
          BY <5>1 DEF NameInv, Explained, ExplainedOf
        <5> HIDE DEF new
        <5> QED
          BY <3>1, <3>2, <3>4, <5>1, <5>2, <5>3, DoubtIs
      <4> QED
        BY <4>1, <4>2
    <3> QED
      BY <1>1, <3>3, <3>4 DEF NameInv, Explained, ExplainedOf
  <2>3. CASE ~tx[r].locked
    <3>1. UNCHANGED <<profile, bucket, doubt>>
      BY <1>14, <2>3 DEF Commit
    <3> QED
      BY <1>6, <2>1, <2>3, <3>1 DEF Clears
  <2> QED
    BY <2>2, <2>3
\* A deletion that is cut off leaves a reason behind.
<1>15. ASSUME NEW r \in Requests, Abort(r) PROVE NameInv'
  <2> DEFINE torn == Erased(r) /\ Names(User(r), ExtractKey(tx[r].file))
             new == IF torn THEN Only(User(r), "torn") ELSE Only(User(r), "none")
  <2>1. Finish(r) /\ UNCHANGED <<profile, bucket>> /\ Doubt(new)
    BY <1>15 DEF Abort
  <2>2. \A q \in Requests : tx'[q] = IF q = r THEN Idle ELSE tx[q]
    BY <1>4, <2>1 DEF Finish
  <2>3. \A q \in Requests : FileInv(tx'[q], bucket')
    BY <1>2, <2>1, <2>2, IdleClearsNothing
  <2>4. ASSUME NEW c \in Candidates, Missing(c)'
        PROVE  doubt'[c] # "none" \/ \E q \in Requests : Clears(tx'[q], c, profile'[c].key)
    <3>1. Missing(c) /\ profile[c] \in StorageUrls
      BY <2>1, <2>4, MissingIs
    <3>2. doubt[c] # "none" \/ \E q \in Requests : Clears(tx[q], c, profile[c].key)
      BY <3>1 DEF NameInv, Explained, ExplainedOf
    <3>3. CASE Clears(tx[r], c, profile[c].key)
      <4>1. torn /\ c = User(r)
        BY <3>1, <3>3 DEF Clears, Erased, Saving, Is, Names, ExtractKey, User
      <4>2. new[c] # "none"
        BY <4>1 DEF Only
      <4> HIDE DEF new
      <4> QED
        BY <2>1, <2>4, <4>2, DoubtIs
    <3>4. CASE ~Clears(tx[r], c, profile[c].key)
      <4> HIDE DEF new
      <4> QED
        BY <2>1, <2>2, <2>4, <3>2, <3>4, DoubtIs
    <3> QED
      BY <3>3, <3>4
  <2> QED
    BY <1>1, <2>3, <2>4 DEF NameInv, Explained, ExplainedOf
<1>16. ASSUME NEW c \in Candidates, PurgeDelete(c) \/ PurgeAbort(c) PROVE NameInv'
  <2>1. UNCHANGED <<profile, bucket, tx, doubt>>
    BY <1>16 DEF PurgeDelete, PurgeAbort
  <2> QED
    BY <1>1, <2>1 DEF NameInv, Explained, ExplainedOf, Missing, Names
<1>17. ASSUME NEW c \in Candidates, PurgeCommit(c) PROVE NameInv'
  <2> DEFINE new == Only(c, "none")
  <2>1. /\ profile' = [profile EXCEPT ![c] = Absent] /\ DOMAIN profile = Candidates
        /\ UNCHANGED <<bucket, tx>> /\ Doubt(new)
    BY <1>17 DEF PurgeCommit, NameInv, IInv, TypeOK
  <2> HIDE DEF new
  <2>2. ASSUME NEW d \in Candidates, Missing(d)'
        PROVE  doubt'[d] # "none" \/ \E q \in Requests : Clears(tx'[q], d, profile'[d].key)
    <3>1. d # c /\ profile'[d] = profile[d] /\ Missing(d)
      BY <2>1, <2>2, NoUrls, MissingIs
    <3> QED
      BY <2>1, <2>2, <3>1, DoubtIs DEF NameInv, Explained, ExplainedOf
  <2> QED
    BY <1>1, <2>1, <2>2 DEF NameInv, Explained, ExplainedOf
<1> QED
  BY <1>3, <1>8, <1>9, <1>10, <1>11, <1>12, <1>13, <1>14, <1>15, <1>16, <1>17
  DEF Next, Step

-----------------------------------------------------------------------------
(* Theorems *)

\* Types, for any candidates, requests, objects and number of aborts.
THEOREM TypeCorrect == Spec => []TypeOK
<1>1. IInv => TypeOK
  BY DEF IInv
<1> QED
  BY InitHolds, NextKeeps, <1>1, PTL DEF Spec

\* There is no profile without an account.
THEOREM NoProfileOutlivesItsAccount == Spec => []HasAccount
<1>1. IInv => HasAccount
  BY DEF IInv
<1> QED
  BY InitHolds, NextKeeps, <1>1, PTL DEF Spec

\* A deletion erases an object of another candidate only if the URL it makes
\* the key of was sent by a client: an upload gives a profile none of those.
StrangersObjectsWereSent ==
  [][\A r \in Requests :
       Erase(r) => tx[r].file \in Sent \/ Owner[ExtractKey(tx[r].file)] = User(r)]_vars

THEOREM OnlySentUrlsReachOthers == Spec => StrangersObjectsWereSent
<1>1. ASSUME IInv, NEW r \in Requests, Erase(r)
      PROVE  tx[r].file \in Sent \/ Owner[ExtractKey(tx[r].file)] = User(r)
  <2>1. SlotInv(tx[r], account) /\ tx[r].pc = "erase"
    BY <1>1 DEF IInv, Erase, At
  <2> QED
    BY <2>1, NoUrls DEF SlotInv, Known, Files, ExtractKey, User
<1>2. IInv /\ [Next]_vars =>
        [\A r \in Requests :
           Erase(r) => tx[r].file \in Sent \/ Owner[ExtractKey(tx[r].file)] = User(r)]_vars
  BY <1>1
<1> QED
  BY InitHolds, NextKeeps, <1>2, PTL DEF Spec, StrangersObjectsWereSent

\* The object a profile names can be downloaded, but for a deletion that is not
\* over and for the five named causes: an object that is missing for any other
\* reason would be a sixth.
THEOREM NamedFilesAreStored == Spec => []NamesAnObject
<1>1. ASSUME NameInv, NEW c \in Candidates, Missing(c)
      PROVE  \/ doubt[c] # "none"
             \/ \E r \in Requests : /\ Erased(r) /\ User(r) = c
                                    /\ Names(c, ExtractKey(tx[r].file))
  <2>1. profile[c] \in StorageUrls
    BY <1>1, MissingIs
  <2>2. \A r \in Requests : Clears(tx[r], c, profile[c].key) =>
          Erased(r) /\ User(r) = c /\ Names(c, ExtractKey(tx[r].file))
    BY <2>1 DEF Clears, Erased, Saving, Is, User, Names, ExtractKey
  <2> QED
    BY <1>1, <2>2 DEF NameInv, Explained, ExplainedOf
<1>2. NameInv => NamesAnObject
  BY <1>1 DEF NamesAnObject
<1> QED
  BY NameInitHolds, NameKeeps, <1>2, PTL DEF Spec

-----------------------------------------------------------------------------
(* The preview environments: what a job will delete                          *)

BranchesInv(bs, n) ==
  /\ bs \subseteq Pre!Branch /\ Pre!Parent \in bs
  /\ \A b, c \in bs : b.id = c.id \/ b.ref = c.ref => b = c
  /\ \A b \in bs : b.id <= n

DeploymentsInv(ds, n) ==
  /\ ds \subseteq Pre!Deployment
  /\ \A d, e \in ds : d.id = e.id => d = e
  /\ \A d \in ds : d.id <= n

\* A run about to create a branch is the only one that can take its name.
RunInv(ref, s, bs) ==
  /\ s \in [pc : Pre!DeploySteps, db : Pre!Ids]
  /\ s.pc = "create" => \A b \in bs : b.ref # ref

JobSlot == [pc : Pre!JobSteps, ref : Refs \cup {NoRef}, todo : SUBSET Nat, horizon : Nat]

Condemned(s, x) == x.age > TTL \/ x.ref \in {s.ref} \ Protected

\* What a job has listed it may delete: whatever still has such an id is what
\* had it then, as an id is given once, and has grown no younger.
JobInv(j, s, bs, ds, n) ==
  /\ s \in JobSlot /\ s.todo \subseteq 0..s.horizon /\ s.horizon <= n
  /\ j \in Cleaners /\ s.pc # "idle" => s.ref \in Refs \ Protected
  /\ s.pc \in {"idle", "branches"} => s.todo = {}
  /\ s.pc = "deleteBranches" =>
       \A b \in bs : b.id \in s.todo => Condemned(s, b) /\ b.ref # NoRef
  /\ s.pc = "deleteDeployments" =>
       \A d \in ds : d.id \in s.todo => Condemned(s, d) /\ ~d.production

\* The things the runs have yet to make: <<ref, 1>> the deployment and
\* <<ref, 2>> the database branch of a run.  It bounds the ids.
Owed(runs) ==
  {w \in Refs \X {1, 2} :
     /\ runs[w[1]].pc # "idle"
     /\ w[2] = 2 => runs[w[1]].pc \in {"get", "create"}}

IdsInv(runs, n, starts) ==
  /\ n \in Nat /\ starts \in 0..MaxPushes
  /\ IsFiniteSet(Owed(runs)) /\ n + Cardinality(Owed(runs)) <= 2 * starts

PreviewInv ==
  /\ BranchesInv(branches, made) /\ DeploymentsInv(deployments, made)
  /\ deploy = [ref \in Refs |-> deploy[ref]] /\ job = [j \in Pre!Jobs |-> job[j]]
  /\ \A ref \in Refs : RunInv(ref, deploy[ref], branches)
  /\ \A j \in Pre!Jobs : JobInv(j, job[j], branches, deployments, made)
  /\ IdsInv(deploy, made, pushes)
  /\ settings \subseteq Refs /\ failures \in 0..MaxFailures

\* Later things: of those there were, by then no younger, or new.
Follows(things, later, n) ==
  \A x \in later : \/ x.id > n
                   \/ \E y \in things : /\ y.id = x.id /\ y.ref = x.ref
                                        /\ y.age > TTL => x.age > TTL

DeploymentsFollow(ds, later, n) ==
  \A x \in later : \/ x.id > n
                   \/ \E y \in ds : /\ y.id = x.id /\ y.ref = x.ref
                                    /\ y.production = x.production
                                    /\ y.age > TTL => x.age > TTL

-----------------------------------------------------------------------------
(* The preview environments: lemmas on the parts of the invariant            *)

LEMMA JobFollows ==
  ASSUME NEW j, NEW s, NEW bs, NEW ds, NEW n \in Nat, JobInv(j, s, bs, ds, n),
         NEW bs2, NEW ds2, NEW m \in Nat, n <= m,
         \A b \in bs2 : b.id \in Nat, \A d \in ds2 : d.id \in Nat,
         Follows(bs, bs2, n), DeploymentsFollow(ds, ds2, n)
  PROVE  JobInv(j, s, bs2, ds2, m)
<1>1. /\ s \in JobSlot /\ s.todo \subseteq 0..s.horizon /\ s.horizon \in Nat
      /\ s.horizon <= n
  BY DEF JobInv, JobSlot
<1>2. \A id \in Nat : id > n => id \notin s.todo
  BY <1>1
<1>3. ASSUME s.pc = "deleteBranches", NEW b \in bs2, b.id \in s.todo
      PROVE  Condemned(s, b) /\ b.ref # NoRef
  <2>1. PICK c \in bs : c.id = b.id /\ c.ref = b.ref /\ (c.age > TTL => b.age > TTL)
    BY <1>2, <1>3 DEF Follows
  <2> QED
    BY <1>3, <2>1 DEF JobInv, Condemned
<1>4. ASSUME s.pc = "deleteDeployments", NEW d \in ds2, d.id \in s.todo
      PROVE  Condemned(s, d) /\ ~d.production
  <2>1. PICK e \in ds : /\ e.id = d.id /\ e.ref = d.ref
                        /\ e.production = d.production
                        /\ e.age > TTL => d.age > TTL
    BY <1>2, <1>4 DEF DeploymentsFollow
  <2> QED
    BY <1>4, <2>1 DEF JobInv, Condemned
<1>5. s.horizon <= m
  BY <1>1
<1> QED
  BY <1>1, <1>3, <1>4, <1>5 DEF JobInv

LEMMA NoJobHolds ==
  ASSUME NEW j, NEW bs, NEW ds, NEW n \in Nat
  PROVE  JobInv(j, Pre!NoJob, bs, ds, n)
  BY DEF JobInv, JobSlot, Pre!NoJob, Pre!JobSteps

\* An id that is given can be given: what is owed fits what was pushed.
LEMMA NextId ==
  ASSUME Pre!PreviewAssumption, IdsInv(deploy, made, pushes)
  PROVE  /\ made \in Pre!Ids /\ made \in Nat
         /\ Owed(deploy) # {} => made + 1 \in Pre!Ids
<1>1. /\ Cardinality(Owed(deploy)) \in Nat
      /\ Owed(deploy) # {} => Cardinality(Owed(deploy)) # 0
  BY FS_CardinalityType, FS_EmptySet DEF IdsInv
<1> QED
  BY <1>1 DEF IdsInv, Pre!Ids, Pre!PreviewAssumption

\* A step of a run, which makes at most one thing it owed.
LEMMA RunSteps ==
  ASSUME IdsInv(deploy, made, pushes), NEW n \in {made, made + 1},
         NEW runs, Owed(runs) \subseteq Owed(deploy),
         n = made + 1 => \E w \in Owed(deploy) : w \notin Owed(runs)
  PROVE  IdsInv(runs, n, pushes)
<1>1. /\ IsFiniteSet(Owed(runs)) /\ Cardinality(Owed(runs)) \in Nat
      /\ Cardinality(Owed(deploy)) \in Nat
      /\ Cardinality(Owed(runs)) <= Cardinality(Owed(deploy))
      /\ Cardinality(Owed(runs)) = Cardinality(Owed(deploy)) => Owed(runs) = Owed(deploy)
  BY FS_Subset, FS_CardinalityType DEF IdsInv
<1>2. /\ made \in Nat /\ pushes \in Nat /\ n \in Nat
  BY DEF IdsInv
<1>3. made + Cardinality(Owed(deploy)) <= 2 * pushes
  BY DEF IdsInv
<1>4. n + Cardinality(Owed(runs)) <= 2 * pushes
  <2>1. CASE n = made
    BY <1>1, <1>2, <1>3, <2>1
  <2>2. CASE n = made + 1
    <3>1. Cardinality(Owed(runs)) # Cardinality(Owed(deploy))
      BY <1>1, <2>2
    <3> QED
      BY <1>1, <1>2, <1>3, <2>2, <3>1
  <2> QED
    BY <2>1, <2>2
<1> QED
  BY <1>1, <1>2, <1>4 DEF IdsInv

LEMMA OneMore ==
  ASSUME NEW S, NEW x, IsFiniteSet(S)
  PROVE  /\ IsFiniteSet(S \cup {x}) /\ Cardinality(S \cup {x}) \in Nat
         /\ Cardinality(S \cup {x}) <= Cardinality(S) + 1
<1>1. /\ IsFiniteSet(S \cup {x})
      /\ Cardinality(S \cup {x}) = Cardinality(S) \/ Cardinality(S \cup {x}) = Cardinality(S) + 1
  BY FS_AddElement
<1>2. Cardinality(S) \in Nat
  BY FS_CardinalityType
<1> QED
  BY <1>1, <1>2

\* A push owes a branch and a deployment.
LEMMA PushOwes ==
  ASSUME IdsInv(deploy, made, pushes), NEW ref, NEW runs, pushes + 1 <= MaxPushes,
         MaxPushes \in Nat,
         Owed(runs) \subseteq (Owed(deploy) \cup {<<ref, 1>>}) \cup {<<ref, 2>>}
  PROVE  IdsInv(runs, made, pushes + 1)
<1> DEFINE A == Owed(deploy) \cup {<<ref, 1>>}
           B == A \cup {<<ref, 2>>}
<1>1. IsFiniteSet(Owed(deploy)) /\ Cardinality(Owed(deploy)) \in Nat
  BY FS_CardinalityType DEF IdsInv
<1>2. /\ IsFiniteSet(A) /\ Cardinality(A) \in Nat
      /\ Cardinality(A) <= Cardinality(Owed(deploy)) + 1
  BY <1>1, OneMore
<1> HIDE DEF A
<1>3. /\ IsFiniteSet(B) /\ Cardinality(B) \in Nat /\ Cardinality(B) <= Cardinality(A) + 1
  BY <1>2, OneMore
<1>4. Owed(runs) \subseteq B
  BY DEF A
<1> HIDE DEF B
<1>5. /\ IsFiniteSet(Owed(runs)) /\ Cardinality(Owed(runs)) \in Nat
      /\ Cardinality(Owed(runs)) <= Cardinality(B)
  BY <1>3, <1>4, FS_Subset, FS_CardinalityType
<1> QED
  BY <1>1, <1>2, <1>3, <1>5 DEF IdsInv

\* A run of the preview workflow goes on or ends, and makes nothing.
LEMMA RunGoesOn ==
  ASSUME Pre!PreviewAssumption, PreviewInv, NEW ref \in Refs, NEW s,
         deploy' = [deploy EXCEPT ![ref] = s], RunInv(ref, s, branches),
         deploy[ref].pc # "idle",
         s.pc \in {"get", "create"} => deploy[ref].pc \in {"get", "create"},
         UNCHANGED <<branches, deployments, settings, job, made, pushes>>,
         failures' \in 0..MaxFailures
  PROVE  PreviewInv'
<1>1. \A q \in Refs : deploy'[q] = IF q = ref THEN s ELSE deploy[q]
  BY DEF PreviewInv
<1>2. deploy' = [q \in Refs |-> deploy'[q]]
  BY DEF PreviewInv
<1>3. \A q \in Refs : RunInv(q, deploy'[q], branches')
  BY <1>1 DEF PreviewInv
<1>4. Owed(deploy') \subseteq Owed(deploy)
  <2>1. ASSUME NEW w \in Owed(deploy') PROVE w \in Owed(deploy)
    <3>1. w[1] \in Refs
      BY <2>1 DEF Owed
    <3> QED
      BY <1>1, <2>1, <3>1 DEF Owed
  <2> QED
    BY <2>1
<1>5. IdsInv(deploy', made', pushes')
  <2>1. made # made + 1
    BY DEF PreviewInv, IdsInv
  <2> QED
    BY <1>4, <2>1, RunSteps DEF PreviewInv
<1> QED
  BY <1>2, <1>3, <1>5 DEF PreviewInv

\* A job goes on or ends, and deletes nothing.
LEMMA JobGoesOn ==
  ASSUME PreviewInv, NEW j \in Pre!Jobs, NEW s, job' = [job EXCEPT ![j] = s],
         JobInv(j, s, branches, deployments, made),
         UNCHANGED <<branches, deployments, deploy, made, pushes>>,
         settings' \subseteq Refs, failures' \in 0..MaxFailures
  PROVE  PreviewInv'
<1>1. \A i \in Pre!Jobs : job'[i] = IF i = j THEN s ELSE job[i]
  BY DEF PreviewInv
<1>2. job' = [i \in Pre!Jobs |-> job'[i]]
  BY DEF PreviewInv
<1>3. \A i \in Pre!Jobs : JobInv(i, job'[i], branches', deployments', made')
  BY <1>1 DEF PreviewInv
<1> QED
  BY <1>2, <1>3 DEF PreviewInv

\* What the jobs have listed is still theirs to delete when things are made,
\* deleted or grow older.
LEMMA JobsFollow ==
  ASSUME PreviewInv, NEW bs, NEW ds, NEW n \in Nat, made <= n,
         BranchesInv(bs, n), DeploymentsInv(ds, n),
         Follows(branches, bs, made), DeploymentsFollow(deployments, ds, made)
  PROVE  \A j \in Pre!Jobs : JobInv(j, job[j], bs, ds, n)
<1>1. made \in Nat
  BY DEF PreviewInv, IdsInv
<1>2. /\ \A b \in bs : b.id \in Nat
      /\ \A d \in ds : d.id \in Nat
  BY DEF BranchesInv, DeploymentsInv, Pre!Branch, Pre!Deployment, Pre!Ids
<1>3. \A j \in Pre!Jobs : JobInv(j, job[j], branches, deployments, made)
  BY DEF PreviewInv
<1> QED
  BY <1>1, <1>2, <1>3, JobFollows

LEMMA FollowSame ==
  /\ \A S, T, n : T \subseteq S => Follows(S, T, n)
  /\ \A S, T, n : T \subseteq S => DeploymentsFollow(S, T, n)
  BY DEF Follows, DeploymentsFollow

LEMMA PreviewInitHolds ==
  ASSUME Pre!PreviewAssumption, Pre!Init
  PROVE  PreviewInv
<1>1. Pre!Ids \subseteq Nat /\ 0 \in Pre!Ids /\ TTL + 1 \in Pre!Ages
  BY DEF Pre!Ids, Pre!Ages, Pre!PreviewAssumption
<1>2. BranchesInv(branches, made)
  BY <1>1 DEF Pre!Init, BranchesInv, Pre!Branch, Pre!Parent
<1>3. DeploymentsInv(deployments, made)
  <2>1. CASE deployments = {}
    BY <2>1 DEF DeploymentsInv
  <2>2. ASSUME NEW ref \in Refs, deployments = {Pre!InProduction(ref)}
        PROVE  DeploymentsInv(deployments, made)
    BY <1>1, <2>2 DEF Pre!Init, DeploymentsInv, Pre!Deployment, Pre!InProduction
  <2> QED
    BY <2>1, <2>2 DEF Pre!Init
<1>4. \A ref \in Refs : RunInv(ref, deploy[ref], branches)
  BY <1>1 DEF Pre!Init, RunInv, Pre!NoDeploy, Pre!DeploySteps
<1>5. \A j \in Pre!Jobs : JobInv(j, job[j], branches, deployments, made)
  BY NoJobHolds DEF Pre!Init
<1>6. IdsInv(deploy, made, pushes)
  <2>1. Owed(deploy) = {}
    BY DEF Owed, Pre!Init, Pre!NoDeploy
  <2> QED
    BY <2>1, FS_EmptySet DEF IdsInv, Pre!Init, Pre!PreviewAssumption
<1> QED
  BY <1>2, <1>3, <1>4, <1>5, <1>6 DEF Pre!Init, PreviewInv, Pre!PreviewAssumption

-----------------------------------------------------------------------------
(* The preview environments: every action preserves the invariant            *)

LEMMA RunsKeep ==
  ASSUME Pre!PreviewAssumption, PreviewInv, NEW ref \in Refs,
         Pre!Push(ref) \/ Pre!DeployStep(ref) \/ Pre!DeployFails(ref)
  PROVE  PreviewInv'
<1>1. /\ made \in Pre!Ids /\ made \in Nat /\ pushes \in 0..MaxPushes
      /\ Owed(deploy) # {} => made + 1 \in Pre!Ids
      /\ Pre!Ids \subseteq Nat /\ 0 \in Pre!Ids /\ 0 \in Pre!Ages
      /\ failures \in 0..MaxFailures /\ MaxFailures \in Nat /\ MaxPushes \in Nat
  BY NextId DEF PreviewInv, IdsInv, Pre!Ids, Pre!Ages, Pre!PreviewAssumption
<1>2. /\ deploy[ref] \in [pc : Pre!DeploySteps, db : Pre!Ids]
      /\ RunInv(ref, deploy[ref], branches) /\ BranchesInv(branches, made)
      /\ DeploymentsInv(deployments, made)
  BY DEF PreviewInv, RunInv
\* The run takes a step that creates no branch.
<1>3. ASSUME NEW step \in Pre!DeploySteps, Pre!DeployTo(ref, step),
             deploy[ref].pc # "idle", step # "get",
             step = "create" => deploy[ref].pc = "get" /\ Pre!Named(ref) = {},
             UNCHANGED <<branches, deployments, settings, job, made, pushes, failures>>
      PROVE  PreviewInv'
  <2> DEFINE s == [deploy[ref] EXCEPT !.pc = step]
  <2>1. deploy' = [deploy EXCEPT ![ref] = s]
    BY <1>3 DEF Pre!DeployTo
  <2>2. s \in [pc : Pre!DeploySteps, db : Pre!Ids] /\ s.pc = step
    BY <1>2, <1>3
  <2> HIDE DEF s
  <2>3. RunInv(ref, s, branches)
    BY <1>3, <2>2 DEF RunInv, Pre!Named
  <2> QED
    BY <1>1, <1>3, <2>1, <2>2, <2>3, RunGoesOn
<1>4. ASSUME Pre!DeployEnds(ref), deploy[ref].pc # "idle", failures' \in 0..MaxFailures,
             UNCHANGED <<branches, deployments, settings, job, made, pushes>>
      PROVE  PreviewInv'
  <2>1. RunInv(ref, Pre!NoDeploy, branches) /\ Pre!NoDeploy.pc = "idle"
    BY <1>1 DEF RunInv, Pre!NoDeploy, Pre!DeploySteps
  <2> QED
    BY <1>4, <2>1, RunGoesOn DEF Pre!DeployEnds
<1>5. CASE Pre!Push(ref)
  <2> DEFINE s == [Pre!NoDeploy EXCEPT !.pc = "get"]
  <2>1. /\ deploy' = [deploy EXCEPT ![ref] = s] /\ pushes' = pushes + 1
        /\ pushes < MaxPushes
        /\ UNCHANGED <<branches, deployments, settings, job, made, failures>>
    BY <1>5 DEF Pre!Push
  <2>2. s.pc = "get" /\ s \in [pc : Pre!DeploySteps, db : Pre!Ids]
    BY <1>1 DEF Pre!NoDeploy, Pre!DeploySteps
  <2> HIDE DEF s
  <2>3. \A q \in Refs : deploy'[q] = IF q = ref THEN s ELSE deploy[q]
    BY <2>1 DEF PreviewInv
  <2>4. deploy' = [q \in Refs |-> deploy'[q]]
    BY <2>1 DEF PreviewInv
  <2>5. \A q \in Refs : RunInv(q, deploy'[q], branches')
    BY <2>1, <2>2, <2>3 DEF PreviewInv, RunInv
  <2>6. ASSUME NEW w \in Owed(deploy')
        PROVE  w \in (Owed(deploy) \cup {<<ref, 1>>}) \cup {<<ref, 2>>}
    <3>1. w \in Refs \X {1, 2}
      BY <2>6 DEF Owed
    <3>2. CASE w[1] = ref
      BY <3>1, <3>2
    <3>3. CASE w[1] # ref
      BY <2>3, <2>6, <3>1, <3>3 DEF Owed
    <3> QED
      BY <3>2, <3>3
  <2>7. IdsInv(deploy', made', pushes')
    <3>1. IdsInv(deploy, made, pushes) /\ pushes + 1 <= MaxPushes
      BY <1>1, <2>1 DEF PreviewInv
    <3> QED
      BY <1>1, <2>1, <2>6, <3>1, PushOwes
  <2> QED
    BY <2>1, <2>4, <2>5, <2>7 DEF PreviewInv
<1>6. CASE Pre!GetBranch(ref)
  BY <1>3, <1>6 DEF Pre!GetBranch, Pre!Deploying, Pre!DeploySteps
\* The name is free, and was free since the run looked.
<1>7. CASE Pre!CreateBranch(ref)
  <2> DEFINE b == [id |-> made + 1, ref |-> ref, age |-> 0]
             s == [deploy[ref] EXCEPT !.pc = "wait"]
  <2>1. /\ deploy[ref].pc = "create" /\ branches' = branches \cup {b}
        /\ made' = made + 1 /\ deploy' = [deploy EXCEPT ![ref] = s]
        /\ UNCHANGED <<deployments, settings, job, pushes, failures>>
    BY <1>7 DEF Pre!CreateBranch, Pre!Deploying, Pre!DeployTo
  <2>2. s.pc = "wait" /\ s \in [pc : Pre!DeploySteps, db : Pre!Ids]
    BY <1>2 DEF Pre!DeploySteps
  <2>3. <<ref, 2>> \in Owed(deploy)
    BY <2>1 DEF Owed
  <2>4. made + 1 \in Pre!Ids /\ made + 1 \in Nat /\ made <= made + 1
    BY <1>1, <2>3
  <2>5. b \in Pre!Branch /\ b.id = made + 1 /\ b.ref = ref
    BY <1>1, <2>4 DEF Pre!Branch
  <2> HIDE DEF b, s
  <2>6. \A q \in Refs : deploy'[q] = IF q = ref THEN s ELSE deploy[q]
    BY <2>1 DEF PreviewInv
  <2>7. deploy' = [q \in Refs |-> deploy'[q]]
    BY <2>1 DEF PreviewInv
  <2>8. BranchesInv(branches', made')
    <3>1. \A c \in branches : c.ref # ref /\ c.id \in Nat /\ c.id <= made
      BY <1>2, <2>1 DEF RunInv, BranchesInv, Pre!Branch, Pre!Ids
    <3>2. \A c \in branches : c.id # made + 1 /\ c.id <= made + 1
      BY <1>1, <3>1
    <3> QED
      BY <1>2, <2>1, <2>4, <2>5, <3>1, <3>2 DEF BranchesInv
  <2>9. DeploymentsInv(deployments', made')
    <3>1. \A d \in deployments : d.id \in Nat
      BY <1>2 DEF DeploymentsInv, Pre!Deployment, Pre!Ids
    <3> QED
      BY <1>1, <1>2, <2>1, <3>1 DEF DeploymentsInv
  <2>10. \A q \in Refs : RunInv(q, deploy'[q], branches')
    <3>1. ASSUME NEW q \in Refs, q # ref PROVE RunInv(q, deploy'[q], branches')
      BY <2>1, <2>5, <2>6, <3>1 DEF RunInv, PreviewInv
    <3> QED
      BY <2>2, <2>6, <3>1 DEF RunInv
  <2>11. \A j \in Pre!Jobs : JobInv(j, job'[j], branches', deployments', made')
    <3>1. Follows(branches, branches', made)
      BY <1>1, <2>1, <2>5 DEF Follows
    <3> QED
      BY <2>1, <2>4, <2>8, <2>9, <3>1, FollowSame, JobsFollow
  <2>12. IdsInv(deploy', made', pushes')
    <3>1. Owed(deploy') \subseteq Owed(deploy) /\ <<ref, 2>> \notin Owed(deploy')
      <4>1. ASSUME NEW w \in Owed(deploy') PROVE w \in Owed(deploy) /\ w # <<ref, 2>>
        <5>1. w \in Refs \X {1, 2} /\ w[1] \in Refs
          BY <4>1 DEF Owed
        <5> QED
          BY <2>1, <2>2, <2>6, <4>1, <5>1 DEF Owed
      <4> QED
        BY <4>1
    <3> QED
      BY <2>1, <2>3, <3>1, RunSteps DEF PreviewInv
  <2> QED
    BY <2>1, <2>7, <2>8, <2>9, <2>10, <2>11, <2>12 DEF PreviewInv
<1>8. CASE Pre!BranchReady(ref)
  BY <1>1, <1>3, <1>4, <1>8 DEF Pre!BranchReady, Pre!Deploying, Pre!DeploySteps
<1>9. CASE Pre!ConnectionString(ref)
  <2>1. ASSUME NEW b \in Pre!Named(ref),
               deploy' = [deploy EXCEPT ![ref] = [pc |-> "migrate", db |-> b.id]]
        PROVE  PreviewInv'
    <3>1. RunInv(ref, [pc |-> "migrate", db |-> b.id], branches)
      BY <1>2, <2>1 DEF RunInv, Pre!Named, BranchesInv, Pre!Branch, Pre!DeploySteps
    <3> QED
      BY <1>1, <1>9, <2>1, <3>1, RunGoesOn DEF Pre!ConnectionString, Pre!Deploying
  <2> QED
    BY <1>1, <1>4, <1>9, <2>1 DEF Pre!ConnectionString, Pre!Deploying
<1>10. CASE Pre!Migrate(ref)
  BY <1>1, <1>3, <1>4, <1>10 DEF Pre!Migrate, Pre!Deploying, Pre!DeploySteps
<1>11. CASE Pre!Deploy(ref)
  <2> DEFINE d == [id |-> made + 1, ref |-> ref, production |-> FALSE,
                   db |-> deploy[ref].db, age |-> 0]
  <2>1. /\ deploy[ref].pc = "deploy" /\ deployments' = deployments \cup {d}
        /\ made' = made + 1 /\ deploy' = [deploy EXCEPT ![ref] = Pre!NoDeploy]
        /\ UNCHANGED <<branches, settings, job, pushes, failures>>
    BY <1>11 DEF Pre!Deploy, Pre!Deploying, Pre!DeployEnds
  <2>2. /\ Pre!NoDeploy.pc = "idle"
        /\ Pre!NoDeploy \in [pc : Pre!DeploySteps, db : Pre!Ids]
    BY <1>1 DEF Pre!NoDeploy, Pre!DeploySteps
  <2>3. <<ref, 1>> \in Owed(deploy)
    BY <2>1 DEF Owed
  <2>4. made + 1 \in Pre!Ids /\ made + 1 \in Nat /\ made <= made + 1
    BY <1>1, <2>3
  <2>5. d \in Pre!Deployment /\ d.id = made + 1
    BY <1>1, <1>2, <2>4 DEF Pre!Deployment
  <2> HIDE DEF d
  <2>6. \A q \in Refs : deploy'[q] = IF q = ref THEN Pre!NoDeploy ELSE deploy[q]
    BY <2>1 DEF PreviewInv
  <2>7. deploy' = [q \in Refs |-> deploy'[q]]
    BY <2>1 DEF PreviewInv
  <2>8. BranchesInv(branches', made')
    <3>1. \A b \in branches : b.id \in Nat
      BY <1>2 DEF BranchesInv, Pre!Branch, Pre!Ids
    <3> QED
      BY <1>1, <1>2, <2>1, <3>1 DEF BranchesInv
  <2>9. DeploymentsInv(deployments', made')
    <3>1. \A e \in deployments : e.id \in Nat /\ e.id <= made
      BY <1>2 DEF DeploymentsInv, Pre!Deployment, Pre!Ids
    <3>2. \A e \in deployments : e.id # made + 1 /\ e.id <= made + 1
      BY <1>1, <3>1
    <3> QED
      BY <1>2, <2>1, <2>4, <2>5, <3>2 DEF DeploymentsInv
  <2>10. \A q \in Refs : RunInv(q, deploy'[q], branches')
    BY <2>1, <2>2, <2>6 DEF RunInv, PreviewInv
  <2>11. \A j \in Pre!Jobs : JobInv(j, job'[j], branches', deployments', made')
    <3>1. DeploymentsFollow(deployments, deployments', made)
      BY <1>1, <2>1, <2>5 DEF DeploymentsFollow
    <3> QED
      BY <2>1, <2>4, <2>8, <2>9, <3>1, FollowSame, JobsFollow
  <2>12. IdsInv(deploy', made', pushes')
    <3>1. Owed(deploy') \subseteq Owed(deploy) /\ <<ref, 1>> \notin Owed(deploy')
      <4>1. ASSUME NEW w \in Owed(deploy') PROVE w \in Owed(deploy) /\ w # <<ref, 1>>
        <5>1. w \in Refs \X {1, 2} /\ w[1] \in Refs
          BY <4>1 DEF Owed
        <5> QED
          BY <2>1, <2>2, <2>6, <4>1, <5>1 DEF Owed
      <4> QED
        BY <4>1
    <3> QED
      BY <2>1, <2>3, <3>1, RunSteps DEF PreviewInv
  <2> QED
    BY <2>1, <2>7, <2>8, <2>9, <2>10, <2>11, <2>12 DEF PreviewInv
<1>12. CASE Pre!DeployFails(ref)
  <2>1. failures' \in 0..MaxFailures
    BY <1>1, <1>12 DEF Pre!DeployFails
  <2> QED
    BY <1>4, <1>12, <2>1 DEF Pre!DeployFails, Pre!Deploying
<1> QED
  BY <1>5, <1>6, <1>7, <1>8, <1>9, <1>10, <1>11, <1>12 DEF Pre!DeployStep

\* Nothing that a job lists or deletes is out of its reach.
LEMMA JobsKeep ==
  ASSUME Pre!PreviewAssumption, PreviewInv, NEW j \in Pre!Jobs,
         \/ Pre!StartJanitor(j)
         \/ \E ref \in Refs : Pre!StartCleanup(j, ref)
         \/ Pre!JobStep(j) \/ Pre!JobFails(j)
  PROVE  PreviewInv'
<1>1. /\ made \in Nat /\ failures \in 0..MaxFailures /\ MaxFailures \in Nat
      /\ settings \subseteq Refs
      /\ BranchesInv(branches, made) /\ DeploymentsInv(deployments, made)
      /\ JobInv(j, job[j], branches, deployments, made) /\ job[j] \in JobSlot
      /\ NoRef \notin Refs /\ Protected \subseteq Refs
  BY DEF PreviewInv, JobInv, IdsInv, Pre!PreviewAssumption
<1>2. ASSUME Pre!JobEnds(j), UNCHANGED <<branches, deployments, deploy, made, pushes>>,
             settings' \subseteq Refs, failures' \in 0..MaxFailures
      PROVE  PreviewInv'
  BY <1>1, <1>2, NoJobHolds, JobGoesOn DEF Pre!JobEnds
<1>3. CASE Pre!StartJanitor(j)
  <2> DEFINE s == [job[j] EXCEPT !.pc = "branches"]
  <2>1. /\ j \notin Cleaners /\ job[j].pc = "idle" /\ job' = [job EXCEPT ![j] = s]
        /\ UNCHANGED <<branches, deployments, settings, deploy, made, pushes, failures>>
    BY <1>3 DEF Pre!StartJanitor, Pre!JobAt, Pre!PreviewAssumption
  <2>2. s \in JobSlot /\ s.pc = "branches" /\ s.todo = job[j].todo
        /\ s.horizon = job[j].horizon
    BY <1>1 DEF JobSlot, Pre!JobSteps
  <2> HIDE DEF s
  <2>3. JobInv(j, s, branches, deployments, made)
    BY <1>1, <2>1, <2>2 DEF JobInv
  <2> QED
    BY <1>1, <2>1, <2>3, JobGoesOn
<1>4. ASSUME NEW ref \in Refs, Pre!StartCleanup(j, ref)
      PROVE  PreviewInv'
  <2> DEFINE s == [job[j] EXCEPT !.pc = "branches", !.ref = ref]
  <2>1. /\ ref \in Refs \ Protected /\ job[j].pc = "idle"
        /\ job' = [job EXCEPT ![j] = s]
        /\ UNCHANGED <<branches, deployments, settings, deploy, made, pushes, failures>>
    BY <1>4 DEF Pre!StartCleanup, Pre!JobAt, Pre!CleanupTarget
  <2>2. s \in JobSlot /\ s.pc = "branches" /\ s.todo = job[j].todo
        /\ s.horizon = job[j].horizon /\ s.ref = ref
    BY <1>1 DEF JobSlot, Pre!JobSteps
  <2> HIDE DEF s
  <2>3. JobInv(j, s, branches, deployments, made)
    BY <1>1, <2>1, <2>2 DEF JobInv
  <2> QED
    BY <1>1, <2>1, <2>3, JobGoesOn
\* The branches listed have the ref of the job, or are past the TTL.
<1>5. CASE Pre!ListBranches(j)
  <2> DEFINE T == {b.id : b \in Pre!DoomedBranches(j)}
             s == [job[j] EXCEPT !.pc = "deleteBranches", !.horizon = made, !.todo = T]
  <2>1. /\ job[j].pc = "branches" /\ job' = [job EXCEPT ![j] = s]
        /\ UNCHANGED <<branches, deployments, settings, deploy, made, pushes, failures>>
    BY <1>5 DEF Pre!ListBranches, Pre!JobAt
  <2>2. \A b \in Pre!DoomedBranches(j) :
          /\ b \in branches /\ b.ref # NoRef
          /\ b.age > TTL \/ b.ref \in {job[j].ref} \ Protected
    BY <1>1, <2>1 DEF Pre!DoomedBranches, Pre!Named, JobInv
  <2>3. \A b \in branches : b.id \in 0..made
    BY <1>1 DEF BranchesInv, Pre!Branch, Pre!Ids
  <2>4. T \subseteq 0..made /\ T \subseteq Nat
    BY <2>2, <2>3
  <2>5. \A b \in branches : b.id \in T => b \in Pre!DoomedBranches(j)
    BY <1>1, <2>2 DEF BranchesInv
  <2> HIDE DEF T
  <2>6. s \in JobSlot /\ s.pc = "deleteBranches" /\ s.todo = T /\ s.horizon = made
        /\ s.ref = job[j].ref
    BY <1>1, <2>4 DEF JobSlot, Pre!JobSteps
  <2> HIDE DEF s
  <2>7. \A b \in branches : b.id \in s.todo => Condemned(s, b) /\ b.ref # NoRef
    BY <2>2, <2>5, <2>6 DEF Condemned
  <2>8. JobInv(j, s, branches, deployments, made)
    BY <1>1, <2>1, <2>4, <2>6, <2>7 DEF JobInv
  <2> QED
    BY <1>1, <2>1, <2>8, JobGoesOn
<1>6. CASE Pre!DeleteBranch(j)
  <2>1. PICK id \in job[j].todo :
          /\ branches' = {b \in branches : b.id # id}
          /\ IF Pre!Exists(id) THEN job' = [job EXCEPT ![j].todo = @ \ {id}]
             ELSE Pre!JobEnds(j)
    BY <1>6 DEF Pre!DeleteBranch
  <2>2. /\ job[j].pc = "deleteBranches"
        /\ UNCHANGED <<deployments, settings, deploy, made, pushes, failures>>
    BY <1>6 DEF Pre!DeleteBranch, Pre!JobAt
  <2> DEFINE s == [job[j] EXCEPT !.todo = job[j].todo \ {id}]
  <2>3. job' = [job EXCEPT ![j] = s] \/ job' = [job EXCEPT ![j] = Pre!NoJob]
    BY <2>1 DEF Pre!JobEnds
  <2>4. /\ s \in JobSlot /\ s.pc = "deleteBranches" /\ s.todo = job[j].todo \ {id}
        /\ s.horizon = job[j].horizon /\ s.ref = job[j].ref
    BY <1>1, <2>2 DEF JobSlot
  <2> HIDE DEF s
  \* The parent is no preview, and is never in the list.
  <2>5. BranchesInv(branches', made')
    <3>1. Pre!Parent.id # id
      BY <1>1, <2>1, <2>2 DEF JobInv, BranchesInv, Pre!Parent
    <3> QED
      BY <1>1, <2>1, <2>2, <3>1 DEF BranchesInv
  <2>6. \A i \in Pre!Jobs : JobInv(i, job[i], branches', deployments', made')
    BY <1>1, <2>1, <2>2, <2>5, FollowSame, JobsFollow
  <2>7. /\ JobInv(j, s, branches', deployments', made')
        /\ JobInv(j, Pre!NoJob, branches', deployments', made')
    BY <1>1, <2>2, <2>4, <2>6, NoJobHolds DEF JobInv, Condemned
  <2>8. \A i \in Pre!Jobs : JobInv(i, job'[i], branches', deployments', made')
    <3>1. \A i \in Pre!Jobs : i # j => job'[i] = job[i]
      BY <2>3 DEF PreviewInv
    <3>2. job'[j] \in {s, Pre!NoJob}
      BY <2>3 DEF PreviewInv
    <3> QED
      BY <2>6, <2>7, <3>1, <3>2
  <2>9. \A ref \in Refs : RunInv(ref, deploy'[ref], branches')
    BY <2>1, <2>2 DEF RunInv, PreviewInv
  <2>10. job' = [i \in Pre!Jobs |-> job'[i]]
    BY <2>3 DEF PreviewInv
  <2> QED
    BY <1>1, <2>2, <2>5, <2>8, <2>9, <2>10 DEF PreviewInv
<1>7. CASE Pre!ListDeployments(j)
  <2> DEFINE T == {d.id : d \in Pre!DoomedDeployments(j)}
             s == [job[j] EXCEPT !.pc = "deleteDeployments", !.horizon = made, !.todo = T]
  <2>1. /\ job[j].pc = "deleteBranches" /\ job' = [job EXCEPT ![j] = s]
        /\ UNCHANGED <<branches, deployments, settings, deploy, made, pushes, failures>>
    BY <1>7 DEF Pre!ListDeployments, Pre!JobAt
  <2>2. \A d \in Pre!DoomedDeployments(j) :
          /\ d \in deployments /\ ~d.production
          /\ d.age > TTL \/ d.ref \in {job[j].ref} \ Protected
    <3>1. CASE j \in Janitors
      BY <3>1 DEF Pre!DoomedDeployments, Pre!Page
    <3>2. CASE j \notin Janitors
      BY <1>1, <2>1, <3>2 DEF Pre!DoomedDeployments, Pre!Page, JobInv, Pre!Jobs
    <3> QED
      BY <3>1, <3>2
  <2>3. \A d \in deployments : d.id \in 0..made
    BY <1>1 DEF DeploymentsInv, Pre!Deployment, Pre!Ids
  <2>4. T \subseteq 0..made /\ T \subseteq Nat
    BY <2>2, <2>3
  <2>5. \A d \in deployments : d.id \in T => d \in Pre!DoomedDeployments(j)
    BY <1>1, <2>2 DEF DeploymentsInv
  <2> HIDE DEF T
  <2>6. s \in JobSlot /\ s.pc = "deleteDeployments" /\ s.todo = T /\ s.horizon = made
        /\ s.ref = job[j].ref
    BY <1>1, <2>4 DEF JobSlot, Pre!JobSteps
  <2> HIDE DEF s
  <2>7. \A d \in deployments : d.id \in s.todo => Condemned(s, d) /\ ~d.production
    BY <2>2, <2>5, <2>6 DEF Condemned
  <2>8. JobInv(j, s, branches, deployments, made)
    BY <1>1, <2>1, <2>4, <2>6, <2>7 DEF JobInv
  <2> QED
    BY <1>1, <2>1, <2>8, JobGoesOn
<1>8. CASE Pre!DeleteDeployment(j)
  <2>1. PICK id \in job[j].todo :
          /\ deployments' = {d \in deployments : d.id # id}
          /\ IF \E d \in deployments : d.id = id
             THEN job' = [job EXCEPT ![j].todo = @ \ {id}] ELSE Pre!JobEnds(j)
    BY <1>8 DEF Pre!DeleteDeployment
  <2>2. /\ job[j].pc = "deleteDeployments"
        /\ UNCHANGED <<branches, settings, deploy, made, pushes, failures>>
    BY <1>8 DEF Pre!DeleteDeployment, Pre!JobAt
  <2> DEFINE s == [job[j] EXCEPT !.todo = job[j].todo \ {id}]
  <2>3. job' = [job EXCEPT ![j] = s] \/ job' = [job EXCEPT ![j] = Pre!NoJob]
    BY <2>1 DEF Pre!JobEnds
  <2>4. /\ s \in JobSlot /\ s.pc = "deleteDeployments" /\ s.todo = job[j].todo \ {id}
        /\ s.horizon = job[j].horizon /\ s.ref = job[j].ref
    BY <1>1, <2>2 DEF JobSlot
  <2> HIDE DEF s
  <2>5. DeploymentsInv(deployments', made')
    BY <1>1, <2>1, <2>2 DEF DeploymentsInv
  <2>6. \A i \in Pre!Jobs : JobInv(i, job[i], branches', deployments', made')
    BY <1>1, <2>1, <2>2, <2>5, FollowSame, JobsFollow
  <2>7. /\ JobInv(j, s, branches', deployments', made')
        /\ JobInv(j, Pre!NoJob, branches', deployments', made')
    BY <1>1, <2>2, <2>4, <2>6, NoJobHolds DEF JobInv, Condemned
  <2>8. \A i \in Pre!Jobs : JobInv(i, job'[i], branches', deployments', made')
    <3>1. \A i \in Pre!Jobs : i # j => job'[i] = job[i]
      BY <2>3 DEF PreviewInv
    <3>2. job'[j] \in {s, Pre!NoJob}
      BY <2>3 DEF PreviewInv
    <3> QED
      BY <2>6, <2>7, <3>1, <3>2
  <2>9. \A ref \in Refs : RunInv(ref, deploy'[ref], branches')
    BY <2>2 DEF PreviewInv
  <2>10. job' = [i \in Pre!Jobs |-> job'[i]]
    BY <2>3 DEF PreviewInv
  <2> QED
    BY <1>1, <2>2, <2>5, <2>8, <2>9, <2>10 DEF PreviewInv
<1>9. CASE Pre!DeleteVariables(j)
  BY <1>1, <1>2, <1>9 DEF Pre!DeleteVariables
<1>10. CASE Pre!JobFails(j)
  BY <1>1, <1>2, <1>10 DEF Pre!JobFails
<1> QED
  BY <1>3, <1>4, <1>5, <1>6, <1>7, <1>8, <1>9, <1>10 DEF Pre!JobStep

\* A day changes nothing but ages.
LEMMA DayKeeps ==
  ASSUME Pre!PreviewAssumption, PreviewInv, Pre!Day
  PROVE  PreviewInv'
<1>1. /\ made \in Nat /\ TTL \in Nat /\ BranchesInv(branches, made)
      /\ DeploymentsInv(deployments, made)
  BY DEF PreviewInv, IdsInv, Pre!PreviewAssumption
<1>2. /\ branches' = Pre!Older(branches) /\ deployments' = Pre!Older(deployments)
      /\ UNCHANGED <<settings, deploy, job, made, pushes, failures>>
  BY DEF Pre!Day
<1> DEFINE Aged(x) == [x EXCEPT !.age = IF x.age > TTL THEN x.age ELSE x.age + 1]
<1>3. \A S : Pre!Older(S) = {Aged(x) : x \in S}
  BY DEF Pre!Older
<1>4. ASSUME NEW b \in Pre!Branch
      PROVE  /\ Aged(b) \in Pre!Branch /\ Aged(b).id = b.id /\ Aged(b).ref = b.ref
             /\ b.age > TTL => Aged(b) = b
  BY <1>1, <1>4 DEF Pre!Branch, Pre!Ages
<1>5. ASSUME NEW d \in Pre!Deployment
      PROVE  /\ Aged(d) \in Pre!Deployment /\ Aged(d).id = d.id /\ Aged(d).ref = d.ref
             /\ Aged(d).production = d.production
             /\ d.age > TTL => Aged(d) = d
  BY <1>1, <1>5 DEF Pre!Deployment, Pre!Ages
<1> HIDE DEF Aged
<1>6. BranchesInv(branches', made')
  <2>1. Pre!Parent.age > TTL /\ Pre!Parent \in branches
    BY <1>1 DEF Pre!Parent, BranchesInv
  <2>2. Pre!Parent \in branches'
    BY <1>1, <1>2, <1>3, <1>4, <2>1 DEF BranchesInv
  <2> QED
    BY <1>1, <1>2, <1>3, <1>4, <2>2 DEF BranchesInv
<1>7. DeploymentsInv(deployments', made')
  BY <1>1, <1>2, <1>3, <1>5 DEF DeploymentsInv
<1>8. Follows(branches, branches', made) /\ DeploymentsFollow(deployments, deployments', made)
  BY <1>1, <1>2, <1>3, <1>4, <1>5
     DEF Follows, DeploymentsFollow, BranchesInv, DeploymentsInv
<1>9. \A j \in Pre!Jobs : JobInv(j, job[j], branches', deployments', made')
  BY <1>1, <1>2, <1>6, <1>7, <1>8, JobsFollow
<1>10. \A ref \in Refs : RunInv(ref, deploy[ref], branches')
  BY <1>1, <1>2, <1>3, <1>4 DEF RunInv, PreviewInv, BranchesInv
<1> QED
  BY <1>2, <1>6, <1>7, <1>9, <1>10 DEF PreviewInv

LEMMA PreviewKeeps ==
  ASSUME Pre!PreviewAssumption, PreviewInv, [Pre!Next]_Pre!vars
  PROVE  PreviewInv'
<1>1. CASE UNCHANGED Pre!vars
  BY <1>1 DEF Pre!vars, PreviewInv
<1> QED
  BY <1>1, RunsKeep, JobsKeep, DayKeeps DEF Pre!Next

-----------------------------------------------------------------------------
(* The preview environments: theorems                                        *)

\* Under the assumption PreviewEnvironments makes on its constants.
THEOREM PreviewInvariance ==
  ASSUME Pre!PreviewAssumption
  PROVE  Pre!Spec => []PreviewInv
<1>1. Pre!Init => PreviewInv
  BY PreviewInitHolds
<1>2. PreviewInv /\ [Pre!Next]_Pre!vars => PreviewInv'
  BY PreviewKeeps
<1> QED
  BY <1>1, <1>2, PTL DEF Pre!Spec

\* A ref never has two databases, and the database all others come from is
\* never lost, whatever pushes and jobs run beside each other and fail.
THEOREM PreviewTypeCorrect ==
  ASSUME Pre!PreviewAssumption
  PROVE  Pre!Spec => []Pre!TypeOK
<1>1. PreviewInv => Pre!TypeOK
  <2> SUFFICES ASSUME PreviewInv PROVE Pre!TypeOK
    OBVIOUS
  <2>1. \A ref \in Refs : deploy[ref].pc \in Pre!DeploySteps /\ deploy[ref].db \in Pre!Ids
    BY DEF PreviewInv, RunInv
  <2>2. \A j \in Pre!Jobs :
          /\ job[j].pc \in Pre!JobSteps /\ job[j].ref \in Refs \cup {NoRef}
          /\ job[j].todo \subseteq 0..job[j].horizon
    BY DEF PreviewInv, JobInv, JobSlot
  <2>3. made \in Pre!Ids /\ pushes \in 0..MaxPushes
    BY NextId DEF PreviewInv, IdsInv
  <2> QED
    BY <2>1, <2>2, <2>3 DEF PreviewInv, BranchesInv, DeploymentsInv, Pre!TypeOK
<1> QED
  BY <1>1, PreviewInvariance, PTL

\* A job deletes only what it listed, and what it listed it may delete.
THEOREM DeletedWerePreviews ==
  ASSUME Pre!PreviewAssumption
  PROVE  Pre!Spec => Pre!OnlyPreviewsDeleted
<1> DEFINE Deletes ==
      /\ \A x \in Pre!Gone(branches) \cup Pre!Gone(deployments) :
           \E j \in Pre!Jobs : job'[j] # job[j] /\ Pre!MayDelete(j, x)
      /\ \A b \in Pre!Gone(branches) : b.ref # NoRef
      /\ \A d \in Pre!Gone(deployments) : ~d.production
<1>1. PreviewInv /\ [Pre!Next]_Pre!vars => [Deletes]_Pre!vars
  <2> SUFFICES ASSUME PreviewInv, Pre!Next PROVE Deletes
    OBVIOUS
  <2>1. ASSUME branches \subseteq branches', deployments \subseteq deployments'
        PROVE  Deletes
    BY <2>1 DEF Pre!Gone
  <2>2. ASSUME NEW ref \in Refs,
               Pre!Push(ref) \/ Pre!DeployStep(ref) \/ Pre!DeployFails(ref)
        PROVE  branches \subseteq branches' /\ deployments \subseteq deployments'
    BY <2>2 DEF Pre!Push, Pre!DeployStep, Pre!DeployFails, Pre!GetBranch,
         Pre!CreateBranch, Pre!BranchReady, Pre!ConnectionString, Pre!Migrate, Pre!Deploy
  <2>3. ASSUME NEW j \in Pre!Jobs,
               \/ Pre!StartJanitor(j) \/ (\E ref \in Refs : Pre!StartCleanup(j, ref))
               \/ Pre!ListBranches(j) \/ Pre!ListDeployments(j)
               \/ Pre!DeleteVariables(j) \/ Pre!JobFails(j)
        PROVE  branches \subseteq branches' /\ deployments \subseteq deployments'
    BY <2>3 DEF Pre!StartJanitor, Pre!StartCleanup, Pre!ListBranches,
         Pre!ListDeployments, Pre!DeleteVariables, Pre!JobFails
  \* What goes has the id that leaves the list of the job.
  <2>4. ASSUME NEW j \in Pre!Jobs, Pre!DeleteBranch(j) PROVE Deletes
    <3>1. PICK id \in job[j].todo :
            /\ branches' = {b \in branches : b.id # id}
            /\ Pre!Exists(id) => job' = [job EXCEPT ![j].todo = @ \ {id}]
      BY <2>4 DEF Pre!DeleteBranch
    <3>2. job[j].pc = "deleteBranches" /\ deployments' = deployments
      BY <2>4 DEF Pre!DeleteBranch, Pre!JobAt
    <3>3. Pre!Gone(deployments) = {} /\ \A b \in Pre!Gone(branches) : b \in branches /\ b.id = id
      BY <3>1, <3>2 DEF Pre!Gone
    <3>4. ASSUME NEW b \in Pre!Gone(branches)
          PROVE  job'[j] # job[j] /\ Pre!MayDelete(j, b) /\ b.ref # NoRef
      <4>1. b \in branches /\ b.id = id
        BY <3>3
      <4>2. JobInv(j, job[j], branches, deployments, made) /\ job[j] \in JobSlot
        BY DEF PreviewInv, JobInv
      <4>3. job'[j].todo = job[j].todo \ {id}
        <5>1. job' = [job EXCEPT ![j] = [job[j] EXCEPT !.todo = job[j].todo \ {id}]]
          BY <3>1, <4>1 DEF Pre!Exists
        <5>2. job'[j] = [job[j] EXCEPT !.todo = job[j].todo \ {id}]
          BY <5>1 DEF PreviewInv
        <5> QED
          BY <4>2, <5>2 DEF JobSlot
      <4>4. id <= job[j].horizon
        BY <4>2 DEF JobInv, JobSlot
      <4> QED
        BY <3>2, <4>1, <4>2, <4>3, <4>4 DEF JobInv, Condemned, Pre!MayDelete
    <3> QED
      BY <3>3, <3>4
  <2>5. ASSUME NEW j \in Pre!Jobs, Pre!DeleteDeployment(j) PROVE Deletes
    <3>1. PICK id \in job[j].todo :
            /\ deployments' = {d \in deployments : d.id # id}
            /\ (\E d \in deployments : d.id = id) =>
                 job' = [job EXCEPT ![j].todo = @ \ {id}]
      BY <2>5 DEF Pre!DeleteDeployment
    <3>2. job[j].pc = "deleteDeployments" /\ branches' = branches
      BY <2>5 DEF Pre!DeleteDeployment, Pre!JobAt
    <3>3. /\ Pre!Gone(branches) = {}
          /\ \A d \in Pre!Gone(deployments) : d \in deployments /\ d.id = id
      BY <3>1, <3>2 DEF Pre!Gone
    <3>4. ASSUME NEW d \in Pre!Gone(deployments)
          PROVE  job'[j] # job[j] /\ Pre!MayDelete(j, d) /\ ~d.production
      <4>1. d \in deployments /\ d.id = id
        BY <3>3
      <4>2. JobInv(j, job[j], branches, deployments, made) /\ job[j] \in JobSlot
        BY DEF PreviewInv, JobInv
      <4>3. job'[j].todo = job[j].todo \ {id}
        <5>1. job' = [job EXCEPT ![j] = [job[j] EXCEPT !.todo = job[j].todo \ {id}]]
          BY <3>1, <4>1
        <5>2. job'[j] = [job[j] EXCEPT !.todo = job[j].todo \ {id}]
          BY <5>1 DEF PreviewInv
        <5> QED
          BY <4>2, <5>2 DEF JobSlot
      <4>4. id <= job[j].horizon
        BY <4>2 DEF JobInv, JobSlot
      <4> QED
        BY <3>2, <4>1, <4>2, <4>3, <4>4 DEF JobInv, Condemned, Pre!MayDelete
    <3> QED
      BY <3>3, <3>4
  <2>6. ASSUME Pre!Day PROVE Deletes
    <3>1. ASSUME NEW S, NEW x \in S, x \in Pre!Branch \/ x \in Pre!Deployment
          PROVE  \E y \in Pre!Older(S) : y.id = x.id
      <4>1. [x EXCEPT !.age = IF x.age > TTL THEN x.age ELSE x.age + 1] \in Pre!Older(S)
        BY DEF Pre!Older
      <4> QED
        BY <3>1, <4>1 DEF Pre!Branch, Pre!Deployment
    <3>2. branches \subseteq Pre!Branch /\ deployments \subseteq Pre!Deployment
      BY DEF PreviewInv, BranchesInv, DeploymentsInv
    <3>3. Pre!Gone(branches) = {} /\ Pre!Gone(deployments) = {}
      BY <2>6, <3>1, <3>2 DEF Pre!Day, Pre!Gone
    <3> QED
      BY <3>3
  <2> QED
    BY <2>1, <2>2, <2>3, <2>4, <2>5, <2>6 DEF Pre!Next, Pre!JobStep
<1> QED
  BY <1>1, PreviewInvariance, PTL DEF Pre!Spec, Pre!OnlyPreviewsDeleted
=============================================================================
