------------------------- MODULE CandidateProfiles -------------------------
(***************************************************************************)
(* The profiles of candidates and their CV files in object storage: GET    *)
(* /me/profile, which creates an empty profile, PUT /me/profile, POST and  *)
(* DELETE /me/cv, and the purge of an account (Accounts), which takes the  *)
(* row of the profile with it.  A request reads the row, may call the      *)
(* storage, which is no part of its transaction, and saves: it reads the   *)
(* row again, writes the columns in which its copy differs, and commits.   *)
(* Of the columns only cv_url is kept.  A PUT takes any text for it, and   *)
(* DELETE /me/cv makes a key out of any text: it erases that object of the *)
(* one bucket, wherever the URL leads and whoever has uploaded the object. *)
(***************************************************************************)
EXTENDS Naturals

CONSTANTS Candidates, NoOne,
          Keys,         \* the objects that file names of candidates stand for,
          Owner,        \* each of the candidate whose id is in the key
          Sent,         \* bound: what clients send as cv_url
          NoFile, Keep, Absent,
          Requests,
          Leaving,      \* bound: the candidates whose accounts may be purged
          MaxAborts     \* bound on the crashes and lost connections

\* A URL is what upload() answers, {S3_PUBLIC_BASE_URL}/{bucket}/{key}, or any
\* other text.  key is what follows its fourth slash, or all of a text with
\* fewer; an empty text is no URL, like NULL.
StorageUrls == [at : {"storage"}, key : Keys]
Files == StorageUrls \cup (Sent \ {NoFile})
Urls == Files \cup {NoFile}

ASSUME ProfilesAssumption ==
  /\ NoOne \notin Candidates /\ Owner \in [Keys -> Candidates]
  /\ {NoFile, Keep, Absent} \cap Files = {}
  /\ Keep \notin {NoFile, Absent} /\ NoFile # Absent
  /\ Leaving \subseteq Candidates /\ MaxAborts \in Nat

VARIABLES
  profile,  \* profile[c] : the committed row, its cv_url, or Absent
  bucket,   \* the objects in storage
  account,  \* account[c] : "live", "purging" : deleted, not committed, or "purged"
  tx,       \* tx[r] : progress and local variables of request r
  doubt,    \* history: how the object the row of c names came not to be there
  aborts

vars == <<profile, bucket, account, tx, doubt, aborts>>

Kinds == {"get", "put", "upload", "delete"}
Steps == {"idle", "load", "store", "erase", "select", "insert", "update", "commit"}
Causes == {"client", "stale", "crossed", "torn", "foreign"}
Doubts == Causes \cup {"none"}

\* file : the cv_url sent or Keep, what an upload will be given, or what a
\* deletion has found.  cv_url : of the profile in memory.
Idle == [user |-> NoOne, kind |-> "get", pc |-> "idle", file |-> Keep,
         cv_url |-> NoFile, locked |-> FALSE, doubt |-> "none"]

Init ==
  /\ profile = [c \in Candidates |-> Absent] /\ bucket = {}
  /\ account = [c \in Candidates |-> "live"]
  /\ tx = [r \in Requests |-> Idle]
  /\ doubt = [c \in Candidates |-> "none"] /\ aborts = 0

At(r, step) == tx[r].pc = step
Is(r, kind) == tx[r].kind = kind
User(r) == tx[r].user
Row(r) == profile[User(r)]
Saving(r) == tx[r].pc \in {"select", "insert", "update", "commit"}
Goto(r, step) == tx' = [tx EXCEPT ![r].pc = step]
Finish(r) == tx' = [tx EXCEPT ![r] = Idle]

\* Nobody looks at what comes before the key.
ExtractKey(url) == url.key

Names(c, key) == profile[c] \in StorageUrls /\ profile[c].key = key
Missing(c) == \E key \in Keys \ bucket : Names(c, key)

\* The first cause stands as long as the row names an object that is not there.
First(d, cause) == IF d = "none" THEN cause ELSE d

Doubt(new) ==
  doubt' = [c \in Candidates |-> IF Missing(c)' THEN First(doubt[c], new[c]) ELSE "none"]

Only(c, cause) == [d \in Candidates |-> IF d = c THEN cause ELSE "none"]

-----------------------------------------------------------------------------
(* Requests *)

\* The access token may outlive the account.  A PUT may send any URL, an upload
\* makes a key of the candidate's own.
Begin(r, c, kind, f) ==
  /\ At(r, "idle")
  /\ kind \in {"get", "delete"} => f = Keep
  /\ kind = "put" => f \in Sent \cup {Keep}
  /\ kind = "upload" => f \in StorageUrls /\ Owner[f.key] = c
  /\ tx' = [tx EXCEPT ![r] =
              [Idle EXCEPT !.user = c, !.kind = kind, !.pc = "load", !.file = f]]
  /\ UNCHANGED <<profile, bucket, account, doubt, aborts>>

\* Faulty variant for TypeOK: a profile without a CV is not refused.
NextStepNoCvCheck(r) ==
  CASE Row(r) = Absent -> IF tx[r].kind \in {"get", "put"} THEN "select" ELSE "idle"
    [] Is(r, "get") -> "idle"
    [] Is(r, "put") -> "select"
    [] Is(r, "upload") -> "store"
    [] OTHER -> "erase"

\* What a request does with the profile it has read: get and put make one
\* where there is none, the others answer 404, or 400 if there is no CV.
NextStep(r) ==
  CASE Row(r) = Absent -> IF tx[r].kind \in {"get", "put"} THEN "select" ELSE "idle"
    [] Is(r, "get") -> "idle"
    [] Is(r, "put") -> "select"
    [] Is(r, "upload") -> "store"
    [] OTHER -> IF Row(r) = NoFile THEN "idle" ELSE "erase"

\* Faulty variant for NamesAnObject: clear_cv is forgotten.
EditedNotCleared(r, url) ==
  IF tx[r].kind \in {"put", "upload"} /\ tx[r].file # Keep THEN tx[r].file ELSE url

\* upsert() leaves cv_url alone unless it is given one, clear_cv() empties it.
Edited(r, url) ==
  CASE Is(r, "delete") -> NoFile
    [] tx[r].kind \in {"put", "upload"} /\ tx[r].file # Keep -> tx[r].file
    [] OTHER -> url

\* A PUT edits what it has read at once.  Its client may send the URL of a file
\* that is gone, and without one it writes back what it has read.
Read(r, url) ==
  CASE Is(r, "put") ->
         [tx[r] EXCEPT !.cv_url = Edited(r, url), !.file = Keep,
            !.doubt = IF tx[r].file = Keep THEN "stale" ELSE "client"]
    [] Is(r, "delete") -> [tx[r] EXCEPT !.cv_url = url, !.file = url]
    [] OTHER -> [tx[r] EXCEPT !.cv_url = url]

Load(r) ==
  /\ At(r, "load")
  /\ IF NextStep(r) = "idle" THEN Finish(r)
     ELSE tx' = [tx EXCEPT ![r] =
            [Read(r, IF Row(r) = Absent THEN NoFile ELSE Row(r)) EXCEPT !.pc = NextStep(r)]]
  /\ UNCHANGED <<profile, bucket, account, doubt, aborts>>

\* The file is empty, too large or of a wrong type; a number is out of range.
Refuse(r) ==
  /\ At(r, "load") /\ tx[r].kind \in {"put", "upload"}
  /\ Finish(r)
  /\ UNCHANGED <<profile, bucket, account, doubt, aborts>>

Store(r) ==
  /\ At(r, "store")
  /\ bucket' = bucket \cup {tx[r].file.key}
  /\ tx' = [tx EXCEPT ![r].pc = "select", ![r].cv_url = Edited(r, @)]
  /\ UNCHANGED <<profile, account, aborts>> /\ Doubt(Only(User(r), "none"))

\* An upload that has stored the object, or a deletion that has erased one, and
\* is about to save.
Uploaded(q, key) == Is(q, "upload") /\ Saving(q) /\ tx[q].file.key = key
Erased(q) == Is(q, "delete") /\ Saving(q)

\* The deletion is of a file of the same candidate, or of somebody else's.
Blame(r, c) == IF c = User(r) THEN "crossed" ELSE "foreign"

\* _extract_key and delete_object, which does not fail when there is no such
\* object.  It may hit an object that another request has just uploaded, or
\* that the row of somebody else names.
Erase(r) ==
  /\ At(r, "erase")
  /\ UNCHANGED <<profile, account, aborts>>
  /\ LET key == ExtractKey(tx[r].file)
     IN /\ bucket' = bucket \ {key}
        /\ tx' = [q \in Requests |->
             IF q = r THEN [tx[q] EXCEPT !.pc = "select", !.cv_url = Edited(r, @)]
             ELSE IF Uploaded(q, key)
             THEN [tx[q] EXCEPT !.doubt = First(@, Blame(r, User(q)))]
             ELSE tx[q]]
        /\ Doubt([c \in Candidates |->
                    IF c # User(r) /\ Names(c, key) THEN "foreign" ELSE "none"])

\* The SELECT of save(): no row is an INSERT, a column that differs from the
\* row an UPDATE of that column, and no difference no statement at all.
Select(r) ==
  /\ At(r, "select")
  /\ Goto(r, IF Row(r) = Absent THEN "insert"
             ELSE IF tx[r].cv_url # Row(r) THEN "update" ELSE "commit")
  /\ UNCHANGED <<profile, bucket, account, doubt, aborts>>

Locked(c) == \E q \in Requests : tx[q].locked /\ User(q) = c

\* A row that has gone, or is in the way, is an error.
Write(r, fails) ==
  IF fails THEN Finish(r)
  ELSE tx' = [tx EXCEPT ![r].pc = "commit", ![r].locked = TRUE]

\* Faulty variant for HasAccount: user_id is no foreign key.
InsertUnreferenced(r) ==
  /\ At(r, "insert")
  /\ ~Locked(User(r))
  /\ Write(r, Row(r) # Absent)
  /\ UNCHANGED <<profile, bucket, account, doubt, aborts>>

\* user_id is unique and refers to users: the INSERT waits for another one and
\* for a purge that is under way, and fails if the row is there or the account
\* is not.
Insert(r) ==
  /\ At(r, "insert")
  /\ ~Locked(User(r)) /\ account[User(r)] # "purging"
  /\ Write(r, Row(r) # Absent \/ account[User(r)] = "purged")
  /\ UNCHANGED <<profile, bucket, account, doubt, aborts>>

\* The UPDATE waits for the lock of the row; of a row that has gone it raises
\* StaleDataError.
Update(r) ==
  /\ At(r, "update")
  /\ ~Locked(User(r)) /\ account[User(r)] # "purging"
  /\ Write(r, Row(r) = Absent)
  /\ UNCHANGED <<profile, bucket, account, doubt, aborts>>

Commit(r) ==
  /\ At(r, "commit")
  /\ Finish(r)
  /\ UNCHANGED <<bucket, account, aborts>>
  /\ IF tx[r].locked
     THEN /\ profile' = [profile EXCEPT ![User(r)] = tx[r].cv_url]
          /\ Doubt(Only(User(r), tx[r].doubt))
     ELSE UNCHANGED <<profile, doubt>>

\* The storage does not roll back.
Abort(r) ==
  /\ aborts < MaxAborts /\ ~At(r, "idle")
  /\ aborts' = aborts + 1
  /\ Finish(r)
  /\ UNCHANGED <<profile, bucket, account>>
  /\ Doubt(IF Erased(r) /\ Names(User(r), ExtractKey(tx[r].file))
           THEN Only(User(r), "torn") ELSE Only(User(r), "none"))

-----------------------------------------------------------------------------
(* The purge of an account: DELETE of the user, with ON DELETE CASCADE on the *)
(* profile; the files stay.                                                  *)

PurgeDelete(c) ==
  /\ c \in Leaving /\ account[c] = "live"
  /\ ~Locked(c)
  /\ account' = [account EXCEPT ![c] = "purging"]
  /\ UNCHANGED <<profile, bucket, tx, doubt, aborts>>

PurgeCommit(c) ==
  /\ account[c] = "purging"
  /\ account' = [account EXCEPT ![c] = "purged"]
  /\ profile' = [profile EXCEPT ![c] = Absent]
  /\ UNCHANGED <<bucket, tx, aborts>> /\ Doubt(Only(c, "none"))

PurgeAbort(c) ==
  /\ account[c] = "purging" /\ aborts < MaxAborts
  /\ account' = [account EXCEPT ![c] = "live"] /\ aborts' = aborts + 1
  /\ UNCHANGED <<profile, bucket, tx, doubt>>

-----------------------------------------------------------------------------

Step(r) ==
  \/ Load(r) \/ Store(r) \/ Erase(r) \/ Select(r)
  \/ Insert(r) \/ Update(r) \/ Commit(r)

Next ==
  \/ \E r \in Requests :
       \/ \E c \in Candidates, kind \in Kinds, f \in Urls \cup {Keep} :
            Begin(r, c, kind, f)
       \/ Step(r) \/ Refuse(r) \/ Abort(r)
  \/ \E c \in Candidates : PurgeDelete(c) \/ PurgeCommit(c) \/ PurgeAbort(c)

Spec == Init /\ [][Next]_vars

-----------------------------------------------------------------------------
(* Properties *)

\* Types: a profile is absent or has a URL or none.
TypeOK ==
  /\ profile \in [Candidates -> Urls \cup {Absent}] /\ bucket \subseteq Keys
  /\ account \in [Candidates -> {"live", "purging", "purged"}]
  /\ doubt \in [Candidates -> Doubts] /\ aborts \in 0..MaxAborts
  /\ \A r \in Requests :
       /\ ~At(r, "idle") => User(r) \in Candidates
       /\ tx[r].kind \in Kinds /\ tx[r].pc \in Steps
       /\ tx[r].file \in Urls \cup {Keep} /\ tx[r].cv_url \in Urls
       /\ tx[r].locked \in BOOLEAN /\ tx[r].doubt \in Doubts
       /\ At(r, "erase") => tx[r].file \in Files

\* The object a profile names can be downloaded, except while a deletion that
\* has erased it and will clear the row has not committed, and after one of
\* five things: the client sent the URL, a PUT wrote back a URL it had read
\* before a deletion, a deletion and an upload of one file crossed, a deletion
\* was cut off after the storage call, or another candidate, to whose profile
\* some URL with the same key was sent, deleted the object as a CV of their own.
NamesAnObject ==
  \A c \in Candidates : Missing(c) =>
    \/ doubt[c] # "none"
    \/ \E r \in Requests : /\ Erased(r) /\ User(r) = c
                           /\ Names(c, ExtractKey(tx[r].file))

\* There is no profile without an account: neither a purge that overtakes a
\* request nor a request that overtakes a purge leaves one behind.
HasAccount == \A c \in Candidates : account[c] = "purged" => profile[c] = Absent
=============================================================================
