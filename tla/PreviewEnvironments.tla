------------------------ MODULE PreviewEnvironments ------------------------
(***************************************************************************)
(* The preview environments of feature branches.  A push creates or reuses *)
(* a Neon database branch and deploys the backend against it (workflow     *)
(* backend-preview, ensure_preview_branch); a newer push of the same ref   *)
(* cancels the run.  Environments go when a pull request is closed         *)
(* (cleanup_branch) and by a nightly janitor (run_janitor): each lists the *)
(* database branches and deletes some, then the deployments.  These jobs   *)
(* run beside each other and beside the pushes, any call may fail, and the *)
(* failure of a call ends its job.                                         *)
(***************************************************************************)
EXTENDS Integers, FiniteSets

CONSTANTS Refs,         \* git branches that are pushed: not main nor develop
          Protected,    \* those of them in PROTECTED_BRANCH_REFS
          NoRef,        \* of a database branch that is no preview
          TTL,          \* days
          PageSize,     \* deployments in one answer of Vercel
          Cleaners,     \* jobs for a ref: a pull request closed, or by hand
          Janitors,     \* jobs by the clock
          MaxPushes,    \* bound on the pushes
          MaxFailures   \* bound on the calls that fail

ASSUME PreviewAssumption ==
  /\ Protected \subseteq Refs /\ NoRef \notin Refs
  /\ TTL \in Nat /\ PageSize \in Nat \ {0}
  /\ Cleaners \cap Janitors = {}
  /\ MaxPushes \in Nat /\ MaxFailures \in Nat

VARIABLES
  branches,     \* database branches at Neon
  deployments,  \* deployments at Vercel
  settings,     \* refs that have variables of their own at Vercel
  deploy,       \* deploy[ref] : the run of the preview workflow
  job,          \* job[j] : the run of the cleanup workflow
  made,         \* ids given so far; a later one is a larger one
  pushes, failures

vars == <<branches, deployments, settings, deploy, job, made, pushes, failures>>

Jobs == Cleaners \cup Janitors
Ids == 0..(2 * MaxPushes)
Ages == 0..(TTL + 1)  \* in days; TTL + 1 is all above TTL

\* The ref stands for the name, sanitize_branch_name(ref): it ends in a digest
\* of the ref, so that two refs do not share a name.
Branch == [id : Ids, ref : Refs \cup {NoRef}, age : Ages]
Deployment == [id : Ids, ref : Refs, production : BOOLEAN, db : Ids, age : Ages]

DeploySteps == {"idle", "get", "create", "wait", "url", "migrate", "deploy"}
JobSteps == {"idle", "branches", "deleteBranches", "deleteDeployments"}

NoDeploy == [pc |-> "idle", db |-> 0]
\* horizon (history): the ids that existed when the job listed.
NoJob == [pc |-> "idle", ref |-> NoRef, todo |-> {}, horizon |-> 0]

\* The database branch all others are created from, and perhaps a deployment
\* of an unprotected ref that serves production.
Parent == [id |-> 0, ref |-> NoRef, age |-> TTL + 1]
InProduction(ref) ==
  [id |-> 0, ref |-> ref, production |-> TRUE, db |-> 0, age |-> TTL + 1]

Init ==
  /\ branches = {Parent}
  /\ deployments \in {{}} \cup {{InProduction(ref)} : ref \in Refs}
  /\ settings = Refs
  /\ deploy = [ref \in Refs |-> NoDeploy]
  /\ job = [j \in Jobs |-> NoJob]
  /\ made = 0 /\ pushes = 0 /\ failures = 0

-----------------------------------------------------------------------------
(* The preview workflow                                                      *)

Deploying(ref, step) == deploy[ref].pc = step
DeployTo(ref, step) == deploy' = [deploy EXCEPT ![ref].pc = step]
DeployEnds(ref) == deploy' = [deploy EXCEPT ![ref] = NoDeploy]
Named(ref) == {b \in branches : b.ref = ref}
Exists(id) == \E b \in branches : b.id = id

\* A push starts the workflow, and cancels a run for the same ref.
Push(ref) ==
  /\ pushes < MaxPushes
  /\ pushes' = pushes + 1
  /\ deploy' = [deploy EXCEPT ![ref] = [NoDeploy EXCEPT !.pc = "get"]]
  /\ UNCHANGED <<branches, deployments, settings, job, made, failures>>

\* Faulty variant for TypeOK: a branch is created without a look at the names.
GetNoBranch(ref) ==
  /\ Deploying(ref, "get")
  /\ DeployTo(ref, "create")
  /\ UNCHANGED <<branches, deployments, settings, job, made, pushes, failures>>

GetBranch(ref) ==
  /\ Deploying(ref, "get")
  /\ DeployTo(ref, IF Named(ref) = {} THEN "create" ELSE "wait")
  /\ UNCHANGED <<branches, deployments, settings, job, made, pushes, failures>>

\* Only runs for the same ref create this name, and they exclude each other.
CreateBranch(ref) ==
  /\ Deploying(ref, "create")
  /\ branches' = branches \cup {[id |-> made + 1, ref |-> ref, age |-> 0]}
  /\ made' = made + 1
  /\ DeployTo(ref, "wait")
  /\ UNCHANGED <<deployments, settings, job, pushes, failures>>

\* get and connection-string ask for the name and fail without a branch of it;
\* the URL is that of the branch that has the name now.
BranchReady(ref) ==
  /\ Deploying(ref, "wait")
  /\ IF Named(ref) = {} THEN DeployEnds(ref) ELSE DeployTo(ref, "url")
  /\ UNCHANGED <<branches, deployments, settings, job, made, pushes, failures>>

ConnectionString(ref) ==
  /\ Deploying(ref, "url")
  /\ IF Named(ref) = {} THEN DeployEnds(ref)
     ELSE \E b \in Named(ref) :
            deploy' = [deploy EXCEPT ![ref] = [pc |-> "migrate", db |-> b.id]]
  /\ UNCHANGED <<branches, deployments, settings, job, made, pushes, failures>>

Migrate(ref) ==
  /\ Deploying(ref, "migrate")
  /\ IF Exists(deploy[ref].db) THEN DeployTo(ref, "deploy") ELSE DeployEnds(ref)
  /\ UNCHANGED <<branches, deployments, settings, job, made, pushes, failures>>

\* vercel deploy; the smoke test that follows undoes nothing.
Deploy(ref) ==
  /\ Deploying(ref, "deploy")
  /\ deployments' = deployments \cup {[id |-> made + 1, ref |-> ref,
       production |-> FALSE, db |-> deploy[ref].db, age |-> 0]}
  /\ made' = made + 1
  /\ DeployEnds(ref)
  /\ UNCHANGED <<branches, settings, job, pushes, failures>>

\* A step fails, or the branch is not ready after 24 polls.
DeployFails(ref) ==
  /\ ~Deploying(ref, "idle")
  /\ failures < MaxFailures /\ failures' = failures + 1
  /\ DeployEnds(ref)
  /\ UNCHANGED <<branches, deployments, settings, job, made, pushes>>

-----------------------------------------------------------------------------
(* The cleanup workflow                                                      *)

JobAt(j, step) == job[j].pc = step
JobEnds(j) == job' = [job EXCEPT ![j] = NoJob]

\* Faulty variant for OnlyPreviewsDeleted: protected refs are not refused.
AnyTarget(ref) == ref \in Refs

\* build_cleanup_target
CleanupTarget(ref) == ref \in Refs \ Protected

StartCleanup(j, ref) ==
  /\ j \in Cleaners /\ JobAt(j, "idle")
  /\ CleanupTarget(ref)
  /\ job' = [job EXCEPT ![j].pc = "branches", ![j].ref = ref]
  /\ UNCHANGED <<branches, deployments, settings, deploy, made, pushes, failures>>

\* Every night at 2:17.
StartJanitor(j) ==
  /\ j \in Janitors /\ JobAt(j, "idle")
  /\ job' = [job EXCEPT ![j].pc = "branches"]
  /\ UNCHANGED <<branches, deployments, settings, deploy, made, pushes, failures>>

\* find_branch_by_name, or filter_stale_neon_branches
DoomedBranches(j) ==
  IF j \in Cleaners THEN Named(job[j].ref)
  ELSE {b \in branches : b.ref # NoRef /\ b.age > TTL}

ListBranches(j) ==
  /\ JobAt(j, "branches")
  /\ job' = [job EXCEPT ![j].pc = "deleteBranches", ![j].horizon = made,
               ![j].todo = {b.id : b \in DoomedBranches(j)}]
  /\ UNCHANGED <<branches, deployments, settings, deploy, made, pushes, failures>>

\* Deleting what has gone is an error (404), and ends the job.
DeleteBranch(j) ==
  /\ JobAt(j, "deleteBranches")
  /\ \E id \in job[j].todo :
       /\ branches' = {b \in branches : b.id # id}
       /\ IF Exists(id) THEN job' = [job EXCEPT ![j].todo = @ \ {id}] ELSE JobEnds(j)
  /\ UNCHANGED <<deployments, settings, deploy, made, pushes, failures>>

\* list_deployments asks for one page: the newest of the ref, or of all.
Page(j) ==
  LET asked == {d \in deployments : j \in Janitors \/ d.ref = job[j].ref} IN
    {d \in asked : Cardinality({e \in asked : e.id > d.id}) < PageSize}

\* Faulty variant for EveryPreviewExpires: cutoff and created_at are swapped.
DoomedIfYoung(j) ==
  {d \in Page(j) : /\ ~d.production
                   /\ j \in Janitors => d.ref \notin Protected /\ d.age <= TTL}

\* The loop of cleanup_branch, or filter_stale_vercel_deployments.
DoomedDeployments(j) ==
  {d \in Page(j) : /\ ~d.production
                   /\ j \in Janitors => d.ref \notin Protected /\ d.age > TTL}

ListDeployments(j) ==
  /\ JobAt(j, "deleteBranches") /\ job[j].todo = {}
  /\ job' = [job EXCEPT ![j].pc = "deleteDeployments", ![j].horizon = made,
               ![j].todo = {d.id : d \in DoomedDeployments(j)}]
  /\ UNCHANGED <<branches, deployments, settings, deploy, made, pushes, failures>>

DeleteDeployment(j) ==
  /\ JobAt(j, "deleteDeployments")
  /\ \E id \in job[j].todo :
       /\ deployments' = {d \in deployments : d.id # id}
       /\ IF \E d \in deployments : d.id = id
          THEN job' = [job EXCEPT ![j].todo = @ \ {id}] ELSE JobEnds(j)
  /\ UNCHANGED <<branches, settings, deploy, made, pushes, failures>>

\* The janitor leaves the variables of the branches alone.
DeleteVariables(j) ==
  /\ JobAt(j, "deleteDeployments") /\ job[j].todo = {}
  /\ settings' = IF j \in Cleaners THEN settings \ {job[j].ref} ELSE settings
  /\ JobEnds(j)
  /\ UNCHANGED <<branches, deployments, deploy, made, pushes, failures>>

JobFails(j) ==
  /\ ~JobAt(j, "idle")
  /\ failures < MaxFailures /\ failures' = failures + 1
  /\ JobEnds(j)
  /\ UNCHANGED <<branches, deployments, settings, deploy, made, pushes>>

-----------------------------------------------------------------------------

Older(things) ==
  {[x EXCEPT !.age = IF @ > TTL THEN @ ELSE @ + 1] : x \in things}

\* A day passes.
Day ==
  /\ \E x \in branches \cup deployments : x.age <= TTL
  /\ branches' = Older(branches) /\ deployments' = Older(deployments)
  /\ UNCHANGED <<settings, deploy, job, made, pushes, failures>>

DeployStep(ref) ==
  \/ GetBranch(ref) \/ CreateBranch(ref) \/ BranchReady(ref)
  \/ ConnectionString(ref) \/ Migrate(ref) \/ Deploy(ref)

JobStep(j) ==
  \/ ListBranches(j) \/ DeleteBranch(j)
  \/ ListDeployments(j) \/ DeleteDeployment(j) \/ DeleteVariables(j)

Next ==
  \/ \E ref \in Refs : Push(ref) \/ DeployStep(ref) \/ DeployFails(ref)
  \/ \E j \in Jobs : \/ StartJanitor(j) \/ (\E ref \in Refs : StartCleanup(j, ref))
                     \/ JobStep(j) \/ JobFails(j)
  \/ Day

Spec == Init /\ [][Next]_vars

\* Days pass, the clock starts the janitor, and its runner gets on.  Nothing is
\* assumed of pushes, of pull requests, or of the jobs they start.
FairSpec ==
  /\ Spec /\ WF_vars(Day)
  /\ \A j \in Janitors : WF_vars(StartJanitor(j)) /\ WF_vars(JobStep(j))

-----------------------------------------------------------------------------
(* Properties *)

\* Types: a ref has one database branch at most, the parent branch is never
\* lost, and a job deletes what it listed.
TypeOK ==
  /\ branches \subseteq Branch /\ Parent \in branches
  /\ deployments \subseteq Deployment
  /\ \A b, c \in branches : b.ref = c.ref => b = c
  /\ \A ref \in Refs : deploy[ref].pc \in DeploySteps /\ deploy[ref].db \in Ids
  /\ \A j \in Jobs :
       /\ job[j].pc \in JobSteps /\ job[j].ref \in Refs \cup {NoRef}
       /\ job[j].todo \subseteq 0..job[j].horizon
  /\ settings \subseteq Refs /\ made \in Ids
  /\ pushes \in 0..MaxPushes /\ failures \in 0..MaxFailures

\* Of what a job deletes, all was there when it listed (a database that a push
\* has made since under the same name stays), none serves production, and all
\* is either older than the TTL or belongs to the unprotected ref of the job.
MayDelete(j, x) ==
  /\ x.id <= job[j].horizon
  /\ x.age > TTL \/ x.ref \in {job[j].ref} \ Protected
Gone(things) == {x \in things : \A y \in things' : y.id # x.id}
OnlyPreviewsDeleted ==
  [][/\ \A x \in Gone(branches) \cup Gone(deployments) :
          \E j \in Jobs : job'[j] # job[j] /\ MayDelete(j, x)
     /\ \A b \in Gone(branches) : b.ref # NoRef
     /\ \A d \in Gone(deployments) : ~d.production]_vars

\* Without further pushes every database of a preview goes in the end, and so
\* does every deployment, unless it serves production, is of a protected ref,
\* or is kept off the page by newer ones of these two kinds: whatever pull
\* requests do and wherever earlier jobs were cut off.
Kept(d) == d.production \/ d.ref \in Protected
Hidden(d) ==
  Cardinality({e \in deployments : e.id > d.id /\ Kept(e)}) >= PageSize
EveryPreviewExpires ==
  <>[](/\ branches = {Parent}
       /\ \A d \in deployments : Kept(d) \/ Hidden(d))
=============================================================================
