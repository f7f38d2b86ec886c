# A TLA+ model of jobai-api

jobai-api is a FastAPI application over PostgreSQL (SQLAlchemy, asyncio) with Stripe, Resend,
LinkedIn, an S3-compatible store and a language model behind ports. A request is a chain of
`await`s inside one database transaction; between two awaits any other request may take a step.
What is hard to get right is therefore neither a formula nor an algorithm but the *order of
statements, commits and outside effects of several requests*. That is what this project models.

## 1. How a request is modelled

Every database module has the same shape.

* `get_async_session` (`src/app/infrastructure/config/database.py:39-47`) opens a session per
  request, commits when the handler returns, and rolls back and re-raises when it raises. The engine
  uses PostgreSQL's default isolation, READ COMMITTED, so **one SQL statement is one action** and
  reads what is committed at that moment.
* Committed tables are variables (`users`, `tokenRow`, `row`, `account`, `agent`, `profile`). A
  request in progress is a record `tx[r]` (`h[k]` for a webhook) with a program counter `pc` and the
  values the coroutine holds in local variables. `Finish` closes the session; what the request wrote but did not commit
  lives in its record only, so a rollback is simply `Finish`.
* An UPDATE or INSERT locks its row (or its key in a unique index) until the transaction ends. The
  guards `TokenFree`, `UserFree`, `RowFree`, `KeyFree`, `AgentFree` say that no other request holds the lock. A
  statement that waited re-evaluates its `WHERE` on the row committed meanwhile, as PostgreSQL does.
* `Abort(r)` is a crash, a lost connection or an unexpected exception at any point: a rollback.
  `MaxAborts` bounds it. An answer that is lost *after* the commit is a disjunct of the commit.
* `save()` of the repositories reads the row again and copies the entity's fields onto it, and the
  flush sends the columns that differ from *that* read (`DirtyColumns`, `NewLink`, `seen`, `base`).
  An entity loaded before a long await is therefore written over what was committed meanwhile.
* Where requests may wait for each other in a circle (`Accounts`, `SearchAgents`), PostgreSQL fails
  one of them: `DeadlockDetected`. Where they cannot, that is a property (`SyncsWaitInLine`) or part
  of a liveness property (`EveryRequestEnds`).
* External systems (Stripe, the mail provider, the model, the scraper, the object store, Neon,
  Vercel) are actions written from how the code uses them, marked `external` in the map.

Two abstractions hold throughout. Values (addresses, tokens, ids, plans, texts) are model values
that are only compared. A signature check, a password hash and an expiry of a JWT are decisions the
code takes before the first state change; a request they refuse changes nothing and is not a step.

## 2. Inventory

| Component | State | Operations | Interacts with | What is hard |
|---|---|---|---|---|
| password reset | `password_reset_tokens`, `users.hashed_password` | forgot, reset | mail provider; every writer of `users` | checked, claimed and used in different statements; mail before commit |
| refresh tokens | `refresh_tokens`, cookies | register, login, LinkedIn callback, refresh, logout | `users.is_active` | rotation by find-then-revoke; logout swallows exceptions |
| signup | `users`, `candidate_profiles`, `subscriptions`, Stripe objects | register, create user, LinkedIn first login | Stripe, prices | a commit in the middle, two outside calls after it |
| user rows, LinkedIn linking | `users.linkedin_id`, `is_deleted` | patch, link, LinkedIn signup, soft delete, restore, purge | everything | whole-row UPDATE from a stale read; an identity claimed twice; select-then-delete |
| billing webhooks, checkout | `subscriptions` | four Stripe events; create a checkout session | Stripe, users | unordered, repeated, concurrent deliveries; partial UPDATEs |
| prices | `billing_prices` | synchronise, look up | Stripe, signup | cache of an outside truth, lookup that expects one row |
| billing history | `invoices` | list | – | two reads of a table nothing writes |
| matching pipeline | LangGraph state of one run | five nodes and a retry edge | model, vector store, profile | error propagation, retry edge |
| match analyses | `ai_analyses` | compute, read | pipeline | a row lock held across a model call; upsert |
| profile and job index | vector table | index, search | embeddings | numeric |
| candidate profile, CV | `candidate_profiles`, bucket | get or create, edit, upload, delete, purge | object store, user rows | two stores, no common transaction; one bucket for all, and keys made of URLs clients send |
| search agents, job search | `search_agents`, `job_postings` | create, run, update, delete, search | scraper | a read kept for minutes; upserts in any order |
| preview environments | Neon branches, Vercel deployments and variables | deploy, clean up a ref, janitor | Neon, Vercel | each call may fail, jobs overlap, names are reused |
| LLM gateway, scraper | – | – | pipeline, agents | seen through what they answer |
| MCP servers, anonymizer, HTTP layer, wiring, migrations | none | – | – | pure I/O, layout or schema |

What makes each correct, in a sentence:

* **password reset** – a token pays for at most one password change, within its lifetime, together
  with the consumption of its row; a token that was not mailed is not stored.
* **refresh tokens** – rotation is all or nothing; a replay has a bounded effect; a logout is lasting.
* **signup** – one customer per account; an answered signup is complete; Stripe never has a customer
  for an account that was rolled back, and has one that no row names only after a request was cut off.
* **user rows** – a LinkedIn identity is one account's; a link is not lost to a request that knew
  it; the purge takes what was deleted long ago.
* **billing webhooks** – when everything is answered the row says what Stripe says; the row never
  describes two subscriptions at once; no event is retried for ever.
* **prices** – a signup finds one price of its plan; syncs do not deadlock.
* **matching pipeline and analyses** – no score without its sources; no error turned into a score; a
  half-done analysis is never visible; one pipeline of a pair at a time, and no more of them than
  requests were in progress at once; it ends.
* **candidate profile** – a CV that is named can be downloaded, unless one of five known things has
  happened to it; no profile without an account.
* **search agents** – bounded in number; a save changes what was asked; jobs answered are stored.
* **preview environments** – only previews are deleted, and every preview goes in the end.

## 3. Modules

| Module | Code | State and actions |
|---|---|---|
| `OneTimeToken` | – | The promise of a reset: `Deliver` the mail, `Issue` the token once it has arrived, `Redeem` it once, in its lifetime, atomically. |
| `RotatingToken` | – | The promise of a refresh token: `Issue`, `Admit` somebody who presents it, `Rotate` it in one step, `Withdraw`, `Revoke`. |
| `StoredAnalysis` | – | The promise of a scored pair: `Ask` while there is no analysis, `Answer`, which names the analysis or replaces its score, `GiveUp`. |
| `PasswordReset` | `application/auth/use_cases.py:239-318`, the token and user repositories, `PATCH /users/{id}` | `ForgotBegin`, `ForgotMailed` or `ForgotMailFails`, `ForgotCommit`; `ResetBegin` (reads the clock), `FindToken`, `Claim` (`consume_if_available`), `LoadUser`, `WriteUser`, `CommitReset`; `PatchBegin`, `WritePatch`, `CommitPatch`; `Tick`. |
| `RefreshTokens` | `application/auth/use_cases.py:70-236`, `refresh_token_sqlalchemy.py` | `Register`, `Login`, `LinkedInLogin`, `SetActive`; `RefreshBegin`, `FindStored`, `LoadUser`, `RevokeOld`, `CommitRefresh`; `LogoutBegin`, `LogoutRevoke`, `CommitLogout`, `LogoutFails`. |
| `Signup` | `application/users/use_cases.py`, `application/billing/use_cases.py:80-120`, `linkedin_callback_use_case.py`, `stripe_gateway.py` | `CheckEmail`, `InsertAccount`, `AssignFreemium` (the commit), `CreateCustomer`, `CreateSubscription`, `StoreSubscription` (the last commit), `StripeTimeout`. |
| `Accounts` | `application/users/use_cases.py`, `user_sqlalchemy.py`, `linkedin_oauth_use_case.py`, `linkedin_callback_use_case.py`, `domain/common` | A request of six kinds goes from a look at the identity (`check`) and the user (`load`) to `update()`'s own `select`, `write` (row and index keys locked), and `commit`; the purge selects its victims, then deletes them one by one; `Expire` is the passing of the retention time. |
| `BillingWebhooks` | `application/billing/use_cases.py:286-419`, `subscription_sqlalchemy.py`, `domain/billing`, and of the checkout what it sells (`Sellable`) and buys (`Purchase`) | Stripe: `Checkout`, `Change`, `Deliver`, `Redeliver`. Handlers: `ReadForCheckout`, `ReadForUpdate`, `InsertRow`, `WriteRow`, `CommitRow`. `DirtyColumns` is the ORM's flush: only columns that differ from what *this* session read. |
| `Catalogue` | `SyncBillingPricesUseCase`, `billing_price_sqlalchemy.py`, `billing_price.py`, `stripe_gateway.py` | Stripe: `Edit`. Syncs: list the newest active prices, drop what has no known plan, fail on a price without interval, upsert one by one. `ActiveByPlan` is the lookup of a signup. |
| `PricedSignups` | both, and the price between them (`billing/use_cases.py:86-119`) | The composition: `LookUpPrice` replaces the input of `AssignFreemium` by what the table says then, `BuyPrice` buys the price that was found, `NamePrice` writes it into the row of the subscription; syncs and the dashboard go on in between. |
| `MatchPipeline` | `infrastructure/ai/pipeline`, `langgraph_pipeline_adapter.py` | One action per node; the retry edge `AfterRetrieval`; `EndWithError`, `NodeRaises`, `TooManySteps`. |
| `MatchAnalyses` | `application/ai_analysis/use_cases.py:136-191`, `ai_analysis_sqlalchemy.py` | `Begin`, `Cached` or `Fresh`, `Save` (INSERT of PROCESSING, which locks), `PipelineScores` or `PipelineRaises`, `Commit` (the upsert's COMPLETED: a row that is there keeps its id and takes the new score). |
| `ScoredAnalyses` | both | The composition: between `Save` and `PipelineScores` or `PipelineRaises` the graph of `MatchPipeline` is executed node by node (`RunNode`), and its end decides which. |
| `CandidateProfiles` | `candidate_profile_use_cases.py`, `cv_use_cases.py`, `candidate_profile_sqlalchemy.py`, `s3_gateway.py` | Several candidates, the objects their file names stand for, and the URLs clients send (`Sent`). `get` (insert of an empty row), `put`, `upload` (`Store`, then save), `delete` (`Erase`, then save), each a load, a second read, a flush and a commit. `Erase` removes the object whose key `ExtractKey` makes of the URL, whoever's it is; `Purge…` is the account's deletion with its cascade. |
| `SearchAgents` | `search_agent_use_cases.py`, `search_agent_sqlalchemy.py`, `application/job_search/use_cases.py`, `job_posting_sqlalchemy.py` | `CheckExisting`; `Load`, `Scrape`, `Upsert` (one job, one lock), `Select`, `Flush`, `DeleteRow`, `Commit`; `DeadlockDetected`. |
| `PreviewEnvironments` | `infrastructure/ci/*.py` and the two workflows that call them | `Push` (cancels the run before it) and the steps of a deployment; `StartCleanup`, `StartJanitor` and the steps of a job: list branches, delete them one by one, list one page of deployments, delete them one by one, and the variables of the ref; `DeployFails`, `JobFails`, `Day`. |
| `PasswordResetProofs`, `RefreshTokensProofs`, `AccountsProofs`, `SearchAgentsProofs`, `BillingWebhooksProofs` | – | Theorems of the module each is named after. |
| `MatchAnalysesProofs` | – | Theorems of `MatchAnalyses`, of the graph inside `ScoredAnalyses`, and of the two together. |
| `SignupProofs` | – | Theorems of `Signup`, of `Catalogue` inside `PricedSignups` (`Cat!`), and of the two together. |
| `CandidateProfilesProofs` | – | Theorems of `CandidateProfiles`, and of `PreviewEnvironments` (`Pre!`): the two components that delete what another request may still use. |
| `MC…` | – | One per module that is checked: symmetry sets, or values a `.cfg` cannot write. |

How they fit together. `PasswordReset` composes the reset with the other writer of
`hashed_password`; `Accounts` is the same row seen by the writers of its link and its deletion.
`RefreshTokens` takes the issuing of a token by a registration as one step, whose own steps are in
`Signup`. `Signup` takes "the price is known" as an input; `PricedSignups` extends it with the
variables of `Catalogue` (an INSTANCE) and puts the lookup in its place. `CandidateProfiles` takes
the purge of `Accounts` as the deletion it cascades to. `ScoredAnalyses` extends `MatchAnalyses` with
the variables and the nodes of `MatchPipeline` (an INSTANCE). A step of either composition is a step of
each of its parts or leaves it alone, by the way it is written: that says nothing of the code, and is
used only to carry what is proved of a part over to the whole. What does say something is that the
whole of `ScoredAnalyses` implements `StoredAnalysis`, which knows of no lock, status or node.

A definition headed *Faulty variant for P* is a version of a definition below it with a plausible
bug (a dropped guard, a lock not waited for, a commit forgotten); with it in place P is violated.
They are not part of any specification and document what each property protects against.

## 4. What the runs check

Passing runs (`tlc -config X.cfg MCModule`); each but `RefreshRaces` and `SignupRaces`
also checks its type invariant. The types of these two are proved, and those of `Signup` are part of
`PricedTypeOK`:

| Run | Instance | What it shows |
|---|---|---|
| `PasswordResetRaces` | 1 candidate, 1 token, 3 requests of any of the three kinds, lifetime 2, clock to 2, 1 abort; `FairSpec` | `SingleUse` (one change, exactly when the row is consumed), `FreshWhenConsumed`; the refinement `ImplementsOneTimeToken`; `EveryRequestEnds`; `SomeAttemptWins` |
| `RefreshRaces` | 1 user, 4 tokens, 2 requests, 1 failure; symmetry | `RotationAtomic`, `FanOut`, `LogoutRevokes`; the refinement `ImplementsRotatingToken` |
| `SignupRaces` | 2 addresses, 3 requests of three kinds, with and without a price, 2 failures; symmetry | `AnsweredIsComplete`, `CustomerHasAccount` (with no more orphans at Stripe than failures) |
| `AccountRaces` | 2 accounts, either there at the start or not, 2 identities, 2 requests of six kinds, 1 abort; symmetry | `LinkedInUnique`, `LinkIsKept`, `PurgedWasDeleted` |
| `WebhooksDelivered` | 2 bought subscriptions and the free one, 2 handlers, 4 events, 1 repeat, 1 abort; `FairSpec` | `Converged` (in-order deliveries), `RowIsOneSubscription` (deliveries that do not overlap, in any order), `EveryEventIsAnswered` |
| `PricedSignups` | 3 prices of 2 plans, pages of 2, 2 syncs, 1 signup, 3 edits, 1 abort of a sync and 1 of the signup; symmetry | `LookupIsUnique`, `SyncsWaitInLine` (no syncs wait in a circle, of any length), `BoughtWasFreemium` |
| `ScoredAnalyses` | 2 requests, 3 ids, 1 abort, any answer of the model, 3 retries, recursion limit 25; `FairScoredSpec` | `CompletedIsGrounded`, `ScoringsBounded`, `ComputeEnds`; the refinement `ImplementsStoredAnalysis` |
| `CandidateFiles` | 2 candidates with one file name each, clients that send the URL of the second file or an outside one with its key, 2 requests of four kinds, a purge of the second account, 1 abort; symmetry | `NamesAnObject`, `HasAccount` |
| `SearchAgents` | 2 requests of five kinds, 3 agent ids, 1 setting of 2 values, 2 jobs returned in either order or none, 1 abort; symmetry | `AgentsBounded`, `AnsweredIsStored`, `SomeoneCanMove`, `ChangesWhatWasAsked` |
| `PreviewEnvironments` | a feature ref and a protected one, 1 cleaner, 1 janitor, 2 pushes, 1 failed call, a page of 1, TTL 0; `FairSpec` | `OnlyPreviewsDeleted`, `EveryPreviewExpires` |

The largest have 2.2 million distinct states (`CandidateFiles`) or 1.2 to 1.4 million
(`SearchAgents`, `PreviewEnvironments`, `PricedSignups`) and take one to two minutes.

**Why the bounds are enough to meet the interesting cases.** Three requests on one reset token give
a holder of the lock, one that waits for it after a successful check, and a PATCH on the same user; a
lifetime of 2 with clock 0..2 puts the expiry at, and one before, the moment of the claim. Two refreshes
of one token need two successors and leave two tokens to be rotated again or issued by a login. Four
events are a checkout, the creation it emits, a second checkout with its creation, or a change and a
repetition of any of these; two handlers are enough for the insert race and for two flushes of one row.
Two accounts and two identities let an identity move while another account claims it, and let two
requests wait for each other's index key. Three prices over a page of two make the page hide one; three
edits make a price, relabel it and make another, or archive the first. One signup is enough next to the
prices, because signups meet at an address only, which is what the three requests of `SignupRaces` are
for. The webhook runs have one paid plan, and Stripe reports no other status than "canceled" of what it
has activated; `RowsConverge` is proved for any number of plans and every status. Two candidates, of
whom one's file can be named by the other's profile, let a deletion reach an object of either, with or
without a race. Two jobs in two orders are the smallest deadlock; an agent needs an id, a rival id and
one that comes after a deletion. In a preview, a TTL of 0 makes an environment old after one day, a page
of one lets a kept deployment hide an old one, and two pushes give a reused branch, or a ref recreated
between a list and a delete. The recursion limit is the default of the LangGraph release in
`poetry.lock`, and `MaxRetries` the value in `nodes.py`. The bounds that stand for nothing in the
program are `Sent` (a client may send any text), `Leaving` (any account may be purged), `MaxAborts`,
`MaxFailures`, `MaxClock`, `MaxEvents`, `MaxRedeliveries`, `MaxEdits`, `MaxPushes`, `MaxPrices`,
`MaxIds` and the finiteness of tokens and ids; `OutOfTokens` and `OutOfIds` let a request that needs a
value the instance has run out of end, so that the bound does not pass for a deadlock.

**Deadlock** is checked in every run but three. In the webhook runs a Stripe that has emitted its
events and had them answered really stops, and so does the pipeline of `PipelineRetries` when it has
ended.

**Fairness.**

* Requests (`FairSpec` of `PasswordReset` and `BillingWebhooks`): strong fairness of each request's
  own steps. The event loop runs every ready coroutine, calls carry timeouts, and
  PostgreSQL queues the waiters of a row lock, so a request whose lock is free again and again gets
  it (weak fairness would let it be overtaken for ever). No fairness is assumed of `Begin`, of
  aborts, of the clock or of what Stripe does, except that an event that is not answered is delivered
  in the end (Stripe retries).
* `FairScoredSpec`: the same of a request's steps, the nodes of its pipeline among them: every call
  to the model returns or raises.
* `PreviewEnvironments`: weak fairness of `Day`, of the start of the janitor (a cron schedule) and of
  its steps. Nothing is assumed of pushes, of pull requests or of the jobs they start: they may never
  happen and may stop anywhere.

**Conditions of the properties.** Several properties hold under a condition that the model records,
because the code gives no more; each condition is as weak as TLC allowed. `RowIsOneSubscription` and
`Converged` depend on how events were delivered (`disorder`: `early`, `order`, `repeat`, `overlap`).
`LinkIsKept` excepts a request that read the row before the link was written. `PurgedWasDeleted` excepts
accounts restored after the purge selected them (`outrun`). `NamesAnObject` excepts five causes by name
(`doubt`): the client sent the URL (`client`), a PUT wrote back one it had read (`stale`), an upload and
a deletion of one file crossed (`crossed`), a deletion was cut off (`torn`), or somebody else deleted,
as a CV of theirs, a URL with the same key (`foreign`). The last takes no race. `ChangesWhatWasAsked`
speaks of requests whose two reads agree. `LookupIsUnique` speaks of plans of which Stripe never had two
active prices. `EveryPreviewExpires` excepts deployments hidden by a full page. Section 6 says what
happens when a condition fails. A hazard that a property excepts is not one it covers: the lost update,
overlapping deliveries, the restoration overtaken by a purge and the hidden page are in the models, and
`PROJECT.json` lists them without a property.

## 5. What is proved

The proof modules use nothing but the assumptions on the constants stated in the modules. Every theorem
holds for every set of users, tokens, addresses, files, ids and refs, every lifetime, every clock bound,
every number of prices, retries, pushes and aborts, and any set of requests (finite in `RefreshTokens`,
`SearchAgents` and `MatchAnalyses`, whose `FanOut`, `AgentsBounded` and `ScoringsBounded` count them).
TLC checks the same properties on the instances above. A theorem about `PreviewEnvironments` states the
property through an instance with the same constants and variables of its own
(`Pre!OnlyPreviewsDeleted`).

`PasswordResetProofs`: `TypeCorrect`, `TokensAreSingleUse`, `ConsumedTokensWereFresh`,
`StoredTokensWereMailed`, each `Spec => []P`, and `Refinement`: `Spec => ImplementsOneTimeToken`.
None of these invariants is inductive: that a token was used once exactly when its row is consumed
says nothing about a second request already past its check. `IInv` adds

* what a request knows by how far it has come (`SlotInv`): a reset that was accepted names a stored
  row and a time inside its lifetime; whoever holds the lock of a token row has the *committed* row
  still available, because the claim is the only step that takes the lock and nobody else commits
  while it is held;
* what two requests exclude (`PairInv`): no two hold the lock of one row, no two mint one token, and
  a reset that read its clock before looking up a token being stored reads a row not younger than it;
* what a row says of its history (`RowInv`).

Each action has a lemma `IInv /\ action => IInv'`; `Invariance` combines them. The refinement maps
`tokenRow` to the abstract token and the inbox to what was delivered; a mail that arrives, whether or
not the call then fails, is `Deliver`, `ForgotCommit` is `Issue`, `CommitReset` is `Redeem`, and every
other step a stutter. That `Issue` is enabled rests on the order of mail and commit: who commits a row
has had its mail accepted (`SlotInv`).

`MatchAnalysesProofs`: `TypeCorrect`, `NothingHalfDoneIsVisible` (`OnlyCompleted`),
`PipelinesAreSerial` (`OnePipeline`), `AnalysesAreStable` (`StoredIsStable`), `ScoringsAreBounded`
(`ScoringsBounded`). `OnlyCompleted` needs that a request that commits has completed, `OnePipeline` that
the lock of the row has one holder and that a request in the pipeline holds it; `IInv` is exactly these
facts. `StoredIsStable` is of what a reader can tell: the id and the
status of an analysis stay, and its score is replaced by the commit of a request that had looked
before there was one, and by nothing else. How often that may happen needs a count (`Scorings`): once
there is a row nobody begins to work any more, so what was stored and the requests still at work
(`Working`) are together at most as many as the requests, and a commit turns one into the other.

Of the composition: `ScoredTypeCorrect`, `ScoresAreGrounded` (`CompletedIsGrounded`), `Refinement`
(`ScoredSpec => ImplementsStoredAnalysis`) and `ScoredRunsAreSerial`. The refinement hides the lock, the
statuses and the graph: `Fresh` is `Ask`, the commit of a completed analysis is `Answer`, a pipeline
that raises and every rollback is `GiveUp`, and the rest are stutters. That an answer never stores a
scoring twice is because ids are new and each is one request's (`Scorings`). Three invariants meet.
`GraphInv` says what the node that is next may rely on (the scorer is reached with a profile, a job, a
context and no error; an error that was reported is still there when the run is over), which makes
`ScoreIsGrounded` an invariant of the graph for every limit of retries and of nodes. `Grounded` says
that the run of a request that is about to commit still stands as it ended, which is only so because
`OneHolder` keeps every other request from starting one.

`RefreshTokensProofs`: `TypeCorrect`, `RotationIsAtomic`, `LogoutLasts`, `FanOutIsBounded`, and
`Refinement`: `Spec => ImplementsRotatingToken`. A rotation commits long after it looked at the row,
so the invariant says what it may rely on: a request that ran `revoke()` and changed no row has a
row that is not live *now* (a row never becomes live again); a successor in preparation has no row,
no parent and no holder, and no other request prepares the same. `FanOut` needs a count: once a
token has a successor, its successors and the requests that still rotate it are together at most as
many as the requests, because nobody gets past `find` any more and each commit turns one into the
other (`FanInv`). The refinement hides the statements between a look at the row and the commit:
`FindStored` is the admission of a request, its commit the rotation, of the token it was admitted
with, even when another has revoked it by then; that is all a client can rely on, and why the
promise is not a single rotation. That a logout revokes a *live* row or nothing rests on the same
facts: the row it updated was stored, and stays (`UpdatedInv`).

`SignupProofs`: `TypeCorrect`, `AnsweredSignupsAreComplete`, `CustomersHaveAccounts`. The invariant
is that an address has at most one creator, first by the key of the unique index, after the middle
commit by the committed row (`OneCreator`), and that each step of the creator knows exactly what
Stripe has of its address (`SlotInv`). The orphans are a count of their own (`OrphanInv`): only an abort
or a lost answer of Stripe takes the creator of a customer away before its row is stored, it takes one
creator, and it adds one to the failures.

Of the composition: `PricedTypeCorrect`, `PricesAreUnique` (`LookupIsUnique`), `SyncsNeverWaitInACircle`
(`SyncsWaitInLine`), `SoldWasFreemium` (`BoughtWasFreemium`). What is proved of `Signup` and of
`Catalogue` is carried over by two lemmas that follow from the definition of `PricedNext`, and the work
is done there: `CatalogueInvariance` is an invariant of the prices alone. `SyncInv` is the order of a
sync: its list is sorted, and what it has locked is newer than everything it has still to write. In a
set of syncs that all wait for one of the set, the one that is to write the oldest price would wait for
a sync that has still an older one to write; so there is no such set, for any number of syncs. `Backed`
is what makes the lookup unique: an active row carries a plan that its price had while Stripe offered
it, and so does every entry of a list not yet written, however long ago it was fetched. `PriceInv`
follows the price of a signup through its two calls to Stripe: what was offered stays in `offered`
whatever the dashboard does, the request that is about to store has bought what it names, and the row of
the subscription is written once, by the one creator of the address.

`CandidateProfilesProofs`: `TypeCorrect`, `NoProfileOutlivesItsAccount`, `OnlySentUrlsReachOthers`,
`NamedFilesAreStored`. The first two relate each request to the account: whoever has written the row
holds a lock, and the account it belongs to is not yet deleted, because the purge waits for the lock and
a request that comes after the purge waits for it in turn and finds no row, or fails on the foreign key.
`NamesAnObject` allows a missing file while a deletion of it is under way; what has to be shown is that
such a deletion ends by clearing the name and not otherwise. `Explained` says so: a missing file has a
named doubt, or a request that has erased it, read the row that names it, and either will still update
that row or holds it updated (`Clears`); and `FileInv` that an upload names what it stored unless
somebody erased it since, which is then a doubt. `OnlySentUrlsReachOthers` bounds the cause `foreign`:
uploads, reads and write-backs put into a profile only URLs of the candidate's own keys or URLs a client
has sent (`Known`), so a deletion erases an object of somebody else through one of the latter alone.

The same module proves of `PreviewEnvironments` (under its assumption) `PreviewTypeCorrect` (a ref has
one database, and the parent is never lost) and `DeletedWerePreviews` (`OnlyPreviewsDeleted`). Jobs
delete from lists that may be long out of date; `JobInv` says why that is safe: an id is given once,
so what still has a listed id is what was listed, is no younger, and is not protected. `Owed` counts
what the deployments under way have yet to make, which bounds the ids for any number of pushes.

`AccountsProofs`: `TypeCorrect`, `IdentitiesAreUnique` (`LinkedInUnique`), `LinksAreKept`
(`LinkIsKept`), `PurgesAreDue` (`PurgedWasDeleted`). Uniqueness at the commit needs two facts
about earlier steps: once a request has its index entry no other committed row has the key
(`SlotInv`), and no two requests that are about to commit write the same key (`Pair`). Both last
because rows are locked, so that a commit changes no row or key another request holds. The two
action properties follow from what a request knows of its row when it commits: `attach_linkedin`
saw no other identity, and a victim of the purge is as it was selected or was written since.

`SearchAgentsProofs`: `TypeCorrect`, `AgentsAreBounded`, `AnswersAreStored`, `ChangesAreNarrow`.
The bound is not inductive, because a request may write back an agent that was deleted; what never
grows, except in a creation that found no agent, is the set of agents *and* of ids that requests
hold (`Held`), and such a creation leaves at most one id for each request (`CountKeeps`). The other
invariants are of locks (`RowInv`, `Pair`): while a request may write a row nobody takes it away.
`LocksNeverStall` is what `SomeoneCanMove` says of locks, without `ENABLED`: while requests are in
progress, one of them waits for no lock or some of them wait in a circle, which `DeadlockDetected`
opens. Locks of agents close no circle, since whoever has one has only its commit left.

`BillingWebhooksProofs`: `TypeCorrect`, `RowsAreConsistent`, `RowsConverge`. The first invariant
says that while no two handlers overlap one is at work and writes what it made of the committed row
(`Serial`), and that events name the plan of their subscription (`StripeInv`). Convergence is the
longest argument: `Outcome` describes, without recursion, the row that the first n events make, by
the last checkout among them and the last event about its subscription since; `OutcomeOfNext` is the
handler seen as one step, `Reached` says that the row is the outcome of what has been answered and
that the handler at work has the next event, and `LogInv` that the log says all there is to know of
Stripe. A failed delivery changes nothing of this.

**The halves of liveness that are about steps.** That something happens in the end rests on fairness
and on three facts without it: nothing is done twice for ever, somebody can always go on, and a
refusal is for a reason that does not recur. These are proved.

* `RequestsAdvance`, `WaitsAreShort` (for `EveryRequestEnds`): each statement brings a request nearer
  to its end (`Left`), since a lost claim is refused and not repeated; the lock of a token or a user
  has one holder, and a request that waits does so for one that waits for nobody, with at most one in
  between, so resets and PATCHes close no circle.
* `RunsEnd` (for `ComputeEnds`): a run that is not over has a node to execute or has reached the
  limit, and every node lowers `Fuel`, on every path through the graph.
* `RetriesSettle` (for `EveryEventIsAnswered`): a delivery ends unanswered only when it failed or when
  its INSERT came after that of another; INSERTs of the row are one at a time (`OneInsert`), the row
  stays, and a delivery that sees it does not try to insert.
* `OnlyPurgesDeadlock` (for deadlock freedom of `AccountRaces`): somebody is not blocked or there is a
  circle, which PostgreSQL opens; and every circle contains a purge, the one request that locks rows
  in no fixed order.
* `RevokedForGood` (of `RefreshTokens`): a revoked token is never live again, by whatever commits late,
  and a token never changes its user, nor a successor the user of its parent.

**Only model-checked:** every liveness property (`EveryRequestEnds`, `SomeAttemptWins`,
`EveryEventIsAnswered`, `ComputeEnds`, `EveryPreviewExpires`), because fairness is beyond the prover;
`SomeoneCanMove` as it is stated, with `ENABLED`, for the same reason; and the two violations of
section 6. Every other property of a passing run is the statement of a theorem.

## 6. Where the code and what is said of it part

Two runs violate a property taken from the repository's own words. They are kept because the
counterexample is the shortest explanation:

| Run | What happens |
|---|---|
| `WebhooksUnordered` | The event that activates a subscription arrives before its checkout, is answered and dropped; the row stays pending, and the summary the user is shown with it. |
| `PipelineRetries` | `_prev_retry_count` is never updated: once a retry has happened the edge always loops, to the recursion limit. |

The models show more, which the conditions and exceptions of the passing properties express, or
which their actions let happen. Paths are under `src/app/`.

*Accounts and sessions*

* A PATCH that read the user before a reset or a LinkedIn link commits writes all columns back, the
  old password or the missing link among them (`user_sqlalchemy.py:165`, `users_mapper.py:27-28`).
* `AuthService.login` returns a refresh token and stores no row for it (`auth/use_cases.py:166`), so
  it cannot be rotated.
* Two overlapping refreshes with one token both get a successor: the row count of `revoke` is not
  looked at. A logout that runs while a refresh of the token is in progress leaves the successor alive.
* Login, refresh and callback do not look at `is_deleted`; the purge and the restoration have no
  route. A restoration committed between the purge's SELECT and its DELETE is lost.
* A failure of Stripe after the first commit of a signup leaves an account without a subscription.

*Billing*

* A checkout delivered again sets a settled subscription back to PENDING, and two handlers of one row
  each flush the columns they changed, so it may mix two subscriptions.
* A price that Stripe archives stays active locally, since a sync lists active prices only; its
  successor then makes two active rows of the plan, `get_active_by_plan` raises where
  `billing/ports.py:75` promises "or None if not found", and every signup fails. One price without
  an interval makes the whole sync fail, and a sync sees one page of prices.
* The billing history is counted and paged in two statements.

*Analyses*

* The adapter passes a candidate id to a lookup by user id (`langgraph_pipeline_adapter.py:40`).
* An upsert that loses keeps the stored id; the answer carries an id no row has
  (`ai_analysis_sqlalchemy.py:75`).
* An analysis in flight is invisible to others: they wait for the lock and score the pair again, and
  the score that is stored is replaced, under the id it had.

*Profiles and agents*

* `DELETE /me/cv` takes for a key what follows the fourth slash of the URL in the profile
  (`cv_use_cases.py:83-86`), which a PUT may have set to any text (`schemas/candidate_profile.py:19`).
  The object of that key is erased although it is another file, also of another candidate, whose
  profile then names a CV that is gone.
* A PUT that was read before a deletion brings a deleted `cv_url` back. Objects stay in the bucket
  after a failed commit, a replacement by another file name, or a purge.
* Two first reads of a profile at the same time give one of them a 500.
* Overlapping creations give a candidate several agents, and from then on the lookup of "the" agent
  raises. A run writes back the settings it read minutes before.
* The run of an agent documents a 502 that only the search route produces.

*Previews*

* The janitor deletes the database of a young deployment when its branch is old. A cleanup that races
  a deployment of the same ref leaves an environment until the TTL. A full page of newer deployments
  hides older ones.

## 7. What is not modelled

* **Profile and job index**: an upsert of a vector and a similarity search; what matters is numeric.
  The pipeline takes its outcome as an input.
* **Billing history**: two reads of a table nothing in the application writes.
* **MCP servers**: read-only and stateless tools over the same repositories.
* **Anonymizer**: an offline, sequential transformation of a dump.
* **Migrations**: schema only; the unique keys they create are guards of the models.
* **HTTP layer, wiring**: routes are seen through the use case they call and the commit or rollback
  that ends the request; cookies, schemas, rate limits and exception formats change no state.
* **LLM gateway, scraper, Stripe, S3, Neon and Vercel clients**: seen through what a call answers, or
  that it fails, before or after having had its effect where the code can tell.
* Access tokens are stateless: nothing revokes them before they expire.

## 8. What is left

1. The conditions of section 4 as theorems of their own: that each of the five doubts of
   `NamesAnObject`, and each disorder of `Converged`, arises from no more than the race it names.
2. The purge of `Accounts` and of `CandidateProfiles` as one module.
