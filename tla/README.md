# AWS AccessBridge in TLA+

AccessBridge gives people short-lived sessions in AWS accounts. A Cloudflare Worker
serves the API and the browser application; a Durable Object and a workflow do the
periodic work; the state is in a D1 database and a KV store. The modules here model
the parts in which order, failure and time decide whether the answer is right.

All paths below are relative to the repository.

## The system, and what is hard about it

| Component | State | Operations | What makes it correct, and hard | Module |
|---|---|---|---|---|
| Credential chain (`packages/backend-services/src/credential`, `aws/assume-role`) | table `credentials`, KV cache of assumed sessions | interactive walk with early stop, cold walk, mint, cache | the answer must not depend on what is cached; every hop is an await during which rows, entries and other walks move | `CredentialChain` |
| Credential administration (`CredentialStoreService`) | the same, and `credential_cache_config` | store keys, store relationship, remove | row, cache and registration are three statements in two stores | `CredentialChain` |
| Credential refresh (`CredentialCacheRefreshTask`) | `last_cached_at` | walk the registered roles, cache their intermediate hops | races administrators and requests | `CredentialChain` |
| Cron (`CronTasksWorker`, `CollectionWorkflow`) | `currentRun` in memory, workflow instances | trigger, run two phases, answer | a run that never settles cannot be cancelled; late finishes; partial failure | `CronTasks` |
| Resource inventory (`ResourceInventoryCollectionTask`) | `resource_inventory` | upsert what was read, prune what was not | denied is not empty; overlapping sweeps | `Inventory` |
| Collection turns (`AbstractCollectionTask`) | `data_collection_config` | pick those due, try, stamp | starvation by those that always fail; daily write allowance | `Collection` |
| AWS collectors (`BaseAwsCollector` and its subclasses) | none kept | sweep the regions at once, page by page | a listing cut short must fail; one region must not spoil another | `AwsSweep`, `Listing` |
| AWS clients (`fetchWithTimeout`, `RetryingAwsClient`) | none kept | deadline, classify, wait, retry | a body that stalls; refusals retried, faults not | `AwsClient` |
| Identity (`UserIdentityService`, `AddressRegistryService`) | `user_metadata`, `user_emails` | resolve, register and link addresses, change the primary one | steps that are not atomic, retries that meet their own leftovers, concurrent claims | `Identity` |
| Teams (`TeamService`), federation names | `teams`, `team_members`, `federation_username` | membership and role, a first federation | the last administrator: check, then act | `Teams` |
| Access, accounts, maintenance | `assumable_roles`, `aws_accounts`, favorites, role configs, ... | grant, revoke, hide, list in pages, clean orphans | clean-up against concurrent grants; rows keyed in two ways | `Access` |
| Request pipeline (middleware, `IActivityAPIRoute`, `ReplayGuard`) | KV nonces | verify, guard, authenticate, validate, handle, record | read, then put; what is recorded depends on what was set on the way | `Gate` |
| Tokens (`TokenService`) | `user_access_tokens` | create, revoke | count, then insert | `Gate` |
| Audit log and its pruning | `audit_logs` | insert, delete in batches | inserts while a pass goes on | `Gate` |
| Endpoints, schemas, the calls of the web application | none | one contract in four files | tied by strings alone | `Routes` |
| Cost Explorer, state of the pages, scripts | | | see *Not modelled* | |

The Worker's cron trigger posts to the Durable Object every ten minutes. The object runs
the refresh, then the cleanups, and the two collections either itself or in a workflow
instance. A collection takes the principals whose turn it is, resolves the chain of each
from the table, reads AWS through the collectors and writes its tables. Requests pass the
pipeline, are resolved to an account, and meet the periodic work in the credential table,
the cache, and the tables of accounts.

## Modules

`AwsSweep` extends `AwsClient` and is shown to implement `Listing`; `Gate` extends `Routes`.
The others stand alone: what one takes from another is said below. `MC...` modules
instantiate them for TLC. Operators whose comment begins with "Slip" are plausible mistakes
in the definition that follows them. No specification uses them: each shows that some
property would notice.

### CredentialChain (proofs in CredentialChainProofs)

`credentials[p]` is the row of principal `p`: the kind of keys it holds and who assumes
it. `cache[p]` is its KV entry, `cacheConfig` the registrations. `walk[w]` follows one
invocation: the ARNs read so far (`trail`), where in the code it is (`pc`), the hop to
assume `next`, and the credentials in hand. `ReadRow` and `LookUp` are the loop of
`getCredentialChainToFirstCachedPrincipal`, or of the DAO's cold walk for those that do
not consult the cache; `Scan` is `findClosestCachedCredential`; `Assume` and `Store` are
one round of `assumeRoleChain`, or of the refresh or of `LeafCredentialsWalker`.
`StoreRelationship`, `InvalidateCachedCredential` and `Register` are the three steps of
a relationship write or a removal; `AdminFails` ends it between any two.
A session is known by whose it is, through which hops it was minted (`under`), and in whose
name (`owner`). A run of the refresh reads its batch once (`ReadBatch`) and walks what it has
read, registered still or not.
Left out: cryptography, ARNs, times. `Expire` may drop an entry at any moment, which
covers every expiry, every unreadable entry and every delay of KV deletion by the TTL.
Reads of KV are taken as current, although KV is eventually consistent: a stale read
is a cause of staleness on top of those found here.
Removing a row removes its registration by the foreign key, which D1 enforces
(`migrations/0032_user_identity.sql` says so; a comment in `CredentialStoreService`
assumes the contrary, and deletes it explicitly too).

The ghosts `clean`, `written` and `unpurged` record what was overlapped by a write, what
was ever related, and what is not yet invalidated; `firm`, of a session, that no row under it
was written since it was minted, nor while any of the sessions below it was. They guard no
action.

### CronTasks (proofs in BackgroundProofs)

`currentRun` is the guard. `run[r]` holds where run `r` of `onRequest` is, its age and
its answer; `task[r]` the outcome of its tasks, `instance[r]` the workflow instance
it created. `workflowBound` says whether the deployment has the workflow: it is chosen
at the start and never changes, so one run checks both deployments. `Accept` is the whole
of the check and the taking of the guard, which has no await in it. `Release` is the
`finally`. A wedged task is one whose `TaskEnds` never happens. `Evict` loses the object's
memory. A run's name may be used again once it is over and its instance has ended
(`Accept`), and `Forget` frees the name of an abandoned run: two names then stand for any
number of runs.

### Inventory (proofs in InventoryProofs)

`sweep[s]` is one `collectForAccount`: collectors still to ask, regions that have not
answered, what was read, what is to be written, what may be pruned. Collectors go one
by one, the regions of one all at once, in any order of answers; a region answers with
what the account then has, or fails, which is what `Listing` says of a collector.
`UpsertResource` and `DeleteStaleResources` are one statement each. `ResourceId` is how a
collector forms an id and `Key` the primary key, which has no region. `cloud` is AWS,
which is external. The ghost `quiet` says that nothing has disturbed a sweep.

### Collection (proofs in BackgroundProofs)

`order` is the table ordered by `last_attempt_at`, of which the first `due` have passed
the interval and the first `untried` are new. `Turn(p)` is the place of a principal in it. A
stamp moves a principal to the end. What the specification is made of is called `TurnsInit`,
`TurnsNext` and so on, as one module proves theorems of this one and of `CronTasks`.
`Begin` is the query; each principal then goes through `Collect`, the stamp of the attempt, that
of the success or that of the failure. `StampFails` is the swallowed error of either handler.
`spent` is the daily write allowance of D1. The ghost `remade` holds the principals whose row
was deleted and made again between the two stamps of one sweep.

### AwsClient, AwsSweep, Listing (proofs in AwsSweepProofs)

`call[c]` is one call of one client: `sending`, `reading` the body, `waiting` for the next
attempt, or `done`, and the outcomes so far. `Deadline` is the timer of `fetchWithTimeout`,
which spans headers and body; `Settle` is one round of `RetryingAwsClient.fetch`: the last
attempt, a refusal, or a wait that AWS asks for and that is too long end the call.
Outcomes are classes: a status (good, refused, throttled, fault) with the wait that
`Retry-After` asks for, an error that carries its own verdict, one without a message,
which is not retried, or one whose message speaks of permanent things, of transient ones, of
both or of neither. `elapsed` counts units of time
for all calls together. A client that is not wrapped is one with a single attempt: the role
is assumed by one that retries, the pages are asked for by one that does not.

`AwsSweep` is `collectAllRegions` over `paginate`: all regions at once, `walk[r]` the pages
read of a region and the tokens seen. The service pages by position: a page ends at any item
past the token it was asked with (`Pages`), is of any length, empty with a token too, or its
token is one over again; what is there changes meanwhile (`Change`). `AfterPage` ends the walk, fails it or goes on. `Collected` is the
return: a regional collector reports its failed regions, a global one throws.

`Listing` is what a collector promises: each region is answered in full, that is with all
that was there throughout and nothing that never was, or it fails; and one of the two
happens. The refinement maps a region's walk to its status, and its answer to the items
only once the walk is whole: pages read before a failure do not count as an answer.

### Identity (proofs in IdentityProofs)

An account is known by its anchor, the address it was first provisioned with, which stands
in one-to-one relation to its id. `current[u]` is the row of `user_metadata`, `registry[n]`
that of `user_emails`. `req[r]` follows a request through the reads of `load`: the registry
(`ReadRegistry`), the account by id (`Hydrate`), by current address (`ReadCurrent`), by
anchor (`ReadAnchor`); the memo of a request is that it resolves once. `EnsureUserEmailExists`
provisions a first sign-in. `change[c]` is one `setPrimaryEmail` (claim check in the registry
and among current addresses, look-up, claim, revocation, move), one `linkVerifiedEmail`, or
one run of the operator's script, whose statements are one batch (`ChangeEmail`) after two
checks. `Die` stops a change between any two steps, and a later one meets what it left.
`Init` is whatever migration `0032_user_identity.sql` makes of any set of accounts,
among them two whose addresses differ in case alone. Only `setPrimaryEmail` refuses a change to
the address the account has already; the script and a link go through with it. `seen` and
`left` are ghosts: `seen` has whom the address of a request resolved to at any moment since it came, whom it was made with
(`Made`), and the account of that very anchor that the migration gave no address (`Unmigrated`).

### Access (proofs in AccessProofs)

Grants are rows keyed by the id of an account when its writer found one, or by the address
alone; `Owner` is `resolveOwner`, `Owns` the `ownerClause` of every statement. `grants`,
`favorites`, `named` (nicknames), `rows[t]` (the accounts that table `t` has rows for),
`collected` and `credentials` are the tables. `req[q]` follows a request statement by
statement; operations of one statement are one action. `cleanup` is `cleanupOrphanedData`,
whose seven deletes settle in any order, each may fail, and each reads the grants in its own
statement. `Page` and `TotalAccounts` are the two queries behind the list of roles, `Before`
its order, and a page is cut by the `Place` of an account in that order. The foreign keys are a parameter (`ForeignKeys`), since the repository
says of D1 both that it enforces them and that it does not. `settled` is a ghost.

### Teams (proofs in TeamsProofs)

`members[<<t, u>>]` is a row of `team_members`, with the same two keys as in `Access`.
`ReadRole`, `AssertReadsRole`, `AssertCounts` and the write are four statements, as in the
code. `federate` is `getOrCreateFederationUsername`: read, `COALESCE`, read again.
The ghost `contended` holds the teams that two requests were about at once.

### Gate and Routes (proofs in GateProofs)

`requests[s]` is where a request is: its signature is checked against the window and
claimed (`ClaimReads`, `ClaimPuts`), then come the guards (`Stopped`), authentication
(`Outsider`), validation (`Invalid`), administration (`NotAdmin`), the handler (`Handle` and
what follows it) and the record in the audit log (`Record`). Middleware that shares no
state with others is one step. `nonces[g]` is until when KV keeps signature `g`; a read may
fail, find nothing bound or be behind, and lets the request pass. `tokens` counts the live
tokens of one user. `stamps` and `log` are the audit log, ever and now; `pruner` is a pass of
`AbstractPruningTask`.

What a request asks is a member of `Asks`, which `Routes` computes from four tables that the
code keeps apart: the endpoints (what the handler reads, what it answers, what it documents),
the schemas of `shared/schema/input.ts`, the registrations of the worker, and the calls of the
web services (what they send and which fields of the answer they read). An input is a set of
fields; values are told apart only where an enumeration does. `Accepts` and `Received` are
the validation and what it leaves of a body.

## Runs

| Run | Bounds | Shows |
|---|---|---|
| `ChainWrites` | 4 principals (a chain of three and another base), limit 3; a request, a refresh, an administrator with one write | whose session is served and along which chain, what may be in the cache and why it may be stale, that walks run down |
| `ChainRepointed` | the same | a violation: a chain re-pointed below a cached hop is served, though the walk of the table refuses |
| `CronRuns` | 2 runs, maximum age 2, one retry, with the workflow and without | guard, phases, answers; runs keep starting |
| `InventorySweeps` | 2 sweeps, 2 types (one global), 2 regions, 1 name, clock 0..1, 1 change | exactness, and what may be pruned |
| `CollectionTurns` | 3 principals, batch 2, 2 edits, 1 spent day, 1 sweep | nobody starves or is overtaken; no success without an attempt |
| `AwsSweeps` | a role with 2 attempts, 2 regions with one attempt a page, 2 pages, deadline 1, wait 1, waits asked for 0..2, 2 resources, 1 change | retries, the bound on the time, and the refinement of `Listing` |
| `IdentityMoves` | 4 addresses, two of them one in lower case, every set of accounts migrated; 1 request, 2 changes | who an address is, who keeps it, that nobody is locked out |
| `AccessAnswers` | 1 user, 1 role, 2 accounts, 2 operations, a clean-up of which one statement fails of itself | answers hold, clean-up spares and reports, pages make up the list |
| `TeamMembers` | 2 users, 2 teams, 3 operations, 2 at once | membership, the last administrator without a rival, one federation name |
| `TeamsLastAdmin` (violation) | the same | with a rival the last administrator goes |
| `Gate` | 2 requests at once, 3 in all, 1 signature, window 2, 1 token, retention 2, batch 1, clock 0..3; every ask of `Routes` | contract, replay, audit log, cap of tokens |
| `GateOffers` (violation) | the same | a type of resource is offered and refused |

Why these are enough. With limit 3, one write to a chain of three makes it too long, leaves
it without keys, closes a cycle or moves it to another base, before, during or after the walks
that cache its middle hop; other tables are other instances of the theorems, which also have
the collections (they neither read nor write the cache, and share nothing else with the other
walks). One write has three steps that fall between any two steps of a walk, and the ghosts tell
apart all that a second write could. A run of the cron overlaps at most one that is wedged, so two
runs suffice for every order of a late finish; an age of two separates fresh, ageing and
lapsed. Two regions and two types tell "all regions", "some region" and "the other type"
apart. A batch smaller than the number of principals is what makes starvation possible.
Two pages have a last one, one too many and one over again; two attempts a last and one
that is not; of the waits asked for, one is none, one can be afforded and one cannot. Two
addresses that differ in case, an address to move to and one of another account are the
ways in which a claim can meet a row; the second change is the rival, or the next
attempt after the first has stopped. In `Access` a request has at most four statements, and
the deletes of a clean-up fall between any two of them; tables that are written and cleaned
in the same way as the alerts are left to `Loose`. The run starts without nicknames
(`MCInit`) because they only multiply the states the deletes distinguish nothing by; they
are given during it. Two requests are what it takes to lose the last administrator, and a
third adds or promotes. Requests of `Gate` that differ only in what no step looks at are
one ask, so two slots meet every pair of kinds.

`MaxWrites`, `MaxClock`, `MaxChanges`, `MaxEdits`, `MaxSpent`, `MaxRequests`, `MaxFailures`
and `MaxTime` bound what is unbounded in the code and appear only in guards; ages saturate.
`AccountAlone`, in `Identity`, makes the changes of one account one at a time, and `ScriptAlone`
has the script run beside no other change: so its operator runs it, and no endpoint calls the
service yet. The run has both; what holds without one of them is said by the theorems.
Runs whose operations are bounded stop in the end, and check no deadlock.
Symmetry is used in the safety runs only.

### What the properties say

- `WarmAgreesWithCold`: a request that no write overlaps is served along a chain that the table
  holds, down to the base, and at the default limit of 3 the walk of the table would have served
  it, unless the session it found was undercut: a row below the cached hop was written, or a write
  overlapped the walk that cached it, or one that cached a hop below it. So these are all the ways
  in which what is cached makes an answer stale, however many writes came before. With limit 3 a
  hit can only be at the second hop, whose entry was made by a walk that went one hop further;
  from limit 4 on, hits on hits make chains longer than the limit, without any write.
- `RepointedChainIsRefused` is the claim of the comment in the code, without that exception, and
  is refuted: the write drops the entry of the principal written, not those above it.
- `WalksRunDown` bounds the awaits that a walk has left by where it is on its trail; each step of
  the walk lowers the bound and nobody else's step raises it. No fairness is needed to say so.
- `CleanEntryIsCurrent` looks at the relationship of the entry's own row, and says exactly how an
  entry may be out of date in it. A put that follows an invalidation it did not know of is the
  case that remains in the code.
- `RelatedRolesAreRegistered` is checked for one administrator: two can interleave a
  removal with a new relationship so that the removal's last statement deletes the
  registration made meanwhile.
- `YoungRunHoldsTheGuard` is what makes the identity test in the `finally` right.
- `EveryTaskIsHandled` has one exception, which is what the code does: as a step of the
  workflow, a cost collection that fails for good takes the inventory collection with it.
  Runs whose instance could not be created handle no task at all, and are excluded.
- `FullSweepIsExact` excuses rows stamped in the second the sweep began, because pruning
  compares strictly; speaks of sweeps that neither the account nor another sweep disturbed; and
  of types whose ids tell regions apart, which those of RDS do not.
- `DeniedIsNotEmpty` has no such condition.
- `EveryoneIsTried` holds with failures that never end. What makes it so is `NobodyIsOvertaken`,
  which no fairness is needed for: who waits is passed by nobody but by new rows, until it is
  stamped itself.
- `ListsWhole` is the specification of `Listing` itself, its fairness included.
  `EndsInTime` gives its liveness a number: all attempts and waits of the role, and a
  deadline for each page.
- `ResolutionWasTrue`: a resolution reads up to three tables and is not atomic, yet it names
  an account only if the address was that account's, or the account was made with it, at some
  moment of the request. That it may find nobody in between is not excluded: it can.
- `VerifiedRowKeepsOwner`, `KeepsALogin`, `LeftIsLeft`: with claims, revocations and moves of
  two changes interleaved and stopped anywhere. Two changes of one account at once would revoke
  each other's claims, and the script's claim would take a row from whoever claimed it since the
  check. `KeepsALogin` speaks of accounts that sign in
  through the registry; one that resolves by its anchor alone is not in it.
- `AnswersHold` and `MembershipHolds`: what a user was told remains so for those who come
  later, unless another request about the same row was under way. They fail if any statement
  overlooks the rows without id.
- `CleanReportIsTrue` speaks of orphans that nobody wrote for, or stored or removed the keys
  of, while the clean-up ran.
  `GrantedIsSpared` has no condition. `PagesMakeTheList` compares two queries that filter
  hidden roles each in its way: each place below the total has one account, and together
  they are the accounts of the list.
- `KeepsAnAdmin` is for teams that no two requests were about at once; `LastAdminStays`, what
  the comment in the code says, has no such condition and is refuted.
- `CollectedWasTried`: the success of a row is stamped after its attempt, so one that has data on
  record never passes for a row that was never tried, which would come first in every batch. The
  exception is a row deleted and made again between the two stamps: it is given the success of
  the row before it.
- `HandlersGetWhatTheyRead` joins the four tables of the contract. `ServedOnce` excuses reads of
  KV that failed or were behind. `LogIsTrue`: what ran is recorded, unless its insert fails, and
  the pruning removes all that is old and nothing that is young.
- The cap of tokens is in the `TypeOK` of `Gate`: one token over the limit for each request that
  counted before the others had inserted, and no more.

### Fairness

- `CredentialChain` needs none: `WalksRunDown` says of steps what would be said of time.
- `CronTasks`: time passes, the trigger comes, and the workflow engine ends a step by its
  timeout. Nothing is assumed of tasks: they may be wedged for ever. `Forget` is fair
  only so that the finite set of names does not run out.
- `Collection`: intervals end, the allowance is reset, sweeps begin and go on. Strong
  fairness of `Collect` and `Stamped` says that it is not always at the same point that a
  sweep is killed or the database fails. A principal whose collection outlives its
  invocation every time is outside this assumption: it is never stamped, stays first,
  and nothing in the code bounds it.
- `AwsSweep`: timers fire and what has settled is taken up (`OwnSteps`, and `Take` for each
  region). Nothing is expected of AWS: headers, bodies and errors may never come.

### Assumptions of the newer modules

- Timers are punctual, and time does not pass while something that has settled waits to be
  taken up: the event loop is free (`Tick`).
- The check of a stamp and the read of the nonce fall in one unit of time, and the signer's
  clock is off by less than the window (`Skew < Window`). A signature stands for everything
  it covers; signed requests are calls of `/api`.
- The JWT of Cloudflare Access, the HMAC and the digests of tokens are taken to be good.
- A statement of D1 and a `batch` are atomic, and statements of different requests interleave.

## Proofs

Proved with TLAPS for every value of the constants that the modules' named assumptions allow.
In each module the inductive invariant is a conjunction of named parts, each first checked
by TLC as an invariant of the module's run; there is a lemma for each part and group of
actions that can disturb it, and the theorems follow from the whole.

| Module | Theorem | States |
|---|---|---|
| `CredentialChainProofs` | `TypeCorrect`, `CacheIsShareable`, `InvalidationIsEnough`, `RequestsAreServedTheirTarget` | `TypeOK`, `CachedSessionsAreShareable`, `CleanEntryIsCurrent`, `ServedSessionIsTheTargets` |
| | `RegistrationsStay`, for one administrator | `RelatedRolesAreRegistered` |
| | `CacheChangesNoAnswer`, `WalksEnd` | `WarmAgreesWithCold`, `WalksRunDown` |
| `BackgroundProofs` (cron) | `TypeCorrect`, `OnlyWedgedRunsOverlap`, `NoTaskIsForgotten` | `TypeOK`, `YoungRunHoldsTheGuard`, `EveryTaskIsHandled` |
| `BackgroundProofs` (turns) | `TurnsTypeCorrect`, `SuccessWasTried`, `TurnsAreKept` | `TurnsTypeOK`, `CollectedWasTried`, `NobodyIsOvertaken` |
| `InventoryProofs` | `TypeCorrect`, `NothingDeniedIsPruned`, `QuietSweepIsExact` | `TypeOK`, `DeniedIsNotEmpty`, `FullSweepIsExact` |
| `TeamsProofs` | `TypeCorrect`, `AnswersOfMembersHold`, `NameIsForGood`, `AdminsRemain` | `TypeOK`, `MembershipHolds`, `OneFederationName`, `KeepsAnAdmin` |
| `IdentityProofs` | `TypeCorrect`, `RequestsActForTheirOwn` | `TypeOK`, `ResolutionWasTrue` |
| | `MovedAwayIsAway`, for `AccountAlone` | `LeftIsLeft` |
| | `VerifiedIsNotHandedOver`, for `ScriptAlone` | `VerifiedRowKeepsOwner` |
| | `NobodyIsLockedOut`, for both | `KeepsALogin` |
| `GateProofs` | `TypeCorrect`, `NoSignatureServesTwice`, `TheLogIsTrue` | `TypeOK`, `ServedOnce`, `LogIsTrue` |
| `AccessProofs` | `TypeCorrect`, `AnswersStay`, `ReportsAreTrue`, `GrantsAreSpared` | `TypeOK`, `AnswersHold`, `CleanReportIsTrue`, `GrantedIsSpared` |
| | `PagesAreTheList` | `PagesMakeTheList` |
| | `EveryPageIsFull` | a page of any size at any offset has as many accounts as are left for it |
| `AwsSweepProofs` | `TypeCorrect`, `FaultsAreRetried`, `SweepEndsInTime` | `TypeOK`, `RetriesWhatMayPass`, `EndsInTime` |
| | `SweepIsAListing` | the safety part of `ListsWhole` |
| | `SweepReturnsTheTruth` | a region a sweep returns as listed comes with all that was there throughout, and nothing that never was |

The arguments:

- `CredentialChain`: `IInv` has where a walk stands on its trail, what the credentials in hand
  are at each point, what the cache holds, and what the ghosts record. A walk that stores a
  session holds that of the hop it stores under, minted through a related principal; without
  that the invariant of the cache is not inductive. `RegistrationsStay` adds that between the
  first and the last step of a removal the row still names nobody, which a second
  administrator would spoil. `CacheChangesNoAnswer` adds that the
  hops a firm session was minted through are a chain of the table (`FirmInv`), which a write to
  any of their rows ends by making the session not firm; and, for limits up to 3, that a firm
  entry is one of the hop right above a base, as only the second hop of three is ever stored.
  `WalksEnd` needs of the invariant only where a walk stands on its trail and that no trail is
  longer than the limit.
- `CronTasks`: `Accept` needs the guard free or lapsed, so every other live run is old; time only
  adds to ages (`YoungRunHoldsTheGuard`). `TasksInv` says which tasks each phase, and each step of
  an instance, has behind it, and that an instance stopped short only where one failed.
- `Collection`: the order has each principal once, `due` and `untried` are places in it, and a
  sweep that is not idle has somebody to try (`TurnsTypeOK`); lemmas on `RemoveAt` and `InsertAt`
  say that what is taken out or put in leaves the others in their order (`OthersStay`,
  `TakenOut`, `PutIn`). `NobodyIsOvertaken` is one lemma for each way the order changes.
  `CollectedWasTried` needs that a sweep about to stamp the success of a principal has stamped
  its attempt, so that the row is among those tried unless it was made anew since.
- `Inventory`: what a sweep may prune it has read in full, and before its reads are over there is
  nothing to prune (`PruneInv`). For `FullSweepIsExact`, `ExactInv` compares the table with the
  account for each stage of an undisturbed sweep: what was read is what is there, what was
  upserted has a stamp that is not older than the sweep, and what is left to prune is older.
- `Teams`: rivals on a team are neither alone nor is their team uncontended (`AloneInv`); then a
  removal or demotion past its checks on a team that is not contended still has another
  administrator to leave behind (`AdminInv`), although it counted statements ago. Membership
  needs that an answered row has no request about it under way (`SettledInv`).
- `Identity`: for a request between two reads, `seen` must have whoever the later read may find:
  the present holder, a change that has claimed the address and will move, and the account of
  the anchor. For the changes, what each has found or written holds until it is over
  (`HeldInv`), in three parts: what the script has checked (needs `ScriptAlone`), what a change
  has revoked (`AccountAlone`), and what it has claimed (both). Each theorem has the hypotheses
  of the parts it uses, and TLC finds each property violated without them.
- `Gate`: an accepted signature is kept longer than its stamp is good (`NonceInv`: the life of a
  nonce covers the window on both sides); each creation that has counted has its place in the
  number of tokens already (`TokenInv`); every record younger than the retention is in
  the log, and none is older than the last pass that ended (`LogInv`).
- `Access`: a grant is keyed by an id only if its user has one, so that whoever resolves the owner
  later finds it (`AnswersInv`); what a clean-up has to itself is gone from each table it is done
  with (`CleanupInv`). The order of the list is total, so places go up along it (`PlacesGrow`)
  and map the list one to one onto the numbers below its length (`PlacesAreTaken`); pages are
  intervals of them.
- `AwsSweep`: a walk has all that was there throughout as far as its token goes, and nothing that
  never was (`WalkInv`, `ServiceInv`); the refinement maps each step of `AwsSweep` to
  `AnswerWhole`, `Fail`, `Change` or a stutter of `Listing`. The time is bounded by attempts and waits
  of the role, then by the page that the slowest region is at (`TimeInv`). `SweepReturnsTheTruth`
  adds that what is returned is what the walks had, and so is what `Inventory` takes the answer
  of a region to be before it prunes.

What they rest on, beyond that constants are of their kinds: `User`, `Slot`, `Account` (of
`Access`) and `Principal` (of `Collection`) are finite, for counting; accounts and principals
are different things (`Access`); a page is asked for by a client that does not retry, and a
global collector asks one region (`AwsSweep`), as in the code. The theorems of `Identity` for
`AccountAlone` and `ScriptAlone` are for operators who keep to that, as in the run.

Attempts at these proofs corrected the project; the first two beyond the bounds of the runs:

- `ResolutionWasTrue` did not hold with three changes or two requests: behind the first read,
  an account may claim the address that another was just made with, or one that its holder has
  left. The two are now in `seen`, and said in the property.
- `CleanReportIsTrue` did not hold with three requests: keys stored and removed during a
  clean-up leave a row it did not see. Storing and removing now counts as touching.
- `FullSweepIsExact` was about all types, those without regions in their ids too.
- The status that maps `AwsSweep` to `Listing` was a CASE whose guards could both hold, and the
  pages were defined by a maximum; both are now such that one can reason about them. The pages
  of the list of roles were cut from a sorted sequence, which a statement about places replaces.
- That nobody starves was said as liveness alone. `NobodyIsOvertaken` is its part about the order,
  and found nothing to except but new rows.

Only model-checked, and why:

- liveness (`PipelineNeverStops`, `EveryoneIsTried`, the fairness of `ListsWhole`): fairness
  and ENABLED are out of the prover's reach;
- `RelatedRolesAreRegistered` does not hold with two administrators;
- what `Routes` computes (`HandlersGetWhatTheyRead`, `GateOffers`): the tables are data.

## Where the code and its comments part

Shown by runs:

- `CredentialChainService.ts:86-89` says that a re-pointed chain cannot hide behind a hit of the
  cache, and `:101-104` that the walk with the cache and the walk of the table must agree. A write
  drops the entry of the principal written only; the hop above keeps a session minted through it,
  and a request is served over a chain that the table's walk refuses (`ChainRepointed`).
- `TeamService.ts:126-128` says that the last administrator cannot be demoted or removed. The
  check counts in one statement and the write, in another, has no condition: two requests
  leave the team without any (`TeamsLastAdmin`).
- `input.ts:188` refuses the resource type `dynamodb`, which `user/resources/GET.ts:19-20` documents
  and `ResourceInventory.tsx:94` offers (`GateOffers`).

Seen while modelling, each a condition of some property or excluded by a bound:

- From limit 4 on a warm hop below the boundary serves a chain that the cold walk refuses,
  which `CredentialChainService.ts:79-82` says only the boundary could do.
- `AssumeRoleService.ts:73` forgets the session token of a base that has one.
- `CronTasksWorker.ts:100-101` (a failing task stops no other) holds inline, not in the workflow.
- `ResourceInventoryDAO.ts:26`: an older sweep that writes last leaves its older stamp, and a
  newer sweep then prunes a row that it read itself.
- `RdsCollector.ts:39` gives an instance an id that does not tell regions apart.
- Favorites are never cleaned up, and hold their account by a foreign key: one favorite of an
  orphan makes the whole delete of `aws_accounts` fail.
- `favoriteAccount` creates the row of an account before it refuses the user who has no role in
  it; `setNickname` answers success when the row has gone meanwhile; `team_accounts` has no foreign
  key, so the account may go between its check and its insert.
- `UserEmailDAO.ts:36`: a linked address, once verified, can never become the primary one of
  its own account, as the claim finds it taken.
- EC2 pairs names with instances by their place among the tags; `IamClient.listRoles` reads
  one page of a hundred; `CostExplorerClient` returns what it has when a token repeats.
- `AUDIT_ACTIONS` has no entry for `PUT /user/me`; `POST /user/tokens` documents 201 and answers 200; one
  half of the pair of account and role is refused by the console endpoint although both are
  documented as optional; `cleanup-orphaned` does not document `failures`.

## Not modelled

- Parsing of the answers of AWS, the look-ups of tags, Cost Explorer (its paging loop is that
  of `paginate`, but for the repeated token), the sums of costs: sequential computations over one
  answer, without state.
- Building of console URLs (`federation`): a string from a session; its endpoints are in `Routes`.
- State and pages of the web application: the state of one page in one browser. The hazards of
  its hooks are listed in PROJECT.json; its calls are in `Routes`.
- Scripts other than the change of an address (checks of locales and migrations, deployment,
  backup): run by hand or in CI, outside the running system.
- The counters of the rate limiter and KV itself are the platform's. The subrequest budget of an
  invocation, logging, translations and the wording of answers change no modelled state.
- Digests and the time of last use of tokens, the fields of audit records and their queries.

## Plan

Done: `CredentialChain`, `CronTasks`, `Inventory`, `Collection`, then `AwsClient`, `AwsSweep`
over `Listing`, `Identity`, `Access`, `Teams`, `Routes` and `Gate`.

Proved: the invariants and action properties of all passing runs, but for the static contract
(`HandlersGetWhatTheyRead`), and the safety part of the refinement of `Listing`.

To do next: a bound on how far `LastAdminStays` can fail; the lemmas that several of the proof
modules state alike (a step of one request leaves the others as they are) in one place; and
shorter proofs where a leaf still needs many definitions.
