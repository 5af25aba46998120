# Character Relay in TLA+

Character Relay runs AI Characters in Discord rooms. A Python service (the *Core*,
`src/src/echo_masque`) decides who speaks, calls models and tools, and keeps every durable
record in PostgreSQL. A Node process (the *connector*, `src/connectors/discord`) receives
Discord events and is the only one that posts replies. The two talk HTTP; a second Python
process (the *fabric worker*) does the derived work of the Knowledge Fabric. What makes the
system hard to get right is that a reply is a side effect that cannot be taken back, decided
in one process, carried out in another, and recorded in the first again.

This project models the protocols that protect those side effects and the records beside them,
checks them with TLC on small instances, and proves the safety properties that matter most with
TLAPS for every value of the constants.

## Inventory

Paths are below `src/src/echo_masque` unless they name the connector. `PROJECT.json` has the
same list with all sources, and every hazard with the line where it bites.

### Turns and delivery

| Component | State | Operations | Hard behaviour | What makes it correct | Module |
|---|---|---|---|---|---|
| Durability ledger (`persistence/runtime_durability_repository.py`) | operation (status, cursor), step (status, draft, claim nonce, receipts), side-effect slot | claim operation; prepare, complete, fail a step; claim, acknowledge, doubt a delivery; claim, complete, release a slot; offline recovery | a claim is validated in one statement and written in another, by several callers | one send and one mutation per step; no checkpoint past an unacknowledged send | `RuntimeLedger` |
| Turn jobs (`turn_jobs.py`, `persistence/turn_job_repository.py`) | job rows, bounded queue, worker tasks, progress lines | submit, run, complete, fail, expire, cancel, stop, claim and acknowledge a line, final notice, recovery scan | crash or deadline in the middle of a generation, lost claims, cancellation racing the result | a line and an ending are spoken once; every turn ends | `TurnJobs`, `SocialTurn` |
| Draft preflight (`draft_runtime.py`, `draft_freshness.py`) | status and text of a generated step | reserve, keep, silence, save | the room changes while a draft waits; a refresh replaces the text | the text sent is the text claimed | `SocialTurn` |
| Social turn graph and interruption (`orchestration/social_turn_graph.py`, `api/routes/social_turn_interrupt.py`) | cursor: queue, index, completed, invitations | admit, expand, advance, cancel | silence, invitations, budgets; a human racing a claim | the cursor counts exactly the delivered replies; an interruption loses against a claim and wins against a draft | `SocialCursor`, `SocialTurn` |
| Tool side effects (`tool_runtime.py`) | idempotency slot | claim, execute, complete or release | a step generated again after it mutated something | one mutation per step | `SocialTurn` |
| Connector social loop and delivery (`index.ts`, `delivery.ts`, `draftPreflight.ts`, `turnJobs.ts`) | local cursor, nonce and reply; publication lock of the room | open, submit, consume, preflight, claim, send, acknowledge, report, yield, resume | lost responses, partial sends, two runs for one operation, process death | as for the ledger; the loop ends | `SocialTurn` |
| Room publication lock, ingress, collector, queue (`roomWorkQueue.ts`, `turnIngress.ts`, `turnCollector.ts`) | bounded queues, six counters | admit, preflight, collect, flush, start, finish, shut down | counters kept across awaits | no message is lost or overtaken, no slot leaks | `RoomIngress`, `SocialTurn` |
| Recovery loop of the connector (`recoveryLoop.ts`, `durableRuntime.ts`) | scan cursor | scan, resume | a scan beside the handler of the same turn | nothing is told twice, no apology is forgotten | `TurnJobs` |
| Web rooms (`persistence/web_room_repository.py`, `webRoomBridge.ts`) | rooms, members, uploads, outbox rows | enqueue, claim, post, acknowledge, route, expire | a second at-most-once path, several bridges | the status shown to the author is true; mail settles | `WebRooms` |
| Character turn graph (`orchestration/character_turn_graph.py`, `connector_runtime.py`), pending actions, generated media, smart output | the turn of each worker, pending actions, media perceptions, posted pictures | prepare, resume or cancel a pending action, perceive, rounds of tools, repair, publish | two turns resume one action; a process dies between an action and its record | an action reaches the outside at most once; nothing is claimed as seen or shown that was not | `CharacterTurn` |

### Rooms, people and their records

| Component | State | Operations | Hard behaviour | What makes it correct | Module |
|---|---|---|---|---|---|
| Room director and routing, notes, conversation media (`room_routing.py`, `notes.py`, `conversation_media.py`) | room state, message rows with revisions, notes, perceptions, routes | observe, change, set access, create and edit notes, remember, reserve and complete a route | reports arrive in any order, in several handlers | rows depend on what arrived, not on the order; notes stay current; one decision per request | `RoomEvidence` |
| Accounts, sessions, invitations, CLI devices, login throttle (`auth.py`, `account_lifecycle.py`, `cli_auth.py`) | users, sessions, invitations, devices, grants, admission locks | log in and out, invite, register, disable, delete, authorize and poll a device | a request is several transactions and keeps what it read | nobody is served on what is over; a one-time credential is used once | `Accounts` |
| Evaluation studio, quotas, authoring and calibration (`persistence/workspace_repository.py`, `template_sharing.py`, `authoring_*.py`) | Cards, Scenarios, packs, Runs, archives; drafts, datasets, evaluations | create, revise, run, import, export, review, approve, merge, adopt | count first, insert later; approve beside an edit, a merge, a handover | the quota holds; a draft makes one formal record | `Workspace`, `Authoring` |
| Evaluation matrix runner (`matrix.py`, `services/matrix.py`) | matrix and task rows, coroutines | launch, pick, run, retry, pause, resume, cancel, recover | coroutines beside request threads | a task runs alone; a matrix comes to rest | `EvaluationMatrix` |
| Deployments, server access, webhook identities, expressions (`persistence/deployment_repository.py`, `persistence/server_access_repository.py`, `persistence/discord_identity_repository.py`) | connection, catalog, profiles, deployments, scopes, webhooks, routes | join, leave, revoke, deploy, move, bind, observe | no foreign keys; commits of two requests interleave | who was turned out is not served | `Deployments` |

### Background work and platform

| Component | State | Operations | Hard behaviour | What makes it correct | Module |
|---|---|---|---|---|---|
| Scheduled reminders, condition watches (`scheduled_reminder_service.py`, `orchestration/condition_watch_graph.py`) | rows, claimed batches | create, cancel, claim, deliver, mark, recover; evaluate, notify | unclear answers, cancellation while claimed, restarts | bounded copies; no silent trigger; everything due settles | `Reminders` |
| Media single flight (`media_singleflight.py`) | one record per identity: status, lease, expiry | claim, complete, fail, invalidate, purge | four statements per claim, interleaved with other processes | a running lease is respected; waiters are not locked out | `MediaSingleFlight` |
| Knowledge fabric: content and derived work (`knowledge_fabric_ingestion.py`, `knowledge_fabric_worker.py`) | versions, current entries, objects, jobs; invalidations, index, overview | ingest, publish, activate, compensate, erase; claim, rebuild, retry, give up | uploads outside the transaction; rebuilds that read before and write after a publication | what is published stays recorded and is repaired where it is missing | `KnowledgeContent`, `KnowledgeIngest`, `VersionLog` |
| Knowledge fabric: synchronisation (`knowledge_fabric_*_sync*.py`) | schedule with lease, validators, page rows | claim, fetch, publish, withdraw, finish, back off | replicas, saved schedules, a validator written after the publication | no 304 hides bytes never ingested; publications are fenced | `KnowledgeSync` |
| Knowledge fabric: access and retrieval (`knowledge_fabric_query.py`, `knowledge_fabric_visual_identity.py`) | scopes, grants, overlays, policies, pictures, renderer hosts | administer; search, compare, render | rights change while a search waits | what is handed out is still allowed | `KnowledgeAccess` |
| Providers, attempt budget, utility gateway (`utility_gateway_*.py`, `model_attempt_budget.py`, `providers/`) | health, usage, attempts, traces | route, pay, retry, abandon | concurrent callers, abandoned threads | spending and attempts stay within their budgets; traces tell what happened | `ModelGateway` |
| Tools to the outside (`browser_runtime.py`, `tool_external.py`, `mcp_gateway.py`) | browser, sessions, contexts, remote catalog | open, use, recycle, clean up, discover, invoke | every await lets another call in | contexts are not shared, tools are called as published | `OutsideTools` |
| Discord debug capture (`discord_debug_capture.py`) | captured records in four places, counters | start, capture, amend, evict, clear, prune | four copies and three limits | they agree and hold | `DebugCapture` |
| Storage (`persistence/database.py`, `schema_migrations.py`, `sqlite_to_postgres_migration.py`) | schema, ledger of revisions, the copy, seed rows | initialise, migrate, copy, seed, serve | several processes start on one database and stop anywhere | what serves has every revision, and nothing twice | `Storage` |

Not modelled: runtime traces and event reporting (best-effort diagnostics no decision depends
on), stored provider credentials (one statement per write; `rotate_all` saves what it listed, so
a secret deleted meanwhile comes back), judges, reports and analytics (pure functions), shared
content and live media readers (I/O behind modelled tools), verification and demo scripts, the
portal (browser user interface).

## Modules

| Module | Models | Extends |
|---|---|---|
| `SocialCursor` | the cursor of a conversation and the pure operators on it | – |
| `RuntimeLedger` | the ledger tables; one operator per repository method, that is, per transaction | `SocialCursor` |
| `SocialTurn` | workers, jobs, social loops, people, losses and crashes, all acting on the ledger | `RuntimeLedger` |
| `TurnJobs`, `WebRooms`, `RoomIngress` | the rest of the connector and its protocol with the Core | – |
| `CharacterTurn` | the turn a worker runs | – |
| `Reminders`, `MediaSingleFlight`, `EvaluationMatrix` | background work | – |
| `KnowledgeContent` / `KnowledgeIngest` | versions and derived work / the ingesters that fill them | `KnowledgeIngest` extends `KnowledgeContent` and implements `VersionLog` |
| `VersionLog` | abstract: an append-only log of versions with what is shown of it | – |
| `KnowledgeSync`, `KnowledgeAccess` | synchronisation; administration and retrieval | – |
| `RoomEvidence`, `Accounts`, `Deployments` | what the Core knows of rooms, people, servers | – |
| `Workspace` / `Authoring` | records of an owner / drafts, datasets and the ways a studio changes hands | `Authoring` extends `Workspace` |
| `ModelGateway`, `OutsideTools`, `DebugCapture`, `Storage` | the platform | – |
| `MCSocialTurn`, `MCConnector`, `MCBackground`, `MCKnowledge`, `MCService`, `MCPlatform`, `MCRuntime` | instances for TLC | the modules named in the runs below |
| `SocialTurnProofs`, `ConnectorProofs`, `PlatformProofs`, `BackgroundProofs`, `KnowledgeProofs`, `KnowledgeAccessProofs`, `ServiceProofs`, `RuntimeProofs` | inductive invariants and theorems | the modules they are about |

Conventions. A variable is a table or an object of a process; its comment names it. A row that
does not exist is a value of its own (`"none"`, `NoStep`), a removed one `"gone"` or
`"deleted"`. One action is what happens between two points where somebody else may act: one
transaction, one section between two awaits, one method under a lock. Where one method reads
in one statement and writes in another and the code relies on the difference, it is two actions.
Instants become the comparisons made on them (`due`, `stale`, `lapsed`); a timer that may run
out is an action. Texts, prompts and payloads are model values or numbers of a revision. What a
model, a judge, a page or a person answers is a choice. Variables called history record what
the outside world saw and are never read by a guard.

**SocialTurn.** `op`, `step`, `slot` are the three ledger tables. `job[s]` is the `turn_jobs`
row of step `s`; the code's key (deployment, message) and the model's key (operation, index,
deployment) name the same row because a message is one operation. `run[s]` is the worker
executing the job, `hand[h]` one run of the loop in `processMessage`, `lock[p]` the room's
`RoomPublicationLock` in process `p`. Workers: `Start`, `Overdue`, `Execute` / `Exhaust` /
`Answer` (`prepare_social_step`), `ClaimEffect`, `PerformEffect`, `RejectEffect`, `RecordEffect`
(the slot around a mutating tool), `Generate` / `Raise`, `StoreResult`; `Kill`, `Expire`,
`CancelActive`, `CancelFinished` and `Forget` end a job. The loop has one action per await:
`Open`, `Submit`, `Consume`, `JobEnded`, `GiveUp`, `Acquire`, `Preflight`, `SaveKeep` /
`SaveSilence` / `SaveRefused`, `Recheck`, `Reload`, `Claim`, `CompareAndSet`, `SendOk` /
`SendFails`, `Acknowledge`, `Report`, `Yield`. `claim_delivery` is two actions, validation and
the conditional write of lines 504-515. `RequestLost`, `ResponseLost`, `AckLost` lose a request
before or after the Core carried it out; `ConnectorCrash` and `CoreCrash` kill a process and
keep the tables; `Recover` is the offline recovery. A visible reply is a set of Discord
messages (`Part`).

**TurnJobs** looks at the same jobs from the side of the pool: queue, owned jobs, progress lines
with their claims, the apology of a failed job, the scan of the recovery loop with its cursor,
stop, crash and start of the manager. **WebRooms** is the outbox: `Enqueue`, `Claim`,
`CheckSending`, `Post`, `Acknowledge`, `Dispatch`, with several bridges, lost acknowledgements,
stale claims and changing permissions. **RoomIngress** keeps the six counters of the code as
variables of their own next to the containers they count.

**CharacterTurn** has one Character, one requester and one room. Of the tools it keeps three
kinds: `write` (the durable side effects: image generation, whose steps are modelled, remote
tools, polls), `invite` and `look`. `action` is the table of pending actions, `effect` the slot,
`percept` what is on record about media.

**Reminders** has the two tables and the local variables of the two loops, which a stop throws
away. `mark_delivered` and `mark_failure` write whatever the row says, and the model does too.
**MediaSingleFlight** has one record and several processes; `claim` is `Insert`, `Select`,
`Update`, `Reread`. It compares with the time it started at and the model with the time of the
statement, which allows more orders than the code. **EvaluationMatrix** separates the coroutines
(which interleave only at awaits; `loop` is the one inside a section) from the request threads
(which interleave with every transaction).

**KnowledgeContent** abstracts a version to the snapshot it was made from and its material per
locator; `VersionKey` and `SourceHash` map snapshots to what the code compares.
**KnowledgeIngest** adds jobs, artifact rows, objects in private storage and the outbox of
deletions, one action per repository call. **KnowledgeSync** has one Source of each of the three
kinds and several replicas. **KnowledgeAccess** authorises and carries out in two steps, as the
routes do; overlay modes that admit like `inherit` are left out.

**RoomEvidence** has one owner, since rows of owners never meet, and several handlers whose
repository calls interleave. **Accounts** and **Workspace** model the admission lock
(`api/dependencies.py`): a mutating request holds it from its first dependency to its answer;
a request that decides before it writes takes two steps, the others one that waits for the
lock. **Authoring** adds drafts, packs, datasets, evaluations and the archives. **Deployments**
has no lock between accounts and no foreign keys: a request of several commits is several
actions (`clerk`).

**ModelGateway** counts money in estimated calls, as the live caller charges. **OutsideTools** is
one event loop, an action is what happens between two awaits. **DebugCapture** runs each method
under its lock. **Storage** has `Database.initialize` step by step under the advisory lock, the
copy tool, the lookups followed by inserts, and a stop between any two transactions.

## Runs

In an instance of several components, `focus` names the one that moves in a behaviour. They
share no variable, so the run explores the sum of their state spaces and not the product.

| Run | Properties | Instance |
|---|---|---|
| `overlap` | `TypeOK`, `DeliveryTrue` (checkpoint after acknowledgement, uncertainty blocks, the text sent is the text claimed, the cursor counts the replies), `SideEffectOnce`, `WorkerOwnsStep` | one operation, two Characters, two loops in one process, one crash, one lost request, one removed job row, two attempts, two tool calls |
| `processes` | `AtMostOnceSend`, `CancelledNeverSent` | two connector processes without a common lock, one loop each, one crash, one loss |
| `liveness` | `LoopEnds` | one loop, three step indexes, one loss, no crash, fairness |
| `background` | `RetriesBounded`, `NoticesMatch`, `LeaseRespected`, `TaskRunsAlone` | two reminders and a watch with one restart; two workers and four analyses; two tasks, two calls of `run_matrix`, three requests |
| `background_settles` | `DueSettles`, `NotLocked`, `DerivedSettles`, `MatrixSettles` | the same with restarts of at least 120 s, derived work with one fault, fairness |
| `connector` | `IngressOrderly`, `SpokenOnce`, `WebStatusTrue`, `MessageSettles`, `TurnEnds`, `WebMailSettles` | three messages in two rooms with queues of two and three; one turn with a handler and a recovery task; one web message, two bridges; fairness |
| `knowledge` | `VersionRecorded`, `DerivedRepair`, `ValidatorTrue`, `AccessAuthorized`, `ImplementsVersionLog`, `FencedPublish` | two ingesters and four snapshots under two keys, one of which changes nothing and one delivered twice; one fabric worker; two replicas and two pages; two servers, two corpora, a request and a reader, two edits |
| `service` | `EvidenceConverges`, `NotesCurrent`, `RoutedOnce`, `AdmittedAlive`, `IssuedOnce`, `ApprovedOnce`, `QuotaKept` | two handlers and a message with two versions; two callers, three accounts, an invitation, a device; two desks, two owners, two drafts |
| `platform` | `RevokedIsSilent`, `TurnHonest`, `CaptureBounded` | two accounts, a guild, two clerks, one group of requests at a time (access, connection, expressions, identities); three messages, two workers, two tool rounds, a restart; two servers, three records, every limit reached |
| `runtime` | `GatewayKeeps`, `OutsideKept`, `StartsWhole` | two members, two requests, budget 1, ceiling 3; three calls, two contexts; two processes and three starts, or two starts beside a copy into a new database or one with retired tables |
| `restart` (violation) | `RestartSettlesClaim` | one loop, one crash, fairness |
| `knowledge_objects` (violation) | `PublishedObjectKept` | two ingesters, two faults |

Each property is stated, with the code it is about, above its definition in the component's
module. Every property of a passing run has a mutant in `PROJECT.json`: one mapped definition
with a plausible mistake (a dropped guard, a missing reset, a swapped order) under which TLC
finds the property violated.

### What the violations mean

* `restart`: when the connector dies between claiming and acknowledging, the next run of the
  loop is told "blocked", reloads the operation, finds the same turn and the same finished job
  and asks again. `docs/phase-5-durable-runtime.md:166-168` says that the step becomes
  uncertain; the method that does so has only an offline caller. Safety holds, the room does not
  move on.
* `knowledge_objects`: `discard_unpublished_artifact` checks that no version uses an object,
  commits a deletion of its key, and the deletion is carried out later by key alone. An
  ingestion that registers the same bytes and publishes in between loses its object, against
  the docstring at `knowledge_fabric_ingestion.py:249`. The rows survive (`VersionRecorded`).

Properties that hold with an exception name it: an owner passes the quota only by taking over
the local workspace (`QuotaKept`); two people approve one draft only if one is the local owner
(`ApprovedOnce`); the waiter for a browser context that was closed behind its predecessor fails
(`OutsideKept`); paid calls exceed the daily budget by one call per concurrent request
(`GatewayKeeps`).

### Bounds

Two actors suffice for every race on one row (a claim is a contest of two), and two nonces for a
claim and its competitor. One operation, one room, one Source, one guild: others share no rows
with it, except the publication lock, the queue and the quotas, which the instances with two
rooms, two owners and two servers cover. Index 0 and 1 give a reply and its continuation; the
liveness run adds a third. `MaxAttempts` of 2 lets the budget be used up within the starts
allowed. One crash reaches every "died between two steps" state, and the history variables
remember it; one lost request does the same for an outcome that is unknown. Two reminders let
one be sent while another is claimed and let a watch notify twice. Four analyses of two workers
reach takeover, completion and a second takeover. Four snapshots under two keys reach a
repeated delivery, a conflict, a replaced entry and one that is replaced by the same again. Every capacity (queues, bursts, records,
sessions, permits, budgets) is small enough to be reached and exceeded by the actors there are.
Constants whose comment says *bound* limit the exploration; the other ones are parameters of
the code. The theorems depend on the values of neither.

Deadlock is not checked, because these systems may stop: once nobody asks for anything and the
bounded faults have happened, nothing is left to do. That nothing stops too early is what the
liveness properties say.

### Fairness

Weak fairness, on what the code's own scheduling runs:

* `SocialTurn!FairSpec`: a worker that can take a step takes it and deadlines come (asyncio
  tasks, `expire_deadlines` on a timer); the loop of the connector, a chain of awaits with
  timeouts, goes on.
* Reminders: both loops keep polling, a stopped service is started again by its platform, time
  passes. No database error ends the delivery task (`_run` would not survive it; see below).
* Media: running workers go on and leases lapse; a provider need never answer.
* Derived work: the worker runs and is restarted after it died, backoffs end.
* Matrix: the event loop goes on, requests are answered, providers answer or time out.
* Ingress: promises and timers run, turns return (they have deadlines).
* Turn jobs: consumers and the scan go on, the manager is started and keeps its minute,
  deadlines pass. Not the runner: a model may never answer.
* Web rooms: bridges poll and finish what they began, time passes.

People, faults, losses, crashes and recoveries by hand are never fair.

## Proofs

Every theorem is of the form `Spec => []P` or `Spec => [][A]_vars` and holds for every value of
the constants (sets of any size, any bounds).

| Module | Theorem | States |
|---|---|---|
| `SocialTurnProofs` | `AtMostOnce` | `AtMostOnceSend` |
| | `MutationOnce` | `SideEffectOnce` |
| | `WorkerOwns` | `WorkerOwnsStep` |
| | `TypeCorrect` | `TypeOK` |
| `ConnectorProofs` | `TurnSpokenOnce` | `SpokenOnce` |
| | `TurnJobsTypeCorrect` | the type invariant |
| | `WebStatusKept` | `WebStatusTrue` |
| | `IngressStaysOrderly` | `IngressOrderly` |
| `PlatformProofs` | `TurnsStayHonest` | `TurnHonest` |
| | `TurnedOutIsSilent` | `RevokedIsSilent` |
| `BackgroundProofs` | `LeaseKept`, `MediaTypeCorrect` | `LeaseRespected`; the type invariant |
| | `RunsAlone` | `TaskRunsAlone` |
| | `RetriesKept`, `NoticesKept`, `RemindersTypeCorrect` | `RetriesBounded`; `NoticesMatch`; the type invariant |
| `KnowledgeProofs` | `VersionsRecorded` | `VersionRecorded` |
| | `IngestionIsALog` | `ImplementsVersionLog`: the refinement of `VersionLog` |
| | `DerivedRepaired` | `DerivedRepair`, for one worker |
| | `IndexRepaired` | the index part of it, for any number of workers |
| `KnowledgeAccessProofs` | `ReadersAuthorized` | `AccessAuthorized` |
| | `ValidatorsTrue`, `PublishingFenced` | `ValidatorTrue`; `FencedPublish` |
| `ServiceProofs` | `ReportsConverge`, `NotesStayCurrent`, `RouteDecidedOnce` | `EvidenceConverges`; `NotesCurrent`; `RoutedOnce` |
| | `NobodyServedLate`, `OnePerCredential` | `AdmittedAlive`; `IssuedOnce` |
| | `QuotaRespected`, `DraftsApprovedOnce` | `QuotaKept`; `ApprovedOnce` |
| `RuntimeProofs` | `GatewayKept` | `GatewayKeeps` |
| | `OutsideStays` | `OutsideKept` |
| | `StartsAreWhole` | `StartsWhole` |

**Assumptions.** Each module names its assumption on its constants (`LedgerAssumption`,
`TurnAssumption`, `TurnJobAssumption`, `MediaAssumption`, `MatrixAssumption`,
`AccountsAssumption`, ...): default values like `NoNonce` are not members of the sets they stand
beside (`NoProc` is no process), bounds are naturals, sets that are counted (`Member`, `Asker`,
`Op`) are finite. TLC evaluates all of them in every run. One theorem has a hypothesis of its own: `DerivedRepaired` assumes `OneWorker`.

**Layout.** A proof module states what record updates preserve, then one lemma per action (or
group of actions that leave the same things alone), one step per conjunct the action can
disturb, and puts them together: `Init => Inv`, `Inv /\ [Next]_vars => Inv'`, `Inv => P`. TLC has
checked each inductive invariant on the instance of the run before it was proved.

### What the invariants say

**One send, one mutation** (`IInv`, in `SocialTurn`). Nothing in `AtMostOnceSend` says why a
second send cannot begin. `ClaimSettles`: a step with a nonce is claimed, delivered, silent or
uncertain and never open to a claim again. `NonceHeld`: a handler between claim and report has a
nonce, and one that sends has the very nonce the ledger holds. `NoncesDiffer`: no two handlers
at a step hold the same. `SendClaimed`: nothing was sent for a step without a claim, nor for one
whose handler is about to send. `WorkerOwnsStep` and `OneWorker`: a worker generating a step is
alone with it and the step has no claim; otherwise a late generation would put a claimed step
back to `generated`. `EffectSlot`: a mutation leaves its slot occupied, and a tool about to run
holds a slot for which nothing happened. `WorkerOwnsStep` is where the offline recovery needs
its precondition that all workers have stopped.

**One ending** (`SpokenInv`). `LinesFresh`: a line without a nonce, or still to be published,
was neither shown nor is held by a consumer. `LastWord`: the grant of an apology or of a
delivery is held by one consumer who has not spoken. `RowsSound`: a job never offers both.

**An honest turn** (`TurnInv`). `OneHolder`: one turn holds a pending action. `TurnsTrue`: what
it holds is claimed, and nothing was written for it before the turn's one write. `RowsTrue`: a
row that can be claimed has no write yet. The row goes back to `blocked` only when the provider
was found missing; the provider is read when the process starts, and a row is resumed only where
it is configured, so this never happens to a turn that may have written. `PicturesTrue` and
`PerceptsTrue` do the same for pictures and perceptions.

**Leases** (`MediaInv`). `LeaseTrue`: a lease that is ahead is fresh and has not lapsed, which is
why the conditional update does not take a running one. `TokensApart`: no two workers hold the
same token.

**One child per task** (`MatrixInv`). `OneInTheLoop` describes who holds the event loop,
`NotOffered` that what runs is not in a list of tasks to start, `OneGather` that one call of
`run_matrix` has children, although a child may go on after its call has ended.

**Counted retries and notices** (`RetryInv`, `NoticeInv`). `Accounted` counts the claims between
attempts, `NoticesAccounted` says where the watch loop stands between queueing a notification
and recording the transition.

**Versions** (`VersionInv`, `RepairInv`). `JobsTrue` and `ArtifactsKept` describe what an
ingester in the middle of a delivery may rely on. The refinement maps `logged` to the published
keys and `shown` to the current ones; publication is `Write`, activation `Show`, erasure `Wipe`,
everything else a stutter. `Grounded`, `IndexTold`, `OverviewTold`: a difference between a view
and its entries has open or given-up work. For overviews this needs `OneWorker`: a worker stalled
past its lease writes what it read before, and nothing looks at the lease
(`knowledge_fabric_projection_repository.py:94`); TLC has the behaviour with two workers. The
deployment runs one `fabric-worker`.

**Synchronisation** (`SyncInv`). The validator is written two or three steps after the
publication, by a run that may have lost its lease: `RunTrue` says what a run knows at each step.
`LeaseOn`: a current lease belongs to a schedule that is on.

**Readers** (`AccessInv`). `HitsTrue`: a reader that looked once more holds nothing the look did
not admit. `ShotTrue`: a picture told is one the resolver saw approved. `AnalysisTrue`: an
analysed renderer request asks for hosts the analysis saw, unless the Source is gone. An
identity a reset deleted is not used again.

**Rooms** (`EvidenceInv`). `Joined` keeps the row of a message equal to the join of the reports
accepted, which does not depend on their order; `AccessTrue` does so for the room. `NotesTrue`: a
member's note carries the fingerprint of what its message says now, because creation and
revision exclude each other. `RoutingInv` says who holds the reservation of a request.

**Accounts** (`AccountsInv`). A request keeps what it has read while others change the tables.
`CallSound` says what is still true of it at each transaction, and survives because an end is
final (`Ages`): a session, grant or account that is over stays over. `OwnersKnown`: nobody acts
for an account that was never created. `InvitationsCounted` and `DevicesCounted` count what was
handed out; one token per approval needs the row lock.

**The studio** (`QuotaInv`, `DraftInv`). Requests of one owner between deciding and writing are
one at most (`DeskInv`); so there is still room for the Cards a request is about to create
(`RoomLeft`), and its owner has not approved the draft it is about to approve (`ApprovalOpen`).
`BackupTrue` and `RowTrue` carry this through archives and merges.

**Web messages** (`WebInv`). `BridgeNonces`: two bridges never hold the same claim. `BridgeTrue`:
a bridge whose claim is still the row's has not posted before it sends, and the result it is
about to acknowledge says what it did; a claim that no longer stands writes nothing.

**The way into a room** (`IngressInv`). Messages are numbered as they arrive, and `PlacesTrue`
gives each one a place: chain, burst, the works in line, those that run, the turns that began.
Each place holds its messages in order and before everything behind it in the same room, and a
`flushed` message is the head of its chain with no burst before it. So `RoomOrder` holds, a
message is in one place at most, and every counter is the size of one of them
(`ChainsCounted`, `CollectedCounted`, `WorksCounted`): an enqueue adds a work that was nowhere, and
a release takes away what a burst still counts.

**Who was turned out** (`SilentInv`). `ProfilesNumbered`: a profile identifier is given out once,
so a scope that outlived its profile names nothing. `ScopesOwned`, `ChoicesOwned`: a scope, and
the profile a request has chosen for one, belongs to the owner. `OneSuper`: requests of the Super
Admin wait for each other. `TurnedOut`: nobody who was turned out is on the way in, and until
the access is removed the profile is the one the request read.

**Money, attempts, traces** (`GatewayInv`). Who may still be served by the paid fallback saw a
budget with room: what was bought and those who may still buy are at most the budget and all
but one of the requests (`MoneyTrue`). An attempt is reserved before its post (`AttemptsTrue`).

**Tools** (`OutsideInv`). `OpTrue`: who uses a context holds its session, and what an invocation
goes by was published after it began. `StillSound`: what was found in order without queuing is
not what the cleaner or the next opener is about to close.

**Starts** (`BootInv`, `DemoInv`). `ProcTrue` says for each place in the start which revisions,
rows and objects the process has seen there. `Forward` is what any step leaves to the other
processes: the schema, the ledger and the cutover only grow, the lock stays with its holder.
Every action is shown to be `Forward`, and `Forward` to preserve `ProcTrue`, so that no pair of
processes is looked at. `DemoInv` follows a synchronization that is alone from card to card:
those gone through match the selection, and after the weeding nothing else is left.

### What the proofs brought up

* `TargetIsEmpty` of `Storage` once left out that the copy tool refuses a target with tables the
  ORM does not know (`sqlite_to_postgres_migration.py:235-244`). `BootInv` was not inductive:
  without that refusal a copied database would serve with the retired stores still there, which
  TLC confirmed. The code does refuse it.
* `SilentInv` needs that the requests of one account exclude each other; the model let some of
  them run between two commits of another, against the admission lock of `api/dependencies.py`.

* `ApprovedOnce` without its exception is false: the lock is one per owner and not one per
  draft. An approval under way in the local workspace and one by the account that takes the
  workspace over hold different locks, and both may create a formal record. The local owner
  exists outside production only.
* `DerivedRepair` is false with two derived-work processes (above); the index part is not.
* An action claimed by a turn that dies stays `in_progress`; that `TurnHonest` is safe rests on
  it, and the price is that its tool is not offered again.

* A page removed from a Site Collection keeps its validator and its version: `complete_generation`
  sets the status only, and `_sync_page` sends the stored validator. When the page comes back with
  the content it had, it is reported as not modified or unchanged and stays absent. `ValidatorTrue`
  holds all the same, since it speaks of what was ingested and not of what is shown.

### Only model-checked

Liveness under fairness and `ENABLED` are out of the prover's reach, and so is induction over
data: what a recursive definition or a fold computes for every input. That keeps to TLC: all
liveness properties; `DeliveryTrue`, whose `SpeakersMatch` speaks of the contents of a cursor
built by folds; `CaptureBounded`, which sums over sets. `CancelledNeverSent` and the other
parts of `DeliveryTrue` rest on a fact of the same kind: an index of a checkpoint has one head
only, because `Advance` keeps selected turns before the invitations it inserts, so that a newer
message (`CancelSocialTurn`) either ends the operation or changes nothing. Without that, the job
of one index could run the step of another. The run of `CancelledNeverSent` leaves retention out
(`MaxForget` is 0).

## What is not modelled, and what that hides

* The synchronous route for social steps, which the connector does not use, and the ledger's
  methods for single-character operations.
* A job row is not removed while a loop or a worker is busy with it (`Forget`): retention is an
  hour or more, far beyond any deadline.
* Lost updates between a read and a write of the ORM inside one method, except where the
  conditional write, the lookup before an insert or the count before a write is the point.
* In `SocialTurn` a graceful stop of the Core looks like `Kill` followed by `Expire`, with
  another status (`TurnJobs` has the stop itself), and the notice posted when a job fails is not
  counted as a send of the step.
* `SentIsClaimedText` is claimed for one connector process; with two TLC finds the older text.
* A tool that raises after its mutation is assumed not to exist (`tool_runtime.py:1042`
  releases the slot then).
* A database error that ends the delivery task of reminders (`scheduled_reminder_service.py`).
* A deployment that ends while the connector runs a turn for it (`EndTurn` models it): the reply
  is still posted, so no property can promise otherwise.
* Two Core replicas over the reminder tables. The deployment guide allows one; `claim_due` is a
  read followed by an unconditional write. Media, accounts, servers, synchronisation, tools and
  start-up are modelled with several processes because their code is written for them.
* In the media model a completed record can be overwritten by a process that read the expired
  lease before, and a lease can disappear with a purged record: provider calls may be repeated,
  outcomes are never attributed to the wrong worker.
* `complete_existing_version_job` and `activate_source_version_as_current` take no lease token: a
  stale replica can make an old version current again. `FencedPublish` speaks of new ones.
* The request-rate limiter of the HTTP layer, the transfer of reminders and watches to another
  owner, retention of artifacts, ranking of search results, parsing and formatting.

## Plan

1. Done: all the components above, their runs, and the theorems listed.
2. `CancelledNeverSent`, `CheckpointAfterAck` and `UncertainBlocks`, once the order of a
   checkpoint's turns can be carried through `Advance`: from it follows that an index has one
   head, that a job runs the step it is named after, and that nothing of an operation runs while
   a delivery of it is unresolved.
