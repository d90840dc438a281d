# Patchwork: a verification development

Patchwork is a mutual-aid service on the AT Protocol, a TypeScript monorepo.
This directory holds TLA+ models of the parts of it that keep state and can go
wrong over several calls, TLC configurations that check them on small
instances, and TLAPS proofs of what matters most. `PROJECT.json` lists the
components, the runs, the mutants that show each property has teeth, the
source lines every definition stands for, the hazards, the findings and the
theorems. Paths below are relative to the repository root.

Model-check with `tlc -config X.cfg M`, prove with `tlapm M.tla`.

## 1. Inventory

The code is in four kinds of packages.

| Package | What it is | State |
| --- | --- | --- |
| `packages/shared` | domain logic used by all services | in-memory maps inside the classes |
| `services/api` | HTTP handlers over that logic; one Node process | in-memory maps; Postgres for the event log of posts |
| `services/indexer` | consumes the AT firehose into the discovery index, with a cursor checkpoint | index in memory, cursor in a Postgres row, or in memory in fixture mode |
| `services/moderation-worker` | the review queue and its audit trail | in memory; tests carry it over a restart in snapshots |
| `apps/web`, `apps/mobile` | a React shell with its view models, an API client, an offline queue | component state, the URL, the browser history |

Every service is a single-threaded Node process. A handler that awaits nothing
runs to its end alone, so what interleaves is whole calls; a handler that
awaits (a pool query, an external sync) is cut at each `await`, and other calls
run in between. In the browser every fetch is such a cut. The models cut
exactly there.

### Components

For each: its state and operations, what is hard, what makes it correct.

* **Request lifecycle** (`services/api/src/lifecycle-service.ts`,
  `packages/shared/src/lifecycle.ts`). Per post a status, a timeline, one
  assignment, one hand-off; register, role-checked transition, assign, accept,
  decline, time out, hand off. The answers to an offer race with each other and
  with transitions by other roles; five handlers write fixed transitions without
  consulting the permission table. Status, timeline, assignment and hand-off
  must tell one story, the timeline must be lawful and append-only, an answer final.
* **Moderation review** (`packages/shared/src/moderation.ts`,
  `services/moderation-worker/src`). An item per subject in the queue store and
  again in the queue's own map, an audit trail with idempotency keys, a depth
  gauge; enqueue, policy actions, bulk triage, dequeue/ack/nack, snapshot and
  restore. Two copies, retries told apart by keys, restarts. A key must act once,
  the trail explain the item, no appeal be decided twice.
* **Indexer** (`services/indexer/src`, `packages/shared/src/{firehose,discovery}.ts`).
  A consumer with cursor and counter, the index, the checkpoint row; ingest, save,
  replay, restart. Saves overlap, land out of order and fail; a crash loses memory
  but not the cursor. No event behind the cursor may be skipped, the index must be
  what the stream says.
* **Connectors** (`services/api/src/connector-service.ts`). Instances, syncs with
  retries, health, audit and history. The retry loop awaits the external system
  while others change the instance. History and audit must account for every
  attempt, health be the last evidence, every sync end.
* **Messaging** (`packages/shared/src/messaging.ts`, `services/api/src/chat-service.ts`,
  `apps/web/src/chat-ux.ts`). Messages with statuses and sequence numbers, pages
  by cursor, conversations by post and participants, a routing assistant that
  scores candidates. Messages are sent again between two pages. A reader must miss
  nothing, two people have one conversation per post, volunteers come before resources.
* **Chat safety** (`packages/shared/src/messaging-safety.ts`). Sliding windows of
  messages, duplicates and incidents, blocks, signals to moderation. Windows
  lose entries as they are read. Limits must hold and signals add up.
* **Group coordination** (`packages/shared/src/group-coordination.ts`,
  `services/api/src/group-service.ts`). Channels and request rooms, roles, bans, a
  stored member count. Counts must be right, authority must come from authority.
* **Scheduling** (`scheduling.ts`, `scheduling-service.ts`). Availability,
  shifts, reminders, no-shows. Overlapping shifts must have been reported.
* **Notifications** (`notifications.ts`, `notification-service.ts`). A dedupe
  window, preferences, delivery attempts whose answers repeat or come late.
* **Tenancy and regions** (`multi-region.ts`, `tenant-service.ts`). Health reports,
  failover, routing, residency, overrides. No route may lead into a failing region.
* **Verification** (`verification.ts`, `verification-service.ts`). Tiers that
  expire, grants, revocations, renewals, appeals. The trail must explain the status.
* **Matching** (`matching.ts`, `matching-service.ts`). Recommendations, operator
  overrides, feedback. Ranks must be places.
* **Organisations** (`org-portal.ts`, `org-portal-service.ts`). Members, roles,
  listings, an audit trail that must explain both.
* **Inbox** (`inbox.ts`, `inbox-service.ts`). Items, filters, pages by cursor; a
  reader must be shown what the filter keeps, although reading changes it.
* **Aid posts and discovery** (`aid-post-service.ts`, `query-service.ts`,
  `db/discovery-events.ts`, `discovery.ts`, `ranking.ts`). An event log in Postgres,
  indexes in memory, commits that fail or whose answer is lost, restarts. A query
  must find every acknowledged post.
* **Rate limiter and sessions** (`rate-limiter.ts`, `index.ts`, `auth-service.ts`,
  `identity.ts`). A window per client and limiter, sessions by rotating tokens, with an
  await between finding a session and replacing it.
* **Settings** (`settings.ts`, `settings-service.ts`, the settings page). Saves that
  time out and still arrive. The page must know what is stored.
* **Web shell** (`apps/web/src/features/frontend-shell.tsx`, `api-client.ts`).
  Route, filters, URL, history, fetches with aborts; the cards of feed and map and
  the posting form. What is shown must answer the filters of now.
* **Not modelled**: section 6.

## 2. The modules

| Module | What it is |
| --- | --- |
| `LifecycleGraph`, `Lifecycle` | the permission table; the lifecycle service |
| `RequestAudit` | abstract: one append-only log of lawful entries per request |
| `ReviewLedger` | abstract: a ledger of decisions under fresh keys, and what of it is kept over a restart |
| `StreamProgress` | abstract: a stream taken in without a gap, and a row that names a place in it |
| `Moderation` | review queue, stores, worker service |
| `Indexer` | pipeline, checkpoint store, crash and replay |
| `ConnectorSync` | syncs with retries and health checks of connector instances |
| `GroupCoordination` | channels, rooms, members, roles, bans |
| `ChatMessages` | the message store and a reader of its pages |
| `ChatRouting` | the routing assistant and the conversations it opens |
| `ChatSafety` | blocks, windows, flags, signals |
| `Scheduling` | availability, shifts, reminders, no-shows |
| `Notifications` | sending, preferences, deliveries |
| `Tenancy` | tenants, health, failover, routing, overrides |
| `Verification` | tiers, expiry, appeals, audit |
| `Matching` | recommendations, overrides, feedback |
| `Organisation` | members and listings of organisations |
| `Inbox` | the inbox and a reader of its pages |
| `Discovery` | posts from creation to query, over the event log |
| `Gateway` | rate limiters and sessions |
| `Settings` | the settings service and the settings page |
| `WebShell` | route, filters, URL, history, fetches |
| `FeedCards` | the cards of feed and map, and the posting form |
| `Null`, `Listing` | the one `NULL` of all modules; sorting and filtering, by what comes of it |
| `LifecycleProofs`, `ModerationProofs`, `IndexerProofs`, `ConnectorProofs` | theorems about the module of that name |
| `CommunityProofs` | theorems about groups, verification, schedules, organisations, chat routing and chat safety |
| `ListProofs` | theorems about lists: chat and inbox pages, recommendations, discovery |
| `PlatformProofs` | theorems about shell, cards and settings, limiter, sessions, regions and notifications |
| `ServicesProofs` | theorems about all services side by side (`MCServices`) |
| `MCLifecycle`, `MCModeration`, `MCIndexer` | the symmetries of the small instances |
| `MCServices` | small instances of all the services that share no state |

`MCServices` is one specification for the services that keep their state to
themselves. It EXTENDS their sixteen modules, whose variables have different names, so
that its configuration checks the very properties the theorems are about. Its initial
state picks a `service`, and every behaviour is one of that service's: its next-state
relation steps, and the variables of the others rest. Where one instance cannot hold two
questions within bounds, a module has two, each with a conjunct that cuts the other's
steps: `groups` and `rooms`, `schedule` and `availability`, `notify` and `deliver`,
`regions` and `policies`, `limits` and `sessions`, `portal` and `listings`. `store` and
`sequential` are second instances of `Moderation` and `Indexer` (`INSTANCE ... WITH`),
under drivers that promise more than those of the runs of their own. A service that was
not chosen stays in its initial state, where the properties hold.

An operator whose comment starts with "Faulty variant" is not part of a model: it
is a plausible bug, and `PROJECT.json` says under "mutants" which definition it
replaces and which property then fails. The modules' headers name their sources and
what is external; here follows what is not obvious about the correspondence.

### Lifecycle

`status`, `timeline`, `assignment` and `handoff` are the fields of a
`RequestLifecycleRecord`; a status of `NULL` is a post without a record.
The handlers await nothing, so each is one action, and a rejected call is a
stuttering step, with one exception the model keeps: `executeTransition`
registers an unknown post before it decides. What matters is which handlers ask
whom: transitions consult the permission table, while assign, accept, decline,
timeout, hand-off and registration write fixed statuses, and the three answers read
the assignment and never the status. Times are the callers' own (`now` is a
request parameter), so nothing orders them. Left out: reasons, notes,
`updatedAt`, and the optional authorization context, which only rejects more.

### Moderation

`items` is the queue store, `cache` the map inside `ModerationReviewQueue`, `audit`
the audit store by subject, `depth` the gauge, `saved` the last snapshots.
`Current` is the code's `peek(...) ?? queueBySubject.get(...)`. A policy action reads
the current item, checks the key against the trail, applies the transition and
writes both copies and the record in one synchronous call. `bulkTriage` is one such
call per subject, all inside one handler. `Consumable` names the subjects that a
direct user of the store (ack, nack, dequeue: only tests do so today) works on.
Left out: reasons, contexts, report counts, the other counters. Derived keys are
compared as the values they are made of and not as their 32-bit hash.

### Indexer

The process has `index`, `checkpointSeq`, `eventsSinceCheckpoint` and loses them;
`cursor` is the row and survives. `ingestAndCheckpoint` is cut at its await into
the part before (`ingestAndCheckpoint`), the query taking effect
(`upsertCheckpoint`) and the part after (`saved`), with `saveFails` for a query
that is rejected or whose answer is lost. `saving` holds the calls in flight.
`restart` may happen at any time and boots a process that loads the cursor.
External, and assumed: the firehose has the same events in the same order for
whoever reads it again, the driver hands batches on in order, and no query of a
dead process lands after the next one has booted. Events are valid or not, about a
record the index keeps or not; positions, text and secondary indexes are left out.
The in-memory checkpoint store of fixture mode is the case without failures.
In persistent mode `index.ts` only loads the cursor today and calls nothing else,
so the driver is the pipeline's interface, not one in the repository.

### ConnectorSync

`sync` says where each call stands (idle, calling the implementation, sleeping
between attempts, ended) and what its `SyncFlowRecord` holds. `executeSync` checks
the instance and makes the first call; `attemptReturns`, `attemptRejected` and
`retriesExhausted` are the three ways on from an attempt; `wake` is the end of the
delay. Health checks are cut at their await in the same way. `auditTrail` has the
entries about syncs and health, in order. An implementation is external: it
answers with a result of any status, or rejects. The check of an instance without one
is audited as passed and leaves `isHealthy` alone, so an instance that nothing was heard
of has passed checks in its trail and is unhealthy, as it was created:
`HealthIsLastEvidence` speaks of instances that failed once. Left out: delays as numbers, the
clock and with it `syncId` collisions, record counts, the connector registry and
the marketplace listings.

### Services of the API

* `GroupCoordination`: a member's record keeps its role through leaving, removal and
  invitation, and the model keeps the record. The member count is stored beside the
  members and recomputed by the operations that do so in the code.
* `ChatMessages`: a page is computed when the server answers and shown when the answer
  arrives, messages are sent, sent again and updated in between. `readTo` is a history
  variable: up to where the pages shown claim to be complete.
* `ChatRouting`: people are numbers in the order of their DIDs, which is what the key of
  a conversation sorts by; the scores are the code's, term by term.
* `ChatSafety`: a topic is a conversation with a normalised text. `evaluations` is the
  history of all that was evaluated, and the three windows hold places in it; they
  are pruned when they are read, as in the code. `drained` is a history too.
* `Scheduling`: shifts as intervals of slots, one clock; `reported` is the history of the
  conflicts an assignment answered with. Nobody checks that a shift ends after it starts,
  and in the model it need not.
* `Notifications`: `deliveries` holds every attempt with its channel and outcome; any
  attempt may be reported failed or delivered, in any order and again.
* `Tenancy`: weights are an order, overrides never expire; `healthyRun` is a history of
  the successful checks in a row, which the code does not keep. Neither the schema nor
  `createTenant` asks the allowed regions to be different, so endpoints are known by their
  places in the list and a failover switches off the first one of its region
  (`SwitchedOff`). `MaxListed` bounds the lists. That a region that was left does not
  serve is no property: the documents promise its return (`region_failback`).
* `Verification`: a day is the unit of time. A call names checkpoints; the model
  keeps the tiers all of whose checkpoints it names.
* `Matching`: scores are constants; the list of a request and the ranks of its
  entries are separate, as in the code, and only an exclusion changes the list.
  `Listed` of `Listing` stands for a sort, `At` for a filter: each says what comes out,
  not how.
* `Organisation`, `Inbox`: as in the code, the entries of the trail with the roles they
  name in words; a reader follows `nextCursor` while items are marked read.
* `Discovery`: `createFromInput` is cut at the append to the log. The append may fail
  before or after the commit, two creations of one post may overlap, and a restart applies
  the log, in the order of its rows, to an empty index (or the fixture, without Postgres).
  The indexes by category, status, urgency, place and text are separate maps, updated
  one by one; a query intersects those it needs. Creations are numbered by the clock,
  which starts at 1; the events of the seed have smaller numbers.
* `Gateway`: `admitted` is the history of what passed, and `hits`, the limiter's list,
  holds places in it and is pruned as it is checked. Tokens are numbers that are used
  once, a login is known by its first pair. A refresh is cut at its await: `refreshSession`
  finds the session, `refreshAnswered` stores the new one without another look, and
  `refreshFails` ends it; `RefreshCalls` bounds how many overlap. So two refreshes
  with one token fork a login, and one that a logout overtakes revives it. `forked` is the
  history of such logins, which `OneSessionPerLogin` leaves out; `TokensWorkOnce` holds
  for them too: tokens that were replaced or deleted stay dead.

### Browser

* `WebShell`: the state of the shell is `route` and `filters`; each change writes the
  URL and starts the fetches the route needs, aborting those under way. Answers
  of aborted fetches are dropped by the abort flag alone, which the model keeps.
* `FeedCards`: one list of cards, fed by the fetches, by the answer to a creation and by
  local edits. A fetch that was aborted has no effect (that is `WebShell`'s property) and
  is left out. Every fetch asks for a centre and a radius the user did not set, 100 km
  for the feed and 20 km for the map, which the views themselves do not apply: `Near`
  says which posts are within each, and a post created farther away is dropped by the
  next answer. An answer whose body fails counts as an empty list (`bodyLost`), and
  `emptied` remembers it until the next one. `CreatedIsFound` is about posts within both
  radii, between such answers. A page has 100 posts, which are taken to be all.
* `Settings`: service and page together. A call can be lost before or after it reached
  the service, and one the page gave up on may still arrive; `doubtful` is a
  history of that, and the claim about the page is made where there is no doubt.


## 3. Runs

| Run | Bounds | Shows |
| --- | --- | --- |
| `lifecycle` | 1 post, 2 people, 2 roles, times 0 and 1, timeout 1, 5 entries | status, timeline, assignment and hand-off tell one story; one answer wins; only the answer to a pending offer reopens; `RequestAudit` is implemented |
| `lifecycle_archived` | the same | refuted: 'archived' is terminal |
| `moderation` | 2 subjects, 2 records each, one explicit key, restarts | the trail explains every item, a key acts once; `ReviewLedger` is implemented |
| `moderation_depth` | 1 subject, 3 records, gauge to 2 | refuted: the gauge is the queue's length |
| `indexer` | every stream of 3 events about 2 records, 2 calls, interval 2, overlap, failures, replays | no event behind the cursor was skipped; the index matches the stream |
| `indexer_restart` | streams of 3 events about 1 record, 1 call, interval 1 | refuted: the index is complete again after a resume |
| `connector_sync` | 1 instance, 2 syncs, 2 retries, 2 health checks | history and trail agree, from the first failure health is the last evidence, every sync ends |
| `connector_paused` | 1 instance, 1 sync, 1 retry, 1 health check | refuted: a paused instance is not called |
| `services` | beside each instance in `MCServices` | the properties of the next table |
| `notification_urgent` | 1 user, type and context, 1 external channel, window 2, 2 notifications, 4 reports | refuted: an urgent notification goes in the app |
| `region_failback` | 1 tenant, 2 regions, thresholds 2, 2 checks, 2 failovers | refuted: a region that recovered serves again |
| `matching_boost` | 1 request, 3 candidates, scores 1 and 2, 3 overrides | refuted: a boost raises |

What `services` shows:

| Service | Property | In words |
| --- | --- | --- |
| `groups`, `rooms` | `GroupsAddUp`, `AuthorityIsGiven` | stored member counts are right, a request has one open room; nobody becomes a manager in a group without an active one |
| `chat` | `ReaderMissesNothing` | a reader who follows the cursors is shown every message, although messages are sent again and change places meanwhile |
| `routing` | `ResourcesComeLast`, `ConversationsKept` | no bonus lifts a resource over a volunteer; a conversation is neither lost nor opened twice |
| `safety` | `SafetyHolds` | no window lets more through than its limit; metrics, signals and what was drained add up |
| `schedule`, `availability` | `ClashesWereReported` | shifts of a volunteer that overlap were reported when they were assigned, whatever was cancelled or missed since |
| `notify`, `deliver` | `DeliveriesHold` | duplicates are a window apart; every retry follows a failure of its channel |
| `regions`, `policies` | `RoutesAvoidFailures` | a route leads to an allowed region that passed its last check, and is refused only when each region fails or was failed over from; a failover goes to another allowed region, not the primary one |
| `tiers` | `AuditExplainsStatus` | the trail explains tier and expiry |
| `match` | `RanksArePlaces` | the ranks of a request's list count its places, and what was excluded is in none |
| `posts` | `AnswersStayComplete` | at the start and after each change of the index, a query finds all it asks for, page by page, each once |
| `posts` | `AcknowledgedAreFound` | through failing commits and restarts, a post that was answered with 201 is found |
| `limits`, `sessions` | `GatewayKeepsCount` | no window holds more than its limit, a refusal tells when to come back; tokens that were replaced or deleted never work again; a login has one session, and a logged-out one none, unless a refresh of it was overtaken |
| `portal`, `listings` | `TrailExplainsOrganisation` | the trail of an organisation explains members, roles and listings |
| `unread` | `InboxIsRead` | a reader sees all the filter keeps, and nothing twice |
| `settings` | `SettingsAgree` | the page knows what is stored unless a call was lost, and the log explains it |
| `shell` | `ScreenAgrees` | what is shown answers the filters of now, and the URL tells them |
| `cards` | `CardsAgree` | a created post within the radius of both lists stays in the list but for an answer without its body, and no card is there twice |
| `store` | `OtherInstancesHold` | `DecisionsNeedAppeals`: no appeal is decided twice, whatever users of the store do |
| `sequential` | `OtherInstancesHold`, `StreamAdvances` | with awaited calls, failing saves and crashes: what the row does not cover is counted (`UnsavedAreCounted`), and `StreamProgress` is implemented with a row that does not go back |

### Why the bounds are enough

No handler of the lifecycle reads another post's record, so one post shows
everything; two people are enough for an assignee, somebody else and an assigner
who may be either; of the roles callers claim, 'moderator' may take every edge of the
graph and 'volunteer' only some, and 'coordinator' entries come from the fixed
transitions (the proofs cover all five); five entries reach an answer after an
archived request and the reassignment after it.

In moderation the only thing two subjects share is the keys, which `moderation`
covers; three records reach an appeal that is opened, reviewed and decided. That run
and `store` are apart because they cannot hold together: an item that a store user took
away when the snapshot was taken is not in it, and after a restart a new report makes
it visible again, which no audit record explains (the hazard at `queue-store.ts:112`).

In the indexer two calls are the least that overlap, three events make a put, a
delete and a put again, and `MaxCount` lets a count outlive a failed save. With
a driver that does not await its calls the two properties of `sequential` fail: the
pool has five connections, the upsert keeps the last cursor to land, and the
counter is reset after the await. No driver of the repository does that, so they
are checked under the discipline they need, and proved with it as a hypothesis.

Instances of a connector do not meet, two syncs of one do. In the services,
users, organisations, tenants and subjects do not read each other's state either,
so one of each and two or three of what they hold are enough; where a limit
matters the run goes one past it (a message over the rate, a page after the
last, an attempt after the last retry, a request in the next window). Two posts make
the overtaking (of one) and the pages (of both); `FewPosts` has the second created in
one way only. Of two shifts the first may end before it starts (`SecondInOrder`). Regions
are listed up to three times, which has a region twice beside another; two refreshes are
the least that overlap; one post is near both lists and the other near the feed only. The
answers are checked where the index changes, since they say
nothing new elsewhere and ask every filter.

Deadlock is checked in every passing run but `services`, whose bounded
counters stop it, as those of the last three refuted runs do.

### Fairness

Only `ConnectorSync` claims liveness. It assumes weak fairness of each sync's
timer (`setTimeout` fires) and of each attempt's answer. The second is an
assumption about implementations: the two adapters of the repository await
nothing that may not come, but the service enforces no timeout (`timeoutMs` is
configured and read nowhere), so an implementation that never settles leaves
its sync open for good. Starting a sync, pausing and health checks are not fair.
The other modules claim no liveness, since nothing in the code schedules their
operations: the assignment timeout is checked when somebody calls
`checkAssignmentTimeout`, checkpoints are saved when a driver delivers, reminders and
expiries are processed when they are asked for, and an item is reviewed when a
moderator acts.

## 4. Findings

Refuted by a run, each against a line of the repository (`PROJECT.json` quotes it):

* `archived` is not terminal: an offer that is still pending when its request is
  archived can be accepted, declined or timed out, and each moves the request.
  The same gap lets an offer outlive the 'assigned' status it is a sub-state of.
* The queue-depth gauge counts calls: repeated reports add, appeal actions that
  queue an item subtract.
* A restart resumes from the persistent cursor with an empty index, and nothing
  reads what is behind the cursor again.
* A sync goes on calling an instance that was paused between two attempts.
* A preferences update that names no channels stores none, and `sendNotification`
  then throws after it stored the notification: even an urgent one is delivered
  nowhere, and a retry counts as a duplicate.
* A region that failed over never serves again, whatever its checks say, unless it was
  listed twice: then its second endpoint goes on serving.
* A boost starts from the first ranking and not from the present one, so after other
  overrides it may lower what it should raise.

Read in the code and not run:

* Delisting or suspending during an appeal marks the item resolved, so it leaves the
  list of pending work with its appeal open; `resolve-appeal-rejected`, which the
  procedures call the reversal, leaves the visibility as it was.
* A hand-off can be completed with an assignment that was never accepted, since
  `completeHandoff` reads the status and the assignee only.
* A volunteer with all bonuses reaches 303 points and overtakes the author's 300,
  against "PostAuthorFirst" (`docs/architecture/phase5-chat-routing.md:32`).
* The expiry of a refresh token is never enforced
  (`docs/at-protocol/identity-session.md:20`): the handler passes a time before it.
* No operation decides a verification appeal: every one stays 'pending'.
* Deactivating an account in the settings only writes a note to the log.
* Cards never carry a `lifecycleStatus`, and edits made on the feed or the map stay
  in the browser until the next fetch takes them back.
* A post created farther from the default centre than the hidden radius of a fetch
  (`api-client.ts:142`) disappears with the next answer, and a body that fails after its
  head shows an empty list and no error (`api-client.ts:289`).
* Two refreshes with one token both store a session, and one that a logout overtakes
  brings the login back (`auth-service.ts:147`).
* Checks of an instance without an implementation are audited as passed while it stays
  unhealthy (`connector-service.ts:590`).
* An answer to `launchChat` moves the user to the chat wherever they have gone since
  (`frontend-shell.tsx:3337`).
* Reminders are sent for shifts that are over or cancelled (`scheduling-service.ts:328`).
* The offline queue's bound counts items synced long ago (`offline-sync-mobile.ts:95`).

## 5. Proofs

Eight modules of theorems, for all values of the constants that satisfy the
modules' assumptions. A component that `MCServices` extends states its assumptions as a
definition (`GroupConstants`, `ChatConstants`, ...), which its theorems have as a
hypothesis and which TLC evaluates in the run. No module has a RECURSIVE operator.

Every safety property of every passing run is proved, action properties and refinements
among them. A theorem rests on an inductive
invariant that has the module's type invariant as a part, so every component's types
are proved on the way. TLC checked each invariant before it was proved.

There are three abstract specifications, and each says in a screenful what a component
promises to those who do not look inside: `RequestAudit`, `ReviewLedger` and
`StreamProgress`. That the component implements it is proved for all values of the
constants, step by step, and checked on the small instances.

### Lifecycle

* `TypeCorrect`.
* `TimelineCorrect`, `TimelineWalks`, `AnswersAudited`, `AnswersFinal`,
  `ReopeningNeedsAnOffer`. All rest on one lemma about the shape of a step
  (`StepShape`): whatever handler runs, either nothing but a registration happens to
  status and timeline, or one post's grow together by one lawful entry that starts at
  the post's status or is an answer's. `TimelineInv` (the timeline ends in the status and
  is a walk but for answers) and `AnsweredInv` (every answer and hand-off has its
  entry, which appending keeps) follow from it by induction. The status
  alone is not inductive: it needs the timeline beside it.
* `AuditRefinement`: `Lifecycle` implements `RequestAudit`. The fixed entries of the five
  handlers that ask nobody are shown to be in the permission table.

### Moderation

* `TypeCorrect`.
* `LedgerRefinement`: `Moderation` implements `ReviewLedger`, with trails as ledgers and the
  snapshot's trails as what is kept. It needs no hypothesis on restarts or store users: the
  queue, the copies and the gauge are not in the ledger. Two lemmas meet here, the one
  on the shape of a step as the trails see it, and the one on what each subject's record
  says (`Acted`).
* `KeyOnce` and `SnapshotsKept`: a key acts once, and a restart undoes nothing a
  snapshot holds. A lemma on the shape of a step says that it leaves trails and
  snapshot alone, gives some trails one record each under keys nobody used, takes a
  snapshot or goes back to it. `KeyInv` demands one use per key of the snapshot's trail
  too, since that is the trail after a restart.
* `StoryTold`: the trail tells the story, under the hypothesis
  `Restarts => Consumable = {}` (section 3 says why both together break it).
  `StoryInv` adds to the property that both copies agree with the trail wherever they
  have the item, that the snapshot does, and that the copy that can be relied on (the
  store where processes restart, the queue's own map where store users take
  items away) has every item with a trail.
* `DecisionsAppealed`: under the same hypothesis, no appeal is decided twice.
  `AppealInv` adds an opening in reserve for the appeal that is open, which the
  decision that ends it uses up; it needs `StoryInv` because a transition reads the
  item and not the trail.

### Indexer

* `TypeCorrect`.
* `CursorSound`: no event behind the cursor was skipped. `NothingSkipped` speaks of
  the row only; the invariant `SkipInv` adds what may become the row (the calls in
  flight, the consumer's number) and what a new process starts from (position, resume).
* `ProgressRefinement`: `Indexer` implements `StreamProgress`. Whatever is handed over follows
  what is covered already (`SkipInv`), so what was taken in has no gap; that the row does
  not go back is part of the promise where calls do not overlap (`SeqInv`), and not
  otherwise.
* `IndexCorrect`: the index matches the stream. `IndexInv` says what the index holds
  while a stream is read a second time: it is right about the events delivered again,
  and about the others once the position is past all that were seen.
* `SequentialCursor`: without overlap and without `replay()`, the cursor never goes
  back. `SeqInv` orders the row, the call in flight, the consumer and the position.
* `SequentialCount`: without overlap, what the row does not cover is counted, over
  replays, restarts and failed saves. `CountInv` adds that the consumer is past all
  this process read, and that a call in flight carries the consumer's number, which
  is the row's once it landed; so the reset after the await forgets nothing.

### Connectors

* `TypeCorrect`: no sync makes more attempts than its policy allows. `CallsInv`, `ChecksInv`
  and `TrailInv` are its parts.
* `HealthCorrect`: from the first failure of an instance on, the health flag is what the
  last entry about its health says. Before it, a passed check may say more than the flag.
* `HistoryCorrect`: every ended sync is in the history once, and the trail tells
  its record from start to outcome. `HistoryInv` says the same of syncs that run: what
  the trail tells of them so far. `Entries` numbers the entries of one sync by counting
  those before, since a subsequence is defined by recursion and cannot be
  unfolded; one lemma (`TellsMore`) says what one appended entry does to it.

### Groups, verification, schedules, organisations

* `GroupsCount`, `AuthorityGiven`: `GroupInv` has the types and the property, and one lemma
  each says what replacing a channel or putting a member's record does to it. That a
  count is right after a put is a fact about the size of a set and one person, for
  finitely many people. Authority needs only the types: the role a record keeps, and
  the one that a manager gives, are told apart by the record that was there before.
* `StatusExplained`: the last entry of the trail explains tier, day and expiry of a
  subject. The invariant is the property itself with one lemma for each kind of
  step: what a stored status, an appeal, or a day that passes does to it.
* `ClashesReported`: `ScheduleInv` adds that what was found missed is a shift. The
  lemma that matters is `NothingRevived`: a step that keeps people and times and takes
  nothing out of 'cancelled' or 'missed' makes no clash that was not there.
* `TrailExplainsAlways`: `Told` says of one profile and its trail that the last entry about
  a person gives the role, that the only owner is whoever made the first entry, that
  every entry was written by somebody who had the role for it then, and that the
  statuses of a service follow each other. Entries never change, so a longer trail keeps
  all that is said of its beginning (`EntryKeeps`), and a new entry starts from what
  the profile holds.

### Messages and notifications

* `ResourcesLast`: a resource scores at most 193 points and a volunteer who is
  available at least 200, so the sum of the bonuses cannot turn the order round. An
  arithmetic fact about six terms, which a change of any of them may break.
* `ConversationsStay`: the key of a conversation is sorted, so it is the same from both
  sides, and a second start finds the first.
* `SafetyHoldsAlways`: the windows are pruned, so they alone do not show that a limit
  holds over every span of time. `WindowsKept` says that each window still has every
  place of the history that its width covers; a message that is let through is then
  counted against all of them (`LimitKept`). `Signals` counts the incidents of all windows
  together, so that no incident is used for two signals.
* `DeliveriesHoldAlways`: `Cached` ties the dedupe cache, which is all the code reads, to
  the last notification of each key; the totals are sizes of sets of attempts, and
  one lemma per step says which attempt it adds.

### Lists

`ListedIs` says that a sorted list has every element once and in order, from the
definition of `Listed` by the number of elements before each; `AtIs` the same of a filter.
`Upward` is induction over numbers, stated for a set instead of a predicate. With it
`RunExists` and `JoiningExists` unfold the recursive functions of `applyEvents` and of
`FlattenSeq`.

* `ReaderMissesNothingEver`: `ChatInv` says of the page on its way that it covers, from
  where the reader is to where the page ends, all that is held now. Messages that are sent
  or sent again get places behind every page, so this lasts until it is shown.
* `InboxIsReadAlways`: `InboxInv` says of each item that is owed that it was shown or is
  older than the cursor. Outside of the unread items the cursor's item never leaves the
  filter, and all that was shown is newer, so nothing comes twice; among the
  unread it may leave, and the property is about what the filter still holds.
* `RanksArePlacesAlways`: ranks and places are in different maps and part after an
  override; `Placed` says that the ranks are a permutation of the places, which each of
  the four moves keeps and an exclusion renews. That an excluded one stays away needs
  that the ids are given out in order.
* `AnswersStayCompleteAlways`: the invariant is that each bucket of each index has exactly
  the records with its key (`Indexed`), which an upsert keeps because it removes first,
  and a run of events by induction. That the pages until `hasNextPage` is false make
  the whole list (`PagesCover`) is an induction over pages.
* `AcknowledgedAreFoundAlways`: what is acknowledged, or about to be, has a row that writes
  it (`WrittenIn`), a conflicting append only replaces a row by one of the same id, and
  deletions are in the seed alone, whose numbers are smaller. The fold of the sorted rows
  then ends with the post in it (`Loaded`): from its row on nothing deletes it.

### Browser and platform

* `ScreenAgreesAlways`: a fetch that counts asks for the filters and the route of now, and
  is the only one of its list (`LiveIsNow`); a list waits for it or has its answer
  (`ListsFollow`); every URL of the history reads as what wrote it (`UrlsFollow`).
* `CardsAgreeAlways`: between its creation and the next complete answer a new post is held
  by a promise: it is stored, it matches the filters, it is near both lists, and every
  answer on its way has it (`PromiseKept`).
* `SettingsAgreeAlways`: `PageAgrees` lists who may change what is stored while the page is
  not in doubt: only its own save, of which there is one at most.
* `GatewayKeepsCountAlways`: `LimiterInv` is about one client: what the limiter forgot is
  outside the window, and the request `M` places back is a window earlier. So the times
  alone tell whether the next one passes, and the time a refusal names is the first
  at which it does. `SessionInv` bounds pairs and logins by a counter, so a new one is new,
  and says that a waiting refresh holds a session that was handed out. While that one is
  active it is the last of its login, by the property itself; once it is not, the answer
  counts the login as forked.
* `RoutesAvoidFailuresAlways`: an endpoint is off only where the trail names a failover from
  its region (`OffExplained`), and every failover leads to another allowed region than the
  primary one (`FailoversLead`), which is where its target came from. The rest is about
  the strategies: all but the primary-only one find an endpoint where one is fit.

### All services side by side

* `EveryServiceRuns`: a behaviour of `MCServices` is a behaviour of each of its eighteen
  services. Its next-state relation lets one of them step and the others rest, and each
  conjunct that cuts a service only takes steps away. So what is proved of a service
  holds of the run, whose bounds are not in the theorems.
* `TypesHold`, `OtherInstancesStand`, `StreamAdvancing`: what the run checks of all services,
  or of the second instances of `Moderation` and `Indexer`. Those come with theorems of
  their own, from instances of `ModerationProofs` and `IndexerProofs`; that these are the
  same as the instances of `MCServices`, and meet the assumptions the theorems make, is
  shown definition by definition (`SameStore`, `StoreFits`, `SameDriver`, `DriverFits`).

### Only model-checked

* Liveness (`EverySyncEnds`): TLAPS has no rules for fairness here.
* That the bounds of `MCServices` are wide enough for its services, which section 3 argues.
* What the refuted runs show: a counterexample is one of a small instance.

## 6. Not modelled

`PROJECT.json` gives every component's reason.

* `records.ts`: create, update and delete with tombstones, one synchronous repository
  that no service uses yet.
* Offline sync and `apps/mobile`: `flush` marks items as synced without calling
  anything; items that failed are never tried again, and deep links do not ask
  `requiresAuth`. There is no protocol to model before there is a transport.
* Authorization, privacy and category policies: tables, and pure functions of them.
* Progressive delivery: types, a transition table and a step function nothing runs.
* Feedback, reputation, volunteers, capacity: maps with validation, one synchronous call
  at a time. (`activeVolunteers` is set to 1 and never grows.)
* Alerting, SLIs, load testing: arithmetic over metrics.
* Configuration, errors, lexicons, schemas: parsing and validation, without state.
* The other views of `apps/web` and `apps/mobile`: computed from responses.
* Within modelled components: the connector registry, the launch of chats from the
  shell, attachments, texts and formats everywhere, and floating-point scores,
  which are constants of the models that rank by them.

## 7. What is left

1. An abstract specification worth stating: the log of posts as the one order that indexes
   and restarts follow.
2. `Records` under `Indexer`, once the repository's own events feed it: a tombstone
   in the one is a delete in the other.
3. `ChatSafety` over `Moderation` through the drained signals: the shape of a signal is
   the only interface today, since no code carries one to the worker.
4. The offline queue, once it has a transport.
