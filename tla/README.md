# GoUpTime: a TLA+ model

GoUpTime (`src/`) is a self-hosted uptime monitor. Workers run checks against
the monitored targets, store the results in PostgreSQL and open and resolve
incidents; incidents are announced through an outbox of notifications and on
status pages. Several processes (API, workers, schedulers) share the database
and Redis and nothing else. This directory models those processes and how they
interleave, fail and restart, and the algorithms they decide by; it checks the
models with TLC and proves their safety properties with TLAPS, some of them under
conditions the theorems name.

## The system

| Component | State | Operations | Talks to |
|---|---|---|---|
| Incident rules (`service/monitoring.go`, stores in `repository/`) | `monitors.status`, `check_results`, `incidents` | RunCheck, RecordResult, applyIncidentRules; users resolve, acknowledge and move incidents on | database, one statement at a time; notification goroutines |
| Notification outbox (`notifications/dispatcher.go`, `outbox.go`) | `notification_channels`, `notification_outbox`, each poller's batch | Enqueue, claim, deliver, mark | database, providers |
| Providers (`notifications/webhook.go`, `slack.go`, `push.go`, `sms.go`) | the direct webhook's attempt counter | send, deliver, postOnce | receivers over HTTP |
| Worker (`worker/worker.go`) | job channel, `inFlight`, `nextRun`, counters | enqueueDue, consume, runOne, heartbeats, shutdown | incident rules, database |
| Scheduler (`scheduler/scheduler.go`, `queue/redis.go`) | the leader lock in Redis, each replica's leader flag and `nextRun` | acquire, refresh, release, enqueueDue | Redis |
| Aggregator (`scheduler/aggregator.go`) | verdict per monitor and region | handle, evictStale, restart | Redis pub/sub; only logs |
| Heartbeat monitors (`api/heartbeats.go`, `checks/heartbeat.go`) | `heartbeats`, rate limit keys | ping, save settings (with or without a new token), check | database, Redis |
| Clerk mirror (`api/clerk_webhooks.go`, sign-in in `api/router.go`) | users, organizations, memberships, seen events | deduplicate, apply, sign in | an external service that retries and reorders |
| Browser checks (`checks/browser.go`, `cmd/browser-worker`) | Redis list and channel | submit, run, publish, wait | Redis |
| Catalogue: monitors, tags, services, targets of windows (`gorm_store.go`, `api/`) | those tables and the links between them | create, update, delete, link | worker and incident rules read it |
| Incident records and dependencies (`phase23_store.go`) | comments, action items, post-mortem, timeline, `monitor_dependencies` | write the row, then the timeline; replace the parents | incident rules read the parents |
| Schedules (maintenance windows, on-call rotation, escalation policies) | rows read at a point in time | pure functions of it | incident rules |
| Status pages (`api/statuspage.go`, `admin_status.go`, `notifications/webhook.go`) | pages, components, subscribers, announcements | look a page up, subscribe, confirm, announce, mail | database, SMTP |
| Access: API keys, agents, roles, push devices (`api/router.go`, `phase23.go`, `push_devices.go`) | credentials, assignments, devices | authenticate, then perform; revoke; hand out jobs, take results | incident rules |
| Check implementations (`checks/`) | none | from an answer of the network to a result | the network |
| Reports (`gorm_store.go`, `api/tags_sla.go`) | none | select, page, summarise, SLA | database |
| Configuration, metrics, start-up, console | - | - | - |

What is hard about the system, per component:

- **Incident rules.** Consumers of every worker, the API's check-on-demand and
  agents' results evaluate the same monitor at the same time; an evaluation is a
  dozen autocommitted statements with no transaction around them, while users
  change incidents. It is correct if duplicates stay bounded and go away, an
  incident is opened only when every rule allows it, resolved incidents stay
  resolved, the shown status and the incident agree, and no notice is false or lost.
- **Outbox.** Every API process polls one table; receivers time out after they
  have accepted; pollers stop in mid-batch. Correct if a row has one holder, the
  number of sends is the number of attempts, an accepted notice is not sent
  again, "delivered" is true, and every row settles.
- **Worker.** Three kinds of goroutines around a bounded channel, panics, and a
  shutdown at any point. Correct if no monitor is forgotten or run twice at a
  time, and if the shutdown ends and leaves nothing behind.
- **Scheduler.** A lock with a TTL, looked at every third of it, and schedule
  state in the process. Correct if two leaders overlap only as long as the TTL
  allows, a live replica always takes over, and a hand-over misses no monitor.
- **Heartbeats.** Read-modify-write of one row by pings and saves. Correct if the
  check's verdict is the pings', and the token handed out works.
- **Clerk mirror.** Events recorded before they are applied, applied in any order,
  and failing halfway. Correct if every event is applied once or known to be lost,
  and the tables end up as Clerk's.
- **Aggregator, browser queue, webhook delivery.** Lost and overtaking messages, a
  timeout on both sides of a queue, a retry loop against a deadline. Correct if
  the conclusion, the verdict and the audit trail tell what happened.
- **Catalogue, incident records, status pages, access.** Few statements each, of
  many users at a time: a list read before it is used, a link whose other end goes
  away, a credential revoked while its request is under way. Correct if the
  links, the timeline, the mail and the effects agree with what users did.
- **Schedules, reports, checks.** Arithmetic over midnight, time zones,
  wrap-around, truncation and clipping. Correct if they agree with a definition
  that has none of these.

## Modules

| Module | Role |
|---|---|
| `IncidentRules` | the evaluation of one result, statement by statement; user operations; failing calls; crashes; notification goroutines |
| `IncidentRulesProofs` | what it promises whatever happens: inductive invariants and theorems |
| `IncidentSerialProofs` | what it promises of monitors whose evaluations do not overlap, while users reopen nothing, or until something fails; who reopens incidents, and how many duplicates there can be |
| `MCIncidentRules`, `MCSerialRules` | dependency tables, results and symmetry for TLC; the two questions of `rules_serial` |
| `TaskPool` | abstract: what a durable queue promises its consumers |
| `Outbox` | Enqueue, the pollers, channel changes, failures; implements `TaskPool` |
| `OutboxProofs`, `MCOutbox` | who holds a row, and that the outbox is a `TaskPool`; what it counts and records; symmetry |
| `WorkerPool` | the scan, the job channel, the consumers, heartbeats and the shutdown of one worker process |
| `WorkerPoolProofs`, `MCWorkerPool` | proofs; the list of monitors |
| `LeaderLock` | the scheduler replicas, their lock in Redis and their pushes |
| `LeaderLockProofs`, `MCLeaderLock` | proofs; the regions of the monitors |
| `ClerkMirror` | Clerk, its deliveries, the receiver and sign-ins; what becomes of each event |
| `HeartbeatMonitors` | pings, saves and the check of one heartbeat monitor |
| `BrowserQueue` | checks, the list and the channel in Redis, sidecars that die |
| `RegionWindow` | the aggregator's window of regional verdicts |
| `ChannelDelivery` | `Service.send` with its goroutines and retries; what each provider makes of an answer |
| `Catalogue` | monitors, tags, services, windows and their links |
| `IncidentRecords` | notes of an incident; overlapping saves of dependencies |
| `StatusPages` | pages and their addresses, subscribers, announcements and their mailing |
| `Access` | credentials, roles, agents and push devices |
| `Schedules`, `Reports`, `CheckOutcomes` | algorithms as operators, each with its reference |
| `MCControlPlane` | the instance of the twelve modules above |
| `MessageProofs` | proofs about `ClerkMirror`, `RegionWindow`, `BrowserQueue`, `ChannelDelivery` and the algorithms of `Schedules` |
| `ReportProofs` | proofs about `Reports`: sums, sorted values, pages, and the figures built from them |
| `RecordProofs` | proofs about `HeartbeatMonitors`, `Access`, `Catalogue`, `IncidentRecords`, `StatusPages`, `CheckOutcomes`, the two views of a component, and the composition in `MCControlPlane` |

### IncidentRules

An evaluator is a goroutine inside `RunCheck` or `RecordResult`; `pc` is the next
store call of `applyIncidentRules`, `job` its local variables. Variables
`status`, `results` and `incidents` are the tables. `Persist`, `SetStatus`,
`Lookup`, `Resolve`/`Recovered`, `Count`, `Bump`, `Dependency`, `Quorum`,
`CheckFlapping`, `Suppress`, `Open`, `Opened` follow the code in its order, with
its early returns; `Dispatch` starts the goroutines of `dispatchOpened` and
`dispatchResolved`, and `Notify` ends one in any order. `UserResolve` and
`Acknowledge` are one UPDATE; `TransitionRead`/`TransitionWrite` are the two
halves of `UpdateIncidentState`. `StoreError` is any call whose error is
returned; `FlappingError`, `SuppressError` and `ResolveHalfway` are the calls
whose error is treated otherwise; `Crash` is the death of a process.

A result has a status and a success, which need not go together: ping and ICMP
report `degraded` without success, a certificate near its end `degraded` with it, and an
agent sets both as it likes (`phase23.go:350`). The monitor is shown with the result's
status, except that a success that is not degraded is shown as up (`ShownStatus`); the rules
that open and resolve incidents look at the success only. `rules_serial` runs every
combination of the two, on one monitor, in one of its two parts; the other runs take
results whose two sides agree, because their properties depend on the success only.
`misreported` remembers the monitors whose last result called itself up and failed.

Abstractions: an incident's index is its place in the order of `started_at`, its
id at the same time; results may be inserted at any place in the order of `checked_at` (agents
set it themselves); how many rows lie in the quorum's time window is left to
chance; a check's outcome and "in maintenance" are inputs; every evaluator is a
process of its own, so that a crash takes one (several at once are several
`Crash` steps); tables nothing reads back (timeline, suppressions,
announcements) are left out. `by` and `resolvedAt` of an incident are there for
the properties: `by` is no column, `resolvedAt` says whether `resolved_at` was
ever set.

### Outbox and TaskPool

`ListChannels` and `EnqueueNotification` are `Dispatcher.Enqueue`, one INSERT at a
time. `ClaimPending` is the claiming transaction, `batch` the entries it returned,
`FetchChannel`, `Send`, `MarkDelivered` and `MarkRetry` are `deliver` for the first
of them. `due` orders the pending rows whose `next_attempt_at` has passed:
`ComesDue` lets the backoff end at any time. A provider's answer is one of four
outcomes; "unanswered" is received by the other side and an error here. A
shutdown cancels the poller's context, every later call of it fails, and the
rows stay as they are: the same as `Crash`. A channel whose type loses its
provider counts as deleted.

`Holder` maps the table to `TaskPool`: a row is absent, waiting, held by one
poller, done, or lost. `PoolSpec` says every step of the outbox is a step of that
queue or changes nothing in it. `TaskPool` has a `Lose` step, because the code
has no lease on claimed rows.

### WorkerPool

`BeginScan` is a tick; `scan` is what `enqueueDue` has still to look at, and its
branches are `SkipInFlight`, `Admit` (the monitor was not in flight when
it was looked up), `SkipInMaintenance`, `SkipNotDue`, `Submit`, `QueueFull` and
`GiveUp` (the cancelled context). `due` stands for `nextRun`: `ComesDue` lets any
time pass, the negative first jitter included. `Receive`, `Start`, `Complete` or
`Panic`, and `Forget` are `consume` and `runOne`; `Leave` ends the range over the
closed channel. `CloseJobs`, `Drained` and `Cleanup` are the shutdown in
`Run`, in its order. `IncidentRules` is what happens between `Start` and `Complete`.
The heartbeat row exists or does not; its counters are left out.

### LeaderLock

`owner` and `left` are the key in Redis and its time to live; `Tick` is a tick of
the one clock everything sees and expires the key. `AskLeader` is the leader's
ticker, `Acquire` and `Refresh` execute SETNX and the script in Redis, and
`Answer` brings the result back, any time later; `AskError` is a call or an answer
that is lost, and every call after the context is cancelled. `BeginScan`, `Push`,
`PushError` and `EndScan` are `enqueueDue`: `nextRun` is set whether or not a push
succeeds. `due` abstracts `nextRun` as in `WorkerPool`; `BeginScan` takes all
due monitors at once, which nobody but this goroutine can tell from one at a
time. `Release`, `Leave`, `ReleaseError` and `Crash` end a process; what it held
belongs to `Gone` until it expires, because the next process has another id.
`age` is there for the property. Left out: a call that takes effect after the
client has given it up, a Redis that loses its data, the branch for a process
without a Redis client (`cmd/scheduler` always has one), and the initial scan
as a step apart from the later ones.

### ClerkMirror

Clerk and the sender of its webhooks are the environment: `UserChanges`,
`OrganizationChanges` and `MembershipChanges` append an event to `sent`, and
`Deliver` hands any event without a 200 to `clerkWebhook`, at any time and again.
`RecordWebhookEvent` and `Apply` are two steps, because the row is committed
before `applyClerkEvent` runs. The events of a user or an organization are
one statement (`Apply`). Those of a membership are up to five, each a step:
`FindOrganization`, `EnsureOrganization`, `FindUser`, `EnsureUser`, `SetMembership`. The
code takes any error of a lookup for an absent row, so each lookup may fail
(`fault`), and then an upsert of a placeholder follows: `InsertPlaceholder` replaces the
profile that is there by blanks, version 0, and brings back a user who was deleted.
`ApplyFails` is a failing call at any of these or the end of the process, and leaves the
rows written until then. `SignIn` and `SignInInserts` are the lookup and the
upsert of `auth`, for any user whose token is still valid, deleted in Clerk or not. A row
carries a generation, which stands for its local id: a Clerk id that is deleted and comes back
gets a new one, and memberships point at the old. `blanked` and `kept` record, for the
property, whose profile a placeholder went over and which memberships outlived
their end because a lookup failed.

### HeartbeatMonitors

`FindsRow` and `RecordHeartbeatPing` are the two statements of a ping,
`ReadSettings` and `SetHeartbeat` those of a save, which writes every column of the
row it read. `recent` holds the rate limit keys, set only when Redis answers.
`forgotten` and `raced` record which writes went over others, for the properties;
`BeatUp` is `HeartbeatChecker.Check`.

### BrowserQueue, RegionWindow, ChannelDelivery

`Enqueue` subscribes and pushes; `CannotStart` and `PushUnanswered` are a call to Redis
that fails, before or after its job reached the list; `GiveUp` is the end of the
check's context and leaves the job in the list. A sidecar takes a job (`TakeJob`), starts a
browser or not (`LaunchFails`), runs the script (`RunJob`) and publishes what it did to whoever
is subscribed at that moment (`PublishResult`). A launch that fails, and a publish that is not
confirmed, whether it reached anyone or not, end in the catch of the loop:
`PublishError` publishes a failure of the same job, and if that is not confirmed either
the process ends, as `SidecarDies` does at any moment, taking its job with it. `holding` is
where in this a sidecar is, `mishap` what happened to a job besides its run.

In `RegionWindow` results wait in `flying`, where they may be lost or overtake each
other; `Handle` stores the last to arrive, `EvictStale` and `AggregatorRestarts` forget.

In `ChannelDelivery` every channel's goroutine runs `Post` (or `Mail`, once) until it may not go on, and then
writes its entry (`LogNotificationEvent`), which the code does with the caller's
context and without looking at the error: after `ContextEnds` there is no entry, and the
database may refuse one at any time (`unwritten`). A receiver may
accept a request whose answer is lost, and settings come from the store with their
secrets masked, as in the code.

### Catalogue, IncidentRecords, StatusPages, Access

`Catalogue` has one action per operation of a handler and its transaction, for two
organisations. `replaceMonitorTags` and `replaceWindowTargets` call `FirstOrCreate` on rows whose
id is set already, and `Replace` with a monitor that has nothing but an id; what comes of that is
up to GORM, which is no part of `src/`. For a monitor's tags the outcome follows from the
condition it adds and the unique index: a name that exists refuses the save
(`TagsAreNew`). For a window's targets the module leaves the outcome open (`WindowTargets`): it has
every link the repository's own code asks for, and a save that is refused is a step not
taken. With the version `go.mod` pins, saves with targets appear to be refused
altogether, so that the windows of the code are among those of the model.

`IncidentRecords` splits an author's request into its statements (the row, then the
timeline), and a save of dependencies into the DELETE's snapshot, the DELETE and the
commit. `StatusPages` splits an announcement into the
insert, the list of subscribers and one mail at a time. `Access` splits a request
into arrival, authentication and effect, so that a revocation fits in between. A poll hands
out enabled monitors of the agent's organisation that name the agent, or that name
none and lie in its region (`Assigned`), so that several agents may hold one. A submission may
name any monitor: the only guard is the organisation in `GetMonitor`.
`EditAssignment` leaves the regions alone, as `UpdateMonitor` does.

### Schedules, Reports, CheckOutcomes

These have no variables. Each operator is a function of the code on a calendar of a
few ticks per day, rows of whole seconds, or an answer of the network with only what
the result depends on; the operator ending in `Agree(s)` is its reference. What a
library sorts is given by what it returns: `Sorted` by the rank of the k-th value,
`NewestFirst` (a query's `ORDER BY checked_at DESC`) as any order the database may
choose. `AfterSteps` is the loop of a script, one state after each step.

## Runs

| Run | Question | Instance |
|---|---|---|
| `rules_serial` | Is one evaluator at a time correct? `AtMostOneActive`, `StatusAgrees`, `OpensJustified`, `ResolvedIsFinal` | parent and child monitor, two regions, quorum of 2, flapping, users who resolve; or one monitor and results of every status with and without success |
| `rules_concurrent` | What survives any interleaving? `OneLivePerEvaluator`, `NoticesAreTrue`, `AlertsKept` | two evaluators, acknowledgements, transitions, no failures |
| `rules_recovery` | Do incidents go away, and are outages found? `Recovery`, `OutageFound`, and `TypeOK` under faults | two evaluators, threshold 2, flapping, users who resolve, one fault, fairness |
| `rules_ack_reopens` | violation of `ResolvedIsFinal` | one evaluator, acknowledgements |
| `rules_crash_drops_alert` | violation of `AlertsKept` | one evaluator, one crash |
| `outbox_pool` | Do two pollers keep out of each other's way? `Exclusive`, `AttemptsAreSends`, `AcceptedIsLast`, `PoolSpec` | two pollers, two events, batch 2, three attempts, every fault once |
| `outbox_settles` | Is every notice dealt with? `EveryRowSettles`, `DeliveredIsReceived` | two pollers, two channels users change, faults of `Enqueue` only, fairness |
| `outbox_crash_strands` | violation of `EveryRowSettles` | one poller, one crash |
| `worker_pool` | Is the pool sound up to its end? `InFlightIsRunning`, `CleanStop`, `JobsRun`, `ShutdownEnds`, `TypeOK` | two monitors, two consumers, channel of 2, fairness |
| `worker_same_monitor_twice` | violation of `OneRunPerMonitor` | the same |
| `leader_lock` | How far can leadership and the lock come apart? `StaleLeadIsOld`, `OnlyOwnerDecides`, `JobsKeepComing`, `TypeOK` | two replicas, one monitor in two regions, TTL 2, one fault, fairness |
| `control_plane` | Do the components around the loop keep their promises? Its 15 properties below | one instance of each of twelve modules, fault bounds of 1 |

`control_plane` puts twelve modules into one state space. They share no
variable, so `part` picks one at the start and the others stay in their initial state:
their states add up (about 1.6 million) instead of multiplying, and nothing is lost,
because no step of one can enable or disable a step of another. For a module of
operators `query` is one of its inputs and no step follows. Deadlock is not checked,
because requests are made once and edits are bounded, and a query has no step.

Three components are taken in two parts each that their questions tell apart:
`IncidentRecords` (notes, dependencies) and `StatusPages` (addresses, mail), whose parts share
no variable, and two where the whole would be too large. `ClerkMirror` runs with three changes of two
organizations and no sign-ins ("webhooks"), and with sign-ins and the changes of one
organization ("sign-ins"), because a sign-in reads and writes the user's row only. `Access`
runs with two requests at a time while the assignments stay as they were at the start, in either
organisation and region ("requests"), and with assignments that users edit at any time between the
steps of one request ("assignments"); the first has the revocation of one request by
another, the second a monitor handed over, disabled or deleted under a request.
`ClerkMirror` and `Access` as a whole were run on their own as well, on the same
constants: 780 thousand and 1.3 million states, without an error.

`rules_serial` asks two questions in one run in the same way (`MCSerialRules`): two monitors
with results whose status and success agree, or one monitor with any.

| Property of `control_plane` | What it says |
|---|---|
| `EventsAccounted` | no event is applied twice; the sender gives up only events applied, being applied or lost to a failed attempt |
| `MirrorAgrees` | events applied in order and none lost: the tables are Clerk's, except users whose profile a placeholder went over (or brought back), memberships whose end was passed over because a lookup failed, and those of a deleted organization |
| `VerdictFollowsPings` | up exactly when a ping came in time, except pings a slower request wrote over |
| `LastTokenWorks` | the last token works, unless a save wrote back a row another save had changed |
| `BrowserVerdictsOwn` | a check is up only if the only run of its own job was; it fails only if that run failed, no browser started, or the announcement of a success reached nobody, so that a success announced is not taken back by the failure the catch publishes after it; no job, of a check that gave up either, disappears but with a sidecar that died |
| `WindowLosesNothing` | eviction and restart never change the conclusion, unless results arrive out of order |
| `AuditIsTrue` | one entry per handled channel, none only if the caller's context was over or the database refused it; a success only if received, twice only after a lost answer |
| `MailFollowsChoices` | announcements reach who confirmed and chose, and nobody else, while people come and go |
| `RecordsAgree` | dependencies are the last save's and those that overlapped it; the timeline tells of what was written; links point at rows that exist and a monitor's tags are its organisation's (a window's may be another's); a page's address finds at most one page |
| `EntitlementsHold` | effects come from credentials valid on arrival; an agent's result for any monitor, assigned to it or not, is stored for its own organisation only; pushes reach the organisation signed in to last |
| `CoverageGrows` | a window comes to cover a monitor only because the window was saved, the monitor was created or retagged, or the window's last target went, after which it covers everything |
| `WindowHours` | a maintenance window is in effect exactly at the hours of its reference |
| `RoutingAgrees` | shifts follow each other in turn, overrides win, the policy chosen is the most specific but for one tie |
| `ReportsAgree` | percentiles, downtime, pages, periods, SLA seconds and the views of a component's status |
| `OutcomesAgree` | coherent results of every checker, assertions, scripts, expiry, and agreement of the providers |

The bounds. `HistoryCap` equals the largest of the limits the rules read with, so
no reader can tell that older rows are dropped; the limits are small, and
thresholds are small with them: 3 rows are enough for a quorum of two regions with
one superseded row, and for two changes of outcome. `MaxIncidents` = 2 lets two
evaluators open duplicates, and one open a second incident after the first.
`MaxIncidents` stops failing results, never successful ones, and no evaluation in
mid-course. `MaxFaults` = 1 reaches every single failure at every place. Two
evaluators, pollers or consumers show every pairwise interleaving; the theorems
below hold for any number. `Batch` = 2 has a first and a last row of a batch,
`MaxAttempts` = 3 has a first, a middle and a last attempt. In `WorkerPool`
nothing is bounded but the sets. In `LeaderLock` a TTL of 2 has a tick in
which the lock is fresh, one in which it is about to expire, and any amount of time
after it; starting and stopping processes is not bounded.
`Flapping` is out of reach in `rules_concurrent` (its rows are fewer than
`FlapMinRows`) and in reach in `rules_serial` and `rules_recovery`.

In `control_plane`, two requests of each kind (three where two may overlap with a
third: authors, savers of dependencies) show every pairwise overlap. `MaxDeaths` = 1 takes a
sidecar at any point; two browser checks and two sidecars receive each other's
messages and jobs. Three Clerk events hold a creation, a deletion and one more in any order, and
`ClerkMaxFaults` = 1 fails any one of their statements, or the lookup of a sign-in; two
organizations are needed for a user with two memberships, and users share no row. Two
requests have one revoke the other's credential, and `MaxRegistrations` = 3 allows to
register, register over it and come back. `MaxSeconds` = 3 lets both
deadlines pass; two tokens allow one rotation, `MaxTokens` only stops further ones.
Two regions with a threshold of 2 reach "up", "down" and "unconfirmed", and a
`WindowExpiry` of 1 in 3 minutes has a verdict before, at and after its end.
`MaxRetries` = 2 has a first, a middle and a last attempt. `MaxEdits` = 4 creates a
monitor, a tag and a window and takes one away. The algorithms are run on every
input of the sets in `MCControlPlane`, chosen to lie on both sides of each
comparison: windows that cross midnight and month ends, hand-offs before and after
the moment, expiry within a day of every limit, and pages that end in mid-result.

`rules_concurrent` uses the outbox path only; the direct path is another
goroutine of the same shape and the proofs cover both.

### Fairness

- `IncidentRules`: weak fairness of each evaluation (store calls have timeouts),
  strong fairness of starting a check of each monitor, because the worker
  comes back to every enabled monitor each interval and an evaluator may be busy
  with another monitor in between. No fairness of users, faults, or outcomes:
  `Recovery` is conditional on checks that stay successful, `OutageFound` on results that
  go on telling of an outage.
- `Outbox`: the ticker fires (`ClaimPending`), every provider call ends by its
  timeout (`Deliver`), the enqueuing goroutine goes on, the backoff ends.
- `WorkerPool`: goroutines that can step do, and a check ends by its timeout.
  Not of the ticker, and not of whoever cancels.
- `LeaderLock`: time and calls go on; strong fairness of the ready cases of `Run`'s
  `select`, which picks among them at random. Starting and stopping processes is
  free, and `JobsKeepComing` asks only for what follows once that has come to rest.
- The modules of `control_plane` state no fairness, and no liveness: their requests
  end or are given up, and nothing in the code retries for them.

## Theorems

All are proved by `tlapm` for every value of the constants under the modules'
assumptions: limits and thresholds are naturals (positive where the code needs
it), the dependency table maps monitors to sets of monitors, at least one
consumer (`config.go:146` allows 1 to 1024), `None` and `Nobody` are no other value,
the markers for a user, the bootstrap key and no owner are no credential and no
organisation, the empty domain is a domain, deadlines, expiry and the bounds on
clocks, tokens and events are naturals. A theorem that needs more says so as a
hypothesis, which is a condition of a run: `OneEvaluator` (evaluations do not
overlap), `OnlyResolve` (users resolve incidents and do nothing else to them),
`OnlyRulesResolve` (users do anything but resolve), `MaxFaults = 0`, or
`faults = 0 => ...`, which is "until the first fault"; or it is one on the behaviour
(`ResolvedIsFinal`, `[]ApartIn(S)`), explained below.

Incident rules, in `IncidentRulesProofs`, whatever fails and whoever overlaps:

- `TypeCorrect`. `TypeOK` is not inductive: a dispatched
  event needs a real incident. `TypeInv` adds `Held`: an evaluation past finding or
  opening an incident points at an existing row.
- `OneLive`: `OneLivePerEvaluator`. The invariant `OneLiveInv` adds that
  resolved incidents carry `resolved_at` (`Marked`) and that an evaluation on its
  way from a lookup that found nothing to its INSERT has no live incident to its
  name (`NoneOfItsOwn`); nobody else inserts under its name, and nothing clears
  `resolved_at`.
- `NoticesTrue`: `NoticesAreTrue`. `RecoveredResolved`: an evaluation past
  `ResolveIncident` points at an incident with `resolved_at`, and `Grown` says that
  lasts.

And in `IncidentSerialProofs`, under the conditions each needs:

- `AlertsAlways`: `AlertsKept` with `OnlyRulesResolve`, until the first fault, for any
  number of evaluators. Between the UPDATE or INSERT and the goroutines the
  evaluation itself keeps the alert (`AlertInv`); every step either leaves those
  evaluations alone or is the dispatch that hands over (`NoAlertMoves`,
  `AlertsDispatched`). `rules_crash_drops_alert` shows that the condition on faults is needed.
- `OnlyUsersReopen`, without a condition: a step that reopens an incident is a user's
  acknowledgement or the late write of a transition. Hence `ResolvedStaysResolved`:
  `ResolvedIsFinal` with `OnlyResolve`; `rules_ack_reopens` shows why
  acknowledgements are left out.
- `DuplicatesBounded`, without a condition: a monitor has at most as many active
  incidents that were never resolved as there are evaluators, because each has another
  author (`AuthorsApart`, from `OneLive`); and `ActiveBounded`: as many active incidents, in
  any behaviour that reopens none (`ResolvedIsFinal` as a hypothesis).
- `OneActiveWhereApart`, `StatusWhereApart` and `OpeningWhereApart`: `AtMostOneActive`, `StatusAgrees`
  (until the first fault) and `OpensJustified` (with `MaxFaults = 0`) of any set `S` of monitors
  no two evaluations work on at a time (`[]ApartIn(S)`), for any number of evaluators
  that overlap on other monitors, and users who do anything but reopen an
  incident. The last also asks that no parent is evaluated meanwhile
  (`ParentsApartIn`), or the parent's incident could appear between the rule that looks
  for it and the INSERT. The hypotheses are about the behaviour, because it is left to the
  worker to keep evaluations apart, and `worker_same_monitor_twice` shows that it may fail to.
- `OneActive`, `StatusInStep` and `OpeningJustified` are the same of every monitor under the
  conditions of `rules_serial`, `OneEvaluator` and `OnlyResolve`.
- The invariants: by `SerialInv`, a monitor's active incidents are equal (`AloneIn`),
  and on the way from a lookup that found nothing to the INSERT there is none
  (`NoneWhileOpening`); every other step only takes active incidents away. The
  status and the incident are two statements, so `StatusInv` says what the
  evaluation between them knows (`Knows`), and that a monitor shown as up whose
  incident nobody is about to resolve has none (`UpIsClear`). `Evidence`: what the rules have
  read by each label still stands. The lemmas say what
  the counting of failures and of regions reads of a history of any length, the one from
  the least row that is no failure (`LeastNatural`), the other from the cardinality of
  subsets and images (`FailuresInFront`, `QuorumFails`).

Outbox:

- `OutboxProofs!TypeCorrect` (`TypeOK` of `Outbox`, which is proved only) and
  `ExclusiveAlways`: `Exclusive`. The invariant
  adds that a row is due at most once and only while pending (`DueOnce`), which is
  what the claim hands over, and that a poller is idle exactly when it
  holds nothing (`Working`).
- `OutboxProofs!ImplementsPool`: `PoolSpec`, the refinement of `TaskPool`. With
  `Exclusive`, `Holder` has one value for each row (`HolderFacts`), and each step
  hands one set of rows from one holder to another (`HandedOn`) or changes none.
- `OutboxProofs!AttemptsCounted` and `AcceptedOnce`: `AttemptsAreSends` and
  `AcceptedIsLast`. `CountInv` adds what the property cannot see: the poller's copy of
  `attempts` still equals the column, a row sent and not yet recorded has one send
  more, and an accepted row is its poller's, at its mark, or nobody's.
- `OutboxProofs!ReceivedAlways`: `DeliveredIsReceived`, for as long as no read
  of a channel fails (`"read" \notin FaultKinds`): the code takes such a failure for a
  deleted channel.

Worker and scheduler:

- `WorkerPoolProofs!InFlightRuns` and `StopsClean`: `InFlightIsRunning` and
  `CleanStop` (and `TypeCorrect`). `ScanOver`: a consumer leaves only when the channel is
  closed and empty, and nothing is sent after the close. `Waited`: what `Run` has
  waited for is still so when it cleans up.
- `LeaderLockProofs!StaleLead` and `OwnerDecides`: `StaleLeadIsOld` and
  `OnlyOwnerDecides` (and `TypeCorrect`). `Clock`: for a live owner the age of its
  grant and the time left add up to the TTL, so that age is the TTL when the lock
  is lost. `Pending`: a "yes" on its way was true when Redis gave it.

What is delivered late, twice or not at all, in `MessageProofs`:

- `EventsAreAccounted`: `EventsAccounted`. `Placed`: every recorded
  event is being applied, applied or lost, and in one of these places only.
- `NothingLost`: `WindowLosesNothing`. `InStep`: of a region not
  overtaken, the window holds the newest verdict, or neither counts; time never
  makes a verdict count again.
- `BrowserVerdictsAlways`: `BrowserVerdictsOwn`. A job is in one place (`JobsOnce`), one
  in the list has not been run (`RunsOnce`), a sidecar knows what its job did (`JobHeld`), and
  forgotten jobs are at most the sidecars' deaths. A message is true, or comes after that of
  a success in the same subscription (`Credible`), because a success that reached a
  check is heard before the failure of the catch (`Announced`).
- `AuditAlways`: `AuditIsTrue`. `ChannelAudited`: where a channel's goroutine stands
  decides what its counters may be and what the audit trail may hold. `NoneExcused`: an
  entry is missing only with an excuse, and no step takes one back.
- `EscalationAlways`: the policy half of `RoutingAgrees`, for any number of policies. The
  points of a policy are a sum over five fields, strictly growing with the fields
  it names (`MoreFieldsMorePoints`), so that only a policy that names nothing, and counts as
  one point, can tie with one that names more.
- `WindowsAlways`: `WindowHoursAgree` for any window (`IsWindow`: its times and offset are
  integers), moment and calendar, whenever the days of the reference include that of the
  moment and the six before. Of the days an occurrence could be seen from, one has the
  weekday asked for (`WeekdaysApart`), and it is the one the code looks at (`CandidateIs`).
- `OnCallAlways`: `OnCallAgrees` for any schedule (`IsSchedule`: no participant twice, a
  rotation longer than nothing, which `models.go:643` asks for), moment, count and
  overrides. The shifts listed are those of consecutive slots (`UpcomingAre`): the least
  that were not would follow one that is; Go's remainder, taken twice, gives the turn of a slot
  before the hand-off too (`ParticipantIs`). `ScheduleMade`: what `dedupeStrings` returns
  makes such a schedule of any list of names.

What is kept, in `RecordProofs`:

- `VerdictsFollow` and `LastTokenHolds`: `VerdictFollowsPings` and
  `LastTokenWorks`. The row's last ping is an accepted one (`Recorded`), and a later
  one is only missing where an open request will, or did, write over it (`Remembered`); a
  save that is not stale has read the token in force (`TokensRead`).
- `EntitlementsAlways`: `EntitlementsHold`. What an authenticated request has read stays
  true, because organisations and revocations are for ever (`RequestsEntitled`,
  `CredentialsStay`), and so does the organisation of a monitor that `GetMonitor` found; a phone that is signed in has a row of that organisation, and
  knows its id unless it went astray (`PhonesFollow`).
- `CoverageAlwaysGrows`: `CoverageGrows`. `TagsLinked` and `TargetsLinked`: links end at rows
  that exist. Every operation that narrows a window's targets either leaves one or took the last.
- `MailAlwaysFollows`: `MailFollowsChoices`. `ChoicesLeft`: a subscriber's components are
  what is left of the chosen ones. A list is read once, so its rows tell of the time it was
  read (`ListsTrue`), and it misses nobody who was confirmed all along (`BeforeList`,
  `AfterList`); mail goes to the list (`MailedFromList`).
- `RecordsAlways`: `RecordsAgree`, from one invariant per part: `DepsInv` (a
  save about to delete or insert has seen every row, or it is of a save that overlapped:
  `SavesKnow`; and `LastSaved`), `NotesInv` (an event is written after its row, a row without one is
  its author's next step or was cut off), `CatInv`, and `PagesInv` (no two live
  pages share a slug or a domain). Its hypotheses are the specifications of the three
  components, which share no variable.
- `ComponentsKept`: the specification of `control_plane` implies the specification of
  every component, so that the theorems above hold of the run itself.
- `ChecksAreCoherent`, `ExpiryAlways` and `PeriodAlways`, for any input. A check's
  conclusion is one of a few rows (`Conclusions`), which `RunCheck` leaves as they are
  (`CoherentRows`).
- `AssertionsAlways`, `HTTPAlways` and `ProvidersAlways`: assertions on any two values, an
  HTTP, keyword or API monitor against the plain one on any answer, and the providers
  against each other on any answer. They split by the kind of answer; `HTTPAlways`
  never looks at what a JSON path yields, only at both sides yielding the same.
- `ScriptAlways`: a script of any length is up exactly when every step, in order, does what
  it is asked to. `SoFar` says it of the first k steps; the least k of which it were not
  true would follow one of which it is.
- `ViewsAlways`: the two views of a component, whatever its monitors, service and manual status.
- `WindowsInRun`, `RoutingInRun`, `ReportsInRun` and `OutcomesInRun`: `WindowHours`,
  `RoutingAgrees`, `ReportsAgree` and `OutcomesAgree` as invariants of `control_plane`. A behaviour
  asks one question from the start on (`OneQuestion`), and each question the run may ask
  meets the hypotheses of the theorems about its algorithm. `WindowsInRun` needs three ticks
  to the day, or the days that `WindowHours` looks at would end before the moments it
  asks about (the run has four); `ReportsInRun` needs four seconds and room for four
  rows in a report, or the inputs would not fit (the run has ten of each).

What is reported, in `ReportProofs`, for any table of rows:

- `SlaAlways`: `SlaAgrees`. The seconds of the downtime are pairs of an incident and
  a second (`Pairs`); counted by incident they are the report's sum, counted by second the
  reference's, and the number of pairs is one (`CountSums`, `SumsCount`).
- `FiguresAlways`: `FiguresAgree`, as long as the table holds no more rows than a
  report and a monitor's page read (`ReportLimit`, 500): beyond that the reports leave rows
  out that the overview counts. The rows of the overview fall apart by monitor (`CountedByMonitor`).
- `UptimeAlways`: `UptimeAgrees`, for rows of different times: of rows of one second the
  database may give another order for each page. Every list has a sorted one
  (`RankedExists`), and what `Sorted` chooses is in order (`SortedInOrder`); the
  gaps between neighbours add up to the span (`Telescopes`); a percentile lies between two
  neighbours (`PercentileBetween`) and grows with the percentage (`PercentileOrder`).

`Total` is the community modules' sum over a set, which chooses a function that sums up every subset
(`TotalUnfolds`). That is no case for the induction theorems of the library, which the provers
cannot instantiate: `CountSums` shows that counting pairs is one such function,
and `SumsCount` that any other agrees with it, because a smallest subset where it did
not has one element less in which it does (`LeastNumber`).

Only model-checked:

- Every liveness property (`Recovery`, `OutageFound`, `EveryRowSettles`, `JobsRun`,
  `ShutdownEnds`, `JobsKeepComing`): fairness and ENABLED are outside the prover's reach.
- `MirrorAgrees`. Its induction would relate the rows a half-applied event has read,
  the placeholders and the passed-over memberships to a history of Clerk's states, one after
  each event; it is not written. `control_plane` takes every interleaving of three events.

Every other safety property a passing run checks has a theorem, whose conditions that run
meets. Beyond those conditions a property may fail: `rules_ack_reopens` shows it of users
who acknowledge, `rules_crash_drops_alert` of a crash.

## What the checks found

Four runs show the code doing what a comment, the README or a test denies:

1. Acknowledging a resolved incident reopens it (`rules_ack_reopens`).
2. A crash between an incident's INSERT and its outbox rows loses the alert
   for good: the next failure finds the incident and only updates it
   (`rules_crash_drops_alert`).
3. Rows claimed by a poller that stops stay "processing" for ever
   (`outbox_crash_strands`).
4. A monitor whose job waits in the channel is queued a second time and two
   consumers check it at once (`worker_same_monitor_twice`), which is one
   way to the duplicates `rules_concurrent` bounds.

Seen while reading, without a run:

- `failureThreshold` may be up to 100 (`models.go:69`), and
  `CountConsecutiveFailures` reads 50 rows: above 50 no incident is ever opened.
- README.md:207 says "no parent dependency is already down"; the code asks for
  an active incident of the parent, not for its status.
- `UpdateIncidentState` checks the transition against a status it read before
  (`phase23_store.go:262`), and writes by id.
- The comment at `monitoring.go:230` says a success clears "any open incident"; it
  resolves the newest and duplicates wait for the next success (`Recovery`).
- `outbox.go:74` takes every error for a deleted channel, a lost connection included,
  and marks the notice delivered. With a failing read `DeliveredIsReceived` does not hold
  (fault kind "read").
- An agent's result with status `up` and no success shows the monitor as up while the same
  result opens an incident: the one exception of `StatusAgrees`.
- `provider.go:32` has a `Retryable` flag "so the dispatcher knows whether to schedule
  another attempt"; the poller never looks at it.
- `outbox.go:22`: "eight retries cover ~36 minutes"; with eight attempts there are
  seven waits, about 96 minutes in all.
- A channel disabled after `Enqueue` still gets the notice.
- `monitoring.go:569` ignores Enqueue's error because "the outbox still has the row":
  when listing the channels fails there is none.
- `scheduler.go:14` says workers "BRPOP from their queue and execute", and the
  aggregator opens incidents; nothing calls `DequeueCheck`, and the aggregator's verdict
  is only logged. `cmd/scheduler/main.go:7` says a replica takes over "within leaderTTL";
  the lock's time to live and a leader tick have to pass.
- `worker.go:240-243`: the startup jitter is to keep a fresh worker from enqueuing
  every monitor at once; it does so (the job is submitted whatever `next` is), and
  only the second run is jittered.

In the components of `control_plane`, the properties name what the code does where it
departs from what one would expect:

- Events recorded before they fail are lost: the sender's retry is taken for a
  duplicate (`clerk_webhooks.go:117`, `EventsAccounted`). A membership of an
  organization Clerk deleted makes its user's list fail for good. A failed lookup in a sign-in
  or a membership event blanks the profile of a known user, and a token that outlives
  its user brings the user back (`clerk_webhooks.go:223`, `router.go:571`, `MirrorAgrees`). The
  comment at `clerk_webhooks.go:225`, "email backfills on user.created", does not hold when that
  event is applied between the lookup and the upsert.
- `setMonitorHeartbeat` writes back the row it read: a ping or another save's token in
  between is undone (`VerdictFollowsPings`, `LastTokenWorks`).
- A result that arrives late replaces a newer one of its region, so that the window is not
  "what did each region see most recently" (`aggregator.go:3`, `WindowLosesNothing`).
- A publish that errors after a successful script is followed by a published failure of
  the same job; a check that missed the first reports it (`worker.mjs:71`,
  `BrowserVerdictsOwn`).
- Channels are read with their secrets masked, so that Telegram and SMTP with a
  password never deliver on the direct path; the outbox reads them the same way.
  `send` ignores types without a case. "Every attempt is logged" (`webhook.go:203`):
  only the last outcome is. The entry of a delivery is written with the caller's
  context: when that is what ended it, there is none (`webhook.go:248`, `AuditIsTrue`).
- A window whose last target is deleted covers every monitor, of all organisations
  (`CoverageGrows`). `replaceWindowTargets` finds tags by name without looking at the
  organisation, and `DeleteService` leaves `monitors.service_id` behind. A monitor saved with
  the name of a tag that exists is refused (`gorm_store.go:1024`).
- Two overlapping saves of dependencies leave their union; a post-mortem's update
  leaves no trace in the timeline, and two that race to create it give a conflict; an
  action item updated without a completion is reopened (`RecordsAgree`). A deleted
  parent's active incident goes on suppressing its children.
- Deleting the last component a subscriber chose subscribes them to everything; an
  automatic announcement is mailed to nobody and names one component
  (`MailFollowsChoices`). `custom_domain` is unique with the empty one included: there is
  room for one page without a domain.
- The HTML view of a page shows neither a manual status nor the service's
  (`ComponentViewsAgree`), and the handler that creates a page drops `autoUpdates`.
- A daily or monthly window that crosses midnight is lost after it, a recurring window
  is active before its `StartsAt`, and months without its day are skipped
  (`WindowHours`). `UpcomingOnCallShifts` does not look at overrides; a default policy
  ranks with one that names a severity only, and the newer wins (`RoutingAgrees`);
  `escalationPolicyRow` does not keep the steps (`phase23_store.go:1460`).
- An SLA report leaves out incidents that began before the period and counts
  overlaps twice; `MaintenanceSeconds` is never set; the overview counts only status
  `open`; exports stop at the 500 rows of `resultFilter` (`ReportsAgree`).
- A phone registered over an earlier row is not told its id, and a second revocation
  of an agent overwrites the first; results of a monitor reassigned meanwhile are
  taken, those for monitors it never had as well, and two polls of one agent, or of two
  in a region, get the same jobs (`EntitlementsHold`). `UpdateMonitor` never writes `regions`
  (`gorm_store.go:946`).
- A domain less than a day past its expiry is degraded and a success; `whoisExpiry`
  misses a date on an indented line; an `exists` assertion of a script skips what else it
  says; API assertions look at the truncated body; more than half of the packets
  lost is degraded and no success (`OutcomesAgree`).
- Without a run: `setMonitorBrowserScript` saves the source only and resets timeout,
  retries and environment; the sidecar does not look at a job's `retries`; ping and
  domain checks may take their timeout several times over; ping takes any echo
  reply for its own (`ping.go:77`).

## Plan

The components with state are modelled, and every safety property of theirs is proved,
under conditions where the table of runs or the theorems name one. What is left is to
compose them: `IncidentRules` with `Outbox` (from a failing check to a received
notice), and `WorkerPool` with the evaluators, where the pool would have to give what
`ApartIn` asks for.

## Not modelled

- Configuration, metrics, process start-up: sequential, no state another part's
  property depends on. The web console: what the browser shows.
- Request parsing and validation, rate limits other than the pings', payload formats,
  HTML, CSV layout, the cryptography of tokens and signatures: functions of one
  request, whose outcome is an input of the models.
- Migrations; the tables appear as the state of the modules.
- Creating and editing status page components; `StatusPages` starts with them and
  deletes them. Creating overrides, policies, runbooks and schedules is an INSERT each;
  `Schedules` takes any rows.
- Stored artifacts of browser checks; `last_seen_at` of agents; the heartbeat functions
  no route reaches (`FindHeartbeatMonitorByTokenHash`, `RecordHeartbeat`).
- Addresses, timings and protocols below the result of a network call.
