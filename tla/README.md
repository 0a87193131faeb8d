# UptimeMonitor: a TLA+ model

UptimeMonitor watches web sites. A beat orders checks, workers run them, a run
of failures opens an incident, a success closes it, and the owner is told of
both. Five Python services do this over RabbitMQ, gRPC and one PostgreSQL
database per service. This directory models the part where the services race:
who reads what, who writes it back later, and what is lost in between.

## 1. Inventory

| Component | State it keeps | Operations | Hard behaviour |
|---|---|---|---|
| monitors: beat and scheduling (`monitors/tasks.py:103`, `config/celery.py:15`) | none of its own; reads `monitors_monitor`, `check_results` | a tick per minute; one check task per active monitor that is due | ticks pile up behind slow checks; rows change during the loop |
| monitors: check task (`monitors/tasks.py:18`) | `consecutive_failures`, `is_currently_up`, check results | get, check, transaction, publish | read-modify-write across a 10 s network call without a lock; delete during a check; death between commit and publish |
| monitors: HTTP API (`views.py`, `serializers.py`) | the same rows | create, PATCH/PUT, delete, manual check | a PATCH writes back every column it read |
| monitors: verdict (`services.py`, `grpc_client.py`) and **probes** (`probes/`) | cookies and connections of the shared HTTP client of probes | gRPC check, local fallback | two programs with rules of their own; a deadline that passes makes a check run twice |
| monitors: timing of checks (`config/celery.py`, `tasks.py:112`, `models.py:67`) | `checked_at`, the task queue | beat, tick, check | results are stamped at the end of a check; ticks do not see the queue; a task that dies is not run again; the fallback has no deadline |
| monitors: throttling (`throttling.py`) | histories in the cache | limit of manual checks | read and write of the cache are two steps; a refused request still counts for the other limit |
| incidents: events (`incidents/tasks.py`) | the incidents table | open, resolve, dispatch alerts | query and write are two steps, no unique constraint, prefork workers |
| incidents: HTTP API | the same rows | create, PATCH/PUT, delete | whole-row save; rows without an owner |
| notifications: delivery (`notifications/tasks.py`, `services.py`) | the notifications table | save, send, mark, retry | partial failure, swallowed exceptions, retries |
| notifications: HTTP API | the same rows | create, PATCH/PUT, delete | writes under a running task |
| **user_support** (`views.py`, `serializers.py`, `grpc_service.py`, `config/`) | users, settings, JWTs | register, logins, token refresh, profile, deactivate, settings over gRPC | accounts made in two transactions, stale whole-row saves, tokens that outlive an account |
| deployment (`docker-compose.yml`, `k8s/`) | which queues a worker reads, pool type | none | Kubernetes workers name no queue |
| seed command (`management/commands/seed_monitors.py`) | none of its own | demonstration monitors and results | `auto_now_add` overrides its dates |
| logging, nginx, observability | none that the rest depends on | none | none |

How they interact:

    clients -> monitors API -> monitors table <- check workers <- task_queue <- beat
                                                     |
                                             incidents_queue
                                                     v
    clients -> incidents API -> incidents table <- incidents workers -> user_support (gRPC)
                                                     |
                                            notifications_queue
                                                     v
    clients -> notifications API -> table <- notifications workers -> SMTP, Telegram

What makes each component correct:

- *monitors*: no counter shows a failure that did not happen; the status flag
  agrees with the counter; an active monitor is checked for ever; with one
  worker the counter is the number of failures in a row.
- *incidents*: one open incident per outage; each incident is announced once
  per channel; an outage that lasts is reported, a recovery closes it.
- *notifications*: every alert is settled; "sent" means delivered; an alert
  handled without a fault has arrived.
- *user_support*: every account gets its settings; chosen settings are never
  lost; deactivation is final and in the end every service refuses the account.
- *timing and throttling*: a monitor is not without a result for much longer
  than its interval, and what lost or slow tasks add is bounded by their number
  and time; overlapping manual checks pass the rate by a bounded number only; the
  backlog grows no faster than beats come and throttles grant.
- *verdict*: it does not depend on whether probes or the fallback reached it.

The hazards, each at its line, are in `PROJECT.json`.

## 2. Modules

| Module | What it is | Composes |
|---|---|---|
| `Monitors` | beat, check workers, monitors API | |
| `MonitorsProofs` | three theorems about `Monitors` | `Monitors` |
| `MonitorsSoloProofs` | two theorems about `Monitors` with one worker | `Monitors` |
| `Incidents` | event handling, alerts, incidents API | |
| `IncidentsProofs` | six theorems about `Incidents` | `Incidents` |
| `Outage` | what the incidents service promises (abstract) | |
| `IncidentsRefinement` | the refinement mapping | `Incidents`, `Outage` |
| `IncidentsRefinementProofs` | the refinement, for one worker | `Incidents`, `Outage` |
| `Pipeline` | monitors and incidents over one queue | `Monitors`, `Incidents` |
| `PipelineProofs` | six theorems about the two services together | `Pipeline`, with the theorems of `MonitorsSoloProofs` and `IncidentsRefinementProofs` |
| `Notifications` | the delivery task and its table | |
| `NotificationsProofs` | four theorems about `Notifications` | `Notifications` |
| `Accounts` | user_support: accounts, settings, tokens | |
| `AccountsProofs` | four theorems about `Accounts` | `Accounts` |
| `Throttle` | the two limits on manual checks | |
| `Scheduler` | beat, tick and check of one monitor, with time | |
| `CheckVerdict` | both ways to a verdict, as operators | |
| `CheckTraffic` | manual and scheduled checks over one queue | `Throttle`, `Scheduler`, `CheckVerdict` |
| `CheckTrafficProofs` | five theorems: the gap between results, the checks granted and waiting, the verdicts | `CheckTraffic` |
| `MCMonitors`, `MCIncidents`, `MCPipeline`, `MCNotifications`, `MCAccounts`, `MCCheckTraffic` | constants and symmetry for TLC | |

Definitions named `Something_suffix` and introduced by "Mutant:" are deliberate
bugs. No specification uses them; each shows that a property can fail (the
`mutants` list of `PROJECT.json` pairs them).

### Monitors

`row` and `history` are the two tables. `history` keeps of all check results
what the code looks at or a property needs: the newest verdict, the failures it
ends (`streak`), and whether `interval_seconds` have passed (`due`). A worker
process (`job`) goes through `fetched` (`Monitor.objects.get`), `checked` (the
verdict), `committed` (the transaction) and back to idle (`send_task`), or
through a `tick`. The object fetched at the start travels with the job, as it
does in Python, and `Commit` computes from it. `save(update_fields=...)` is
`SaveFields`, which is why `consecutive_successes` never reaches the table.

An update request is two steps (`EditBegin`, `EditSave`), because DRF reads the
object, validates, and saves all of it; `save()` inserts a deleted row again.
A longer interval may make a result that was due recent again (`still_due`).
PostgreSQL never hands out an id twice, so `CreateMonitor` uses fresh ids.

`TaskDies` is any exception or kill half way. Celery acknowledges a message
when the task starts (no `acks_late` in `settings.py:157-167`), so the rest is
never run. The local fallback catches everything, hence `RunCheck` itself has
no failing outcome beyond that.

Abstracted: names, URLs, latencies, error texts, the owner, read-only endpoints.

### Incidents

A worker reads the open incident and decides (`ReadOpen`, `Decision`), then
writes (`Create`, `Resolve`), then asks user_support (`AskSettings`), then sends
one message per enabled channel (`SendOne`). `Replies` are the sets of channels
a reply may enable; no channel stands also for an RPC that fails, because both
end in silence. `by_client` is an auxiliary mark: a request made or saved the
row, so it says nothing about the workers. `FirstOpen` is the query's
`.first()` by `-started_at`: any open row, because `started_at` is set in the
worker before the row is inserted (two workers may insert in the other order) and
again when `save()` inserts a deleted row. `Enabled` ends the messages of a
kind at the bound `MaxMessages`, after which no channel is enabled. `Arrive`
lets any event of `Arrivals` come, whatever the history: `Pipeline` replaces it
by the real one.

### Outage and the refinement

`Outage` knows which monitors are down, their latest incident and the alerts:
an incident begins only for a monitor that is up; the owner may hear of the
latest incident at most once per channel and kind, a warning only while it
lasts and an "info" only after it. `IncidentsRefinement` maps the table to it.
The alert is a permission, not a duty: an RPC failure or a death loses it.

### Pipeline

`M` and `I` are instances of the two services that share `incidents_queue`.
`confirmed` is auxiliary: the monitors whose recorded results (`streak` of
`history`, not the counter) once were as many failures in a row as the threshold
of their own interval. An `Orphan` is a monitor that was deleted
during an outage while nothing about it is under way any more: neither an event
nor a commit that will send one, nor a worker about to resolve its incident.
Update requests (`Client` of both services) are left out here.

### Notifications

Tasks share nothing but the table and each works on rows of its own attempts,
so the state is kept by alert: `task`, and one row per attempt. `delivered`
records the attempts whose message reached the server. A send that "fails" may
have been delivered (the answer is lost). Name lengths matter in one place,
`TitleFits`: prefix plus name must fit the 255 characters of `title`.

### Accounts

`user` and `settings` are the two tables, `session` the tokens that have not
expired, `req` the requests in flight with the objects they have read. What a
request does between two commits is one action: `RegisterUser` and
`RegisterSettings` for a registration (`create_user` commits by itself),
`GitHubUser`, `GitHubSave`, `GitHubSettings` and `Issue` for a GitHub login,
`ProfileGet` and then `PatchUser` (no settings in the body) or `PatchLock`,
`PatchSettings`, `PatchCommit` (one transaction, `@transaction.atomic`) for a
profile. `User.save()` writes every column, hence `SaveUser` puts back the
`is_active` that was read. Password login and token refresh are simplejwt's
views: they read the account and issue tokens if it is active.

Row locks are PostgreSQL's at READ COMMITTED: an updated row stays locked and an
inserted key stays reserved until the commit (`Locked`, `Reserved`). An
insert that meets an existing settings row is an error 500 in a registration or
a GitHub login, and a plain read in `get_or_create`. `Die` is a thread that is
killed; what it had not committed is gone.

The last three operators are the other services' settings: monitors, incidents
and notifications authenticate by the token alone
(`JWTStatelessUserAuthentication`), user_support looks at the account too.

### CheckTraffic

Time goes by in units, `Pass` is one of them, and everything else happens
within a unit. `Throttle` keeps the ages of the requests remembered per
throttle; reading a history and writing it back are two steps (`ReadHistory`,
then `AskBurst` or `AskDaily`), as in DRF's `SimpleRateThrottle`. The throttle
asked last decides, and a refusal of the first does not stop the second from
being asked. A request is shorter than a unit.

`Scheduler` is one monitor, the queue its tasks go through and the workers that
take from it, in the order of the queue. A check is an RPC with a deadline
(`grpc_client.py:63`) and, when that fails, a local request without one:
`httpx.Timeout(10)` limits each operation, not the request (`services.py:19`).
Either may end without a result (`CheckLost`: the exception that returns at
`tasks.py:42`, the transaction, a killed worker), and so may a tick (`RunTick`)
and a beat, while beat or broker are down; Celery acknowledged the task before.
The checks of other monitors go through the same queue: a worker takes them in
between, and is then `away` for any time (`Leave`, `Return`), as it is while it
is stopped. `Stamp` is `checked_at`. `Due` compares ages in units: for equal ages
either outcome may be the right one. `Seed` is the seed command, which stamps its
results with the present whatever dates it gives them. `lost` and `held` count,
since the newest result, the tasks lost and the units in which a task waited or
the fallback ran.

`CheckVerdict` has both programs side by side: `CheckLocally` for
`execute_monitor_check_local`, `ExecuteCheck` and `CheckByProbe` for the probes,
`Stored` for the row made of their reply (0 and "" stand for what is missing in
protobuf). A site is an `Answer`. The worker's step decides which path runs.

## 3. Runs

Each run finishes within four minutes on two cores.

| Run | Question | Instance |
|---|---|---|
| `MonitorsRace` | Do counters stay backed by real failures, and flag and counter agree, under every interleaving? | 1 monitor, 2 workers, 1 request, 1 death |
| `MonitorsSolo` | Is the counter consecutive, the newest event current, and is an active monitor checked for ever? | 1 monitor, 1 worker, 1 death, fairness |
| `MonitorsLostCount` (violation) | Is the counter consecutive with two workers? | 2 workers |
| `IncidentsPrefork` | How many incidents can one outage open? Is a failure announced twice when workers race? Does a lost alert come back? Who touches an incident without an owner? | 2 workers, 1 request, 3 rows, 1 death, messages until one warning is sent |
| `IncidentsSolo` | Does a single worker open one incident at a time and keep the promise of `Outage`? | 2 monitors, 4 kinds of event, 2 channels, 1 death |
| `IncidentsTwoAlerts` (violation) | Is a recovery announced once with two workers? | 2 workers |
| `PipelineLive` | Do the tables agree, are incidents and warnings backed by failures in a row, are lasting outages and recoveries reported, what becomes of a deleted monitor's incident? | 1 worker each, intervals 60 and 300 (thresholds 6 and 3), e-mail, 1 death each, 2 flips, fairness |
| `NotificationsRetry` | What are saves, sends, marks and retries worth under faults and requests? | 1 e-mail alert, 4 attempts, 4 faults, 1 request, fairness |
| `NotificationsFailedSend` (violation) | Is a message the server refuses sent again? | 1 alert, 1 failing call, no kill, no request |
| `NotificationsTelegram` (violation) | Does a Telegram alert arrive? | 1 alert, no fault |
| `AccountsRace` | Are accounts completed, choices kept and deactivations final, whatever requests overlap? | 1 account, 3 requests at a time, 2 channels, 1 death, fairness of expiry |
| `CheckTraffic` | How many checks pass the throttles, how long is a monitor without a result, how fast does the queue grow, do both paths agree on a site? | 2 clients, 2 workers, units of 30 s: 1 check per 2 units and 2 per 3 units, interval and beat 2 units, deadline 1; 1 task lost and 2 units held between two results |

What the violations show (`findings` in `PROJECT.json` quotes the documents):

- the counter "failures in a row" loses updates when checks of a monitor
  overlap. A PATCH in flight has the same effect;
- two workers that read the same open incident both resolve it and both
  announce it;
- senders swallow their exceptions, so the retry of the task never helps a
  message that was not delivered. `RetriesAreRepeats` is the other half of it:
  what the retry does repeat are messages that were delivered;
- `TgSaver` names a column that does not exist, so no Telegram alert is sent.

`HandledMeansDelivered` fails in the same way for SMS (no channel is
registered for it) and for a recovery of a monitor whose name has more than
237 characters. `MonitorsSolo` and `IncidentsSolo` describe workers started with
`-P solo`, as `k8s/incidents/worker.yaml:27` has it and
`monitors/config/settings.py:169` notes it; docker-compose starts the
prefork pool, which is what `MonitorsRace` and `IncidentsPrefork` are about.

What the incidents runs show. `OpenBounded`, `WarnedOnce`: the race of two
workers opens several incidents for one outage, but only one worker ever
announces each of them as a failure, whatever requests reopen, insert again or
delete meanwhile; it is the recovery that is announced twice
(`IncidentsTwoAlerts`). `SilenceIsFinal` is the price: an alert lost to a failed
RPC (`tasks.py:13`) or to a death after the write (`tasks.py:83`) is lost for
good; only the recovery of an incident that a request opens again is news.
`UnownedOnlyResolved`: what a POST creates has no `user_id`, so no request
reaches it again (`views.py:186`). `AtMostOneOpen` counts every open row, those of
requests too, and so holds only while nobody edits incidents (`IncidentsSolo`): a
POST, or a PATCH that opens an old incident again, makes a second open one.

What `PipelineLive` shows. `IncidentBacked`, `WarningsBacked`: from the results
to the messages, an incident and its warning stand for an outage that the
monitor's own interval calls one, six failures in a row at 60 s and three at
300 s, in spite of a lost check and a lost event. They need one worker for the
checks: where two overlap, the counter that travels in the event may be more
than the failures in a row (`MonitorsLostCount`).
`OrphansStayOpen`: deleting a monitor tells the incidents service nothing
(`monitors/views.py:30`), and checks of it that are still queued or running end
without an event, so its incident stays open for ever. The worker that commits
without looking for the row (mutant) would close it.

What `AccountsRace` shows. `HalfMadeOnlyByDeath`: the two transactions of a
new account may be interleaved with logins, PATCHes and gRPC reads, and still
only a killed thread leaves an account without settings (`get_or_create`
mends even that later). The request may end with an error 500 although the
account is complete. `ChoicesKept`: overlapping PATCHes save whole settings
rows, and no choice is lost, only because each saves the user first and so
waits for the other; the mutant without that lock loses one. `ClosedForGood` is
deliberately about accounts of which no request holds a copy from before: a
PATCH in flight does undo a deactivation (`serializers.py:76`).
`ClosedIsRefused`: the services that never look at the account refuse it when
its token has expired.

What `CheckTraffic` shows. `RateHolds`: two requests that overlap raise the
limit of R to R(R+3)/2 per window, since one may write back a history that
forgets what the other has entered: 5 for the configured 2 per minute.
(The docstring at `throttling.py:25` says 10 in 5 minutes, which is neither.)
The run has a rate of 1, where the number is 2, and reaches it. `GapBounded`:
without a loss or a wait the bound is interval + one beat + one call of probes,
and TLC reaches it, so a monitor of 60 s may be two minutes without a result when
nothing goes wrong. A lost tick or check adds at most a beat and a call, a
task that waits or a fallback at most its own time. `BacklogBounded`: nothing
bounds the queue when checks are slower than ticks, and the run has several ticks
and checks waiting behind fallbacks and workers that are away. What is bounded is
the growth: one tick or scheduled check per beat, and in any window no more
manual checks than `RateHolds` lets through. `VerdictIndependent`: both paths
store the same verdict for a site with a valid certificate. For an invalid one
they do not (`verify=False` in `probes/grpc_server.py:41`), which the property
spells out.

### Bounds

- `CounterCap` saturates counters. 2 tells no, one and several failures apart,
  which is all `Monitors` itself distinguishes; `PipelineLive` uses 7, one more
  than the threshold of 60 s, so that failures beyond each threshold exist.
- `MaxQueue` stops beat and clients, never the scheduling task, at a full task
  queue. 1 or 2 waiting tasks plus those in the workers are enough for
  overlapping checks of one monitor.
- `MaxEvents`, `MaxDeaths`, `MaxIncidents`, `MaxFlips`, `MaxFaults` bound the
  event queue, lost tasks, rows, changes of the site and failing calls. Two
  flips are an outage and its end; four faults are more than the four attempts
  of an alert need to fail one by one.
- `Room` in `Incidents` keeps a row free for every failure under way, so that
  no worker stops at the bound. A table that is full only ends the behaviours;
  `IncidentsPrefork` has a row more than there are workers.
- `MaxMessages` bounds the messages in `IncidentsPrefork`, where requests would
  let one incident be announced as recovered again and again: warnings are sent
  until one is in the queue. A second announcement under way at that time is still
  sent, and that is what `WarnedOnce` forbids. The other runs and the
  proofs have no such bound.
- `AccountsRace`: `MaxDeaths` 1. Three requests are a PATCH or registration, a
  second one that meets it, and a third that deactivates, logs in or asks.
  Requests of different accounts share no row, so one account is enough. The
  proofs cover all other numbers.
- `CheckTraffic`: a unit is 30 s, so burst window, beat and interval are the
  configured 60 s; the deadline of 12 s is less than a unit, and counted as one.
  The rates are scaled down (1 per minute, and 2 per window of 90 s instead of
  1000 a day), so that each throttle refuses what the other grants. `MostGranted` is stated for one
  client or two at a time. `MaxLost` (1), `MaxHeld` (2 units) and `MaxWait` (2
  units) bound what nothing in the code does, between two results: lost tasks, the
  time tasks wait or the fallback runs, the time one task waits. With them two
  ticks and three manual checks may wait at once. The theorems hold for all values
  of the three.
- Symmetry is used in runs without liveness and without a refinement.
- Deadlock is checked everywhere but in the `Notifications` runs: there an
  alert is sent once, its task ends, and nothing is left to do.

### Fairness

Weak fairness of each worker's steps: a Celery process takes the next task as
long as there is one, and a task moves on (every call has a timeout). Weak
fairness of `Elapse`: time passes. The beat gets strong fairness because only
the bound `MaxQueue` ever disables it; cron itself never stops. The incidents
worker empties its queue. A retry comes due. A token expires (its lifetime is in
`SIMPLE_JWT`). Nothing is assumed of clients, sites, faults or deaths.

`CheckTraffic` has no fairness but urgency (`TimeMayPass`): a beat comes on time,
an idle worker takes the next task at once, an RPC ends by its deadline, up to the
losses, waits and absences above. Nothing is assumed of the fallback or of other
monitors' checks: they end at some time or not, and `held` counts the time.

## 4. Proofs

`tlapm` checks the eight proof modules to the last leaf, for all values of the
constants that satisfy the named assumptions (`MonitorsAssumption`,
`IncidentsAssumption`, `NotificationsAssumption`, `PipelineAssumption`,
`AccountsAssumption`, `SchedulerAssumption`, `ThrottleAssumption`: bounds are
naturals, incident workers and requests are finite in number, events have the
right fields, default channels are channels; `VerdictAssumption`: a status code
is not 0, NULL is neither a text nor a reply; `NullAssumption`,
`NoRequestAssumption`: the absent row or request is not a row or request). TLC
evaluates every one of them. Some theorems are about one worker process, or one
or two requests at a time: there the hypothesis is part of the theorem, and the
violation runs show what happens without it.

What holds for any number of processes and requests:

- `MonitorsProofs!TypeCorrect`, `IncidentsProofs!TypeCorrect`: the type
  invariants, by cases on the actions. `JobShapes` and `HandlingShapes` turn a
  program counter into the record a process holds; most other steps rest on them.
- `MonitorsProofs!CountsAreBacked`: `CountBacked` is inductive together with
  `TypeOK`, because it speaks of every copy of a counter (row, job, edit,
  event). A version about rows only is not inductive: a row is overwritten from
  a copy made many steps earlier. The one step that raises a counter, `Commit`,
  raises `failed` in the same transaction, and `failed` never falls.
- `MonitorsProofs!StatusAgrees`: the same argument for flag and counter.
- `IncidentsProofs!OpenIncidentsBounded`: workers that decided to create an
  incident count towards the bound, which makes it inductive. A worker joins
  them only when no open incident exists; then the others are the workers that
  are creating already, at most all of them. `Create` moves a worker's place
  from one side to the other, everything else only shrinks.
- `IncidentsProofs!SoloAtMostOneOpen`: its corollary for one worker while nobody
  edits incidents: then every open row is one a worker opened (`Unedited`).
- `IncidentsProofs!FailuresAreWarnedOnce`: `WarnInv` is the invariant. A warning
  waits with one worker only, the one that created the row with a key nobody had
  before; a warning in the queue is about an older key, and if its worker is
  still sending, the channel is no longer among those it has left.
- `IncidentsProofs!LostAlertsStayLost`: an action property. A worker begins to announce
  a recovery only from `resolving`, and to resolve only what it finds open
  (`StepOpens`, `ResolverFindsOpen`); only `Create`, with a new key, and requests
  open a row. So `Over` stays, request by request and task by task (`OverStays`).
- `IncidentsProofs!UnownedIsUntouched`: needs `OwnerInv`, which says that the row an
  update request read had an owner and that keys are used once: `save()` may
  insert a deleted row again, but never over one without an owner.
- `AccountsProofs!TypeCorrect`: `TypeOK` is not inductive by itself, because a
  profile request reads the row of its account and must find one. `KnownUsers`
  (every request but a registration works on an account that exists) makes it so;
  both rest on `RowsStay`, no step removes an account.
- `AccountsProofs!AccountsAreComplete`: an account appears only together with
  a request that goes on to its settings (`WhoMakes`), that request goes on until
  they are there (`MakingGoesOn`), and settings stay (`SettingsStay`).
- `AccountsProofs!ChoicesAreKept`: needs `ChoiceInv`. At most one PATCH of an
  account is between its save of the user and its commit (`OnePatch`), and what it
  has read is what the table holds (`ReadIsStored`), since others only make the
  defaults that a missing row stands for.
- `AccountsProofs!DeactivationIsFinal`: the action property, by one lemma each
  for the row, the copies in requests and the tokens.
- `CheckTrafficProofs!GapIsBounded`: `GapInv` splits the age of the newest result
  in three: units in which nothing of the monitor was on its way, units in which
  only calls of probes were, and those that `held` counts. The first end with the
  next beat (`Unordered`), the second with the deadline (`Called`), and a loss adds
  a period to the one and a deadline to the other. It holds for any number of
  workers, which may all be away, of clients and of lost tasks; nothing limits the
  fallback.
- `CheckTrafficProofs!TypeCorrect`: the histories hold no more than their rate
  and nothing older than their window. `ThrottleInv` says the same of what a
  request has read, and that histories ascend: popping expired entries from the
  end (`OlderKeeps`) removes all of them only for that reason.
- `CheckTrafficProofs!VerdictsAgree`: a fact about the operators, one lemma for
  each program, by cases on the site's answer.
- `NotificationsProofs!TypeCorrect`, `RetriesRepeat`, `SentIsDelivered`: a task
  reaches the step that marks the row only by a delivery (`MarkingDelivered`),
  and only a failure of that step is retried.
- `NotificationsProofs!HandledIsDelivered` adds `CanSave(a)` as a hypothesis: the
  alert's channel can save its row and its title fits. The run has such alerts;
  `NotificationsTelegram` has one for which it does not hold.
- `PipelineProofs!RunsMonitors`: a step of `Pipeline` is a step of `Monitors` or
  leaves its variables alone (the incidents worker takes events, which is what
  `Monitors` allows its environment). This carries every theorem about `Monitors`
  over.
- `PipelineProofs!OrphansAreForgotten`: `Orphan` is `Forgotten`, which no step of the
  monitors service undoes (`MonitorsForget`: ids are never handed out again, a commit
  needs a live row), and `LeftOpen`, which no task of the incidents service undoes
  without an event (`CasesLeftOpen`).

What holds for one worker process, as `k8s/incidents/worker.yaml` runs it:

- `MonitorsSoloProofs`: `CountsConsecutive` and `LastEventCurrent` become
  inductive with `HeldIsCurrent` (the object a worker holds counts what its row
  counts), `OnlyCreated` and `IntervalsKept`. The proof needs that no PATCH is in
  flight: `MonitorsLostCount` and the hazard at `serializers.py` are why.
- `IncidentsRefinementProofs!SoloKeepsPromise`: the refinement of `Outage`, step by
  step. `SoloInv` says what the worker may rely on: keys are handed out in
  order, an open incident is the latest of its monitor, what was read when the
  task began still holds (`DecisionStands`), and the alert about to be sent is
  not in the queue (`AlertIsNews`, `AlertIsFresh`, `MessagesTrue`).
  `SoloAlertsOnce` is the property that `IncidentsTwoAlerts` refutes for two.
- `PipelineProofs!IncidentsAreBacked`, with one worker for the checks and any number
  in the incidents service: the counter is the failures in a row then
  (`CountsConsecutive`, carried over from `MonitorsSoloProofs`), so a commit that
  reaches the threshold of the object it holds confirms the monitor in the same
  step (`CommitConfirms`). From there the fact is handed on: what a job or an event
  tells was confirmed (`NewsConfirmed`), and so is the monitor of every worker that
  decided to create an incident, and of every open row. `confirmed` only grows.
- `PipelineProofs!WarningsAreBacked` goes on from there to the messages. `RowInv`
  (keys are fresh, tasks and messages are about rows that exist) makes the
  monitor of a message well defined, `WarningInv` says of the worker that is
  about to warn what the property says of the queue.
- `PipelineProofs!PipelineKeepsPromise`: the same refinement for the pipeline,
  `I!ImplementsOutage`, with the events that checks produce in place of any. It
  needs one incidents worker only; the check workers may be many, because
  `Outage` promises nothing about which events come or in which order.
- `PipelineProofs!SoloTablesAgree`: both invariants above, and `TableInv`: as long
  as no task is lost, either the tables agree about a monitor or the event that
  will make them agree is under way, in the queue or with the worker (`Reported`),
  and every open incident belongs to a monitor that was created (`CasesCreated`).

What holds for one or two requests at a time:

- `CheckTrafficProofs!RateIsBounded`, one client: every grant is matched by an
  entry of the burst history that is no older (`GrantsRemembered`). Two clients: a late
  write replaces a full history by what was read plus one, so grants are
  forgotten. `Covers` counts them: j remembered entries stand for at most
  `Twice(j) / 2` = j(2R + 3 - j)/2 grants at least as old, because an entry that
  a late write adds pays for the R - j that it may drop (`CoversMore`).
  `OverlapInv` says it of the history and, less what was entered since, of what
  each request has read; histories read in one unit differ only in new entries
  (`SameOld`), and of two requests that have read, one has read the present. That
  last fact fails for three, and `MostGranted` is not stated for them. At j = R the
  bound is R(R + 3)/2, the number TLC reaches. Superusers are exempt in the code and
  in the theorem.

- `CheckTrafficProofs!BacklogIsBounded` is not about the length of the queue, which
  nothing bounds, but about its growth, for workers as slow or as absent as they
  like. Tasks carry their age. Manual checks no older than a window are no more
  than the grants of that age (`AskedByGrant`), those of an earlier window
  stay together as they age (`AskedBefore`), and two tasks of the beat are a period
  apart, the newest as far as the beat has come (`Beaten`). `RateHolds` does the
  rest.

Only model-checked: the liveness properties (`CheckedForever`, `Settled`,
`OutageReported`, `RecoveryReported`, `ClosedIsRefused`), since fairness and `ENABLED`
are beyond the prover. Every invariant, action property and refinement that
a passing run checks is a theorem.

## 5. Not modelled

- Notifications created by hand over the API: they belong to no alert, no task
  reads them. Read-only endpoints (lists, history, filters, the user list) and
  the OpenAPI descriptions that make up most of the `views.py` files.
- The rows the seed command invents (a monitor that is down without a failure,
  random results): no check produces them and `UpMeansNoFailures` is not about
  them. Only its effect on timing is in `Scheduler`. Django's generated admin.
- Which queue a worker reads: a constant of the models, as docker-compose sets
  it. The Kubernetes workers name no queue (see the hazards).
- Several monitors in the timed model: they share the workers, so the backlog of
  one delays the others. Their checks are the time a worker is away, and what that
  does to a monitor is counted in `held`; how long it gets depends on all of them.
- Cookies and pooled connections that the HTTP client of probes keeps from one
  check to the next (`probes/grpc_server.py:30-43`): a site may answer differently
  because of them, which `CheckVerdict` leaves to the site.
- The parts without behaviour: the rest of the `settings.py` files, generated
  gRPC stubs, logging and metrics, nginx, observability, unused helpers
  (`monitors/getters.py`).

## 6. Plan

Done: all modules and proofs above. What would extend them, in this order:

1. Clients in `Pipeline`: interval changes and incident edits during an outage,
   and the incident of a monitor that is deactivated instead of deleted.
2. Proofs: `SoloCountsConsecutive` with clients that do not overlap a check; the
   refinement of `Outage` with clients whose edits leave `status` alone.
3. Several monitors in `CheckTraffic`, so that the time one of them is held can be
   told from the checks of the others.
