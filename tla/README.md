# desAInz: a verification project

TLA+ models of the desAInz services (Python micro-services that ingest social
signals, score them, generate mockups on GPUs and publish them to
marketplaces), model-checked with TLC on small instances and, for the
properties listed in section 9, proved with TLAPS for every value of the
constants. Paths below are relative to the repository.

    tlc -workers 2 -config Services.cfg MCServices      check a run
    tlapm ApprovalPipelineProofs.tla                    check the proofs of a module

`PROJECT.json` lists every run with its properties, for every property a
mutation of the model that a plausible bug would make and that the run must
find, the source lines behind every definition, the hazards of the code with
the properties aimed at them, the findings and the theorems.

## 1. The system

| Part | State it keeps | Operations | Talks to | Module |
|---|---|---|---|---|
| Publisher, tasks (`backend/marketplace-publisher`) | rows `publish_task`, `webhook_event`; chains of retries (memory only) | publish, retry, PATCH task, webhook | marketplaces, Slack, PagerDuty | `PublishTask` |
| Publisher, rules and accounts | rules file and caches of it; OAuth tokens (row and client) | reload, check, login, callback, refresh | file system, OAuth servers | `PublishRules`, `MarketplaceAccounts` |
| Rate limiters (publisher, gateway, ingestion) | one Redis key per marketplace, user or adapter | `acquire` | Redis | `TokenBucket` |
| Orchestrator (`backend/orchestrator`) | Dagster runs, op states, run keys | jobs, op retries, approval poll, sensors, schedules | every service over HTTP | `ApprovalPipeline`, `PipelineSteps`, `RunRetries` |
| Gateway, access (`backend/api-gateway`) | roles, refresh tokens, revoked tokens, audit log | sign-in, revocation, admin handlers | database, the services | `GatewayAccess` |
| Gateway, answers | response cache, trending list, WebSocket | proxies, metrics stream | Redis, the services | `GatewayCache`, `LiveMetrics` |
| Mockup generation (`backend/mockup-generation`) | GPU locks, the loaded pipeline, model registry, mockup rows, objects | `generate_mockup`, `generate_single_mockup`, registry, signal handler | Redis, S3, Celery | `GpuSlots`, `MockupModels` |
| Signal ingestion (`backend/signal-ingestion`) | signals (database), duplicate filter, ETags, trending sets (Redis) | ingest, trending, trim, retention, PII purge | Kafka, adapters | `SignalIngestion`, `Trending`, `PrivacyPurge` |
| Scoring engine (`backend/scoring-engine`) | weights and centroids (one table), score cache, embeddings, consumer thread | score, update weights, consume | Kafka, Redis, Celery | `ScoringWeights`, `SignalIngestion` |
| Feedback loop (`backend/feedback-loop`) | A/B results and summaries, marketplace metrics | record, summarise, update weights | scoring engine, marketplaces | `Experiments`, `ScoringWeights`, `PerformanceFigures` |
| Shared (`backend/shared`) | feature flags with two caches, HTTP retries | `is_enabled`, `set_flag` | Redis, LaunchDarkly | `FeatureFlags` |
| Monitoring (`backend/monitoring`) | time of the last page, metrics tables and cached figures, report file | alerts, figures, daily report | PagerDuty, database | `Alerts`, `MetricsCache`, `DailyReport` |
| Analytics, optimization | samples of resource usage, performance rows | record, analyse, export | database | `ResourceMetrics`, `PerformanceFigures` |
| Scripts (`scripts`) | archive and purges, S3 keys, spot nodes, listing states | maintenance, rotation, upkeep, sync | AWS, Kubernetes, PagerDuty | `Housekeeping`, `KeyRotation`, `SpotNodes`, `ListingSync` |
| Dashboard (`frontend/admin-dashboard`) | what a page shows | live metrics hook | gateway | `LiveMetrics` |

What is hard in it: several coroutines, processes and handlers write the same
row or key between each other's awaits; retries stack on retries (HTTP client,
publish chain, op, run); state lives partly in memory that a restart forgets;
Redis keys expire under those who use them; answers are served from caches, and
one cache is filled from another; two stores that belong together (a row and an
object, a key and a secret, a change and its audit row) are written one after
the other and a process may be killed in between.

What makes each part correct, in one line:

- publish tasks: every failure counted once, no trigger above its budget, no
  silent giving up, no success without a listing;
- rules: a design is not published under rules older than its request passed;
- accounts: no request carries a token that ended long ago;
- rate limiters: never more tokens than the limit in a window, no live-lock;
- approvals: nothing that needs an approval succeeds without one, an approval
  that was given is heard;
- GPU slots: no slot used twice, abandoned slots come back;
- models and mockups: one default, the one chosen last; a mockup is drawn with
  the model asked for; a row leads to an object;
- ingestion: what is announced is stored, a batch is neither lost nor repeated;
- scoring: a cached score is soon one that the weights in force gave;
- figures, reports, caches, pages: out of date for a bounded time;
- access: the audit log and what was done agree;
- monitoring: no more pages in a cooldown than replicas can race for;
- archiving and purges: nothing lost, nothing that was to go stays;
- key rotation: the secret names a living key, the only one;
- retries of runs: a run that fails is launched again as often as configured;
- spot nodes and the daily report: what overlaps and fails does not add up.

## 2. How the project is laid out

One module for each component. The modules about the oldest and hardest parts
(`PublishTask`, `ApprovalPipeline`, `GpuSlots`) have runs of their
own. The others are composed by MC modules, each of which states which
components' state is shared and picks one part per behaviour with the variable
`part`; a component that shares state with another is in one module with it
(the table of weights and centroids, the list of keywords under one key, the
topic between ingestion and scoring, the rows of the feedback loop's metrics
that analytics reads). `MC*` modules define only the instances and the properties that speak of
several parts. Modules named `*Proofs` extend the components they are about and TLAPS.

| Run | Module | Parts |
|---|---|---|
| `publish_rivals`, `publish_handlers`, `publish_stale_edit` | `MCPublishTask` | `PublishTask`, `RetryBudget` |
| `pipeline`, `pipeline_unguarded` | `ApprovalPipeline` | |
| `gpu` | `MCGpuSlots` | `GpuSlots` |
| `designs` | `MCDesigns` | `ScoringWeights`, `MockupModels`, `Experiments`, `PerformanceFigures` |
| `scoring_stale` | `ScoringWeights` | |
| `services` | `MCServices` | `SignalIngestion`, `Trending`, `GatewayAccess`, `FeatureFlags`, `Alerts`, `MetricsCache`, `GatewayCache`, `LiveMetrics` |
| `upkeep_limits` | `MCUpkeepLimits` (`MCUpkeep` and the limiters) | `Housekeeping`, `ListingSync`, `PrivacyPurge`, `TokenBucket` |
| `retries_unregistered` | `RunRetries` | |
| `operations` | `MCOperations` | `MarketplaceAccounts`, `PublishRules`, `ResourceMetrics`, `KeyRotation`, `SpotNodes`, `DailyReport`, `PipelineSteps` |

Definitions whose comment begins with "Slip:" are the bugs of `PROJECT.json`'s
mutants; no specification uses them.

What could come next: the publish path end to end (`ApprovalPipeline`'s POSTs
as the triggers of `PublishTask`), a liveness property for `PrivacyPurge` with
a queue of lock requests, and theorems about the single steps the liveness
properties rest on (which step each state leads to, and what it brings nearer).

## 3. Publisher

**PublishTask and RetryBudget.** A *chain* is what one `POST /publish` or `POST
/tasks/{id}/retry` starts: a `_background_publish` and the ones it creates
with `asyncio.create_task` while it fails and may retry. `status`, `attempts`,
`metadata`, `events` are columns; `pc`, `task` say where the coroutine of a
chain is; `seen` is the value of `attempts` in its SQLAlchemy identity map (the
session factory has `expire_on_commit=False`, so it is what the chain has read,
plus its own increments, until a rollback expires it); `carried` the metadata
it loaded. `listings`, `published`, `measured`, `notified` are the outside
world; `tries` counts the publishes a chain has begun. Every action ends where
the coroutine awaits:

`Load` → `Start` (in_progress) → `UploadAnswered` → `Confirm` (success) →
`Measure`, or → `Refuse` → `ReportRefusal`, or → `UploadFails`/`WriteFails` →
`Count` → `MarkFailed` → `CheckExhausted` → `Decide`, which starts over or ends.
`Lose` cuts a chain anywhere: a restart, or an exception `publish_with_retry`
does not catch. `Webhook`, `PatchCheck`, `PatchWrite` are the other handlers.
An upload sends up to `HttpRetries` POSTs, each of which may create a listing.
`RetryBudget` is the abstract promise: a trigger makes its tries one after the
other, each after a failure, at most `Budget` of them.

| Run | Instance | Shows |
|---|---|---|
| `publish_rivals` | 1 task, 2 chains, 3 attempts, 2 POSTs, fair | `GivenUpNotified`, `AttemptsAccounted`, `KeepsBudget` (the refinement of `RetryBudget`), `ChainEnds` |
| `publish_handlers` | 1 task, 2 chains, 1 PATCH, webhooks `success` and `in_progress` | `InProgressOwned`, `SuccessSound` |
| `publish_stale_edit` | a publish and a PATCH | violated: an accepted edit is not published |

Two chains on one task are enough for every race between chains: a chain reads
and writes only the row and its own memory. Three attempts let both chains
overshoot. Rows share no state, so one task is enough.

**PublishRules.** `file` is the rules file with the modification time that
`Stat` compares; a save truncates the file (`Truncate`) and fills it (`Save`),
and the watching thread may look in between. `cache`, `registry` are
`_raw_rules_cache` and the registry built from it; `observer`, `events` the
watchdog thread, which an exception in its handler ends. A publish is checked
by its request (`AskPublish`) and again in the background (`CheckAgain`).
`RulesCurrent`: rules in use are those of the file once the thread was told of
every change (unless it died or two changes share one mtime), and nothing is
published under rules older than its request's.

**MarketplaceAccounts.** One process holds a client per marketplace; uses of
it look for a token (`GetToken`), find one in the table, or renew it
(`Grant`), then set token and expiry in separate steps (`KeepToken`,
`KeepExpiry`) and send. `TokenFresh` bounds the age of a token a request
carries although uses interleave between the two assignments.

## 4. Rate limiters: TokenBucket

The three `acquire` functions are the same transaction on one key, `WATCH`,
`GET`, then `SET limit-1 EX window` or `DECR` in `MULTI/EXEC`; each round trip
is an action of a request. `tokens`, `ttl` are the key; `dirty` says whose
watched key has changed (`Touch`); `left` counts the limiters a request still
has to pass: routes under `/optimizations`, `/monitoring` and `/analytics` ask
the middleware's and the router's limiter, with the same key `tokens:{user}`
(`Doubles`). `Waiters` are the callers of `AdapterRateLimiter`, which sleep
instead of being refused. `Tick` is a second; the expiry of the key breaks the
transactions that watch it. `LoseConnection`: redis-py raises a `WatchError`
for a connection lost under `WATCH`, whether or not `EXEC` was applied.

| Run | Instance | Shows |
|---|---|---|
| `upkeep_limits` | 3 requests (one double, one waiter), 2 tokens, window 2, 2 lost connections, fair (a part of the run of section 8) | `WindowBounded`, `AnyStretchBounded`, `SomebodyAnswered` (no live-lock) |

More requests than tokens, so that the bucket empties; a window of 2 lets a key
expire between any two round trips and two windows meet in one stretch.

## 5. Orchestrator

**ApprovalPipeline.** `Needs` translates `jobs.py`: the ops of each job that
has an approval step, with the ops whose outputs they take. Dagster (external)
starts an op when its inputs are there and retries it on an exception
(`Raise`). `await_approval` polls `GET /approvals/{run}`; the gateway answers
from the response cache (`PollCache`) or reads the key (`PollKey`) and caches
the answer (`PollFill`). `Approve` sets the key for an hour; a rejection is no
action, as `reject_run` only removes the run from `pending_runs`, a set nothing
in the repository fills. `publish_content` sends every item up to
`HttpTries` times (`Post`); a POST may arrive although its answer is an error.
A `Tick` is one period of the poll; all waiting runs have polled in it.

| Run | Instance | Shows |
|---|---|---|
| `pipeline` | 1 run of the publishing or the rotation job, 2 items, 1 op retry, 2 tries a POST, key 4 ticks, cache 2 ticks, 1 failed poll, fair | `SucceededApproved`, `PostsBounded`, `ApprovalHeard` |
| `pipeline_unguarded` | 1 rotation run | violated: the rotation starts unapproved |

Runs share nothing but the kind of key, so one run is enough for TLC; the
theorem `SucceededApprovedHolds` covers any number. `ApprovalHeard` depends on
the key outliving a cached answer and the failed polls: 4 > 2 + 1 here, an hour
against a cache of seconds in the deployment. `publish_content` of `idea_job`
starts unapproved for the same reason as the rotation: its job does not make it
depend on `await_approval`.

**PipelineSteps** (run `operations`). `ingest_signals` makes one call again and
again although it may have been carried out (`IngestFails`), `score_signals`
scores all signals under a semaphore (`Enter`, `Scored`, `ScoreFails`), and an
op that raises starts over (`OpFails`). `StepsBounded`: ingestions stay within
all attempts there are, calls within the semaphore, and no signal is left out
without all its tries.

**RunRetries** (run `retries_unregistered`). `Registered` are the sensors that
`repository.py:67` lists and `Targeted` those with a job, and the daemon
evaluates and launches nothing else. `Tick` is `reschedule_failed_runs`: it goes
through all failed runs and relies on Dagster's run keys (`LaunchRequest`,
`SkipRequest`) to launch each retry once; tags carry the number of the retry.
As it is neither listed nor given a job, no step of it is ever enabled, and the
run refutes `RetriedToTheEnd`, what its docstring says: a run that fails is not
launched again.

## 6. Mockups: GpuSlots, MockupModels

**GpuSlots.** A worker is a Celery process with one task at a time.
`owner[s]`, `ttl[s]` are the Redis lock `gpu_slot:{s}` with the token of its
acquisition; redis-py forgets the token when `release` is called, before the
release reaches Redis, and a lock whose token nobody knows belongs to `Orphan`.
`ReadSlots`, `Grant`, `Miss`, `Sleep` are `_acquire_gpu_lock`; between `Grant`
(SET applied) and `Enter` (its answer processed) the process does not know its
lock. `Finish` is the body of `generate_single_mockup` and the gauge;
`Release` the token comparison, with `LockNotOwnedError` leaving
`_ACTIVE_LOCK` behind (`active = "stale"`). `Signal` is `_release_on_signal`,
read literally: without an active lock it exits; with one, `locked()` is a
coroutine object and hence true, `release()` gives the token up and
`asyncio.run` raises inside the running loop. `Crash`, `LoseAnswer`,
`LoseRelease` are faults; Celery delivers the task of a dead process again.

| Run | Instance | Shows |
|---|---|---|
| `gpu` | 2 workers, one of them pinned, 2 tasks, 2 slots of which `gpu_slots` allows 1 or 2, timeout 2, jobs up to 3, 1 fault, 1 signal, fair | `NoDoubleUse`, `WaitEnds`, `LateHoldersHarmless` |

Two workers are enough for every race about a slot, and two tasks let a slot be
taken again. A job may outlast its lock, which nothing extends, and another
process may then enter the slot: `NoDoubleUse` speaks of workers still covered by
their locks, `LateHoldersHarmless` of the others.

**MockupModels** (run `designs`). `registry` is the table of models, `change`
the transactions that register a model or choose the default, each of which
sees the rows of its own snapshot (`Touched`); `proc` a Celery process that
takes a task (`Take`), loads the model it names or a default one if its generator's
`model_id` differs (`Load`, `LoadFails`), draws (`Draw`, or the fallback
provider), uploads the image whole or in parts (`PutObject`,
`CreateMultipart` to `Abort`) and stores the row (`SaveMockup`). Every upload
has an id of its own, so a second upload of the same image does not hide the
first; a creation whose answer is lost (`CreateLost`) leaves an upload nobody
knows, and a completion that raises (`CompleteFails`), carried out or not, is
followed by the abort like a part that fails.
`ModelsRight`: the default chosen last stands, and a process whose last load
did not fail draws with the model it asked for; `UploadsAccounted`: a row leads
to an object, and an upload left unfinished is one whose creation's answer or
whose abort was lost, or whose process died, and there are no more of them than
such failures. 2 models, 2 transactions, 1 process, 1 image of 2 parts, which is
drawn again and again, 3 upload ids and 2 failures: with one upload complete,
two can be left behind.

## 7. Signals, scores and what becomes of designs

**SignalIngestion** (run `services`). A Celery process fetches a source with the
ETag it knows, marks each signal in the duplicate filter (`CheckSeen`,
`MarkSeen`), stores and announces it; the set of marks expires as a whole, the
process may die anywhere, and the task is delivered again. The topic's consumer
thread (`Consume`, `Dispatch`, `Drain`, `ThreadDies`) groups messages into
batches for `Embed`. `SignalsAccounted`: what is announced is stored, and a
signal is stored once for each time its mark was new; `BatchesAccounted`: a run
of the thread neither loses nor repeats a message, and none is embedded more
often than the thread was started. 2 processes, 2 signals in 2 versions of the
page, batches of 2.

**Trending** (`services`). Two sorted sets, written by stores that are one
transaction each and trimmed in several (`FindStale` … `Cut`).
`TrimBounds`: after a trim there are at most as many words as allowed and those
that came after it had counted.

**PrivacyPurge** (`upkeep_limits`). A purge selects rows, updates them one by one under
row locks and commits; two may wait for each other until the database breaks the
deadlock; rows expire and are inserted meanwhile. `PurgeSound`, a part of
`PurgesComplete`: a purge that is over has left no personal data in the rows it
read. There is no liveness: without a fair queue of locks, deadlocks and kills
may take a purge its rows for ever.

**ScoringWeights** (`designs`, `scoring_stale`). `table` holds the weights and
the centroids of all sources. `Open`, `ReadRow`, `WriteRow` are the sessions of
`update_weights`, `StoreCentroid` the job that inserts rows, `AskScore` to
`StoreScore` a request that reads weights, computes and caches, `StartFeedback`,
`Post`, `Direct` the feedback job with its retries, which may be applied twice
after a timeout. `WeightsSteady`: a score in the cache is built on weights
that were in force at most a cache time and a computation ago, and one run of the
job moves the weights no further than its requests account for.

**Experiments** (`designs`). Results, one transaction each, and summaries of a
day, written by several callers that look, count and then insert or update.
**PerformanceFigures** (`designs`). The job that collects metrics of listings
from marketplaces and stores the rows in one transaction, the readers of
analytics. `FiguresTold` joins them: rows of a job are read whole, a summary
does not shrink but where two callers crossed, and summaries stay within the totals.
No service calls `record_summary`, so that two callers cross is a behaviour of the
function and not of a deployment.

## 8. Gateway, flags, monitoring, scripts

**GatewayAccess** (`services`). `Handlers` gives each admin handler as the
sequence of its steps (look, find, write, call, audit), every one of which
commits on its own and can raise; `LetIn` is `require_role` after `Decoded` and
`Accepted`. `AuditAccounted`: the log names no change that was not made, and
lacks one only if the administrator was told of an error.

**FeatureFlags, MetricsCache, GatewayCache, LiveMetrics** (`services`) together
give `CachesSettle`. A value in a cache is known by its age or by the number of
the change it comes from; the fill of a cache may be late (`Flight`,
`ReadTime`, `GetTime`, `AskTime`: the longest a call takes), so a copy made
before a change may be stored after it. The bounds add these times to the times
to live, twice where one cache is filled from another (`shared` and `memory` of
a flag; the response cache and `trending:list`). A call ends before a list made
when it began expires (`GetTime < ListTtl`: `DEFAULT_TIMEOUT` is 10 s,
`backend/shared/http.py:22`, `trending_cache_ttl` 30 s,
`backend/shared/config.py:27`); otherwise a third get could still store an answer
of two lists ago and the bound would not hold.
A process answers with an override before it looks at Redis: `override` starts as
what `FEATURE_FLAGS` says (`env`), is set by a `set_flag` that could not reach
Redis (`SetOverride`), and is read anew by every `initialize`, which `set_flag`
and `list_flags` call, unless a provider's client is there already (`provided`,
`Initialized`). `FlagsSettle` excludes none of these: a value is in force while a
key, an override or the default says it, and one that none of them says any more
is answered for `2 * CacheTtl + Flight` at the most. An override may hide a set
flag for ever; it is in force as long.

**Alerts** (`services`). Each replica checks, pages and marks in three steps;
`PagesSpaced` bounds the pages of a cooldown, less the time from a decision to
its mark, by the replicas and lost marks.

**DailyReport** (`operations`). Three counts from two databases, of the 24 hours
before the summary began (`before`), while rows are added, are taken back by a
webhook (`TakeBack`) and grow old; a file that `write_text` empties when it opens it
and then writes from the start, so that of two who have it open the later may
leave the end of the other's text (`mixed`). `ReportCurrent`: each count of a report
that can be read was right at some time of the summary that wrote it, which the
history `right` collects, under any overlap; and once nobody has the file open it can
be read, if the last to open it was alone with it and not killed (`torn`). One row of
each database and two writers: a count can go up and down between two writers'
counts.

**ResourceMetrics** (`operations`). Threads share one SQLite connection, so a
commit commits another's insert; `AnalysesSound` says that an analysis is of
every acknowledged sample, the latest come last, and an alert tells of one of
the latest. Whether an average is too high is decided by a running sum over the
ordered rows (`Exceeds`), of which a window is a suffix (`Within`).

**Housekeeping** (`upkeep_limits`). `Plan` gives the steps of each scheduled job and of the
hourly cleanup; `MoveImage` and `DeleteFound` write the store and the table one
after the other. `ArchivedKept`: a mockup without a row has its image in cold storage
and no listing. `SignalsPurged` (in `PurgesComplete`): old signals go in the end.

**ListingSync** (`upkeep_limits`). Runs read states, fetch from the marketplace and
commit; administrators edit meanwhile. `ListingsKept`: somebody was paged about
every alarming state a run has written, and every listing gets the
marketplace's state in the end.

**KeyRotation, SpotNodes** (`operations`). `SecretBacked`: after a rotation that
was alone and succeeded, at whichever attempt, the secret names the only key.
`NoneTooMany`: runs overlap, start while instances are on their way or not Ready,
and count no node when `kubectl` fails (`Seen`: its exit status is not checked);
each request comes on top of what its count has overlooked, and what is alive or
about to be requested stays within the wanted, the requests by hand and the most
that any one count has overlooked, so that it does not add up from run to run.

| Run | Distinct question | Fairness |
|---|---|---|
| `designs` | do scores, models, uploads and figures stay consistent under overlapping transactions? | none: safety and action properties only |
| `services` | do the ingestion, the caches, the alerts and the audit log hold under interleaving, expiry and crashes? | none |
| `upkeep_limits` | does what is retried finish, and nothing get lost on the way; and do limiters keep to their limit (section 4)? | the schedules start jobs again, a run goes on; requests go on and time passes |
| `operations` | do tokens, rules, keys, nodes, samples, reports and the first ops hold under overlap and kills? | none |

Bounds of these runs: two or three actors of each kind (any two interleave; three
uses of a client so that two renewals race with a request; three instances for
two wanted so that one too many is possible), two rows, words, keys or
attempts, and time limits small enough that every expiry happens within a
computation. The MC modules give the sets of different parts the same model
values, so that one permutation group is a symmetry of all parts; runs with
temporal properties use no symmetry.

## 9. Proofs

| Module | Theorems | For any number of |
|---|---|---|
| `PublishTaskProofs` | `TypeCorrect`, `InductiveInvariant`, `ChainBoundedHolds`, `GivenUpNotifiedHolds`, `InProgressOwnedHolds`, `AttemptsAccountedHolds`, `SuccessSoundHolds`, `KeepsBudgetHolds` | tasks, chains, editors, attempts, POSTs |
| `TokenBucketProofs` | `BucketTypeCorrect`, `BucketInvariant`, `WindowBoundedHolds`, `AnyStretchBoundedHolds`, `KeyExpiresHolds` | requests, tokens, seconds, lost connections |
| `ApprovalPipelineProofs` | `PipelineTypeCorrect`, `ApprovalsGenuine`, `SucceededApprovedHolds`, `PostsBoundedHolds` | runs, items, retries, ticks |
| `GpuSlotsProofs` | `SlotsTypeCorrect`, `SlotsInvariant`, `NoDoubleUseHolds`, `LateHoldersHarmlessHolds` | workers, tasks, slots, pins, faults, signals |
| `DesignsProofs` | `WeightsSteadyHolds`, `ModelsRightHolds`, `UploadsAccountedHolds`, `FiguresToldHolds`, `DesignsTypeOKHolds` | sessions, readers, sources, weights, models, processes, images, jobs, listings, callers |
| `ServicesProofs` | `SignalsAccountedHolds`, `BatchesAccountedHolds`, `TrimBoundsHolds`, `CachesSettleHolds`, `PagesSpacedHolds`, `AuditAccountedHolds`, `ServicesTypeOKHolds` | processes, signals, words, requests, instances, replicas, users, tokens |
| `UpkeepProofs` | `ArchivedKeptHolds`, `IssuesPagedHolds`, `PurgeSoundHolds`, `UpkeepTypeOKHolds` | mockups, keepers, listings, syncs, rows, purges |
| `OperationsProofs` | `NoneTooManyHolds`, `StepsBoundedHolds`, `RulesCurrentHolds`, `TokenFreshHolds`, `ReportCurrentHolds`, `SecretBackedHolds`, `AnalysesSoundHolds`, `OperationsTypeOKHolds` | instances, runs, signals, attempts, saves, publishes, uses of a client, writers of a report, rotations, keys, calls, samples |

Every invariant of every passing run is stated by one of these theorems, for
`Spec` of the component or of the MC module that composes it, and so is every
action property that is no liveness.

The inductive invariants, and why the property alone is not one:

- `PublishTask`: a chain decides on `seen`, not on its own tries. `IInv` says that
  `seen` lies between the chain's own failures and the row's attempts (below:
  the session applies its own increments; above: attempts never decrease), and
  that whoever brings `attempts` to the limit still has to read them there. For
  `AttemptsAccounted`, whoever counts the last failure before the limit sees it,
  or another chain has seen the one before; from the limit on, the failures
  counted and those still to come stay within the bound. For `SuccessSound`,
  `success` belongs to a chain that goes on to nothing but metrics. `KeepsBudget` is
  the refinement step by step: what a chain does is a try, a failure or an end of
  `RetryBudget`, or a stutter.
- `TokenBucket`: tokens left and tokens handed out add up to the limit while
  there is a key, and a transaction that `EXEC` will accept was built on the
  present key. `WindowBounded` needs a positive limit: with a limit of 0, which no
  setting rules out, the first request of each window passes, as `SET limit-1`
  follows no comparison. For `AnyStretchBounded`, a key with `t` seconds to live
  was made `Window - t` seconds ago, and what was handed out since is its own.
- `ApprovalPipeline`: every copy of an approval (key, cached response, answer
  under way, finished op) of a run goes back to an approval of that run. For `PostsBounded`, an attempt
  of `publish_content` that has not begun has nothing left to send and what earlier
  ones sent is within their tries; one under way adds the POSTs of one attempt.
- `GpuSlots`: the lock of a slot in use has exactly the time left that its user
  has not used, so it is there, so nobody else is granted the slot. For
  `LateHoldersHarmless` (`SavedInv`), a task still to be run, or whose body is not over,
  has been saved no more often than it was delivered before, and one worker at the
  most runs it; a release compares the token it holds with that of the lock.
- `GatewayAccess`: what a request still has to do is the rest of its handler
  after the steps it made, and in every handler the audit step comes last and
  after the one that changes something.
- `Housekeeping`: a mockup on a keeper's list of done ones has its image in cold
  storage and no listing: cold storage is left by nothing, and only mockups without
  a listing were looked at.
- `KeyRotation`: a run that has had no other beside it owns its new key and has
  seen every other one that is left.
- `SpotNodes`: the property itself, with a run at work having something to request:
  a request turns one that was outstanding into an instance, and a count sets what
  comes on top to what it has overlooked (`Outstanding` is a set of pairs, so that
  the sum over all runs is a cardinality).
- `PipelineSteps`: ingestions made stay within the attempts before this one, over
  all runs of the op.
- `PublishRules`: the rules in use are no newer than the cached ones, and what the
  watching thread knows is of the present file unless it has still to be told of a
  change.
- `MarketplaceAccounts`: a use takes at most a call's time from its grant; a client's
  expiry was set by a use that had renewed the token it keeps, or another at about
  the same time, and is missing only until the use that kept the token sets it.
- `DailyReport`: what a writer would count now, and what it has counted, was right at
  some time since it began; unless it was torn, one writer at the most has the file
  open, and the file is empty as long.
- `ScoringWeights`: a reader's weight was in a row since it began to compute, and the
  time a cached score's weight has been gone, with the time the score has left, is at
  most its computation and the cache's time to live. Requests of the feedback job
  are smoothed sessions that are open or steps already made.

- `MockupModels`: abandoned uploads, the pending ids no process works on, are no more
  than leaks, which are no more than failures; the
  pipeline is what the process says unless its last load failed; the default chosen
  last is a row.
- `PerformanceFigures`: a job has stored none of its rows or all, and so has what a
  reader's cursor goes over. `Experiments`: what was counted is still there, as results
  are not removed, and on a day two callers never crossed one at the most is at
  work, which counted no less than the row. That the days add up to no more than the
  total is an injection of what was told into the shows.
- `SignalIngestion`: a message is a row stored; a process marks a signal once
  between two expiries of the filter; each start of the thread accounts for one
  embedding of a message.
- `Trending`: once a trim has counted, the words in the set are at most those allowed,
  the surplus it counted and those that arrived since; once it has chosen, so are
  those it will not cut, without the surplus.
- `GatewayCache`, `FeatureFlags`, `MetricsCache`, `LiveMetrics`: how old what a
  request has in its hands can be at each of its steps; the list in Redis was
  stored since the get looked; a value of a flag that no key, override or default says
  has been out of force no longer than the copies and calls that carry it are old.
- `Alerts`: as long as no mark of a spell is stored, its pages are those of replicas
  that have still to mark, and of lost marks; with the replicas about to page there
  are never more than replicas and lost marks.
- `ListingSync`: a state a run is going to write has been paged about.
- `PrivacyPurge`: a row a purge is through with holds nothing raw, or the purge
  holds its lock.
- `ResourceMetrics`: a sample stored or about to be is of a call that has begun;
  an acknowledged one is stored; analyses know only such samples, which no longer
  change. The reading is all rows in the order of time, by counting; a running sum
  above zero has a term above zero, by the least counterexample.

The type invariants of the composed runs say more than types where a bound
follows from the protocol: saves and the file's times and events (`Changes`), keys
within `KeyLimit` and at least one once a new one is made, a token in hand from
its grant to its use, no more than one spot request above the wanted.

Assumptions are those the modules name (`SpotAssumption`, `StepsAssumption`, …: finite
sets where something is counted, positive limits); TLC evaluates them in the
runs.

**Only model-checked.** Liveness: `ChainEnds`, `SomebodyAnswered`,
`ApprovalHeard`, `WaitEnds`, and of `PurgesComplete` and `ListingsKept` the parts
`SignalsPurged` and `ListingsConverge`. They need fairness, that is `ENABLED`,
which the prover does not handle. The safety parts of the last two (`PurgeSound`,
`IssuesPaged`) are proved.

## 10. Bounds, fairness, deadlock

Bounds are constants, named in each module: settings of the code (`MaxAttempts`,
`HttpRetries`, `CallTries`, `OpRuns`, `AtOnce`, `MaxReschedule`, `Attempts`),
bounds on the environment (`MaxFaults`, `MaxCuts`, `MaxSignals`, `MaxMisses`, `MaxChanges`,
`MaxSaves`, `MaxRuns`, `MaxUpdates`, `MaxSets`, `MaxFailures`, `MaxByHand`,
`MaxRoots`, `MaxEvents`, `MaxTrims`, `Items`, `Uploads`), the longest a call or
computation takes (`MaxHold`, `MaxCompute`, `CallTime`, `Flight`, `ReadTime`,
`GetTime`, `AskTime`, `PageTime`, `Transit`) and durations (`Window`, `KeyTtl`,
`CacheTtl`, `Timeout`, `DedupTtl`, `Cooldown`, `Life`, …). Chains, editors, requests
and shows are used once each.

Fairness is weak fairness of what a scheduler does by itself: an event loop
runs the coroutines it holds (`Attempt`, `Acquire`, `Poll`, `Run`), time passes
(`Tick`), a schedule starts its job again, the daemon evaluates the sensors that
are registered and launches what they ask for. No client, admin, marketplace, signal or fault is ever obliged to
act. `SignalsPurged` needs strong fairness of one step: the job that purges what is
stale is started again and again, and not killed for ever before its first
statement.

`CHECK_DEADLOCK FALSE` in every configuration: the systems may stop. Triggers
end and need not be repeated, users need not come back, runs finish, the bounds
on the environment are reached.

Outside the models: Redis runs commands and scripts one at a time, expires keys
(and breaks the transactions that watch them, as since version 6.0.9); redis-py
behaves as described above (4.5.4 is pinned for the mockup workers); Dagster
orders ops by their data dependencies and launches a run key once; Celery
acknowledges late and requeues on a lost worker; PostgreSQL gives READ COMMITTED
snapshots and row locks; PagerDuty, marketplaces and OAuth servers answer
anything. The mapping in `PROJECT.json` marks these as external.

## 11. Where code and documentation disagree

Runs that TLC finds violated, with the quoted line in `PROJECT.json`: a PATCH
is accepted and never published; `rotate_secrets_job` does not wait for its
approval; `get_weights` may answer another source's row; the sensor that is to
reschedule failed runs is neither registered nor given a job.

Seen while modelling and left without a run of their own (paths under
`backend/` unless they name another directory):

*Access and approvals.* `idea_job` publishes without waiting (`jobs.py:36`);
waiting runs are not listed, as nothing fills `pending_runs` (`routes.py:271`); a
rejection does not withdraw an approval (`routes.py:491`); every valid refresh
token is answered by a `TypeError`, as `routes.py:346` compares a naive
`expires_at` with an aware time (`tests/test_auth.py:100` expects a new token);
tokens the gateway issues carry no roles, so `require_role("admin")` answers 403;
the limiter of the middleware and of the router charge one key
(`routes.py:220`, `main.py:175`), so limited routes pay two tokens; a limit of 0
lets one request a window through (`rate_limit.py:46`); nothing deletes rows of
`refresh_tokens` and `revoked_tokens`.

*Publisher.* A new client reads a row that its own commit has expired
(`clients.py`, `BaseClient.__init__`); a token without `expires_in` is kept for
ever; overlapping logins make the first callback fail; `DEFAULT_RULES_PATH`
exists neither in the repository nor in the container; an exception in
`on_modified` ends the watching thread; a save whose truncation and fill share
one mtime leaves empty rules; a `ValueError` of the second check leaves the task
in progress; Zazzle has no limit in `main.py:99`.

*Mockups.* A SIGTERM leaves the GPU lock behind (`tasks.py:192`, against
`docs/maintenance.md:54`); `gpu_slots` does not limit pinned workers, a job
can outlast its lock, and with `gpu_slots` 0 a task waits for ever
(`tasks.py:302`); `generate_mockup` waits inside a task for a chord of tasks of
the same pool (`tasks.py:484`); `model_id` is set before the model is loaded
(`generator.py:62`, `generator.py:99`), so after a failed load the old pipeline
draws in the new model's name; overlapping `register` and `set_default` can leave
two defaults for a while; a CMYK image cannot be saved as PNG; tasks share the path of a
temporary file.

*Signals and scores.* `tasks.py:122` of the ingestion calls `bulk_save_objects` on
an `AsyncSession`, which has none, and sets no `content_hash`, which the shared
model requires; `publish("signals", …)` does not match `signals-value.json`, and
`signals.ingested` has no schema; the duplicate filter renews the time of the
whole set, not of one mark (`configuration.md:41`); `ingest_batch` stops at the
first adapter that raises; keywords are taken from the unsanitised title; the
PII purge looks only at top-level strings; the consumer has no group id;
`update_weights` raises when row 1 is missing; the feedback job sends no
`X-Weights-Token`, its request may be applied twice after a timeout, and its
jobs are added paused (`next_run_time=None`).

*Monitoring and flags.* `get_active_users` passes a tuple as the query on
PostgreSQL; every computation of latencies stores them all again; a page that
PagerDuty refused still starts the cooldown; `feature_flags.py:53` passes a URL
as a host; an override that an outage left in a process beside a provider's client
hides later changes for ever; cached exports are served as JSON (`routes.py:82`).

*Optimization.* The plain PostgreSQL start fails (`storage.py:263`); the pool is not
thread-safe and the eleventh caller raises; one naive timestamp makes every
windowed analysis raise from then on; `start_scheduler` returns early because the
metrics job has started it (`api.py:139`, against `docs/optimization.md:4`); the daily
report is promised by `daily_summary_report`'s docstring and may be missing.

*Scripts.* A listed mockup older than a year makes every archive run fail, and the
later steps of the hourly cleanup with it; objects go after 90 days though
rows that point to them stay for 365; `purge_old_s3` ignores
`S3_RETENTION_DAYS` (`docs/maintenance.md:33`); rotation is stuck after a kill
between the new key and the deletion, when there are two keys;
`maintain_spot_nodes_schedule` is not in `repository.py` (`docs/operations.md:41`
says that maintenance is scheduled); a `kubectl` that fails counts as no nodes
(`manage_spot_instances.py:121`); `label_node` polls for ever if its instance dies; every listing
is asked of every client.

*Dashboard.* The retry counter of `useLiveMetrics` is never reset, its timer
connects after the page is gone, an incomplete answer replaces what is shown, and
the analytics service has no `/analytics`.

*Between services.* `/ingest` answers `{"status": "ingested"}`, so
`ingest_signals` never returns a signal (`PipelineSteps` lets it return any); and
`generate_content` posts `{"scores"}` to a `/generate` that expects batches.

## 12. Not modelled

Computations without state: the arithmetic of a score, Thompson sampling in
`allocate_budget`, pricing, the patterns of personal data, the parsing of each
source, captions and listing texts, `monthly_cost_estimate`, the ranking of
low performers. Reads without a copy: searches, `GET /weights` beyond
`GetWeights`, the overview of monitoring, logs. Code that nothing calls: the
Selenium fallback, `get_upload_limit`, `record_summary`, the tables
`MarketplaceMetric`, `ABTestResult`, the 401 branches of `clients.py`, the
service template with `shared/currency.py`, the server-sent `metrics_sse`.
Modelled in part: images from the remote providers (one fallback), the counts of the
daily report by marketplace (one sum), `rotate_secrets` (overwrites a secret with
random bytes, keeps no state). Out of reach: exporters of metrics,
tracing, deployment manifests, migrations, generated clients and the pages of
the dashboard, which keep no state these protocols depend on.
