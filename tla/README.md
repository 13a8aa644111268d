# Formal models of WebScraper

TLA+ models of the scraping pipeline of this repository, the TLC runs that
check them and the TLAPS proofs about them. Paths such as
`apps/job-manager/src/app/polling-worker.ts` are relative to the repository.

## The system

Three NestJS applications share PostgreSQL, RabbitMQ and an S3 bucket; each may
run in several replicas.

| Part | State | Operations | Talks to |
| --- | --- | --- | --- |
| `apps/api` | none | submit, status, HTML stream, presigned URL | job-manager (TCP request/response with a timeout), bucket |
| `apps/job-manager` submission | job rows, outbox rows | `createJobSubmissionIfNotExists`, one transaction | Postgres |
| `apps/job-manager` outbox dispatcher | outbox rows, in-memory batch | `claimBatch`, `publish`, `markJobEnqueuedAndPublished`, `markFailed`, `deletePublishedBefore` | Postgres, RabbitMQ |
| `apps/job-manager` status updates | job rows | `updateJobStatus` | status queue, Postgres |
| `apps/job-manager` expired jobs cleanup | advisory lock, in-memory batch | `findExpiredJobs`, `markJobExpired`, `deleteObject`, `deleteJob` | Postgres, bucket |
| `apps/scraper` worker | none | handle a job message: PROCESSING, fetch, store, COMPLETED or FAILED | job queue, status queue, bucket |
| `apps/scraper` fetch engine | slot counter, wait queue, per-host times and user agents | `fetchHtml` | the web |
| `packages/messaging` | queues, deliveries, publisher connection and channel, one consumer | publish, handle, retry, dead-letter, deduplicate, register, close | RabbitMQ |
| `PollingWorker` and the Nest hooks of the job-manager | the loop, its delay, the timer of the cleanup | `start`, `stop`, `onModuleInit`, `onModuleDestroy` | all of the above |
| `scripts/simulate-scrape-request.mjs` | items under way, counts | submit, poll, wait, count, exit | api (HTTP) |

What is hard in it:

- *Timeouts that do not cancel.* `timeout()` gives up on a call that is still
  running; the abandoned call may take effect after its failure was recorded.
- *Two replicas on one row.* An outbox claim lasts 30 s, a batch of 50 may take
  75 s (three 5 s timeouts per row, ten lanes).
- *Updates out of order.* The worker reports on a job before the dispatcher has
  marked it, status messages are redelivered and retried, and the cleanup
  changes and deletes the same rows between its own statements.
- *Two frames for one retry.* The queue publishes a retry and acknowledges the
  original without a transaction.
- *Several steps for one deletion.* The cleanup works from rows it read before,
  and any of its statements may fail after it took effect.
- *A semaphore made of promises.* Between waking a waiter of the fetch engine
  and the waiter's own step, others run.
- *Handlers nobody waits for.* A worker whose channel closed goes on with its
  job while the message is handed to another one: both store and report.
- *Answers put together from two reads.* The gateway reads the job's row through
  the job-manager and then the object; workers and the cleanup run in between,
  and a command that timed out may still be executed.
- *Opened when first needed.* The publisher connection is opened by the first
  `publish`, with an `await` between looking for a channel and having one; the
  lanes of a first batch look at the same time.
- *Taking it all down.* `app.close()` meets a batch that publishes, a delay, a
  cleanup, handlers and connections that the broker may have closed already.
- *A job that cannot be cleaned.* The cleanup takes the oldest rows first, and
  one whose statements always fail stays the oldest.
- *A client that counts.* The durability client shares jobs with others, reads
  answers that are old by then, and turns what it has counted into an exit code.

## Modules

| Module | Models |
| --- | --- |
| `JobStatus` | the status column of a job row and the guard of each UPDATE of it, used by every module that changes a job row |
| `JobLifecycle` | abstract: what the job table promises |
| `SubmissionOutbox` | submission, dispatchers with their timeouts, outbox cleanup; implements `JobLifecycle` |
| `ExpiredJobsCleanup` | the cleanup under its lock, beside everything else that touches the same jobs; implements `JobLifecycle` |
| `AtLeastOnceQueue` | abstract: when a message may disappear |
| `MessageQueue` | `RabbitMqMessageQueue` and the broker below it; implements `AtLeastOnceQueue` |
| `ScrapePipeline` | job queue, worker handlers, status queue and status updates in one; implements `JobLifecycle` |
| `PipelineQueues` | `ScrapePipeline` with histories of its two queues; each implements `AtLeastOnceQueue` |
| `ApiGateway` | the HTTP requests, their commands at the job-manager and the read of the result |
| `CleanupOrder` | `ExpiredJobsCleanup` with the order in which `findExpiredJobs` takes the rows |
| `JobManagerLifecycle` | one job-manager process from its start to the end of its close |
| `ScrapeClient` | the client script, over a service that is `JobLifecycle` |
| `ScrapeEngine` | `fetchHtml` calls over shared slots, pacing and user agents |
| `*Proofs` | the theorems about the module of that name; those about `CleanupOrder` are in `ExpiredJobsCleanupProofs` |
| `MC*` | instances for TLC, one `.cfg` per run |

The database statements are atomic actions: each is one SQL statement or one
transaction. Between two of them anything may happen.

### JobStatus

`StatusGuard(old, s)` is `createStatusGuard`, clause by clause. The repeated
terminal update binds its target as a one-element array
(`postgres-job-repository.ts:315`); whether Postgres then finds it equal to the
same status depends on the driver, so it is the constant `RebindMatches`. The
runs use both values and the proofs hold for both.

### SubmissionOutbox

Rows are numbered in the order of `created_at`. `next_attempt_at` becomes
"due or not", and a row may become due at any moment, also while a replica
works on it: the claim's lifetime and the timeouts of the code allow it. A lane
of `dispatchClaimedMessages` is a `phase` per replica and row. Each of its
three calls can succeed, reject (before or after its effect), or lose against
its timeout; then it goes to `late`, where it may act at any later moment
(`LateEffect`) or never (`LateLost`). A crash empties the replica's phases.
`WorkerReports`, `ExpireJob` and `DeleteJob` are the other writers of the job
rows, allowed whenever the code could run them.

### ExpiredJobsCleanup

One action per statement of `deleteExpiredJobs` and of `markJobExpired`, which
are an UPDATE and, if that changed nothing, a SELECT. `snapshot` is the
`resultPath` as it was read with the batch, the one the code uses later.
`LockLoss` says whether Postgres may end the session that holds the advisory
lock while its process goes on; the cleanup never checks. Here a batch is any
set of overdue rows, which is more than the code does and serves safety.

### CleanupOrder

`CleanupOrder` extends that module for liveness, where the order matters.
`queue` has the overdue rows as they became so, which is the order of
`ORDER BY expires_at ASC`; an update that renews `expires_at` takes the row out.
`Oldest` is the batch. Some statement for a `Stubborn` job may fail every time;
there are fewer of these than a batch has places. `Dispatched` bounds the jobs
that a worker ever gets to see. The others stay SUBMITTED and expire.

### MessageQueue

A copy of a message moves between places: ready, held by a handler, waiting in
the retry queue, and, in between, the frames the consumer has sent and the
broker has not read. RabbitMQ and its deduplication plugin are outside the
repository and are modelled from how the code uses them: a queue keeps what it
accepted, serves one channel in order, redelivers what a closed channel had
not acknowledged, and drops a message whose deduplication header equals that
of a message in the queue, delivered ones included.

### ScrapeEngine

An action is the code between two `await`s. `TryAcquire` is the loop test of
`acquireRequestSlot` with what follows it, entered by a new call, by a woken
waiter and by the next attempt of a call. A waiter whose promise is resolved is
"woken" until its microtask runs; the model lets any other call run first,
which is more than the event loop allows. Time is counted in ticks down to an
event, so that it is bounded; a timer may fire `MaxLag` late, never early.

### JobManagerLifecycle

An action is the code between two `await`s of any of the four that share the
process: the poll loop with the lanes of its batch, the calls of `publish`
(those of lanes and those that `timeout()` has abandoned), the consumer of the
status queue, and the cleanup on its timer. A caller goes from "connecting"
(`amqplib.connect`) over "creating" (`createConfirmChannel`) to "sending" and
remembers the connection it works on, as the code remembers its channel;
`publishConnection` and `publishChannel` are the fields that others may
overwrite meanwhile. `Close` is `app.close()` up to the first `await` of each
hook. Nest 11 runs the hooks of `AppModule`'s own providers together and those
of the modules it imports, hence the queue's `onModuleDestroy`, after them. The
broker may close any connection at any moment, but in good order: a connection
that breaks emits an error nobody listens to, which ends the process, and then
there is no close left to speak of. `spoilt` is a history variable: the
connections whose opening was disturbed, because another call was opening too
or had opened one already, because the call was abandoned by `timeout()`, or
because no channel could be created on it.

`registerHandler` registers once and is not repeated when the broker closes a
connection. Until it is restarted such a process consumes nothing
(`ConsumerLost`), and a publish channel that was closed stays in the cache. If
the consumer's connection is lost while `closeWorker` runs, the rest of
`closeWorker` rejects, and with it `app.close()` ("failed").

### ScrapeClient

The service below is an instance of `JobLifecycle`, stepping for other reasons
than this client. An item of the run goes from "submitting" (the request is
sent) over "submitted" (executed, not answered) to "testing" (the deadline of
`waitForCompletion`), "polling" and "answered", and ends in one of four
outcomes; a single run goes on to resolve the result. Two items with one URL
are one job. `late` has the items whose `timeoutMs` are over, of which the
client learns when it looks. In `Start`, `urlFactory` may throw: that is outside
of the `try` of `executeStressJob`, nobody handles the rejection, and the
run ends there. `metrics` are the counters of the code, `Counted` the lines that
raise them. `seen` is a history variable, as in the gateway.

### ScrapePipeline

The handler of `ScrapeWorkerService` is cut at its `await`s: `Announce`
(PROCESSING), `Fetch`, `PutText`, `Complete`, `Fail`. Each may reject, each
report may be sent although its confirm is lost, and a run ends with the frames
`handleMessage` sends (`Returns`, `Throws`) or loses (`LosesFrames`). After
`ConnectionLost` the message goes back and its handler runs on, without a
message; after `Crash` it is gone. `ApplyUpdate` is `updateJobStatus` with
its acknowledgement, which may be lost; `UpdateFails` retries or, on the last
attempt, drops the report (`dropped`). The queues are seen from their ends:
at most one message of a job in the deduplicated queue, with the retries that
wait. A message with another name than the expected one is ignored and
acknowledged by both handlers (`scrape-worker.service.ts:53`,
`scrape-job-status-updates.service.ts:37`); no service publishes one, and the
branch is left out. The jobs are within their retention, so `markJobExpired` may come but a row
is not deleted.

### PipelineQueues

Whether the queue ends of `ScrapePipeline` are the queue that
`RabbitMqMessageQueue` provides is a question of its own. The module adds
histories to the pipeline: the jobs and reports for which a handler has returned,
and how often one has thrown. With these both queues, job messages and status
reports, are instances of `AtLeastOnceQueue`, which `MessageQueue` implements in
detail. The pipeline sends a verdict and the frame that follows from it in one
step, so `AtLeastOnceQueue` has `SucceedAndSettle` and `FailAndSettle`: each is two
of its other steps taken at once and allows no new result. Two copies of one
report, one sent again and one retried, count as one message: the promise is about
the report, which the consumer may apply any number of times.

### ApiGateway

One action per step of a request: `Call` sends the command, `Execute` is the
job-manager's handler, `CommandLost` loses or rejects it at any of its steps.
A submission inserts its row (`Insert`), or finds one (`InsertIgnored`) and
reads it back in a statement of its own (`ReadBack`): the cleanup may delete the
row in between, `findOneOrFail` then rejects, and the client must be told an
error. `Reply`,
`CommandFails` and `CommandTimesOut` are what `sendToJobManager` may see, and
`ReadObject` is the access to the bucket. The command of a request that has
timed out can still be executed. `seen` is a history variable: what was so of
the request's job at some moment between its call and its answer.
`StorageLocation` is `resolveStorageLocation` on a path of segments, and rows
and objects change as `createStatusGuard`, `putText`, and the cleanup's
statements allow. `ReportStatus` takes COMPLETED for a job whose object is in
the bucket: that a report follows its `putText` is `ResultIsStored` of
`ScrapePipeline`, and that no report outlives the retention of its job is
assumed (see the limits). All three applications are configured with the same default
bucket, or with none; a malformed `s3://` path, which no code of the repository
writes, is left out. A URL is signed locally, without a request that could fail.

## Runs

| Run | Instance | Shows |
| --- | --- | --- |
| `outbox` | 2 replicas, 1 job submitted up to twice, 2 attempts, 1 abandoned call at a time, any number of crashes | `SubmittedHasPendingRow`, `PublishedWasSent`, `OnlySentRowsAreDropped`, `LifecycleImplemented` |
| `outbox_live` | 2 replicas, 1 row, 2 attempts, 2 abandoned calls | `DispatchedOrExhausted` |
| `cleanup` | 2 jobs, 2 cleaners, batches of 1, sessions are kept | `NoPrematureDeletion`, `LifecycleImplemented` |
| `cleanup_live` | 3 jobs, one of them stubborn, 1 cleaner, batches of 2, sessions may be lost | `NobodyIsHeldUp` |
| `queue` | 2 messages, one deduplicated, 2 channels with prefetch 1, 2 copies, 3 attempts | `NoTwinCopies`, `PromiseKept`, `MessagesSettle` |
| `engine` | 3 calls, 2 of them to one host, 2 slots, 2 attempts, timers up to 1 tick late | `SlotAccounting`, `NoLostWakeup`, `HostSpacing`, `EveryFetchFinishes` |
| `pipeline` | 1 job published up to twice, 2 handlers, 2 attempts on either queue, any number of crashes and lost channels | `ResultIsStored`, `NoSilentLoss`, `LifecycleImplemented` |
| `pipeline_live` | 1 job published once, 2 handlers, 2 attempts, status messages with 1 | `JobsEnd` |
| `gateway` | 1 job, 1 request of any of the four kinds, a default bucket | `AnswersWereTrue`, `ServedWithinRetention`, `EveryRequestIsAnswered` |
| `service` | 2 lanes, batches of up to 2, 1 abandoned call at a time, prefetch 1, up to 3 publisher connections | `OneConnection`, `CleanClose`, `NoPublishCutOff`, `NoBatchAfterStop`, `CloseEnds` |
| `client` | 3 items of one URL in a pool of 2, or a single run | `CountsAddUp`, `ZeroMeansCompleted`, `RunEnds` |

Each run that checks safety also checks its module's `TypeOK` (`OrderTypeOK`).
Deadlock is checked in all of them.

The bounds are the smallest with the cases in them. Two replicas race for a
row, and a third adds no state a row can be in. A job submitted twice is the
least at which an old row meets a new job of the same id. Two attempts give a
retry and an exhausted row, three attempts in the queue a retry of a retry. One
abandoned call at a time lets it meet every later step; the liveness run has
two. Three calls for two slots let one wait while another releases and a
retry barges in, and two of them share a host. Two cleaners with batches of one
visit the same job in turn. Two copies are
what one publish beside one retry needs. Two handlers of one job are the one
with the message and the one that lost its channel, and a crash may put a new
one in the place of either. Requests do not meet except in the rows they
read, so one is enough for the gateway; the proof is for any number.
In `cleanup_live` a stubborn job leaves one place of each batch, for which
two others compete; there is one cleaner, which may lose its session and work
on: with two the instance is too large for liveness, and two without the lock
are what `cleanup` excludes. Two lanes can find no
channel at once, and then one of two connections is left behind; with a third a
connection is opened undisturbed after others have failed. Three items
keep one waiting for the pool, and one URL makes them share a job. Symmetry is
used in safety runs only.

### Fairness

- Dispatchers: each replica goes on polling (`PollingWorker` never stops by
  itself), each lane runs on because `timeout()` ends every call, and due times
  pass. The database is not down for good: of infinitely many claims, and of
  infinitely many attempts to record a failure, some succeed. Crashes end.
  Nothing is assumed of `publish` or of the marking transaction, so the
  property is "dispatched or out of attempts".
- Cleanup: ticks go on and the loop runs on. Crashes end, and so do errors of
  the statements for jobs that are not stubborn. Nothing is assumed of the
  stubborn ones, of sessions, of workers and of submitters.
- Service: the event loop runs what can run, `claimBatch` and the cleanup's
  statements are answered, `timeout()` ends every call a lane waits for, and
  the broker answers a close or drops the connection. Nothing is assumed of the
  poll interval, of abandoned calls and of handlers: `stop()` aborts the delay
  and waits for none of these.
- Client: a request is answered or fails (`fetch` has timeouts of its own), the
  delay between polls and `timeoutMs` pass. Nothing is assumed of the jobs.
- Queue: the broker delivers, reads frames and expires retries, every handler
  ends, and a copy's runs do not for ever end in a `publishRetry` that throws.
  Publishing and losses of channels end. Nothing is assumed of the outcome.
- Pipeline: the broker delivers and expires retries, handlers run on, status
  messages are consumed one way or another. Crashes, lost channels and repeated
  updates end, and of infinitely many frames that end a run some arrive. Nothing
  is assumed of the outcome of a fetch, a `putText`, a publish or an
  `updateJobStatus`: hence "or a message was given up on".
- Gateway: timers fire (`requestTimeoutMs`) and the storage client answers or
  rejects. Nothing is assumed of the job-manager.
- Engine: the event loop runs what can run, timers fire, axios ends every
  request.

### Where a document and the code disagree

One run expects a violation. `deleted_jobs_leave_no_object` takes
`apps/job-manager/README.md:13`, "Delete expired jobs and associated storage
assets", at its word: a job completed between `findExpiredJobs` and
`markJobExpired` is deleted without its object. The same gap decides what
`NoPrematureDeletion` means: a row that is renewed there has been overdue, and
`markJobExpired` does not compare `expires_at` again
(`postgres-job-repository.ts:152`). It is expired and deleted although it is not
overdue any more, and the property allows it. What it excludes is the deletion
of a row that was never overdue, the successor of a deleted one included.

Two other statements hold only in part, as the modules show without a run:

- `apps/job-manager/README.md:12`, "Recover stale `SUBMITTED` ... jobs". A row
  out of attempts is never claimed again (`Claimable` in `SubmissionOutbox`).
  Its job is only ever expired and deleted, which is why `DispatchedOrExhausted`
  says no more.
- `apps/scraper/README.md:9`, "retry, backoff, throttling". An error that is not
  retryable falls through the catch block of `fetchHtml`, and the request is
  repeated at once, without the backoff (`ScrapeEngine`).

`README.md:240` says when the client exits non-zero; `ZeroMeansCompleted` is the
part of it that could fail, and holds.

`README.md:51` draws `SUBMITTED -> ENQUEUED -> PROCESSING -> COMPLETED | FAILED`.
The dispatcher publishes before it marks, so PROCESSING may come first and
ENQUEUED is skipped; `JobLifecycle` allows it.

## Proofs

The proofs hold for every value of the constants that the named assumptions
allow: any number of jobs, replicas, rows, cleaners, messages and copies.

**SubmissionOutbox** (`TypeCorrect`, `NoLostSubmission`, `PublishBeforeMark`,
`CleanupDropsNoWork`, `ImplementsLifecycle`). `SubmittedHasPendingRow` is not
inductive alone: a mark for a row must concern a job that the same transaction
moves out of SUBMITTED, and a late mark must not meet an unsent row. `IInv`
adds `RowsHaveJobs` (whoever works on a row works on one that was written with
its job), `MarkAfterSend` (a mark, abandoned ones included, follows the
publish) and `WorkWasRequested` (a job past SUBMITTED has a message at the
broker). The steps are proved action by action; the refinement maps
`requested` to the jobs of the rows sent.

**ExpiredJobsCleanup** (`CleanupTypeCorrect`, `DeletedRowsWereOverdue`,
`CleanupImplementsLifecycle`). The types hold in any case; the other two are
under `~LockLoss`, which each theorem states. The invariant is mutual exclusion
by the lock (`LockHeld`) with `BatchIsMatured`: the rows of a batch have been
overdue, and one on its way to deletion is finished or EXPIRED and cannot become
live again, because only its own cleaner deletes it. With `LockLoss` both safety
properties fail: a cleaner that lost its session deletes a row its successor has
already deleted and a client submitted again.

**CleanupOrder** (`OrderTypeCorrect`, `OrderIsKept`, `OthersAreServed`, in
`ExpiredJobsCleanupProofs`). `NobodyIsHeldUp` rests on two facts that need no
fairness: nobody comes to stand before a job that waits (`NobodyOvertakes`), and
with fewer stubborn jobs than places the first of the others is in every batch
(`FirstOthersAreServed`). Both need `queue` to be an enumeration of the overdue
rows, which `OrderTypeOK` says and which is proved from the effect of `RemoveAt`
and `Append` on the places of a sequence. Two lemmas say that the order takes
nothing away: `InOrder` allows every step of `ExpiredJobsCleanup` for some next
queue, since a step adds or removes one row at most (`OneRowAtATime`), and the
first rows of the queue are a batch that `FindBatch` allows (`OldestIsABatch`).

**MessageQueue** (`QueueTypeCorrect`, `NoTwins`, `QueueKeepsPromise`).
`HeadersAreEarned` is the strengthening: a copy has been through as many failed
runs as its header counts, one more while its retry is on the way, and what is
being acknowledged has had its verdict. With it every step is a step of
`AtLeastOnceQueue` or a stutter.

**ScrapeEngine** (`EngineTypeCorrect`, `SlotsAreCounted`, `NoWakeupIsLost`,
`RequestsAreSpaced`). A slot count needs to know who waits: `QueueIsWaiting` says
that the wait queue holds exactly the waiting calls, each once, so that a wake-up
always finds a call that can take the slot. `Reservations` is what makes the
distance between requests inductive: the calls that pace on one host, the next
start and the last one are pairwise an interval apart, up to the lateness of a
timer (assumed shorter than the interval). The slot argument is given once, for
the loop test entered with any counter, queue and stages (`AskingSettled`).

**ScrapePipeline** (`PipelineTypeCorrect`, `CompletedJobsHaveResults`,
`NoJobVanishes`, `PipelineImplementsLifecycle`). What makes a COMPLETED row's
object certain is that every report was true when it was sent and that nothing
removes an object within retention: `ReportsAreTrue` says so of handlers and of
messages, and `HandlersHold` that a message that is delivered is the one its
holder works on, unless the holder has lost it. `NoSilentLoss` needs that only a
last attempt reports FAILED, since the message goes with it. `RowsAreRequested`
serves the refinement.

**PipelineQueues** (`WatchedIsPipeline`, `PipelineQueuesKeepPromise`, in
`ScrapePipelineProofs`), for any number of jobs, workers and attempts. To leave
its queue a message must have had its verdict, and the pipeline decides that by
the number a message carries; `RunsAreEarned` and `UpdatesAreEarned` say that this
number is never more than the failed runs the history has counted, also for a
retry that waits, and that a handler which still holds its message works with the
message's own number. The latter keeps a handler that has lost its channel from
being taken for the one that holds the message now. The histories forbid no step
(each alternative of theirs assigns new values and its guards cover every case),
and `WatchedIsPipeline` says that they add none.

**ApiGateway** (`GatewayTypeCorrect`, `AnswersAreTrue`, `ResultsAreServed`). The
rows and the bucket have an invariant of their own (`ResultsAreStored`: a
COMPLETED row names its object, which is there until the cleanup takes the job
up). A request in flight has seen the present state of its job (`Observed`), and
what it was told by the job-manager is among what it has seen (`ViewWasTrue`),
so that the answer given later, from a view that may be stale by then, still
speaks of a moment of the request.

**JobManagerLifecycle** (`LifecycleTypeCorrect`, `OneConnectionIsOpened`,
`ClosesCleanly`, `NoPublishIsCutOff`, `NoBatchIsStartedAfterStop`), for any
number of lanes, abandoned calls, messages, handlers and connections. `IInv`
adds three parts to the types. `CallersConnected`: whoever opens a channel or
sends has a connection. `ClosedInOrder`: a lane works for a batch only, and once
the queue's own hook runs, loop, timer and cleanup have ended; before that no
channel is shut, so that what a close shuts no lane is using. `SendersShare`:
whoever sends has found or left a channel in the cache. `Unspoilt` speaks of
each connection opened undisturbed: it is the last one, only the lane that opened
it can still be opening, and the fields name it or are empty. Without the part
about callers, the step of `Connects` could overwrite a connection in use; without
`SendersShare`, a new connection could be opened undisturbed while a lane sends
on an older one.

**ScrapeClient** (`ClientTypeCorrect`, `SummaryAddsUp`, `SuccessIsEarned`), for
any number of jobs, URLs and tasks. The service below is an instance of
`JobLifecycle`, so that nothing is proved of it here. `CountsAddUp` is
not inductive: it bounds `acceptedJobs` by the items that are over, and says
nothing of those acknowledged and still polled. `Tally` counts the items by
stage, and has the acknowledged ones between the sum of those in work, completed,
failed and timed out, and that sum with the errors, since an error may come
before the acknowledgement or after it. Each step moves one item; `GoesCounts`
says what that does to the number of items in any set of stages, and the
rest is arithmetic. The bounds of the counters in `TypeOK` follow from `Tally`.
For the exit code, `Evidence` says that whoever believes a job COMPLETED has seen
it so, the answer on its way included, and `Places` that a single run has one
item.

The guards of `JobStatus` have lemmas, and `UpdateRespectsTerminal` a theorem, in
`SubmissionOutboxProofs`.

Only model-checked: liveness (fairness and ENABLED are out of the prover's
reach), hence `DispatchedOrExhausted`, `NobodyIsHeldUp`, `MessagesSettle`,
`EveryFetchFinishes`, `JobsEnd`, `EveryRequestIsAnswered`, `CloseEnds` and
`RunEnds`. Every invariant that a run checks is a theorem, and so is every action
property and refinement. `PipelineQueuesKeepPromise` is proved and in no run: its
histories multiply the states of `pipeline` beyond what a run can take: TLC
has agreed with its invariant `WInv` and with `QueuesKeepPromise` on one handler
with two attempts on either queue, and on two handlers with status messages of one
attempt.

## Limits of the models

- `CleanupOrder` assumes fewer stubborn jobs than a batch has places. With as
  many of them as a batch, `findExpiredJobs` returns nothing else, and all other
  overdue jobs wait for ever: nothing in the code gives up on a row or moves it
  back.
- No `main.ts` calls `enableShutdownHooks`, so in a deployment nothing calls
  `app.close()`: a replica ends as by the `Crash` of the other modules, by
  SIGKILL where the handler of `packages/tracing/src/lib/tracing.ts` takes the
  first SIGTERM. `JobManagerLifecycle` is what a close does when something
  calls it.
- With two or more lanes the first batch may open several connections, and all
  but one of them stay open until the process ends. A
  `createConfirmChannel` that rejects, or a publish that is abandoned, leaves one
  behind too. The code does leak these, and no property forbids it. `OneConnection`
  and `CleanClose` say that it goes no further: a connection opened undisturbed
  is shared by all lanes whatever failed before it, and is never left open by a
  close that resolves. An abandoned publish may be cut off by a close.
- A channel that the broker closes stays in the cache, and every later publish of
  that process throws (`rabbitmq-message-queue.ts:306`). `SubmissionOutbox` has
  this as publishes that fail for ever; rows then run out of attempts, which
  `DispatchedOrExhausted` accepts. It accepts as well whatever else would use up
  attempts: `attempt_count` is raised by `markFailed` alone.
- `ApiGateway` has no status message that comes late enough to meet a job deleted
  and submitted again under its id. `updateJobStatus` would apply it: a COMPLETED
  of the first life would be told of the second, without an object.
- `HostSpacing` is about calls of `axios.get`. axios follows up to five redirects
  on its own (`scrape-engine.service.ts:67`); those are neither paced nor counted.
- `JobManagerLifecycle` has one `start` and one `stop`, as the service calls
  them. A second `stop`, or a `start` during a `stop`, is left out.
- A call of `fetchHtml` is made once. With new calls for ever a waiter can
  starve: it goes to the end of the queue when someone barges in.
- A crash of the broker that loses an unconfirmed retry is not modelled.
- The queue model assumes that the backoff (1 s by default) outlasts the
  acknowledgement sent right behind a retry. Without it a deduplicated retry is
  dropped as a copy of its own original; the mutant `RetryExpiresAtOnce` shows it.
- The queues of `ScrapePipeline` are proved to keep the promise that `MessageQueue`
  is proved to keep, `AtLeastOnceQueue`. That the pipeline's queues are themselves
  an abstraction of `MessageQueue`, frame by frame, is not proved.
- COMPLETED may be accepted by the broker while its confirm is lost. If the job
  then runs again and its FAILED is applied first, the job is FAILED with a
  result in the bucket that no row names. The pipeline contains this; no
  property forbids it, since no document does.
- A crash of a worker counts no attempt, as in the code: a job that always kills
  its worker is delivered for ever. `JobsEnd` assumes that crashes end.
- Two calls refused with 429 at once rotate the user agent twice, with two
  agents configured back to the one just refused. The engine contains this, and
  no property forbids it.

Not modelled, because they hold no state and take no step that another part
could come between: URL and proxy validation (decisions of the platform's `URL`
class), configuration (environment variables parsed once at the start; the
values are the constants of the modules), dependency injection, logging and
tracing, the client's argument parsing and printing, and the Docker, Kubernetes
and observability files.

## Plan

1. `JobStatus`, `JobLifecycle`, `SubmissionOutbox`: done, proved.
2. `ScrapeEngine`: done, proved.
3. `ExpiredJobsCleanup`: done, proved.
4. `AtLeastOnceQueue`, `MessageQueue`: done, proved.
5. `ScrapePipeline`: done, proved.
6. `ApiGateway`, with `resolveStorageLocation` and the error classes: done,
   proved.
7. Service lifecycle, `JobManagerLifecycle`: done, proved.
8. The order of the cleanup's batch, `CleanupOrder`: done, its safety part
   proved.
9. The client of the durability runs, `ScrapeClient`: done, proved.
10. The two queues of the pipeline against `AtLeastOnceQueue`, `PipelineQueues`:
    done, proved.
