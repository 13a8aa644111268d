-------------------------- MODULE SubmissionOutbox --------------------------
(***************************************************************************)
(* The transactional outbox of the job-manager: createJobSubmissionIf-     *)
(* NotExists writes the job and its outbox row in one transaction; every   *)
(* replica's ScrapeJobSubmissionOutboxService claims rows, publishes them  *)
(* and marks them, each call under a timeout that abandons the call but    *)
(* does not cancel it; OutboxCleanupService drops old published rows.  A   *)
(* replica may crash at any point.  The scraper's status updates and the   *)
(* cleanup of expired jobs change the same job rows.                       *)
(*                                                                         *)
(* Time: next_attempt_at is abstracted to "due or not" and kept for        *)
(* unpublished rows only, the others are never claimed.  A claim pushes it *)
(* 30 s ahead and a failure 5 s, while a batch of 50 with 10 lanes and     *)
(* three 5 s timeouts per row may take 75 s, so a row may become due again *)
(* at any moment, also while a replica still works on it.                  *)
(***************************************************************************)
EXTENDS JobStatus, Naturals, FiniteSets

CONSTANTS Jobs,          \* job ids: the SHA-256 of URL and proxy
          NoJob,         \* aggregate_id of an outbox row not yet written
          Replicas,      \* the job-manager processes
          MaxRows,       \* bound: outbox rows ever written
          BatchSize,     \* OUTBOX batch size of a claim
          Concurrency,   \* dispatchConcurrency
          MaxAttempts,   \* outbox maxAttempts
          MaxLate        \* bound: abandoned calls in flight at once

ASSUME OutboxAssumption ==
    /\ NoJob \notin Jobs
    /\ MaxRows \in Nat
    /\ BatchSize \in Nat \ {0}
    /\ Concurrency \in Nat \ {0}
    /\ MaxAttempts \in Nat \ {0}
    /\ MaxLate \in Nat

\* Outbox rows, numbered in the order of created_at.
RowId == 1..MaxRows

\* Where a replica stands with a row.  "claimed": returned by claimBatch and
\* not yet taken by a lane; then the call dispatchMessage is waiting for.
Phases == {"none", "claimed", "publishing", "marking", "failing"}
InLane == {"publishing", "marking", "failing"}

\* A call whose timeout has fired: it was never cancelled and may still act.
LateCall == [op : {"publish", "mark", "fail"}, row : RowId]

VARIABLES status,       \* jobs table: Jobs -> Status or Absent
          aggregateId,  \* RowId -> the job of the row, NoJob if not yet written
          stored,       \* the outbox rows in the table
          published,    \* rows with published_at set
          due,          \* unpublished rows with next_attempt_at <= NOW()
          attempts,     \* attempt_count
          sent,         \* rows whose message reached the broker
          phase,        \* Replicas -> RowId -> Phases
          late          \* abandoned calls that may still take effect

tables == <<status, aggregateId, stored, published, due, attempts>>
vars == <<status, aggregateId, stored, published, due, attempts, sent, phase, late>>

Init == /\ status = [j \in Jobs |-> Absent]
        /\ aggregateId = [r \in RowId |-> NoJob]
        /\ stored = {}
        /\ published = {}
        /\ due = {}
        /\ attempts = [r \in RowId |-> 0]
        /\ sent = {}
        /\ phase = [d \in Replicas |-> [r \in RowId |-> "none"]]
        /\ late = {}

-----------------------------------------------------------------------------
(* Submission *)

\* r is the row the next INSERT writes.
IsNextRow(r) == \A q \in RowId : aggregateId[q] = NoJob <=> q >= r

\* One transaction: INSERT ... ON CONFLICT DO NOTHING of the job, then the
\* outbox row.  A job that exists is only read back, which changes nothing.
CreateJobSubmission(j, r) ==
    /\ status[j] = Absent
    /\ IsNextRow(r)
    /\ status' = [status EXCEPT ![j] = "SUBMITTED"]
    /\ aggregateId' = [aggregateId EXCEPT ![r] = j]
    /\ stored' = stored \cup {r}
    /\ due' = due \cup {r}
    /\ UNCHANGED <<published, attempts, sent, phase, late>>

-----------------------------------------------------------------------------
(* The statements the dispatcher runs, as effects on the tables *)

Claimable == {r \in due : attempts[r] < MaxAttempts}

\* At most BatchSize claimable rows, the oldest first.
IsClaimBatch(S) ==
    /\ S # {}
    /\ S \subseteq Claimable
    /\ Cardinality(S) <= BatchSize
    /\ S = Claimable \/ Cardinality(S) = BatchSize
    /\ \A r \in S, q \in Claimable \ S : r < q

\* Mutants of the next definition: markPublished used in its place, which
\* leaves the job row alone; and an upsert that revives a deleted row.
MarkPublishedOnly(r) ==
    /\ published' = published \cup ({r} \cap stored)
    /\ due' = due \ {r}
    /\ UNCHANGED <<status, aggregateId, stored, attempts>>

MarkByUpsert(r) ==
    /\ status' = [status EXCEPT ![aggregateId[r]] = EnqueuedStatus(@)]
    /\ published' = published \cup {r}
    /\ due' = due \ {r}
    /\ UNCHANGED <<aggregateId, stored, attempts>>

\* markJobEnqueuedAndPublished: both UPDATEs in one transaction.
MarkJobEnqueuedAndPublished(r) ==
    /\ status' = [status EXCEPT ![aggregateId[r]] = EnqueuedStatus(@)]
    /\ published' = published \cup ({r} \cap stored)
    /\ due' = due \ {r}
    /\ UNCHANGED <<aggregateId, stored, attempts>>

MarkFailed(r) ==
    /\ attempts' = IF r \in stored THEN [attempts EXCEPT ![r] = @ + 1] ELSE attempts
    /\ due' = due \ {r}
    /\ UNCHANGED <<status, aggregateId, stored, published>>

\* The broker accepts the message of row r.
Publish(r) == sent' = sent \cup {r}

-----------------------------------------------------------------------------
(* processBatch and dispatchMessage in replica d *)

Go(d, r, from, to) == /\ phase[d][r] = from
                      /\ phase' = [phase EXCEPT ![d][r] = to]

\* timeout(): the race is lost, the call keeps running.  At most one call of a
\* kind is abandoned per row at a time, by whichever replica.
Abandon(r, operation) ==
    /\ Cardinality(late) < MaxLate
    /\ late' = late \cup {[op |-> operation, row |-> r]}
    /\ late' # late

\* The polling worker calls processBatch again once every lane is done.
ClaimBatch(d) ==
    /\ \A r \in RowId : phase[d][r] = "none"
    /\ \E S \in SUBSET Claimable :
          /\ IsClaimBatch(S)
          /\ phase' = [phase EXCEPT ![d] = [r \in RowId |-> IF r \in S THEN "claimed" ELSE "none"]]
          /\ due' = due \ S
    /\ UNCHANGED <<status, aggregateId, stored, published, attempts, sent, late>>

\* The claim commits and its answer is lost, so processBatch only logs: the
\* rows are pushed ahead and nobody works on them.
ClaimLost(d) ==
    /\ \A r \in RowId : phase[d][r] = "none"
    /\ \E S \in SUBSET Claimable :
          /\ IsClaimBatch(S)
          /\ due' = due \ S
    /\ UNCHANGED <<status, aggregateId, stored, published, attempts, sent, phase, late>>

\* A poll that finds nothing: the replica sleeps until the next one.
EmptyPoll(d) ==
    /\ \A r \in RowId : phase[d][r] = "none"
    /\ Claimable = {}
    /\ UNCHANGED vars

\* A free lane takes a message of the batch and calls publish.
StartDispatch(d, r) ==
    /\ Cardinality({q \in RowId : phase[d][q] \in InLane}) < Concurrency
    /\ Go(d, r, "claimed", "publishing")
    /\ UNCHANGED <<tables, sent, late>>

PublishOk(d, r) ==
    /\ Go(d, r, "publishing", "marking")
    /\ Publish(r)
    /\ UNCHANGED <<tables, late>>

\* publish rejects: the broker may have accepted the message all the same.
PublishFails(d, r) ==
    /\ Go(d, r, "publishing", "failing")
    /\ Publish(r) \/ UNCHANGED sent
    /\ UNCHANGED <<tables, late>>

\* Mutant: a publish that is merely slow is taken for a success.
TimeoutTakenForSuccess(d, r) ==
    /\ Go(d, r, "publishing", "marking")
    /\ Abandon(r, "publish")
    /\ UNCHANGED <<tables, sent>>

PublishTimesOut(d, r) ==
    /\ Go(d, r, "publishing", "failing")
    /\ Abandon(r, "publish")
    /\ UNCHANGED <<tables, sent>>

MarkOk(d, r) ==
    /\ Go(d, r, "marking", "none")
    /\ MarkJobEnqueuedAndPublished(r)
    /\ UNCHANGED <<sent, late>>

\* The transaction rejects: rolled back, or committed and the answer lost.
MarkFails(d, r) ==
    /\ Go(d, r, "marking", "failing")
    /\ MarkJobEnqueuedAndPublished(r) \/ UNCHANGED tables
    /\ UNCHANGED <<sent, late>>

MarkTimesOut(d, r) ==
    /\ Go(d, r, "marking", "failing")
    /\ Abandon(r, "mark")
    /\ UNCHANGED <<tables, sent>>

RecordFailure(d, r) ==
    /\ Go(d, r, "failing", "none")
    /\ MarkFailed(r)
    /\ UNCHANGED <<sent, late>>

\* An error of markFailed is only logged.
RecordFailureFails(d, r) ==
    /\ Go(d, r, "failing", "none")
    /\ UNCHANGED <<tables, sent, late>>

RecordFailureTimesOut(d, r) ==
    /\ Go(d, r, "failing", "none")
    /\ Abandon(r, "fail")
    /\ UNCHANGED <<tables, sent>>

\* An abandoned call takes effect after all ...
LateEffect(c) ==
    /\ \/ c.op = "publish" /\ Publish(c.row) /\ UNCHANGED tables
       \/ c.op = "mark" /\ MarkJobEnqueuedAndPublished(c.row) /\ UNCHANGED sent
       \/ c.op = "fail" /\ MarkFailed(c.row) /\ UNCHANGED sent
    /\ late' = late \ {c}
    /\ UNCHANGED phase

\* ... or never does.
LateLost(c) ==
    /\ late' = late \ {c}
    /\ UNCHANGED <<tables, sent, phase>>

\* The process dies and is restarted: batch and lanes are gone.  A call that
\* was on the wire and is still received is one abandoned before the crash.
Crash(d) ==
    /\ \E r \in RowId : phase[d][r] # "none"
    /\ phase' = [phase EXCEPT ![d] = [r \in RowId |-> "none"]]
    /\ UNCHANGED <<tables, sent, late>>

-----------------------------------------------------------------------------
(* Time, the outbox cleanup, and the other writers of the job rows *)

\* Mutant: a row that was claimed and not settled is never offered again (a
\* claim without a TTL).
DueOnlyAfterFailure(r) ==
    /\ r \in stored \ (due \cup published)
    /\ attempts[r] > 0
    /\ due' = due \cup {r}
    /\ UNCHANGED <<status, aggregateId, stored, published, attempts, sent, phase, late>>

\* The claim TTL or the retry delay of a row has passed.
BecomeDue(r) ==
    /\ r \in stored \ (due \cup published)
    /\ due' = due \cup {r}
    /\ UNCHANGED <<status, aggregateId, stored, published, attempts, sent, phase, late>>

\* Mutant: the published_at IS NOT NULL clause is missing.
DeleteAnyBefore(S) ==
    /\ S # {}
    /\ S \subseteq stored
    /\ stored' = stored \ S
    /\ published' = published \ S
    /\ due' = due \ S
    /\ UNCHANGED <<status, aggregateId, attempts, sent, phase, late>>

\* deletePublishedBefore: the rows published before the cutoff.
DeletePublishedBefore(S) ==
    /\ S # {}
    /\ S \subseteq stored \cap published
    /\ stored' = stored \ S
    /\ published' = published \ S
    /\ UNCHANGED <<status, aggregateId, due, attempts, sent, phase, late>>

\* The scraper reports on a message it was handed; updateJobStatus.
WorkerReports(j, s) ==
    /\ \E r \in sent : aggregateId[r] = j
    /\ status' = [status EXCEPT ![j] = UpdatedStatus(@, s)]
    /\ status' # status
    /\ UNCHANGED <<aggregateId, stored, published, due, attempts, sent, phase, late>>

\* The cleanup of expired jobs: markJobExpired, later deleteJob.
ExpireJob(j) ==
    /\ status[j] # ExpiredStatus(status[j])
    /\ status' = [status EXCEPT ![j] = ExpiredStatus(@)]
    /\ UNCHANGED <<aggregateId, stored, published, due, attempts, sent, phase, late>>

DeleteJob(j) ==
    /\ status[j] \in Terminal
    /\ status' = [status EXCEPT ![j] = Absent]
    /\ UNCHANGED <<aggregateId, stored, published, due, attempts, sent, phase, late>>

-----------------------------------------------------------------------------
Lane(d, r) ==
    \/ StartDispatch(d, r)
    \/ PublishOk(d, r) \/ PublishFails(d, r) \/ PublishTimesOut(d, r)
    \/ MarkOk(d, r) \/ MarkFails(d, r) \/ MarkTimesOut(d, r)
    \/ RecordFailure(d, r) \/ RecordFailureFails(d, r) \/ RecordFailureTimesOut(d, r)

Next ==
    \/ \E j \in Jobs, r \in RowId : CreateJobSubmission(j, r)
    \/ \E d \in Replicas : ClaimBatch(d) \/ ClaimLost(d) \/ EmptyPoll(d)
    \/ \E d \in Replicas, r \in RowId : Lane(d, r)
    \/ \E c \in late : LateEffect(c) \/ LateLost(c)
    \/ \E d \in Replicas : Crash(d)
    \/ \E r \in RowId : BecomeDue(r)
    \/ \E S \in SUBSET stored : DeletePublishedBefore(S)
    \/ \E j \in Jobs : \E s \in {"PROCESSING", "COMPLETED", "FAILED"} : WorkerReports(j, s)
    \/ \E j \in Jobs : ExpireJob(j)
    \/ \E j \in Jobs : DeleteJob(j)

Spec == Init /\ [][Next]_vars

(***************************************************************************)
(* Fairness.  Each replica polls forever (PollingWorker) and each lane     *)
(* runs on, since timeout() ends every call one way or another; time       *)
(* passes; and the database is not down for good: of infinitely many       *)
(* claims, and of infinitely many attempts to record a failure of a row,   *)
(* infinitely many succeed.  Crashes come to an end (a step that may be a  *)
(* crash is then the step of a lane with the same effect).  Nothing is     *)
(* assumed of publish, of the marking transaction, of abandoned calls, of  *)
(* the workers or of the expiry cleanup.                                   *)
(***************************************************************************)
Fairness ==
    /\ \A d \in Replicas : SF_vars(ClaimBatch(d))
    /\ \A d \in Replicas, r \in RowId : WF_vars(Lane(d, r)) /\ SF_vars(RecordFailure(d, r))
    /\ \A r \in RowId : WF_vars(BecomeDue(r))
    /\ <>[][\A d \in Replicas : Crash(d) => \E r \in RowId : Lane(d, r)]_vars

FairSpec == Spec /\ Fairness

-----------------------------------------------------------------------------
(* Properties *)

TypeOK ==
    /\ status \in [Jobs -> Status \cup {Absent}]
    /\ aggregateId \in [RowId -> Jobs \cup {NoJob}]
    /\ stored \subseteq RowId
    /\ published \subseteq stored
    /\ due \subseteq stored \ published
    /\ attempts \in [RowId -> Nat]
    /\ sent \subseteq RowId
    /\ phase \in [Replicas -> [RowId -> Phases]]
    /\ late \subseteq LateCall

\* No accepted submission is lost: as long as a job is SUBMITTED, the outbox
\* still holds an unpublished row of it, whatever crashed, timed out, was
\* abandoned or was cleaned up (createJobSubmissionIfNotExists with
\* markJobEnqueuedAndPublished and deletePublishedBefore).
SubmittedHasPendingRow ==
    \A j \in Jobs : status[j] = "SUBMITTED" =>
        \E r \in stored \ published : aggregateId[r] = j

\* A row is marked published only after the broker has its message: the
\* order publish, then mark, of dispatchMessage survives timeouts, late
\* calls, two replicas on the same row, and restarts.
PublishedWasSent == published \subseteq sent

\* The outbox cleanup never drops work: a row leaves the table only when its
\* message has reached the broker.
OnlySentRowsAreDropped == [][stored \ stored' \subseteq sent]_vars

\* The detailed system keeps the promise of JobLifecycle: statuses only move
\* forward, only a requested job leaves SUBMITTED other than by expiry.
Requested == {aggregateId[r] : r \in sent}

Lifecycle == INSTANCE JobLifecycle WITH requested <- Requested

LifecycleImplemented == Lifecycle!Spec

Exhausted(j) == \E r \in stored \ published :
                   aggregateId[r] = j /\ attempts[r] >= MaxAttempts

\* Every submitted job leaves SUBMITTED or uses up the attempts of its row:
\* claims that expire, lost answers and crashes never strand a row.
DispatchedOrExhausted ==
    \A j \in Jobs : status[j] = "SUBMITTED" ~> status[j] # "SUBMITTED" \/ Exhausted(j)

-----------------------------------------------------------------------------
(* The inductive invariant: what the properties above rest on *)

\* Whatever refers to a row refers to one that was written with its job.
RowsHaveJobs ==
    /\ \A r \in stored \cup sent : aggregateId[r] \in Jobs
    /\ \A d \in Replicas, r \in RowId : phase[d][r] # "none" => aggregateId[r] \in Jobs
    /\ \A c \in late : aggregateId[c.row] \in Jobs

\* The marking transaction, also an abandoned one, runs after the publish.
MarkAfterSend ==
    /\ \A d \in Replicas, r \in RowId : phase[d][r] = "marking" => r \in sent
    /\ \A c \in late : c.op = "mark" => c.row \in sent

\* A job past SUBMITTED, unless by expiry, has a message at the broker.
WorkWasRequested ==
    \A j \in Jobs : status[j] \in Status \ {"SUBMITTED", "EXPIRED"} =>
        \E r \in sent : aggregateId[r] = j

IInv == /\ TypeOK
        /\ RowsHaveJobs
        /\ SubmittedHasPendingRow
        /\ PublishedWasSent
        /\ MarkAfterSend
        /\ WorkWasRequested
=============================================================================
