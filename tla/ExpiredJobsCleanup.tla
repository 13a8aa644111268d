------------------------- MODULE ExpiredJobsCleanup -------------------------
(***************************************************************************)
(* ExpiredJobsCleanupService: every job-manager replica periodically takes *)
(* a Postgres advisory lock, reads a batch of overdue jobs and, one by one *)
(* and each with its own statement, marks the row EXPIRED, deletes the     *)
(* object the row named WHEN IT WAS READ, and deletes the row.  Meanwhile  *)
(* jobs are submitted, dispatched, scraped and reported on.                *)
(*                                                                         *)
(* expires_at is abstracted to "overdue or not".  The batch is any         *)
(* selection of overdue rows; CleanupOrder adds that the code takes the    *)
(* oldest.                                                                 *)
(***************************************************************************)
EXTENDS JobStatus, Naturals, FiniteSets

CONSTANTS Jobs,
          NoJob,       \* a cleaner that works on no job
          Cleaners,    \* the job-manager processes
          BatchSize,   \* cleanup batch size
          LockLoss     \* may Postgres end the session that holds the lock
                       \* while its process works on?

ASSUME CleanupAssumption ==
    /\ IsFiniteSet(Jobs)
    /\ NoJob \notin Jobs
    /\ BatchSize \in Nat \ {0}
    /\ LockLoss \in BOOLEAN

\* Where deleteExpiredJobs is: waiting for a tick; holding the lock, before
\* findExpiredJobs; at the head of the loop; between the two statements of
\* markJobExpired; before deleteObject; before deleteJob.
Phases == {"idle", "finding", "next", "lookup", "object", "row"}

VARIABLES status,      \* jobs table: Jobs -> Status or Absent
          resultPath,  \* rows whose resultPath is set
          overdue,     \* rows with expires_at <= NOW()
          requested,   \* jobs whose scrape message was published
          objects,     \* jobs whose result object is in the bucket
          produced,    \* jobs for which a COMPLETED message was ever sent
          lock,        \* cleaners whose session holds the advisory lock
          phase,       \* Cleaners -> Phases
          todo,        \* the part of its batch a cleaner has not visited
          snapshot,    \* the jobs of its batch that were read with a resultPath
          current,     \* the job a cleaner works on
          matured      \* rows that have been overdue since they were created
                       \* (history)

rowVars     == <<status, resultPath, overdue, matured>>
cleanerVars == <<phase, todo, snapshot, current>>
vars == <<status, resultPath, overdue, requested, objects, produced,
          lock, phase, todo, snapshot, current, matured>>

Rows == {j \in Jobs : status[j] # Absent}

Init == /\ status = [j \in Jobs |-> Absent]
        /\ resultPath = {}
        /\ overdue = {}
        /\ requested = {}
        /\ objects = {}
        /\ produced = {}
        /\ lock = {}
        /\ phase = [c \in Cleaners |-> "idle"]
        /\ todo = [c \in Cleaners |-> {}]
        /\ snapshot = [c \in Cleaners |-> {}]
        /\ current = [c \in Cleaners |-> NoJob]
        /\ matured = {}

-----------------------------------------------------------------------------
(* The rest of the system, as far as it touches these jobs *)

\* INSERT ... ON CONFLICT DO NOTHING.
Submit(j) ==
    /\ status[j] = Absent
    /\ status' = [status EXCEPT ![j] = "SUBMITTED"]
    /\ UNCHANGED <<resultPath, overdue, requested, objects, produced, matured, lock, cleanerVars>>

\* The outbox hands the scrape message to the broker.
Request(j) ==
    /\ status[j] # Absent
    /\ j \notin requested
    /\ requested' = requested \cup {j}
    /\ UNCHANGED <<rowVars, objects, produced, lock, cleanerVars>>

\* The UPDATE of markJobEnqueuedAndPublished: a new expires_at.
Enqueue(j) ==
    /\ j \in requested
    /\ status[j] \in {"SUBMITTED", "ENQUEUED"}
    /\ status' = [status EXCEPT ![j] = EnqueuedStatus(@)]
    /\ overdue' = overdue \ {j}
    /\ <<status, overdue>>' # <<status, overdue>>
    /\ UNCHANGED <<resultPath, requested, objects, produced, matured, lock, cleanerVars>>

\* putText of a worker; its COMPLETED message follows, maybe more than once.
PutText(j) ==
    /\ j \in requested
    /\ objects' = objects \cup {j}
    /\ produced' = produced \cup {j}
    /\ <<objects, produced>>' # <<objects, produced>>
    /\ UNCHANGED <<rowVars, requested, lock, cleanerVars>>

\* updateJobStatus with a worker's message: status, resultPath, expires_at.
UpdateJobStatus(j, s) ==
    /\ j \in requested
    /\ s = "COMPLETED" => j \in produced
    /\ StatusGuard(status[j], s)
    /\ status' = [status EXCEPT ![j] = s]
    /\ resultPath' = IF s = "COMPLETED" THEN resultPath \cup {j} ELSE resultPath
    /\ overdue' = overdue \ {j}
    /\ <<status, resultPath, overdue>>' # <<status, resultPath, overdue>>
    /\ UNCHANGED <<requested, objects, produced, matured, lock, cleanerVars>>

\* The retention of a row is over.
BecomeOverdue(j) ==
    /\ status[j] # Absent
    /\ j \notin overdue
    /\ overdue' = overdue \cup {j}
    /\ matured' = matured \cup {j}
    /\ UNCHANGED <<status, resultPath, requested, objects, produced, lock, cleanerVars>>

-----------------------------------------------------------------------------
(* The cleaner's local moves *)

GoTo(c, there) == phase' = [phase EXCEPT ![c] = there]

\* The loop turns to the next job of the batch.
NextJob(c) == /\ GoTo(c, "next")
              /\ current' = [current EXCEPT ![c] = NoJob]
              /\ UNCHANGED <<todo, snapshot>>

\* Back to waiting, the batch forgotten.
Forget(c) == /\ GoTo(c, "idle")
             /\ todo' = [todo EXCEPT ![c] = {}]
             /\ snapshot' = [snapshot EXCEPT ![c] = {}]
             /\ current' = [current EXCEPT ![c] = NoJob]

-----------------------------------------------------------------------------
(* runWithPostgresAdvisoryLock *)

\* Mutant of the next definition: the answer of pg_try_advisory_lock is not
\* looked at.
LockNotLookedAt(c) == TRUE

LockFree(c) == lock = {}

\* A tick.  If the lock is taken the tick ends at once; a tick during a run
\* is dropped by cleanupInFlight.  Neither changes anything.
TryLock(c) ==
    /\ phase[c] = "idle"
    /\ LockFree(c)
    /\ lock' = lock \cup {c}
    /\ GoTo(c, "finding")
    /\ UNCHANGED <<rowVars, requested, objects, produced, todo, snapshot, current>>

\* The batch is done: pg_advisory_unlock.
Unlock(c) ==
    /\ phase[c] = "next"
    /\ todo[c] = {}
    /\ lock' = lock \ {c}
    /\ Forget(c)
    /\ UNCHANGED <<rowVars, requested, objects, produced>>

\* The process dies, also by an error of findExpiredJobs or of the lock
\* statements, which nobody handles ...
Crash(c) == phase[c] # "idle" /\ Forget(c)

\* ... or only its session is lost, which it does not notice before it unlocks.
LoseLock(c) == LockLoss /\ c \in lock /\ UNCHANGED cleanerVars

\* Postgres drops the lock with the session.
SessionEnds(c) ==
    /\ lock' = lock \ {c}
    /\ Crash(c) \/ LoseLock(c)
    /\ UNCHANGED <<rowVars, requested, objects, produced>>

-----------------------------------------------------------------------------
(* deleteExpiredJobs *)

\* Mutants of the next definition: no LIMIT; and a batch of rows that need
\* not be overdue.
UnlimitedBatch(S) == S \subseteq overdue

AnyRowsBatch(S) == S \subseteq Rows /\ Cardinality(S) <= BatchSize

\* WHERE expires_at <= NOW() LIMIT batchSize.
IsExpiredBatch(S) ==
    /\ S \subseteq overdue
    /\ Cardinality(S) <= BatchSize
    /\ S = overdue \/ Cardinality(S) = BatchSize

FindExpiredJobs(c) ==
    /\ phase[c] = "finding"
    /\ \E S \in SUBSET Rows :
          /\ IsExpiredBatch(S)
          /\ todo' = [todo EXCEPT ![c] = S]
          /\ snapshot' = [snapshot EXCEPT ![c] = S \cap resultPath]
    /\ GoTo(c, "next")
    /\ UNCHANGED <<rowVars, requested, objects, produced, lock, current>>

AfterMark(c, j) == IF j \in snapshot[c] THEN GoTo(c, "object") ELSE GoTo(c, "row")

\* The UPDATE of markJobExpired; if it changes no row, a lookup follows.
MarkJobExpired(c, j) ==
    /\ phase[c] = "next"
    /\ j \in todo[c]
    /\ todo' = [todo EXCEPT ![c] = @ \ {j}]
    /\ current' = [current EXCEPT ![c] = j]
    /\ status' = [status EXCEPT ![j] = ExpiredStatus(@)]
    /\ IF status[j] \in NonTerminal \cup {"EXPIRED"} THEN AfterMark(c, j) ELSE GoTo(c, "lookup")
    /\ UNCHANGED <<resultPath, overdue, matured, requested, objects, produced, lock, snapshot>>

\* The lookup: a missing row ends the work on the job, "blocked" (a finished
\* job) does not.
LookUp(c) ==
    /\ phase[c] = "lookup"
    /\ IF status[current[c]] = Absent
       THEN NextJob(c)
       ELSE AfterMark(c, current[c]) /\ UNCHANGED <<todo, snapshot, current>>
    /\ UNCHANGED <<rowVars, requested, objects, produced, lock>>

DeleteObject(c) ==
    /\ phase[c] = "object"
    /\ objects' = objects \ {current[c]}
    /\ GoTo(c, "row")
    /\ UNCHANGED <<rowVars, requested, produced, lock, todo, snapshot, current>>

RowDeleted(j) ==
    /\ status' = [status EXCEPT ![j] = Absent]
    /\ resultPath' = resultPath \ {j}
    /\ overdue' = overdue \ {j}
    /\ matured' = matured \ {j}

DeleteJob(c) ==
    /\ phase[c] = "row"
    /\ RowDeleted(current[c])
    /\ NextJob(c)
    /\ UNCHANGED <<requested, objects, produced, lock>>

\* One call for one job rejects, before or after it took effect: the error is
\* logged and the batch goes on.
MarkJobExpiredFails(c, j) ==
    /\ phase[c] = "next"
    /\ j \in todo[c]
    /\ todo' = [todo EXCEPT ![c] = @ \ {j}]
    /\ status' = status \/ status' = [status EXCEPT ![j] = ExpiredStatus(@)]
    /\ UNCHANGED <<resultPath, overdue, matured, requested, objects, produced, lock,
                   phase, snapshot, current>>

LookUpFails(c) ==
    /\ phase[c] = "lookup"
    /\ NextJob(c)
    /\ UNCHANGED <<rowVars, requested, objects, produced, lock>>

DeleteObjectFails(c) ==
    /\ phase[c] = "object"
    /\ objects' = objects \/ objects' = objects \ {current[c]}
    /\ NextJob(c)
    /\ UNCHANGED <<rowVars, requested, produced, lock>>

DeleteJobFails(c) ==
    /\ phase[c] = "row"
    /\ RowDeleted(current[c]) \/ UNCHANGED rowVars
    /\ NextJob(c)
    /\ UNCHANGED <<requested, objects, produced, lock>>

-----------------------------------------------------------------------------
Visit(c) ==
    \/ LookUp(c) \/ DeleteObject(c) \/ DeleteJob(c)
    \/ LookUpFails(c) \/ DeleteObjectFails(c) \/ DeleteJobFails(c)
    \/ \E j \in Jobs : MarkJobExpired(c, j) \/ MarkJobExpiredFails(c, j)

Cleaner(c) == TryLock(c) \/ FindExpiredJobs(c) \/ Visit(c) \/ Unlock(c)

Environment(j) ==
    \/ Submit(j) \/ Request(j) \/ Enqueue(j) \/ PutText(j) \/ BecomeOverdue(j)
    \/ \E s \in {"PROCESSING", "COMPLETED", "FAILED"} : UpdateJobStatus(j, s)

Next ==
    \/ \E c \in Cleaners : Cleaner(c) \/ SessionEnds(c)
    \/ \E j \in Jobs : Environment(j)

Spec == Init /\ [][Next]_vars

-----------------------------------------------------------------------------
(* Properties *)

TypeOK ==
    /\ status \in [Jobs -> Status \cup {Absent}]
    /\ resultPath \subseteq Rows
    /\ overdue \subseteq matured
    /\ matured \subseteq Rows
    /\ requested \subseteq Jobs
    /\ objects \subseteq produced
    /\ produced \subseteq requested
    /\ lock \subseteq Cleaners
    /\ phase \in [Cleaners -> Phases]
    /\ todo \in [Cleaners -> SUBSET Jobs]
    /\ \A c \in Cleaners : Cardinality(todo[c]) <= BatchSize
    /\ snapshot \in [Cleaners -> SUBSET Jobs]
    /\ current \in [Cleaners -> Jobs \cup {NoJob}]
    /\ \A c \in Cleaners : current[c] = NoJob <=> phase[c] \in {"idle", "finding", "next"}

\* The cleanup keeps the promise of JobLifecycle, which the model of the
\* outbox takes for granted: whatever is updated between its statements, a
\* job is only deleted once it is finished or EXPIRED.
Lifecycle == INSTANCE JobLifecycle

LifecycleImplemented == Lifecycle!Spec

\* A job row is deleted only if that very row has been overdue: a job that is
\* deleted and submitted again is not hit by a cleaner still working from an
\* older batch.  A row that is renewed between findExpiredJobs and
\* markJobExpired has been overdue: the UPDATE does not look at expires_at
\* again, and the row is expired and deleted all the same.
NoPrematureDeletion ==
    [][\A j \in Jobs : status[j] # Absent /\ status'[j] = Absent => j \in matured]_vars

-----------------------------------------------------------------------------
(* The inductive invariant, for sessions that are not lost *)

\* Cleaners in the critical section hold the lock, and only one can.
LockHeld ==
    /\ \A c \in Cleaners : phase[c] # "idle" <=> c \in lock
    /\ \A c, d \in lock : c = d

\* A batch names rows that have been overdue, and a row on its way to
\* deletion cannot become a live job again.
BatchIsMatured ==
    \A c \in Cleaners :
        /\ phase[c] = "idle" => todo[c] = {}
        /\ todo[c] \subseteq matured \ {current[c]}
        /\ current[c] # NoJob => current[c] \in matured /\ status[current[c]] \in Terminal

\* A job past SUBMITTED, unless by expiry, was requested.
WorkWasRequested ==
    \A j \in Jobs : status[j] \in Status \ {"SUBMITTED", "EXPIRED"} => j \in requested

IInv == TypeOK /\ LockHeld /\ BatchIsMatured /\ WorkWasRequested

-----------------------------------------------------------------------------
(* What a document of the repository says, and the code does not do *)

\* apps/job-manager/README.md:13, "Delete expired jobs and associated storage
\* assets": a row with a result is not deleted before its object.
DeletedJobsLeaveNoObject ==
    [][\A j \in resultPath : status'[j] = Absent => j \notin objects]_vars
=============================================================================
