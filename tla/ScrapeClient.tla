---------------------------- MODULE ScrapeClient ----------------------------
(***************************************************************************)
(* The client of scripts/simulate-scrape-request.mjs: it submits one URL,  *)
(* or as a durability run many of them through a bounded pool, polls each  *)
(* job until it ends or its time is up, counts the outcomes and turns them *)
(* into an exit code.                                                      *)
(*                                                                         *)
(* The service is what JobLifecycle promises: jobs are processed, finish,  *)
(* expire and are deleted beside the client, and a job is known by its     *)
(* URL, so that two runs of one URL share it.  A request may fail before   *)
(* or after the service has executed it, and an answer is old by the time  *)
(* it is read.                                                             *)
(***************************************************************************)
EXTENDS Naturals, FiniteSets

CONSTANTS JobCount,     \* --jobs
          UrlCount,     \* length of --urls-file, or JobCount
          Concurrency   \* --submit-concurrency

ASSUME ClientAssumption ==
    /\ JobCount \in Nat \ {0}
    /\ UrlCount \in Nat \ {0}
    /\ Concurrency \in Nat \ {0}

Items == 0..JobCount - 1
Jobs  == 0..UrlCount - 1

VARIABLES status,     \* the job table, as JobLifecycle has it
          requested,
          stress,     \* runStressScenario, or runSingleScenario
          stage,      \* where the work on each item is
          answer,     \* the status in the answer on its way
          late,       \* items whose timeoutMs are over
          metrics,
          exitCode,   \* of the process: 0 is "success", 1 "failure"
          seen        \* items whose job was COMPLETED at some moment since it
                      \* was acknowledged (history)

serviceVars == <<status, requested>>
vars == <<serviceVars, stress, stage, answer, late, metrics, exitCode, seen>>

Service == INSTANCE JobLifecycle

\* urls[jobIndex % urls.length]; a job is identified by its URL.
JobOf(i) == i % UrlCount

Outcomes == {"completed", "failed", "timedOut", "submitError"}

Waiting == {"submitting", "submitted", "polling", "answered", "testing", "resolving"}

Todo    == {i \in Items : stage[i] = "todo"}
Active  == {i \in Items : stage[i] \in Waiting}
Settled == {i \in Items : stage[i] \in Outcomes}

NoMetrics == [acceptedJobs |-> 0, completedRuns |-> 0, completedJobs |-> 0,
              failedJobs |-> 0, timedOutJobs |-> 0, submitErrors |-> 0,
              failures |-> 0]

\* A single run has one item and keeps no metrics.
Init == /\ Service!Init
        /\ stress \in BOOLEAN
        /\ stage = [i \in Items |-> IF stress \/ i = 0 THEN "todo" ELSE "unused"]
        /\ answer = [i \in Items |-> "absent"]
        /\ late = {}
        /\ metrics = NoMetrics
        /\ exitCode = "running"
        /\ seen = {}

Running == exitCode = "running"

\* What the client has been able to see, after every step.
Observes ==
    seen' = seen \cup {i \in Items : /\ stage'[i] \in {"polling", "answered", "testing"}
                                     /\ status'[JobOf(i)] = "COMPLETED"}

-----------------------------------------------------------------------------
(* The service, and everyone else who uses it *)

ServiceStep ==
    /\ Running
    /\ Service!Next
    /\ UNCHANGED <<stress, stage, answer, late, metrics, exitCode>>

-----------------------------------------------------------------------------
(* Outcomes of an item *)

Goes(i, s) == stage' = [stage EXCEPT ![i] = s]

Inc(count, holds) == IF holds THEN count + 1 ELSE count

\* Mutant: a COMPLETED job runs into the lines for a FAILED one.
CountedTwice(outcome) ==
    LET over == outcome \in {"completed", "failed"}
    IN  [metrics EXCEPT !.completedRuns = Inc(@, over),
                        !.completedJobs = Inc(@, outcome = "completed"),
                        !.failedJobs    = Inc(@, over),
                        !.timedOutJobs  = Inc(@, outcome = "timedOut"),
                        !.submitErrors  = Inc(@, outcome = "submitError"),
                        !.failures      = Inc(@, TRUE)]

\* executeStressJob counts an item when it is over.
Counted(outcome) ==
    [acceptedJobs  |-> metrics.acceptedJobs,
     completedRuns |-> Inc(metrics.completedRuns, outcome \in {"completed", "failed"}),
     completedJobs |-> Inc(metrics.completedJobs, outcome = "completed"),
     failedJobs    |-> Inc(metrics.failedJobs, outcome = "failed"),
     timedOutJobs  |-> Inc(metrics.timedOutJobs, outcome = "timedOut"),
     submitErrors  |-> Inc(metrics.submitErrors, outcome = "submitError"),
     failures      |-> Inc(metrics.failures, outcome # "completed")]

\* In a single run every outcome but COMPLETED is an error of main().
Ends(i, outcome) ==
    /\ late' = late \ {i}
    /\ IF stress
         THEN /\ Goes(i, outcome)
              /\ metrics' = Counted(outcome)
              /\ UNCHANGED exitCode
         ELSE /\ Goes(i, IF outcome = "completed" THEN "resolving" ELSE outcome)
              /\ exitCode' = IF outcome = "completed" THEN exitCode ELSE "failure"
              /\ UNCHANGED metrics

Continues(i, s) == Goes(i, s) /\ UNCHANGED <<late, metrics, exitCode>>

\* Mutant: waitForCompletion has no deadline.
PollsOn(i) == Continues(i, "polling")

\* while (Date.now() - startedAt <= timeoutMs)
PollsOrGivesUp(i) == IF i \in late THEN Ends(i, "timedOut") ELSE Continues(i, "polling")

-----------------------------------------------------------------------------
(* runPool, and the single run *)

\* Mutant: the pool waits one item too late.
HasRoomForOneMore == Cardinality(Active) <= Concurrency

\* runPool waits for one of its tasks when Concurrency are active.
HasRoom == Cardinality(Active) < Concurrency

\* The next item.  In a durability run urlFactory may throw, for a URL of the
\* file that new URL() rejects, outside of the try block: the pool's task is
\* rejected, and so is the promise of its finally(), which nobody handles.
Start(i) ==
    /\ Running
    /\ i \in Todo /\ \A k \in Todo : i <= k
    /\ HasRoom
    /\ \/ Goes(i, "submitting") /\ UNCHANGED exitCode
       \/ stress /\ exitCode' = "failure" /\ UNCHANGED stage
    /\ UNCHANGED <<serviceVars, stress, answer, late, metrics>>

\* POST /scrape is executed: createJobSubmissionIfNotExists.
SubmitExecutes(i) ==
    /\ Running /\ stage[i] = "submitting"
    /\ Goes(i, "submitted")
    /\ \/ Service!Submit(JobOf(i))
       \/ status[JobOf(i)] # "absent" /\ UNCHANGED serviceVars
    /\ UNCHANGED <<stress, answer, late, metrics, exitCode>>

\* The acknowledgement arrives.
Accepted(i) ==
    /\ Running /\ stage[i] = "submitted"
    /\ Goes(i, "testing")
    /\ metrics' = IF stress THEN [metrics EXCEPT !.acceptedJobs = @ + 1] ELSE metrics
    /\ UNCHANGED <<serviceVars, stress, answer, late, exitCode>>

\* fetch rejects, or readJsonResponse throws: an answer that is not ok, or
\* not JSON, of a POST or of a poll.
RequestFails(i) ==
    /\ Running /\ stage[i] \in {"submitting", "submitted", "polling", "answered"}
    /\ Ends(i, "submitError")
    /\ answer' = [answer EXCEPT ![i] = "absent"]
    /\ UNCHANGED <<serviceVars, stress>>

\* GET /scrape/:jobId/status is executed ...
Polled(i) ==
    /\ Running /\ stage[i] = "polling"
    /\ Goes(i, "answered")
    /\ answer' = [answer EXCEPT ![i] = status[JobOf(i)]]
    /\ UNCHANGED <<serviceVars, stress, late, metrics, exitCode>>

\* ... and answered.  EXPIRED is not an end: the client polls on, and finds a
\* 404 when the job has been deleted.
Answered(i) ==
    /\ Running /\ stage[i] = "answered"
    /\ CASE answer[i] = "absent"    -> Ends(i, "submitError")
         [] answer[i] = "COMPLETED" -> Ends(i, "completed")
         [] answer[i] = "FAILED"    -> Ends(i, "failed")
         [] OTHER                   -> Continues(i, "testing")
    /\ answer' = [answer EXCEPT ![i] = "absent"]
    /\ UNCHANGED <<serviceVars, stress>>

\* After the acknowledgement, and after each delay.
TestsDeadline(i) ==
    /\ Running /\ stage[i] = "testing"
    /\ PollsOrGivesUp(i)
    /\ UNCHANGED <<serviceVars, stress, answer>>

TimeIsUp(i) ==
    /\ Running /\ i \in Active \ late
    /\ late' = late \cup {i}
    /\ UNCHANGED <<serviceVars, stress, stage, answer, metrics, exitCode>>

\* The single run asks for the result's URL, which the gateway gives out for
\* a COMPLETED job only, and opens it in a browser.
Resolves(i) ==
    /\ Running /\ stage[i] = "resolving"
    /\ Goes(i, "completed")
    /\ exitCode' \in IF status[JobOf(i)] = "COMPLETED" THEN {"success", "failure"}
                                                   ELSE {"failure"}
    /\ UNCHANGED <<serviceVars, stress, answer, late, metrics>>

\* Mutant: jobs whose time is up are only printed.
FailureCountOfJobs == metrics.failedJobs + metrics.submitErrors

\* What buildStressSummary leaves of the metrics to decide the exit code.
FailureCount == metrics.failedJobs + metrics.timedOutJobs + metrics.submitErrors

\* The pool is empty: Promise.all(activeWorkers).
StressEnds ==
    /\ Running /\ stress
    /\ Settled = Items
    /\ exitCode' = IF FailureCount > 0 THEN "failure" ELSE "success"
    /\ UNCHANGED <<serviceVars, stress, stage, answer, late, metrics>>

-----------------------------------------------------------------------------

ItemStep(i) ==
    \/ Start(i)
    \/ SubmitExecutes(i) \/ Accepted(i)
    \/ Polled(i) \/ Answered(i)
    \/ TestsDeadline(i)
    \/ Resolves(i)

ClientStep == StressEnds \/ \E i \in Items : ItemStep(i) \/ RequestFails(i) \/ TimeIsUp(i)

\* The process has ended.
Exited == ~Running /\ UNCHANGED vars

Next == ((ServiceStep \/ ClientStep) /\ Observes) \/ Exited

Spec == Init /\ [][Next]_vars

\* Requests are answered or fail (fetch has timeouts of its own), timers fire
\* and time passes.  Nothing is assumed of the jobs.
Fairness ==
    /\ \A i \in Items : /\ WF_vars((ItemStep(i) \/ RequestFails(i)) /\ Observes)
                        /\ WF_vars(TimeIsUp(i) /\ Observes)
    /\ WF_vars(StressEnds /\ Observes)

FairSpec == Spec /\ Fairness

-----------------------------------------------------------------------------
(* Properties *)

Statuses == {"absent", "SUBMITTED", "ENQUEUED", "PROCESSING", "COMPLETED",
             "FAILED", "EXPIRED"}

\* Every variable has its type, and runPool never has more than
\* submitConcurrency items under way.
TypeOK ==
    /\ status \in [Jobs -> Statuses]
    /\ requested \subseteq Jobs
    /\ stress \in BOOLEAN
    /\ stage \in [Items -> Waiting \cup Outcomes \cup {"todo", "unused"}]
    /\ answer \in [Items -> Statuses]
    /\ late \subseteq Items
    /\ metrics \in [DOMAIN NoMetrics -> 0..JobCount]
    /\ exitCode \in {"running", "success", "failure"}
    /\ seen \subseteq Items
    /\ Cardinality(Active) <= Concurrency

Counts(outcome) == Cardinality({i \in Items : stage[i] = outcome})

\* The summary of a durability run accounts for every job once, whatever the
\* order of the answers: what is counted is what happened, an item that was
\* answered or timed out had been accepted, and none is lost or both ways.
CountsAddUp == stress =>
    /\ metrics.completedJobs = Counts("completed")
    /\ metrics.failedJobs = Counts("failed")
    /\ metrics.timedOutJobs = Counts("timedOut")
    /\ metrics.submitErrors = Counts("submitError")
    /\ metrics.completedRuns = metrics.completedJobs + metrics.failedJobs
    /\ metrics.failures = FailureCount
    /\ metrics.acceptedJobs >= metrics.completedRuns + metrics.timedOutJobs
    /\ metrics.acceptedJobs + metrics.submitErrors >= Cardinality(Settled)
    /\ metrics.acceptedJobs + Cardinality(Todo) <= JobCount

\* README.md:240, "The runner exits non-zero if submissions fail, jobs time out,
\* or the scrape pipeline returns failed jobs."  When it exits with 0, each
\* job of the run, shared ones too, was COMPLETED at some moment after it had
\* been acknowledged, though it may have been deleted since.
ZeroMeansCompleted ==
    exitCode = "success" => \A i \in Items : stage[i] # "unused" => i \in seen

\* The client comes to an end, also for a job that hangs, expires or is
\* deleted.
RunEnds == <>(exitCode # "running")
-----------------------------------------------------------------------------
(* The inductive invariant *)

\* Which items there are: all of them in a durability run, which asks for no
\* URL of a result; the first one in a single run, which counts nothing.
Places ==
    IF stress THEN \A i \in Items : stage[i] \notin {"unused", "resolving"}
              ELSE metrics = NoMetrics /\ \A i \in Items \ {0} : stage[i] = "unused"

InWork == {i \in Items : stage[i] \in {"testing", "polling", "answered"}}

\* The books of a durability run after every step.  An item that ended with
\* an error may have been acknowledged before or not.
Tally == stress =>
    /\ Cardinality(Todo) + Cardinality(Active) + Cardinality(Settled) = JobCount
    /\ Cardinality(Settled) =
          Counts("completed") + Counts("failed") + Counts("timedOut") + Counts("submitError")
    /\ metrics.completedJobs = Counts("completed")
    /\ metrics.failedJobs = Counts("failed")
    /\ metrics.timedOutJobs = Counts("timedOut")
    /\ metrics.submitErrors = Counts("submitError")
    /\ metrics.completedRuns = metrics.completedJobs + metrics.failedJobs
    /\ metrics.failures = FailureCount
    /\ LET acknowledged == Cardinality(InWork) + metrics.completedRuns + metrics.timedOutJobs
       IN  /\ acknowledged <= metrics.acceptedJobs
           /\ metrics.acceptedJobs <= acknowledged + metrics.submitErrors

\* Whoever believes a job COMPLETED has seen it so.
Evidence == \A i \in Items :
    stage[i] \in {"resolving", "completed"} \/ (stage[i] = "answered" /\ answer[i] = "COMPLETED")
      => i \in seen

ExitIsEarned ==
    exitCode = "success" => \A i \in Items : stage[i] \in {"completed", "unused"}

IInv == TypeOK /\ Places /\ Tally /\ Evidence /\ ExitIsEarned

=============================================================================
