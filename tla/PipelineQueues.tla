--------------------------- MODULE PipelineQueues ---------------------------
(***************************************************************************)
(* ScrapePipeline has its two queues as their ends see them.  Here they    *)
(* are held to what RabbitMqMessageQueue promises: histories count what    *)
(* the handlers have made of each message, and with them both queues       *)
(* implement AtLeastOnceQueue, as MessageQueue does in detail.             *)
(***************************************************************************)
EXTENDS ScrapePipeline

VARIABLES handled,        \* jobs whose message a handler has returned for
          failedRuns,     \* runs of a job's message that threw, up to MaxAttempts
          applied,        \* reports that updateJobStatus has returned for
          failedUpdates   \* runs of a report that threw, up to StatusAttempts

jobHistory    == <<handled, failedRuns>>
reportHistory == <<applied, failedUpdates>>
watchedVars   == <<vars, jobHistory, reportHistory>>

AllReports == Jobs \X Reports

\* The messages that are accepted and not settled.  Copies of a report, one
\* sent again and one retried, are one message.
InJobQueue ==
    {j \in Jobs : message[j] # None \/ \E n \in 0..(MaxAttempts - 1) : <<j, n>> \in retries}

ReportOf(u) == <<u.job, u.to>>

InStatusQueue == {ReportOf(u) : u \in updates}

WatchedInit ==
    /\ Init
    /\ handled = {}
    /\ failedRuns = [j \in Jobs |-> 0]
    /\ applied = {}
    /\ failedUpdates = [r \in AllReports |-> 0]

-----------------------------------------------------------------------------
(* The histories: each says of any step what it has been, and forbids none *)

\* A message is new to the queue, or merged with the one that is there.
JobAccepted(j) ==
    \/ j \in InJobQueue /\ UNCHANGED jobHistory
    \/ /\ j \notin InJobQueue
       /\ handled' = handled \ {j}
       /\ failedRuns' = [failedRuns EXCEPT ![j] = 0]

\* processJob resolved and the message was acknowledged.
HandlerReturned(w) == pc[w] = "completing" /\ Sent(w, "COMPLETED") /\ Returns(w)

\* The run of a handler ends; one whose frames are lost counts as one that
\* threw, since a retry may be left of it.
RunJudged(w) ==
    \/ /\ pc'[w] # "idle" \/ job[w] \notin InJobQueue
       /\ UNCHANGED jobHistory
    \/ /\ pc'[w] = "idle" /\ job[w] \in InJobQueue
       /\ IF HandlerReturned(w)
            THEN handled' = handled \cup {job[w]} /\ UNCHANGED failedRuns
            ELSE /\ failedRuns' = [failedRuns EXCEPT ![job[w]] =
                                     IF @ < MaxAttempts THEN @ + 1 ELSE @]
                 /\ UNCHANGED handled

ReportsAccepted ==
    LET new == InStatusQueue' \ InStatusQueue
    IN  /\ applied' = applied \ new
        /\ failedUpdates' = [r \in AllReports |-> IF r \in new THEN 0 ELSE failedUpdates[r]]

UpdateReturned(u) == applied' = applied \cup {ReportOf(u)} /\ UNCHANGED failedUpdates

UpdateThrew(u) ==
    /\ failedUpdates' = [failedUpdates EXCEPT ![ReportOf(u)] =
                           IF @ < StatusAttempts THEN @ + 1 ELSE @]
    /\ UNCHANGED applied

\* What concerns no queue, or changes what is in none.
Elsewhere ==
    \/ \E j \in Jobs : Submit(j) \/ UpdateElsewhere(j)
    \/ \E w \in Workers, j \in Jobs : Deliver(w, j)
    \/ \E j \in Jobs, n \in 0..(MaxAttempts - 1) : RetryExpires(j, n)
    \/ \E w \in Workers : ConnectionLost(w) \/ Crash(w)
    \/ Settled

WatchedNext ==
    \/ \E j \in Jobs : Publish(j) /\ JobAccepted(j) /\ UNCHANGED reportHistory
    \/ \E w \in Workers : Handle(w) /\ RunJudged(w) /\ ReportsAccepted
    \/ \E u \in updates : /\ \/ ApplyUpdate(u) /\ UpdateReturned(u)
                             \/ UpdateFails(u) /\ UpdateThrew(u)
                          /\ UNCHANGED jobHistory
    \/ Elsewhere /\ UNCHANGED <<jobHistory, reportHistory>>

WatchedSpec == WatchedInit /\ [][WatchedNext]_watchedVars

-----------------------------------------------------------------------------
(* Properties *)

JobQueue == INSTANCE AtLeastOnceQueue
                WITH Messages <- Jobs, pending <- InJobQueue,
                     done <- handled, failures <- failedRuns

StatusQueue == INSTANCE AtLeastOnceQueue
                   WITH Messages <- AllReports, MaxAttempts <- StatusAttempts,
                        pending <- InStatusQueue, done <- applied,
                        failures <- failedUpdates, deadLetters <- {}

\* The queues between the services are the at-least-once queues they are
\* written for: the message of a job or a report leaves its queue only after a
\* handler has returned for it or thrown at its every attempt, also while
\* handlers that lost their channel, crashes, lost acknowledgements and
\* repeated publishes interfere; and only exhausted jobs are dead-lettered.
QueuesKeepPromise == JobQueue!Spec /\ StatusQueue!Spec

-----------------------------------------------------------------------------
(* The inductive invariant *)

\* A message has been through as many failed runs as it counts, and a handler
\* counts what its message does for as long as it holds it.
RunsAreEarned ==
    /\ \A j \in Jobs : message[j] # None => message[j] <= failedRuns[j]
    /\ \A r \in retries : r[2] <= failedRuns[r[1]]
    /\ \A w \in Workers : Holds(w) => attempt[w] = message[job[w]]

UpdatesAreEarned == \A u \in updates : u.made <= failedUpdates[ReportOf(u)]

HistoriesOK ==
    /\ handled \subseteq Jobs
    /\ failedRuns \in [Jobs -> 0..MaxAttempts]
    /\ applied \subseteq AllReports
    /\ failedUpdates \in [AllReports -> 0..StatusAttempts]

WInv == IInv /\ HistoriesOK /\ RunsAreEarned /\ UpdatesAreEarned
=============================================================================
