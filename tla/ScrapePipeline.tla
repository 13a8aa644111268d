--------------------------- MODULE ScrapePipeline ---------------------------
(***************************************************************************)
(* From the scrape message of a job to its outcome in the job table: the   *)
(* handler of ScrapeWorkerService reports PROCESSING, fetches, stores the  *)
(* HTML and reports COMPLETED, or FAILED after its last attempt, over a    *)
(* second queue whose consumer, ScrapeJobStatusUpdatesService, updates the *)
(* row.                                                                    *)
(*                                                                         *)
(* The queues do what MessageQueue is shown to do, seen from their ends: a *)
(* job has at most one message in the deduplicated job queue beside the    *)
(* retries that wait; a message whose channel is lost is delivered again   *)
(* while its handler runs on.  A frame the consumer sends is read at once  *)
(* or lost with the channel.                                               *)
(*                                                                         *)
(* Jobs are within their retention: markJobExpired may come, deleteJob is  *)
(* left to ExpiredJobsCleanup.                                             *)
(***************************************************************************)
EXTENDS JobStatus, Naturals, FiniteSets

CONSTANTS Jobs,
          Workers,         \* handlers that can run at once, of all scrapers
          None,            \* no message; no worker; no job
          MaxAttempts,     \* maxAttempts of a job message
          StatusAttempts,  \* maxAttempts of a status message
          MaxPublishes     \* bound: how often the outbox publishes a job

ASSUME PipelineAssumption ==
    /\ None \notin Workers \cup Jobs \cup Nat
    /\ MaxAttempts \in Nat \ {0}
    /\ StatusAttempts \in Nat \ {0}
    /\ MaxPublishes \in Nat

VARIABLES status,       \* jobs table: Jobs -> Status or Absent
          published,    \* how often the message of a job was published
          message,      \* attemptsMade of the message in the queue, or None
          holder,       \* the worker it is delivered to, or None
          retries,      \* waiting retries: <<job, attemptsMade>>
          deadLetters,  \* jobs whose message was dead-lettered
          pc,           \* where each handler is
          job,          \* the job it handles
          attempt,      \* attemptsMade of the message it was given
          objects,      \* jobs whose result is in the bucket
          updates,      \* status messages: [job, to, made]
          dropped       \* jobs an outcome of which was given up on (history)

queueVars   == <<published, message, holder, retries, deadLetters>>
handlerVars == <<pc, job, attempt>>
vars == <<status, queueVars, handlerVars, objects, updates, dropped>>

Stages == {"idle", "announcing", "fetching", "storing", "completing", "failing"}

Reports  == {"PROCESSING", "COMPLETED", "FAILED"}
Outcomes == {"COMPLETED", "FAILED"}

Init == /\ status = [j \in Jobs |-> Absent]
        /\ published = [j \in Jobs |-> 0]
        /\ message = [j \in Jobs |-> None]
        /\ holder = [j \in Jobs |-> None]
        /\ retries = {}
        /\ deadLetters = {}
        /\ pc = [w \in Workers |-> "idle"]
        /\ job = [w \in Workers |-> None]
        /\ attempt = [w \in Workers |-> 0]
        /\ objects = {}
        /\ updates = {}
        /\ dropped = {}

Requested == {j \in Jobs : published[j] > 0}

-----------------------------------------------------------------------------
(* The submission side: SubmissionOutbox in detail *)

Submit(j) ==
    /\ status[j] = Absent
    /\ status' = [status EXCEPT ![j] = "SUBMITTED"]
    /\ UNCHANGED <<queueVars, handlerVars, objects, updates, dropped>>

\* The dispatcher publishes, again if it could not mark the row; a message
\* that is still in the queue takes the place of the new one.
Publish(j) ==
    /\ status[j] # Absent
    /\ published[j] < MaxPublishes
    /\ published' = [published EXCEPT ![j] = @ + 1]
    /\ message' = [message EXCEPT ![j] = IF @ = None THEN 0 ELSE @]
    /\ UNCHANGED <<status, holder, retries, deadLetters, handlerVars, objects, updates, dropped>>

\* ... and then marks the row; the cleanup expires it.
UpdateElsewhere(j) ==
    /\ \/ j \in Requested /\ status' = [status EXCEPT ![j] = EnqueuedStatus(@)]
       \/ status' = [status EXCEPT ![j] = ExpiredStatus(@)]
    /\ status' # status
    /\ UNCHANGED <<queueVars, handlerVars, objects, updates, dropped>>

-----------------------------------------------------------------------------
(* The job queue *)

\* A message with another name than jobPattern is ignored and acknowledged.
\* Nobody publishes one here, nor to the status queue, so that branch of the
\* two handlers is left out.
Deliver(w, j) ==
    /\ pc[w] = "idle"
    /\ message[j] # None
    /\ holder[j] = None
    /\ holder' = [holder EXCEPT ![j] = w]
    /\ pc' = [pc EXCEPT ![w] = "announcing"]
    /\ job' = [job EXCEPT ![w] = j]
    /\ attempt' = [attempt EXCEPT ![w] = message[j]]
    /\ UNCHANGED <<status, published, message, retries, deadLetters, objects, updates, dropped>>

\* A retry returns, unless the message of the job is in the queue again.
RetryExpires(j, n) ==
    /\ <<j, n>> \in retries
    /\ retries' = retries \ {<<j, n>>}
    /\ message' = [message EXCEPT ![j] = IF @ = None THEN n ELSE @]
    /\ UNCHANGED <<status, published, holder, deadLetters, handlerVars, objects, updates, dropped>>

Holds(w) == job[w] # None /\ holder[job[w]] = w

\* The message of w leaves its hands: gone from the queue or back in it.
Leaves(w) ==
    /\ message' = [message EXCEPT ![job[w]] = None]
    /\ holder' = [holder EXCEPT ![job[w]] = None]

GoesBack(w) ==
    /\ holder' = [holder EXCEPT ![job[w]] = None]
    /\ UNCHANGED message

Idle(w) == /\ pc' = [pc EXCEPT ![w] = "idle"]
           /\ job' = [job EXCEPT ![w] = None]
           /\ attempt' = [attempt EXCEPT ![w] = 0]

\* The channel of w closes, w runs on: a lost connection, or closeWorker.
ConnectionLost(w) ==
    /\ Holds(w)
    /\ GoesBack(w)
    /\ UNCHANGED <<status, published, retries, deadLetters, handlerVars, objects, updates, dropped>>

\* The process of w dies.
Crash(w) ==
    /\ pc[w] # "idle"
    /\ Idle(w)
    /\ IF Holds(w) THEN GoesBack(w) ELSE UNCHANGED <<message, holder>>
    /\ UNCHANGED <<status, published, retries, deadLetters, objects, updates, dropped>>

-----------------------------------------------------------------------------
(* handleMessage, after the handler; a handler that has lost its channel no *)
(* longer touches the queue.                                               *)

\* The handler returned: ack.
Returns(w) ==
    /\ Idle(w)
    /\ IF Holds(w) THEN Leaves(w) ELSE UNCHANGED <<message, holder>>
    /\ UNCHANGED <<retries, deadLetters>>

IsLast(w) == attempt[w] + 1 >= MaxAttempts

\* Mutant of the next definition: a retry does not count the attempt.
SameAttempt(w) == attempt[w]

NextAttempt(w) == attempt[w] + 1

\* Mutant of the next definition: an exhausted message is always acknowledged.
NeverDeadLettered(deadLetter, j) == {}

DeadLettered(deadLetter, j) == IF deadLetter THEN {j} ELSE {}

\* The handler threw; deadLetter is deadLetterOnExhaustion of the error.
Throws(w, deadLetter) ==
    /\ Idle(w)
    /\ \/ ~Holds(w) /\ UNCHANGED <<message, holder, retries, deadLetters>>
       \/ /\ Holds(w) /\ IsLast(w)
          /\ Leaves(w)
          /\ deadLetters' = deadLetters \cup DeadLettered(deadLetter, job[w])
          /\ UNCHANGED retries
       \/ /\ Holds(w) /\ ~IsLast(w)
          /\ Leaves(w)
          /\ retries' = retries \cup {<<job[w], NextAttempt(w)>>}
          /\ UNCHANGED deadLetters

\* The last frames are lost with the channel, or publishRetry throws: the
\* message stays, and a retry may have been accepted beside it.
LosesFrames(w) ==
    /\ Holds(w)
    /\ Idle(w)
    /\ GoesBack(w)
    /\ \/ UNCHANGED retries
       \/ ~IsLast(w) /\ retries' = retries \cup {<<job[w], NextAttempt(w)>>}
    /\ UNCHANGED deadLetters

GoOn(w, stage) == /\ pc' = [pc EXCEPT ![w] = stage]
                  /\ UNCHANGED <<job, attempt, message, holder, retries, deadLetters>>

-----------------------------------------------------------------------------
(* The handler of ScrapeWorkerService *)

Update(w, s) == [job |-> job[w], to |-> s, made |-> 0]

\* publishStatusUpdate: confirmed ...
Sent(w, s) == updates' = updates \cup {Update(w, s)}

\* ... or rejected, maybe after the broker had accepted the message.
SendRejected(w, s) == Sent(w, s) \/ UNCHANGED updates

Announce(w) ==
    /\ pc[w] = "announcing"
    /\ \/ Sent(w, "PROCESSING") /\ GoOn(w, "fetching")
       \/ SendRejected(w, "PROCESSING") /\ (Throws(w, TRUE) \/ LosesFrames(w))
    /\ UNCHANGED <<status, published, objects, dropped>>

\* The catch block for an error of fetchHtml or putText.
Failed(w) ==
    \/ IsLast(w) /\ GoOn(w, "failing")
    \/ ~IsLast(w) /\ (Throws(w, FALSE) \/ LosesFrames(w))

\* fetchHtml, ScrapeEngine in detail.
Fetch(w) ==
    /\ pc[w] = "fetching"
    /\ GoOn(w, "storing") \/ Failed(w)
    /\ UNCHANGED <<status, published, objects, updates, dropped>>

\* Mutant of the next definition: a rejected putText is not waited for.
PutTextUnawaited(w) ==
    /\ pc[w] = "storing"
    /\ objects' = objects \cup {job[w]} \/ UNCHANGED objects
    /\ GoOn(w, "completing")
    /\ UNCHANGED <<status, published, updates, dropped>>

\* putText; it may reject after the object was stored.
PutText(w) ==
    /\ pc[w] = "storing"
    /\ \/ objects' = objects \cup {job[w]} /\ GoOn(w, "completing")
       \/ (objects' = objects \cup {job[w]} \/ UNCHANGED objects) /\ Failed(w)
    /\ UNCHANGED <<status, published, updates, dropped>>

Complete(w) ==
    /\ pc[w] = "completing"
    /\ \/ Sent(w, "COMPLETED") /\ (Returns(w) \/ LosesFrames(w))
       \/ SendRejected(w, "COMPLETED") /\ (Throws(w, TRUE) \/ LosesFrames(w))
    /\ UNCHANGED <<status, published, objects, dropped>>

Fail(w) ==
    /\ pc[w] = "failing"
    /\ \/ Sent(w, "FAILED") /\ (Throws(w, FALSE) \/ LosesFrames(w))
       \/ SendRejected(w, "FAILED") /\ (Throws(w, TRUE) \/ LosesFrames(w))
    /\ UNCHANGED <<status, published, objects, dropped>>

Handle(w) == Announce(w) \/ Fetch(w) \/ PutText(w) \/ Complete(w) \/ Fail(w)

\* A run of w ends and what it sends to the queue arrives.
RunEnds(w) == Handle(w) /\ pc'[w] = "idle" /\ (Holds(w) => message'[job[w]] = None)

-----------------------------------------------------------------------------
(* The handler of ScrapeJobStatusUpdatesService and its queue *)

\* Mutant of the next definition: the row takes whatever is reported.
ApplyUnguarded(u) ==
    /\ u \in updates
    /\ status' = [status EXCEPT ![u.job] = u.to]
    /\ updates' \in {updates, updates \ {u}}
    /\ <<status, updates>>' # <<status, updates>>
    /\ UNCHANGED <<queueVars, handlerVars, objects, dropped>>

\* updateJobStatus; a missing row and a blocked update are no errors.  The ack
\* may be lost with the channel.
ApplyUpdate(u) ==
    /\ u \in updates
    /\ status' = [status EXCEPT ![u.job] = UpdatedStatus(@, u.to)]
    /\ updates' \in {updates, updates \ {u}}
    /\ <<status, updates>>' # <<status, updates>>
    /\ UNCHANGED <<queueVars, handlerVars, objects, dropped>>

\* Mutant of the next definition: one attempt too many.
IsPastLastUpdate(u) == u.made >= StatusAttempts

IsLastUpdate(u) == u.made + 1 >= StatusAttempts

\* updateJobStatus rejects, maybe after it took effect.  Its errors have no
\* deadLetterOnExhaustion, so the last attempt drops the message.
UpdateFails(u) ==
    /\ u \in updates
    /\ status' \in {status, [status EXCEPT ![u.job] = UpdatedStatus(@, u.to)]}
    /\ IF IsLastUpdate(u)
       THEN /\ updates' = updates \ {u}
            /\ dropped' = IF u.to \in Outcomes THEN dropped \cup {u.job} ELSE dropped
       ELSE /\ \/ updates' = (updates \ {u}) \cup {[u EXCEPT !.made = @ + 1]}
               \/ updates' = updates \cup {[u EXCEPT !.made = @ + 1]}
            /\ UNCHANGED dropped
    /\ UNCHANGED <<queueVars, handlerVars, objects>>

-----------------------------------------------------------------------------
\* Nothing is under way and, by the bound, nothing more is published.
Settled ==
    /\ \A j \in Jobs : published[j] = MaxPublishes /\ message[j] = None
    /\ \A w \in Workers : pc[w] = "idle"
    /\ retries = {} /\ updates = {}
    /\ UNCHANGED vars

Next ==
    \/ \E j \in Jobs : Submit(j) \/ Publish(j) \/ UpdateElsewhere(j)
    \/ \E w \in Workers, j \in Jobs : Deliver(w, j)
    \/ \E j \in Jobs, n \in 0..(MaxAttempts - 1) : RetryExpires(j, n)
    \/ \E w \in Workers : Handle(w) \/ ConnectionLost(w) \/ Crash(w)
    \/ \E u \in updates : ApplyUpdate(u) \/ UpdateFails(u)
    \/ Settled

Spec == Init /\ [][Next]_vars

\* The reports a consumer may meet, its attempts counted.
AllUpdates == [job : Jobs, to : Reports, made : 0..(StatusAttempts - 1)]

(***************************************************************************)
(* Fairness: the broker delivers and expires retries, handlers run on      *)
(* (fetchHtml ends, see ScrapeEngine) and status messages are consumed,    *)
(* one way or another.  Channels and processes are lost and acks of        *)
(* updates with them only finitely often, and of infinitely many frames    *)
(* that end a run of a handler some arrive.  Nothing is assumed of the     *)
(* outcome of a fetch, a putText, a publish or an updateJobStatus.         *)
(***************************************************************************)
Fairness ==
    /\ \A j \in Jobs : WF_vars(\E w \in Workers : Deliver(w, j))
    /\ \A j \in Jobs : WF_vars(\E n \in 0..(MaxAttempts - 1) : RetryExpires(j, n))
    /\ \A w \in Workers : WF_vars(Handle(w)) /\ SF_vars(RunEnds(w))
    /\ \A u \in AllUpdates : WF_vars(ApplyUpdate(u) \/ UpdateFails(u))
    /\ <>[][\A w \in Workers : ConnectionLost(w) \/ Crash(w) => Handle(w)]_vars
    /\ <>[][\A u \in updates : ApplyUpdate(u) \/ UpdateFails(u) => u \notin updates']_vars

FairSpec == Spec /\ Fairness

-----------------------------------------------------------------------------
(* Properties *)

TypeOK ==
    /\ status \in [Jobs -> Status \cup {Absent}]
    /\ published \in [Jobs -> 0..MaxPublishes]
    /\ message \in [Jobs -> 0..(MaxAttempts - 1) \cup {None}]
    /\ holder \in [Jobs -> Workers \cup {None}]
    /\ retries \subseteq Jobs \X (0..(MaxAttempts - 1))
    /\ deadLetters \subseteq Jobs
    /\ pc \in [Workers -> Stages]
    /\ job \in [Workers -> Jobs \cup {None}]
    /\ attempt \in [Workers -> 0..(MaxAttempts - 1)]
    /\ objects \subseteq Jobs
    /\ updates \subseteq AllUpdates
    /\ dropped \subseteq Jobs

\* A job is COMPLETED only with its result in the bucket, whatever handlers
\* of the same job, one of them without its channel, crashes and repeated
\* reports do.
ResultIsStored == \A j \in Jobs : status[j] = "COMPLETED" => j \in objects

\* What can still bring a job to its end, or is left as a trace of its loss.
UnderWay(j) ==
    \/ message[j] # None
    \/ \E n \in 0..(MaxAttempts - 1) : <<j, n>> \in retries
    \/ \E u \in updates : u.job = j /\ u.to \in Outcomes

Over(j) == status[j] \in Terminal \/ j \in deadLetters \/ j \in dropped

\* A published job does not vanish: when its message has left the job queue,
\* an outcome is in its row or on the way, or a dead letter or an exhausted
\* status message accounts for it.
NoSilentLoss == \A j \in Requested : UnderWay(j) \/ Over(j)

\* The reports of all handlers, out of order, repeated and late, keep the row
\* on its lifecycle.
Lifecycle == INSTANCE JobLifecycle WITH requested <- Requested

LifecycleImplemented == Lifecycle!Spec

\* Every published job gets an outcome, unless a message is given up on.
JobsEnd == \A j \in Jobs : j \in Requested ~> Over(j)

-----------------------------------------------------------------------------
(* The inductive invariant *)

\* A worker is busy with one job, and the message it holds is of that job.
HandlersHold ==
    /\ \A w \in Workers : pc[w] = "idle" <=> job[w] = None
    /\ \A j \in Jobs : holder[j] # None => message[j] # None /\ job[holder[j]] = j

\* Whoever works or reports on a job works on one that was published, and
\* reports COMPLETED after the result was stored.
ReportsAreTrue ==
    /\ \A w \in Workers : /\ job[w] # None => job[w] \in Requested
                          /\ pc[w] = "completing" => job[w] \in objects
                          /\ pc[w] = "failing" => IsLast(w)
    /\ \A j \in Jobs : message[j] # None => j \in Requested
    /\ \A r \in retries : r[1] \in Requested
    /\ \A u \in updates : /\ u.job \in Requested
                          /\ u.to = "COMPLETED" => u.job \in objects

\* A published job has a row, and only a published one gets past SUBMITTED
\* other than by expiry.
RowsAreRequested ==
    /\ \A j \in Requested : status[j] # Absent
    /\ \A j \in Jobs : status[j] \in Status \ {"SUBMITTED", "EXPIRED"} => j \in Requested

IInv == /\ TypeOK
        /\ HandlersHold
        /\ ReportsAreTrue
        /\ RowsAreRequested
        /\ ResultIsStored
        /\ NoSilentLoss
=============================================================================
