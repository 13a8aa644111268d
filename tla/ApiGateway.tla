----------------------------- MODULE ApiGateway -----------------------------
(***************************************************************************)
(* The HTTP requests of apps/api: ScrapeController and                     *)
(* ScrapeGatewayService with the RPC to the job-manager, which may answer  *)
(* late, never, or fail, and the read of the stored result, which comes    *)
(* after the job's row was read and may find the job expired, deleted or   *)
(* submitted again meanwhile.                                              *)
(*                                                                         *)
(* Rows and objects change beside the requests as the workers and the      *)
(* cleanup change them; ScrapePipeline and ExpiredJobsCleanup have the     *)
(* details.                                                                *)
(***************************************************************************)
EXTENDS JobStatus, Naturals, Sequences

CONSTANTS Jobs,
          Requests,       \* HTTP requests, each made once
          Buckets,
          DefaultBucket,  \* S3_DEFAULT_BUCKET of all three apps, or None
          None            \* no bucket, no path, no answer, no job

VARIABLES status,     \* jobs table: Jobs -> Status or Absent
          path,       \* resultPath of the row, or None
          cleaning,   \* jobs whose row the cleanup has in its batch
          objects,    \* locations in the object storage
          request,    \* the handler and the job of each request
          pc,         \* where its handler is
          rpc,        \* its command at the job-manager
          view,       \* what the job-manager answered: [status, path]
          answer,     \* what the client was told
          seen        \* what was so at some moment of the request (history)

jobVars     == <<status, path, cleaning, objects>>
requestVars == <<request, pc, rpc, view, answer>>
vars == <<jobVars, requestVars, seen>>

Handlers == {"submit", "getJobStatus", "getScrapedHtml", "getScrapedHtmlUrl"}
Answers  == {"accepted", "status", "html", "url",            \* 2xx
             "notFound", "gone", "notReady", "resultMissing", \* 404, 410, 409, 409
             "noPath", "unavailable", "timeout"}              \* 500, 503, 504

NoRequest == [handler |-> None, job |-> None]
NoView    == [status |-> Absent, path |-> None]

-----------------------------------------------------------------------------
(* Storage locations; a path is a scheme and the segments between slashes *)

Path(scheme, segments) == [s3 |-> scheme, segments |-> segments]

\* createScrapeResultKey
ResultKey(j) == Path(FALSE, <<"scrape-results", j>>)

\* None is no answer, no job and no path.
ASSUME GatewayAssumption ==
    /\ None \notin Answers \cup Jobs
    /\ \A j \in Jobs : ResultKey(j) # None
    /\ DefaultBucket \in Buckets \cup {None}

FirstIsBucket(segments) == [bucket |-> Head(segments), key |-> Tail(segments)]

\* Mutant of the next definition: a path always starts with its bucket.
FirstSegmentIsBucket(p) == FirstIsBucket(p.segments)

\* resolveStorageLocation, for a path that is well formed
StorageLocation(p) ==
    IF p.s3 \/ (DefaultBucket = None /\ Len(p.segments) > 1)
    THEN FirstIsBucket(p.segments)
    ELSE [bucket |-> DefaultBucket, key |-> p.segments]

\* Where putObject writes the result of j; without a bucket it throws.
PutLocation(j) == [bucket |-> DefaultBucket, key |-> ResultKey(j).segments]

-----------------------------------------------------------------------------
(* What a request can have seen of its job *)

Facts(j) == {status[j]}
            \cup (IF PutLocation(j) \in objects THEN {"stored"} ELSE {"not stored"})
            \cup (IF j \in cleaning THEN {"cleaned"} ELSE {})

InFlight(r) == pc[r] \in {"waiting", "reading"}

\* Every step adds the facts of the state it leads to, as long as the request
\* has not been answered.
Observe == seen' = [r \in Requests |->
                       IF InFlight(r)' THEN seen[r] \cup Facts(request[r].job)' ELSE seen[r]]

Init == /\ status = [j \in Jobs |-> Absent]
        /\ path = [j \in Jobs |-> None]
        /\ cleaning = {}
        /\ objects = {}
        /\ request = [r \in Requests |-> NoRequest]
        /\ pc = [r \in Requests |-> "idle"]
        /\ rpc = [r \in Requests |-> "none"]
        /\ view = [r \in Requests |-> NoView]
        /\ answer = [r \in Requests |-> None]
        /\ seen = [r \in Requests |-> {}]

-----------------------------------------------------------------------------
(* Jobs, beside the requests *)

\* Another client submits the URL of j.
SubmitElsewhere(j) ==
    /\ status[j] = Absent
    /\ status' = [status EXCEPT ![j] = "SUBMITTED"]
    /\ UNCHANGED <<path, cleaning, objects, requestVars>>

\* A worker stores the result; it reports COMPLETED afterwards.
PutText(j) ==
    /\ DefaultBucket # None
    /\ status[j] # Absent
    /\ objects' = objects \cup {PutLocation(j)}
    /\ UNCHANGED <<status, path, cleaning, requestVars>>

\* updateJobStatus; the mark of the dispatcher has the same clause.  A report
\* of COMPLETED follows putText, and no message of it outlives the retention of
\* the job it speaks of: that would find the object deleted.
ReportStatus(j, s) ==
    /\ s = "COMPLETED" => PutLocation(j) \in objects
    /\ StatusGuard(status[j], s)
    /\ status' = [status EXCEPT ![j] = s]
    /\ path' = IF s = "COMPLETED" THEN [path EXCEPT ![j] = ResultKey(j)] ELSE path
    /\ UNCHANGED <<cleaning, objects, requestVars>>

\* The retention of j is over: findExpiredJobs finds it.
FindExpired(j) ==
    /\ status[j] # Absent
    /\ cleaning' = cleaning \cup {j}
    /\ UNCHANGED <<status, path, objects, requestVars>>

\* markJobExpired, deleteObject, deleteJob
CleanUp(j) ==
    /\ j \in cleaning
    /\ \/ /\ status' = [status EXCEPT ![j] = ExpiredStatus(@)]
          /\ UNCHANGED <<path, cleaning, objects>>
       \/ /\ path[j] # None
          /\ objects' = objects \ {StorageLocation(path[j])}
          /\ UNCHANGED <<status, path, cleaning>>
       \/ /\ status' = [status EXCEPT ![j] = Absent]
          /\ path' = [path EXCEPT ![j] = None]
          /\ cleaning' = cleaning \ {j}
          /\ UNCHANGED objects
    /\ UNCHANGED requestVars

-----------------------------------------------------------------------------
(* The job-manager's side of a command, also when nobody waits any more *)

Replies(r, row) == /\ view' = [view EXCEPT ![r] = row]
                   /\ rpc' = [rpc EXCEPT ![r] = "replied"]
                   /\ UNCHANGED <<path, cleaning, objects, request, pc, answer>>

Row(j) == [status |-> status[j], path |-> path[j]]

\* The INSERT of createJobSubmissionIfNotExists writes the job ...
Insert(r) ==
    /\ rpc[r] = "sent" /\ request[r].handler = "submit"
    /\ status[request[r].job] = Absent
    /\ status' = [status EXCEPT ![request[r].job] = "SUBMITTED"]
    /\ Replies(r, [status |-> "SUBMITTED", path |-> None])

\* ... or finds one there, which it does not lock.
InsertIgnored(r) ==
    /\ rpc[r] = "sent" /\ request[r].handler = "submit"
    /\ status[request[r].job] # Absent
    /\ rpc' = [rpc EXCEPT ![r] = "found"]
    /\ UNCHANGED <<jobVars, request, pc, view, answer>>

\* Mutant of the next definition: findOne, whatever it returns.
ReadBackWhatIsThere(r) ==
    /\ rpc[r] = "found"
    /\ Replies(r, Row(request[r].job)) /\ UNCHANGED status

\* findOneOrFail; the job may have been deleted since.
ReadBack(r) ==
    /\ rpc[r] = "found"
    /\ \/ /\ status[request[r].job] # Absent
          /\ Replies(r, Row(request[r].job)) /\ UNCHANGED status
       \/ /\ status[request[r].job] = Absent
          /\ rpc' = [rpc EXCEPT ![r] = "failed"]
          /\ UNCHANGED <<jobVars, request, pc, view, answer>>

\* getJob
GetJob(r) ==
    /\ rpc[r] = "sent" /\ request[r].handler # "submit"
    /\ Replies(r, Row(request[r].job)) /\ UNCHANGED status

Execute(r) == Insert(r) \/ InsertIgnored(r) \/ ReadBack(r) \/ GetJob(r)

\* The command, or its reply, is lost, or the job-manager rejects it.
CommandLost(r, outcome) ==
    /\ rpc[r] \in {"sent", "found", "replied"}
    /\ rpc' = [rpc EXCEPT ![r] = outcome]
    /\ UNCHANGED <<jobVars, request, pc, view, answer>>

-----------------------------------------------------------------------------
(* The handlers of ScrapeController *)

Call(r, h, j) ==
    /\ pc[r] = "idle"
    /\ request' = [request EXCEPT ![r] = [handler |-> h, job |-> j]]
    /\ pc' = [pc EXCEPT ![r] = "waiting"]
    /\ rpc' = [rpc EXCEPT ![r] = "sent"]
    /\ UNCHANGED <<jobVars, view, answer>>

Answer(r, a) == /\ answer' = [answer EXCEPT ![r] = a]
                /\ pc' = [pc EXCEPT ![r] = "answered"]
                /\ UNCHANGED <<jobVars, request, rpc, view>>

\* getExistingJobStatus and getCompletedJobStatus: why a result is refused
Refusal(v) ==
    IF v.status = Absent THEN "notFound"
    ELSE IF v.status = "EXPIRED" THEN "gone"
    ELSE IF v.status # "COMPLETED" THEN "notReady"
    ELSE IF v.path = None THEN "noPath" ELSE None

ReadsResult(r) == request[r].handler \in {"getScrapedHtml", "getScrapedHtmlUrl"}

\* The reply arrives in time.
Reply(r) ==
    /\ pc[r] = "waiting"
    /\ rpc[r] = "replied"
    /\ \/ request[r].handler = "submit" /\ Answer(r, "accepted")
       \/ /\ request[r].handler = "getJobStatus"
          /\ Answer(r, IF view[r].status = Absent THEN "notFound" ELSE "status")
       \/ /\ ReadsResult(r) /\ Refusal(view[r]) # None
          /\ Answer(r, Refusal(view[r]))
       \/ /\ ReadsResult(r) /\ Refusal(view[r]) = None
          /\ pc' = [pc EXCEPT ![r] = "reading"]
          /\ UNCHANGED <<jobVars, request, rpc, view, answer>>

\* Mutant of the next definition: catchError completes without an answer.
ErrorSwallowed(r) == pc[r] = "waiting" /\ rpc[r] = "failed" /\ Answer(r, None)

\* mapJobManagerError: an error of the connection or of the job-manager
CommandFails(r) == pc[r] = "waiting" /\ rpc[r] = "failed" /\ Answer(r, "unavailable")

\* Mutant of the next definition: the command is sent without timeout().
NoTimeout(r) == FALSE

\* timeout(requestTimeoutMs): the job-manager may still execute the command.
CommandTimesOut(r) == pc[r] = "waiting" /\ Answer(r, "timeout")

\* getObject or, before a URL is signed, assertObjectExists, and
\* mapStorageError
ReadObject(r) ==
    /\ pc[r] = "reading"
    /\ \/ /\ StorageLocation(view[r].path) \in objects
          /\ Answer(r, IF request[r].handler = "getScrapedHtml" THEN "html" ELSE "url")
       \/ StorageLocation(view[r].path) \notin objects /\ Answer(r, "resultMissing")
       \/ Answer(r, "unavailable")

-----------------------------------------------------------------------------
\* Every request has been answered; no other is made.
Settled == /\ \A r \in Requests : pc[r] = "answered"
           /\ UNCHANGED <<jobVars, requestVars>>

Next ==
    /\ \/ \E j \in Jobs : SubmitElsewhere(j) \/ PutText(j) \/ FindExpired(j) \/ CleanUp(j)
       \/ \E j \in Jobs, s \in {"ENQUEUED", "PROCESSING", "COMPLETED", "FAILED"} : ReportStatus(j, s)
       \/ \E r \in Requests, h \in Handlers, j \in Jobs : Call(r, h, j)
       \/ \E r \in Requests : Execute(r) \/ \E o \in {"lost", "failed"} : CommandLost(r, o)
       \/ \E r \in Requests : Reply(r) \/ CommandFails(r) \/ CommandTimesOut(r) \/ ReadObject(r)
       \/ Settled
    /\ Observe

Spec == Init /\ [][Next]_vars

\* Timers fire, and the storage client answers or rejects.  Nothing is assumed
\* of the job-manager.
Fairness == \A r \in Requests : /\ WF_vars(CommandTimesOut(r) /\ Observe)
                                /\ WF_vars(ReadObject(r) /\ Observe)

FairSpec == Spec /\ Fairness

-----------------------------------------------------------------------------
(* Properties *)

Views == [status : Status \cup {Absent}, path : {ResultKey(j) : j \in Jobs} \cup {None}]

TypeOK ==
    /\ status \in [Jobs -> Status \cup {Absent}]
    /\ path \in [Jobs -> {ResultKey(j) : j \in Jobs} \cup {None}]
    /\ cleaning \subseteq Jobs
    /\ objects \subseteq {PutLocation(j) : j \in Jobs}
    /\ request \in [Requests -> [handler : Handlers, job : Jobs] \cup {NoRequest}]
    /\ pc \in [Requests -> {"idle", "waiting", "reading", "answered"}]
    /\ rpc \in [Requests -> {"none", "sent", "found", "replied", "lost", "failed"}]
    /\ view \in [Requests -> Views]
    /\ answer \in [Requests -> Answers \cup {None}]
    /\ \A r \in Requests : pc[r] = "answered" <=> answer[r] # None
    /\ \A r \in Requests : pc[r] = "idle" <=> request[r] = NoRequest

\* A client is told nothing that was not so at some moment of its request,
\* whatever happened to the job meanwhile: what was accepted was in the table,
\* what is missing was missing, and a result is served of a job that was
\* COMPLETED, from an object that was there.
AnswersWereTrue == \A r \in Requests :
    /\ answer[r] \in {"accepted", "status"} => view[r].status \in seen[r] \ {Absent}
    /\ answer[r] \in {"html", "url"} => {"COMPLETED", "stored"} \subseteq seen[r]
    /\ answer[r] = "notFound" => Absent \in seen[r]
    /\ answer[r] = "gone" => "EXPIRED" \in seen[r]
    /\ answer[r] = "notReady" => seen[r] \cap (NonTerminal \cup {"FAILED"}) # {}
    /\ answer[r] = "resultMissing" => {"COMPLETED", "not stored"} \subseteq seen[r]
    /\ answer[r] # "noPath"

\* The result of a COMPLETED job is not found missing as long as the cleanup
\* leaves the job alone: readers look where the worker has written.
ServedWithinRetention == \A r \in Requests :
    answer[r] = "resultMissing" => "cleaned" \in seen[r]

\* Every request is answered, whatever becomes of its command.
EveryRequestIsAnswered == \A r \in Requests : pc[r] = "waiting" ~> pc[r] = "answered"

-----------------------------------------------------------------------------
(* The inductive invariant *)

\* A COMPLETED row names the result of its job, which is stored until the
\* cleanup comes.
ResultsAreStored ==
    /\ \A j \in Jobs : path[j] \in {None, ResultKey(j)}
    /\ DefaultBucket = None => objects = {}
    /\ \A j \in Jobs : status[j] = "COMPLETED" =>
          path[j] = ResultKey(j) /\ (j \in cleaning \/ PutLocation(j) \in objects)

\* A request in flight has seen the present state of its job.
Observed(r) == InFlight(r) => Facts(request[r].job) \subseteq seen[r]

\* What the job-manager answered was so, and a result it named is still there
\* unless the cleanup was seen.
ViewWasTrue(r) == InFlight(r) /\ (rpc[r] = "replied" \/ pc[r] = "reading") =>
    /\ view[r].status \in seen[r]
    /\ request[r].handler = "submit" => view[r].status # Absent
    /\ pc[r] = "reading" => view[r].status = "COMPLETED"
    /\ view[r].status = "COMPLETED" =>
          /\ view[r].path = ResultKey(request[r].job)
          /\ "cleaned" \in seen[r] \/ PutLocation(request[r].job) \in objects

Executing(r) == rpc[r] \in {"sent", "found"}

\* A command is out only for a request that was made, and not executed any
\* more once its reply was passed on.
CommandsAreAsked(r) == /\ rpc[r] # "none" => pc[r] # "idle"
                       /\ pc[r] = "reading" => ~Executing(r)
                       /\ answer[r] \in {"accepted", "status"} => ~Executing(r)

IInv == /\ TypeOK
        /\ AnswersWereTrue
        /\ ServedWithinRetention
        /\ ResultsAreStored
        /\ \A r \in Requests : Observed(r) /\ ViewWasTrue(r) /\ CommandsAreAsked(r)
=============================================================================
