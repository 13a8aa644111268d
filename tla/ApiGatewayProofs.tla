-------------------------- MODULE ApiGatewayProofs --------------------------
(***************************************************************************)
(* Proofs about ApiGateway, for any jobs and requests, with or without a   *)
(* default bucket.                                                         *)
(***************************************************************************)
EXTENDS ApiGateway, TLAPS

JobTypes == /\ status \in [Jobs -> Status \cup {Absent}]
            /\ path \in [Jobs -> {ResultKey(j) : j \in Jobs} \cup {None}]
            /\ cleaning \subseteq Jobs
            /\ objects \subseteq {PutLocation(j) : j \in Jobs}

\* What TypeOK says of one request.
RequestTypes(r) ==
    /\ request[r] \in [handler : Handlers, job : Jobs] \cup {NoRequest}
    /\ pc[r] \in {"idle", "waiting", "reading", "answered"}
    /\ rpc[r] \in {"none", "sent", "found", "replied", "lost", "failed"}
    /\ view[r] \in Views
    /\ answer[r] \in Answers \cup {None}
    /\ pc[r] = "answered" <=> answer[r] # None
    /\ pc[r] = "idle" <=> request[r] = NoRequest

\* What AnswersWereTrue and ServedWithinRetention say of one request.
AnswerWasTrue(r) ==
    /\ answer[r] \in {"accepted", "status"} => view[r].status \in seen[r] \ {Absent}
    /\ answer[r] \in {"html", "url"} => {"COMPLETED", "stored"} \subseteq seen[r]
    /\ answer[r] = "notFound" => Absent \in seen[r]
    /\ answer[r] = "gone" => "EXPIRED" \in seen[r]
    /\ answer[r] = "notReady" => seen[r] \cap (NonTerminal \cup {"FAILED"}) # {}
    /\ answer[r] = "resultMissing" => {"COMPLETED", "not stored", "cleaned"} \subseteq seen[r]
    /\ answer[r] # "noPath"

\* All that the invariant says of one request.
RequestOK(r) == /\ RequestTypes(r)
                /\ AnswerWasTrue(r)
                /\ Observed(r)
                /\ ViewWasTrue(r)
                /\ CommandsAreAsked(r)

Mappings == /\ request = [r \in Requests |-> request[r]]
            /\ pc = [r \in Requests |-> pc[r]]
            /\ rpc = [r \in Requests |-> rpc[r]]
            /\ view = [r \in Requests |-> view[r]]
            /\ answer = [r \in Requests |-> answer[r]]

-----------------------------------------------------------------------------
(* The invariant, request by request *)

LEMMA Split == ASSUME IInv
               PROVE  /\ JobTypes /\ Mappings /\ ResultsAreStored
                      /\ \A r \in Requests : RequestOK(r)
  <1>1. JobTypes /\ Mappings
    BY DEF IInv, TypeOK, JobTypes, Mappings
  <1>2. ASSUME NEW r \in Requests PROVE RequestTypes(r)
    BY DEF IInv, TypeOK, RequestTypes
  <1>3. ASSUME NEW r \in Requests PROVE AnswerWasTrue(r)
    BY DEF IInv, AnswersWereTrue, ServedWithinRetention, AnswerWasTrue
  <1>4. QED BY <1>1, <1>2, <1>3 DEF IInv, RequestOK

LEMMA Join == ASSUME JobTypes', Mappings', ResultsAreStored',
                     \A r \in Requests : RequestOK(r)'
              PROVE  IInv'
  <1>1. TypeOK'
    <2>1. /\ request' \in [Requests -> [handler : Handlers, job : Jobs] \cup {NoRequest}]
          /\ pc' \in [Requests -> {"idle", "waiting", "reading", "answered"}]
          /\ rpc' \in [Requests -> {"none", "sent", "found", "replied", "lost", "failed"}]
          /\ view' \in [Requests -> Views]
          /\ answer' \in [Requests -> Answers \cup {None}]
      BY DEF Mappings, RequestOK, RequestTypes
    <2>2. QED BY <2>1 DEF TypeOK, JobTypes, RequestOK, RequestTypes
  <1>2. AnswersWereTrue' /\ ServedWithinRetention'
    BY DEF AnswersWereTrue, ServedWithinRetention, RequestOK, AnswerWasTrue
  <1>3. QED BY <1>1, <1>2 DEF IInv, RequestOK

THEOREM GatewayInit == Init => IInv
  <1> SUFFICES ASSUME Init PROVE IInv
    OBVIOUS
  <1>1. TypeOK
    BY DEF Init, TypeOK, Status, NonTerminal, Absent, NoRequest, NoView, Views
  <1>2. AnswersWereTrue /\ ServedWithinRetention
    BY GatewayAssumption DEF Init, AnswersWereTrue, ServedWithinRetention, Answers
  <1>3. ResultsAreStored
    BY DEF Init, ResultsAreStored, Absent
  <1>4. \A r \in Requests : Observed(r) /\ ViewWasTrue(r) /\ CommandsAreAsked(r)
    BY GatewayAssumption DEF Init, Observed, ViewWasTrue, CommandsAreAsked, Executing, InFlight, Answers
  <1>5. QED BY <1>1, <1>2, <1>3, <1>4 DEF IInv

\* The result of a job is read where it was written.
LEMMA ReadersFollowWriters ==
    ASSUME NEW j \in Jobs, DefaultBucket # None
    PROVE  StorageLocation(ResultKey(j)) = PutLocation(j)
  BY DEF StorageLocation, ResultKey, PutLocation, Path

\* Results of two jobs are two objects.
LEMMA LocationsDiffer ==
    ASSUME NEW j \in Jobs, NEW k \in Jobs, PutLocation(j) = PutLocation(k)
    PROVE  j = k
  BY DEF PutLocation, ResultKey, Path

\* Each request in flight sees what a step leads to, and forgets nothing.
LEMMA ObserveAll ==
    ASSUME Observe, NEW r \in Requests
    PROVE  /\ seen[r] \subseteq seen'[r]
           /\ Observed(r)'
           /\ ~InFlight(r)' => seen'[r] = seen[r]
  BY DEF Observe, Observed

-----------------------------------------------------------------------------
(* A step beside the requests *)

LEMMA JobStep ==
    ASSUME IInv, Observe, UNCHANGED requestVars, JobTypes', ResultsAreStored',
           \A j \in Jobs : PutLocation(j) \in objects =>
                              j \in cleaning \/ PutLocation(j) \in objects'
    PROVE  IInv'
  <1>1. JobTypes /\ Mappings /\ \A r \in Requests : RequestOK(r)
    BY Split
  <1>2. Mappings'
    BY <1>1 DEF Mappings, requestVars
  <1>3. ASSUME NEW r \in Requests PROVE RequestOK(r)'
    <2>1. RequestOK(r) /\ seen[r] \subseteq seen'[r] /\ Observed(r)'
      BY <1>1, ObserveAll
    <2>2. RequestTypes(r)' /\ CommandsAreAsked(r)'
      BY <2>1 DEF RequestOK, RequestTypes, CommandsAreAsked, Executing, requestVars
    <2>3. AnswerWasTrue(r)'
      BY <2>1 DEF RequestOK, AnswerWasTrue, requestVars
    <2>4. ViewWasTrue(r)'
      <3> SUFFICES ASSUME InFlight(r), rpc[r] = "replied" \/ pc[r] = "reading"
                   PROVE  ViewWasTrue(r)'
        BY DEF ViewWasTrue, InFlight, requestVars
      <3>1. request[r].job \in Jobs
        BY <2>1 DEF RequestOK, RequestTypes, InFlight
      <3>2. request[r].job \in cleaning => "cleaned" \in seen[r]
        BY <2>1 DEF RequestOK, Observed, Facts
      <3>3. QED BY <2>1, <3>1, <3>2 DEF RequestOK, ViewWasTrue, InFlight, requestVars
    <2>5. QED BY <2>1, <2>2, <2>3, <2>4 DEF RequestOK
  <1>4. QED BY <1>2, <1>3, Join

LEMMA SubmitElsewhereKeeps ==
    ASSUME IInv, Observe, NEW j \in Jobs, SubmitElsewhere(j)
    PROVE  IInv'
  <1>1. JobTypes /\ ResultsAreStored
    BY Split
  <1>2. JobTypes'
    BY <1>1 DEF JobTypes, SubmitElsewhere, Status, NonTerminal
  <1>3. ResultsAreStored'
    BY <1>1 DEF JobTypes, ResultsAreStored, SubmitElsewhere
  <1>4. UNCHANGED requestVars /\ objects' = objects
    BY DEF SubmitElsewhere
  <1>5. QED BY <1>2, <1>3, <1>4, JobStep

LEMMA PutTextKeeps ==
    ASSUME IInv, Observe, NEW j \in Jobs, PutText(j)
    PROVE  IInv'
  <1>1. JobTypes /\ ResultsAreStored
    BY Split
  <1>2. JobTypes'
    BY <1>1 DEF JobTypes, PutText
  <1>3. ResultsAreStored'
    BY <1>1 DEF JobTypes, ResultsAreStored, PutText
  <1>4. UNCHANGED requestVars /\ objects \subseteq objects'
    BY DEF PutText
  <1>5. QED BY <1>2, <1>3, <1>4, JobStep

LEMMA ReportStatusKeeps ==
    ASSUME IInv, Observe, NEW j \in Jobs,
           NEW s \in {"ENQUEUED", "PROCESSING", "COMPLETED", "FAILED"}, ReportStatus(j, s)
    PROVE  IInv'
  <1>1. JobTypes /\ ResultsAreStored
    BY Split
  <1>2. JobTypes'
    BY <1>1 DEF JobTypes, ReportStatus, Status, NonTerminal, Terminal
  <1>3. ResultsAreStored'
    BY <1>1 DEF JobTypes, ResultsAreStored, ReportStatus
  <1>4. UNCHANGED requestVars /\ objects' = objects
    BY DEF ReportStatus
  <1>5. QED BY <1>2, <1>3, <1>4, JobStep

LEMMA FindExpiredKeeps ==
    ASSUME IInv, Observe, NEW j \in Jobs, FindExpired(j)
    PROVE  IInv'
  <1>1. JobTypes /\ ResultsAreStored
    BY Split
  <1>2. JobTypes'
    BY <1>1 DEF JobTypes, FindExpired
  <1>3. ResultsAreStored'
    BY <1>1 DEF JobTypes, ResultsAreStored, FindExpired
  <1>4. UNCHANGED requestVars /\ objects' = objects
    BY DEF FindExpired
  <1>5. QED BY <1>2, <1>3, <1>4, JobStep

\* The cleanup takes away no result but that of the job in its hands.
LEMMA CleanUpKeeps ==
    ASSUME IInv, Observe, NEW j \in Jobs, CleanUp(j)
    PROVE  IInv'
  <1>1. JobTypes /\ ResultsAreStored
    BY Split
  <1>2. UNCHANGED requestVars /\ j \in cleaning
    BY DEF CleanUp
  <1>3. CASE /\ status' = [status EXCEPT ![j] = ExpiredStatus(@)]
             /\ UNCHANGED <<path, cleaning, objects>>
    <2>1. /\ ExpiredStatus(status[j]) \in Status \cup {Absent}
          /\ ExpiredStatus(status[j]) = "COMPLETED" => status[j] = "COMPLETED"
      BY <1>1 DEF JobTypes, ExpiredStatus, Status, Terminal, NonTerminal
    <2>2. JobTypes'
      BY <1>1, <1>3, <2>1 DEF JobTypes
    <2>3. ResultsAreStored'
      BY <1>1, <1>3, <2>1 DEF JobTypes, ResultsAreStored
    <2>4. QED BY <1>2, <1>3, <2>2, <2>3, JobStep
  <1>4. CASE /\ path[j] # None
             /\ objects' = objects \ {StorageLocation(path[j])}
             /\ UNCHANGED <<status, path, cleaning>>
    <2>1. \A k \in Jobs : PutLocation(k) \in objects => k = j \/ PutLocation(k) \in objects'
      <3> SUFFICES ASSUME NEW k \in Jobs, PutLocation(k) \in objects, k # j
                   PROVE  PutLocation(k) \in objects'
        OBVIOUS
      <3>1. DefaultBucket # None /\ path[j] = ResultKey(j)
        BY <1>1, <1>4 DEF ResultsAreStored
      <3>2. StorageLocation(path[j]) = PutLocation(j)
        BY <3>1, ReadersFollowWriters
      <3>3. PutLocation(k) # PutLocation(j)
        BY LocationsDiffer
      <3>4. QED BY <1>4, <3>2, <3>3
    <2>2. JobTypes'
      BY <1>1, <1>4 DEF JobTypes
    <2>3. ResultsAreStored'
      BY <1>1, <1>2, <1>4, <2>1 DEF JobTypes, ResultsAreStored
    <2>4. QED BY <1>2, <2>1, <2>2, <2>3, JobStep
  <1>5. CASE /\ status' = [status EXCEPT ![j] = Absent]
             /\ path' = [path EXCEPT ![j] = None]
             /\ cleaning' = cleaning \ {j}
             /\ UNCHANGED objects
    <2>1. JobTypes'
      BY <1>1, <1>5 DEF JobTypes
    <2>2. ResultsAreStored'
      BY <1>1, <1>5 DEF JobTypes, ResultsAreStored, Absent
    <2>3. QED BY <1>2, <1>5, <2>1, <2>2, JobStep
  <1>6. QED BY <1>3, <1>4, <1>5 DEF CleanUp

-----------------------------------------------------------------------------
(* A step of a request *)

LEMMA RequestStep ==
    ASSUME IInv, Observe, NEW r \in Requests,
           UNCHANGED <<path, cleaning, objects>>, JobTypes', ResultsAreStored', Mappings',
           \A q \in Requests \ {r} : /\ request'[q] = request[q] /\ pc'[q] = pc[q]
                                     /\ rpc'[q] = rpc[q] /\ view'[q] = view[q]
                                     /\ answer'[q] = answer[q],
           RequestTypes(r)', AnswerWasTrue(r)', ViewWasTrue(r)', CommandsAreAsked(r)'
    PROVE  IInv'
  <1>1. \A q \in Requests : RequestOK(q)
    BY Split
  <1>2. ASSUME NEW q \in Requests \ {r} PROVE RequestOK(q)'
    <2>1. RequestOK(q) /\ seen[q] \subseteq seen'[q] /\ Observed(q)'
      BY <1>1, ObserveAll
    <2>2. RequestTypes(q)' /\ CommandsAreAsked(q)'
      BY <2>1 DEF RequestOK, RequestTypes, CommandsAreAsked, Executing
    <2>3. AnswerWasTrue(q)'
      BY <2>1 DEF RequestOK, AnswerWasTrue
    <2>4. ViewWasTrue(q)'
      BY <2>1 DEF RequestOK, ViewWasTrue, InFlight
    <2>5. QED BY <2>1, <2>2, <2>3, <2>4 DEF RequestOK
  <1>3. RequestOK(r)'
    BY ObserveAll DEF RequestOK
  <1>4. QED BY <1>2, <1>3, Join

\* A step that leaves the jobs alone leaves their part of the invariant alone.
LEMMA JobsUntouched ==
    ASSUME IInv, UNCHANGED jobVars
    PROVE  JobTypes' /\ ResultsAreStored' /\ UNCHANGED <<path, cleaning, objects>>
  BY Split DEF jobVars, JobTypes, ResultsAreStored

LEMMA CallKeeps ==
    ASSUME IInv, Observe, NEW r \in Requests, NEW h \in Handlers, NEW j \in Jobs, Call(r, h, j)
    PROVE  IInv'
  <1>1. Mappings /\ RequestOK(r)
    BY Split
  <1>2. JobTypes' /\ ResultsAreStored' /\ UNCHANGED <<path, cleaning, objects>>
    BY JobsUntouched DEF Call
  <1>3. /\ request'[r] = [handler |-> h, job |-> j] /\ pc'[r] = "waiting"
        /\ rpc'[r] = "sent" /\ view'[r] = view[r] /\ answer'[r] = answer[r]
        /\ answer[r] = None
    BY <1>1 DEF Mappings, Call, RequestOK, RequestTypes
  <1>4. \A q \in Requests \ {r} : /\ request'[q] = request[q] /\ pc'[q] = pc[q]
                                  /\ rpc'[q] = rpc[q] /\ view'[q] = view[q]
                                  /\ answer'[q] = answer[q]
    BY <1>1 DEF Mappings, Call
  <1>5. Mappings'
    BY <1>1 DEF Mappings, Call
  <1>6. request'[r] # NoRequest
    BY <1>3, GatewayAssumption DEF NoRequest
  <1>7. RequestTypes(r)'
    BY <1>1, <1>3, <1>6 DEF RequestOK, RequestTypes
  <1>8. AnswerWasTrue(r)' /\ ViewWasTrue(r)' /\ CommandsAreAsked(r)'
    BY <1>3, GatewayAssumption DEF AnswerWasTrue, ViewWasTrue, CommandsAreAsked, Executing, Answers
  <1>9. QED BY <1>2, <1>4, <1>5, <1>7, <1>8, RequestStep

\* The job-manager replies with the row as it is after the command, which a
\* request in flight then has seen.
LEMMA RepliesKeep ==
    ASSUME IInv, Observe, NEW r \in Requests, Executing(r), NEW row \in Views,
           Replies(r, row),
           status' = [status EXCEPT ![request[r].job] = row.status],
           row.status \in {status[request[r].job], "SUBMITTED"},
           row.status = "COMPLETED" => row.path = path[request[r].job],
           request[r].handler = "submit" => row.status # Absent
    PROVE  IInv'
  <1>1. JobTypes /\ Mappings /\ ResultsAreStored /\ RequestOK(r)
    BY Split
  <1> DEFINE j == request[r].job
  <1>2. /\ view' = [view EXCEPT ![r] = row] /\ rpc' = [rpc EXCEPT ![r] = "replied"]
        /\ UNCHANGED <<path, cleaning, objects, request, pc, answer>>
    BY DEF Replies
  <1>3. j \in Jobs
    BY <1>1 DEF RequestOK, CommandsAreAsked, RequestTypes, Executing
  <1>4. /\ status' = [status EXCEPT ![j] = row.status]
        /\ row.status \in {status[j], "SUBMITTED"}
        /\ row.status = "COMPLETED" => row.path = path[j]
    OBVIOUS
  <1> HIDE DEF j
  <1>5. row.status \in Status \cup {Absent} /\ "SUBMITTED" # "COMPLETED"
    BY DEF Views
  <1>6. JobTypes'
    BY <1>1, <1>2, <1>3, <1>4, <1>5 DEF JobTypes
  <1>7. ResultsAreStored'
    BY <1>1, <1>2, <1>3, <1>4, <1>5 DEF JobTypes, ResultsAreStored
  <1>8. /\ request'[r] = request[r] /\ pc'[r] = pc[r] /\ answer'[r] = answer[r]
        /\ rpc'[r] = "replied" /\ view'[r] = row /\ status'[j] = row.status
    BY <1>1, <1>2, <1>3, <1>4 DEF Mappings, JobTypes
  <1>9. \A q \in Requests \ {r} : /\ request'[q] = request[q] /\ pc'[q] = pc[q]
                                  /\ rpc'[q] = rpc[q] /\ view'[q] = view[q]
                                  /\ answer'[q] = answer[q]
    BY <1>1, <1>2 DEF Mappings
  <1>10. Mappings' /\ seen[r] \subseteq seen'[r] /\ Observed(r)'
    BY <1>1, <1>2, ObserveAll DEF Mappings
  <1>11. RequestTypes(r)'
    BY <1>1, <1>8 DEF RequestOK, RequestTypes
  <1>12. answer[r] \notin {"accepted", "status"} /\ pc[r] # "reading"
    BY <1>1 DEF RequestOK, CommandsAreAsked
  <1>13. AnswerWasTrue(r)'
    BY <1>1, <1>8, <1>10, <1>12 DEF RequestOK, AnswerWasTrue
  <1>14. ViewWasTrue(r)'
    <2> SUFFICES ASSUME InFlight(r)' PROVE ViewWasTrue(r)'
      BY DEF ViewWasTrue
    <2>1. status'[j] \in seen'[r] /\ (j \in cleaning => "cleaned" \in seen'[r])
      BY <1>2, <1>8, <1>10 DEF Observed, Facts, j
    <2>2. row.status = "COMPLETED" =>
            row.path = ResultKey(j) /\ (j \in cleaning \/ PutLocation(j) \in objects)
      BY <1>1, <1>3, <1>4, <1>5 DEF ResultsAreStored
    <2>3. QED BY <1>2, <1>8, <1>12, <2>1, <2>2 DEF ViewWasTrue, j
  <1>15. CommandsAreAsked(r)'
    BY <1>1, <1>8, <1>12 DEF RequestOK, CommandsAreAsked, Executing
  <1>16. QED BY <1>2, <1>6, <1>7, <1>9, <1>10, <1>11, <1>13, <1>14, <1>15, RequestStep

\* A step of the command that changes nothing else.
LEMMA CommandStep ==
    ASSUME IInv, Observe, NEW r \in Requests, rpc[r] \in {"sent", "found", "replied"},
           NEW o \in {"found", "lost", "failed"}, o = "found" => Executing(r),
           rpc' = [rpc EXCEPT ![r] = o],
           UNCHANGED <<jobVars, request, pc, view, answer>>
    PROVE  IInv'
  <1>1. Mappings /\ RequestOK(r)
    BY Split
  <1>2. JobTypes' /\ ResultsAreStored' /\ UNCHANGED <<path, cleaning, objects>>
    BY JobsUntouched
  <1>3. /\ request'[r] = request[r] /\ pc'[r] = pc[r]
        /\ rpc'[r] = o /\ view'[r] = view[r] /\ answer'[r] = answer[r]
    BY <1>1 DEF Mappings
  <1>4. \A q \in Requests \ {r} : /\ request'[q] = request[q] /\ pc'[q] = pc[q]
                                  /\ rpc'[q] = rpc[q] /\ view'[q] = view[q]
                                  /\ answer'[q] = answer[q]
    BY <1>1 DEF Mappings
  <1>5. Mappings' /\ seen[r] \subseteq seen'[r]
    BY <1>1, ObserveAll DEF Mappings
  <1>6. RequestTypes(r)'
    BY <1>1, <1>3 DEF RequestOK, RequestTypes
  <1>7. AnswerWasTrue(r)'
    BY <1>1, <1>3, <1>5 DEF RequestOK, AnswerWasTrue
  <1>8. ViewWasTrue(r)'
    BY <1>1, <1>2, <1>3, <1>5 DEF RequestOK, ViewWasTrue, InFlight
  <1>9. CommandsAreAsked(r)'
    BY <1>1, <1>3 DEF RequestOK, CommandsAreAsked, Executing
  <1>10. QED BY <1>2, <1>4, <1>5, <1>6, <1>7, <1>8, <1>9, RequestStep

LEMMA CommandLostKeeps ==
    ASSUME IInv, Observe, NEW r \in Requests, NEW o \in {"lost", "failed"}, CommandLost(r, o)
    PROVE  IInv'
  BY CommandStep DEF CommandLost

\* The INSERT may have found a job that is no longer there to be read back.
LEMMA ExecuteKeeps ==
    ASSUME IInv, Observe, NEW r \in Requests, Execute(r)
    PROVE  IInv'
  <1>1. JobTypes /\ ResultsAreStored /\ RequestOK(r)
    BY Split
  <1>2. Executing(r)
    BY DEF Execute, Insert, InsertIgnored, ReadBack, GetJob, Executing
  <1>3. request[r].job \in Jobs
    BY <1>1, <1>2 DEF RequestOK, CommandsAreAsked, RequestTypes, Executing
  <1>4. CASE Insert(r)
    <2> DEFINE row == [status |-> "SUBMITTED", path |-> None]
    <2>1. row \in Views /\ row.status = "SUBMITTED"
      BY DEF Views, Status, NonTerminal
    <2>2. Replies(r, row) /\ status' = [status EXCEPT ![request[r].job] = row.status]
      BY <1>4 DEF Insert
    <2> HIDE DEF row
    <2>3. "SUBMITTED" # Absent /\ "SUBMITTED" # "COMPLETED"
      BY DEF Absent
    <2>4. QED BY <1>2, <2>1, <2>2, <2>3, RepliesKeep
  <1>5. CASE InsertIgnored(r)
    BY <1>2, <1>5, CommandStep DEF InsertIgnored
  <1>6. ASSUME Replies(r, Row(request[r].job)), UNCHANGED status,
               request[r].handler = "submit" => status[request[r].job] # Absent
        PROVE  IInv'
    <2>1. PICK row : row = Row(request[r].job)
      OBVIOUS
    <2>2. /\ row \in Views
          /\ row.status = status[request[r].job] /\ row.path = path[request[r].job]
      BY <1>1, <1>3, <2>1 DEF JobTypes, Row, Views
    <2>3. status' = [status EXCEPT ![request[r].job] = row.status]
      BY <1>1, <1>3, <1>6, <2>2 DEF JobTypes
    <2>4. QED BY <1>2, <1>6, <2>1, <2>2, <2>3, RepliesKeep
  <1>7. CASE ReadBack(r)
    <2>1. CASE rpc' = [rpc EXCEPT ![r] = "failed"]
               /\ UNCHANGED <<jobVars, request, pc, view, answer>>
      BY <1>7, <2>1, CommandStep DEF ReadBack
    <2>2. QED BY <1>6, <1>7, <2>1 DEF ReadBack
  <1>8. CASE GetJob(r)
    BY <1>6, <1>8 DEF GetJob
  <1>9. QED BY <1>4, <1>5, <1>7, <1>8 DEF Execute

\* An answer that was so keeps the invariant.
LEMMA AnswerKeeps ==
    ASSUME IInv, Observe, NEW r \in Requests, pc[r] \in {"waiting", "reading"},
           NEW a \in Answers, Answer(r, a), a # "noPath",
           a \in {"accepted", "status"} =>
              view[r].status \in seen[r] \ {Absent} /\ ~Executing(r),
           a \in {"html", "url"} => {"COMPLETED", "stored"} \subseteq seen[r],
           a = "notFound" => Absent \in seen[r],
           a = "gone" => "EXPIRED" \in seen[r],
           a = "notReady" => seen[r] \cap (NonTerminal \cup {"FAILED"}) # {},
           a = "resultMissing" => {"COMPLETED", "not stored", "cleaned"} \subseteq seen[r]
    PROVE  IInv'
  <1>1. Mappings /\ RequestOK(r)
    BY Split
  <1>2. JobTypes' /\ ResultsAreStored' /\ UNCHANGED <<path, cleaning, objects>>
    BY JobsUntouched DEF Answer
  <1>3. /\ request'[r] = request[r] /\ pc'[r] = "answered"
        /\ rpc'[r] = rpc[r] /\ view'[r] = view[r] /\ answer'[r] = a
    BY <1>1 DEF Mappings, Answer
  <1>4. \A q \in Requests \ {r} : /\ request'[q] = request[q] /\ pc'[q] = pc[q]
                                  /\ rpc'[q] = rpc[q] /\ view'[q] = view[q]
                                  /\ answer'[q] = answer[q]
    BY <1>1 DEF Mappings, Answer
  <1>5. Mappings' /\ seen[r] \subseteq seen'[r]
    BY <1>1, ObserveAll DEF Mappings, Answer
  <1>6. RequestTypes(r)'
    BY <1>1, <1>3, GatewayAssumption DEF RequestOK, RequestTypes
  <1>7. AnswerWasTrue(r)'
    BY <1>3, <1>5 DEF AnswerWasTrue
  <1>8. ViewWasTrue(r)'
    BY <1>3 DEF ViewWasTrue, InFlight
  <1>9. CommandsAreAsked(r)'
    BY <1>3 DEF CommandsAreAsked, Executing
  <1>10. QED BY <1>2, <1>4, <1>5, <1>6, <1>7, <1>8, <1>9, RequestStep

LEMMA CommandEndsKeeps ==
    ASSUME IInv, Observe, NEW r \in Requests, CommandFails(r) \/ CommandTimesOut(r)
    PROVE  IInv'
  <1>1. PICK a \in {"unavailable", "timeout"} : Answer(r, a)
    BY DEF CommandFails, CommandTimesOut
  <1>2. a \in Answers /\ pc[r] \in {"waiting", "reading"}
    BY DEF Answers, CommandFails, CommandTimesOut
  <1>3. QED BY <1>1, <1>2, AnswerKeeps

LEMMA ReplyKeeps ==
    ASSUME IInv, Observe, NEW r \in Requests, Reply(r)
    PROVE  IInv'
  <1>1. Mappings /\ RequestOK(r)
    BY Split
  <1>2. pc[r] = "waiting" /\ rpc[r] = "replied" /\ ~Executing(r)
    BY DEF Reply, Executing
  <1>3. /\ view[r].status \in seen[r]
        /\ request[r].handler = "submit" => view[r].status # Absent
        /\ view[r].status = "COMPLETED" =>
             /\ view[r].path = ResultKey(request[r].job)
             /\ "cleaned" \in seen[r] \/ PutLocation(request[r].job) \in objects
        /\ view[r].status \in Status \cup {Absent} /\ request[r].job \in Jobs
    BY <1>1, <1>2 DEF RequestOK, ViewWasTrue, InFlight, RequestTypes, Views
  <1>4. CASE request[r].handler = "submit" /\ Answer(r, "accepted")
    <2>1. "accepted" \in Answers
      BY DEF Answers
    <2>2. QED BY <1>2, <1>3, <1>4, <2>1, AnswerKeeps
  <1>5. ASSUME NEW a \in {"status", "notFound"}, Answer(r, a),
               a = "notFound" <=> view[r].status = Absent
        PROVE  IInv'
    <2>1. a \in Answers
      BY DEF Answers
    <2>2. QED BY <1>2, <1>3, <1>5, <2>1, AnswerKeeps
  <1>6. CASE ReadsResult(r) /\ Refusal(view[r]) # None /\ Answer(r, Refusal(view[r]))
    <2>1. PICK a : a = Refusal(view[r]) /\ Answer(r, a)
      BY <1>6
    <2>2. /\ a \in {"notFound", "gone", "notReady"} /\ a \in Answers
          /\ a = "notFound" => view[r].status = Absent
          /\ a = "gone" => view[r].status = "EXPIRED"
          /\ a = "notReady" => view[r].status \in NonTerminal \cup {"FAILED"}
      BY <1>3, <1>6, <2>1, GatewayAssumption
         DEF Refusal, Answers, Status, Terminal, NonTerminal, Absent
    <2>3. a = "notReady" => seen[r] \cap (NonTerminal \cup {"FAILED"}) # {}
      BY <1>3, <2>2
    <2>4. QED BY <1>2, <1>3, <2>1, <2>2, <2>3, AnswerKeeps
  <1>7. CASE /\ ReadsResult(r) /\ Refusal(view[r]) = None
             /\ pc' = [pc EXCEPT ![r] = "reading"]
             /\ UNCHANGED <<jobVars, request, rpc, view, answer>>
    <2>1. view[r].status = "COMPLETED"
      BY <1>7, GatewayAssumption DEF Refusal, Answers
    <2>2. JobTypes' /\ ResultsAreStored' /\ UNCHANGED <<path, cleaning, objects>>
      BY <1>7, JobsUntouched
    <2>3. /\ request'[r] = request[r] /\ pc'[r] = "reading"
          /\ rpc'[r] = "replied" /\ view'[r] = view[r] /\ answer'[r] = answer[r]
      BY <1>1, <1>2, <1>7 DEF Mappings
    <2>4. \A q \in Requests \ {r} : /\ request'[q] = request[q] /\ pc'[q] = pc[q]
                                    /\ rpc'[q] = rpc[q] /\ view'[q] = view[q]
                                    /\ answer'[q] = answer[q]
      BY <1>1, <1>7 DEF Mappings
    <2>5. Mappings' /\ seen[r] \subseteq seen'[r]
      BY <1>1, <1>7, ObserveAll DEF Mappings
    <2>6. RequestTypes(r)'
      BY <1>1, <1>2, <2>3 DEF RequestOK, RequestTypes
    <2>7. AnswerWasTrue(r)'
      BY <1>1, <2>3, <2>5 DEF RequestOK, AnswerWasTrue
    <2>8. ViewWasTrue(r)'
      BY <1>3, <2>1, <2>2, <2>3, <2>5 DEF ViewWasTrue
    <2>9. CommandsAreAsked(r)'
      BY <2>3 DEF CommandsAreAsked, Executing
    <2>10. QED BY <2>2, <2>4, <2>5, <2>6, <2>7, <2>8, <2>9, RequestStep
  <1>8. QED
    <2>1. CASE /\ request[r].handler = "getJobStatus"
               /\ Answer(r, IF view[r].status = Absent THEN "notFound" ELSE "status")
      BY <1>5, <2>1
    <2>2. QED BY <1>4, <1>6, <1>7, <2>1 DEF Reply

\* The object is looked for where the worker puts it; what was there, or was
\* not, has been seen.
LEMMA ReadObjectKeeps ==
    ASSUME IInv, Observe, NEW r \in Requests, ReadObject(r)
    PROVE  IInv'
  <1>1. JobTypes /\ ResultsAreStored /\ RequestOK(r)
    BY Split
  <1> DEFINE j == request[r].job
  <1>2. /\ pc[r] = "reading" /\ j \in Jobs
        /\ "COMPLETED" \in seen[r] /\ view[r].path = ResultKey(j)
        /\ "cleaned" \in seen[r] \/ PutLocation(j) \in objects
        /\ Facts(j) \subseteq seen[r]
    BY <1>1 DEF ReadObject, RequestOK, ViewWasTrue, Observed, InFlight, RequestTypes
  <1>3. /\ PutLocation(j) \in objects => "stored" \in seen[r]
        /\ PutLocation(j) \notin objects => "not stored" \in seen[r]
    BY <1>2 DEF Facts
  <1> HIDE DEF j
  <1>4. CASE StorageLocation(view[r].path) \in objects
             /\ Answer(r, IF request[r].handler = "getScrapedHtml" THEN "html" ELSE "url")
    <2>1. DefaultBucket # None
      BY <1>1, <1>4 DEF ResultsAreStored
    <2>2. "stored" \in seen[r]
      BY <1>2, <1>3, <1>4, <2>1, ReadersFollowWriters
    <2>3. PICK a \in {"html", "url"} : Answer(r, a)
      BY <1>4
    <2>4. a \in Answers
      BY DEF Answers
    <2>5. QED BY <1>2, <2>2, <2>3, <2>4, AnswerKeeps
  <1>5. CASE StorageLocation(view[r].path) \notin objects /\ Answer(r, "resultMissing")
    <2>1. PutLocation(j) \notin objects
      <3>1. CASE DefaultBucket # None
        BY <1>2, <1>5, <3>1, ReadersFollowWriters
      <3>2. CASE DefaultBucket = None
        BY <1>1, <3>2 DEF ResultsAreStored
      <3>3. QED BY <3>1, <3>2
    <2>2. "resultMissing" \in Answers
      BY DEF Answers
    <2>3. QED BY <1>2, <1>3, <1>5, <2>1, <2>2, AnswerKeeps
  <1>6. CASE Answer(r, "unavailable")
    <2>1. "unavailable" \in Answers
      BY DEF Answers
    <2>2. QED BY <1>2, <1>6, <2>1, AnswerKeeps
  <1>7. QED BY <1>4, <1>5, <1>6 DEF ReadObject

-----------------------------------------------------------------------------
(* The invariant and the theorems *)

\* Every step keeps the inductive invariant.
THEOREM GatewayStep == IInv /\ [Next]_vars => IInv'
  <1> SUFFICES ASSUME IInv, [Next]_vars PROVE IInv'
    OBVIOUS
  <1>1. CASE UNCHANGED vars
    BY <1>1 DEF vars, jobVars, requestVars, IInv, TypeOK, AnswersWereTrue,
                ServedWithinRetention, ResultsAreStored, Observed, ViewWasTrue,
                CommandsAreAsked, Executing, InFlight, Facts
  <1>2. CASE Next
    <2>1. Observe
      BY <1>2 DEF Next
    <2>2. ASSUME NEW j \in Jobs,
                 SubmitElsewhere(j) \/ PutText(j) \/ FindExpired(j) \/ CleanUp(j)
          PROVE  IInv'
      BY <2>1, <2>2, SubmitElsewhereKeeps, PutTextKeeps, FindExpiredKeeps, CleanUpKeeps
    <2>3. ASSUME NEW j \in Jobs,
                 NEW s \in {"ENQUEUED", "PROCESSING", "COMPLETED", "FAILED"}, ReportStatus(j, s)
          PROVE  IInv'
      BY <2>1, <2>3, ReportStatusKeeps
    <2>4. ASSUME NEW r \in Requests, NEW h \in Handlers, NEW j \in Jobs, Call(r, h, j)
          PROVE  IInv'
      BY <2>1, <2>4, CallKeeps
    <2>5. ASSUME NEW r \in Requests, Execute(r) PROVE IInv'
      BY <2>1, <2>5, ExecuteKeeps
    <2>6. ASSUME NEW r \in Requests, NEW o \in {"lost", "failed"}, CommandLost(r, o)
          PROVE  IInv'
      BY <2>1, <2>6, CommandLostKeeps
    <2>7. ASSUME NEW r \in Requests, Reply(r) PROVE IInv'
      BY <2>1, <2>7, ReplyKeeps
    <2>8. ASSUME NEW r \in Requests, CommandFails(r) \/ CommandTimesOut(r) PROVE IInv'
      BY <2>1, <2>8, CommandEndsKeeps
    <2>9. ASSUME NEW r \in Requests, ReadObject(r) PROVE IInv'
      BY <2>1, <2>9, ReadObjectKeeps
    <2>10. CASE Settled
      <3>1. JobTypes' /\ ResultsAreStored' /\ UNCHANGED <<path, cleaning, objects>>
        BY <2>10, JobsUntouched DEF Settled
      <3>2. UNCHANGED requestVars
        BY <2>10 DEF Settled
      <3>3. QED BY <2>1, <3>1, <3>2, JobStep
    <2>11. QED
      BY <1>2, <2>2, <2>3, <2>4, <2>5, <2>6, <2>7, <2>8, <2>9, <2>10 DEF Next
  <1>3. QED BY <1>1, <1>2

\* The inductive invariant holds in every state of every instance.
THEOREM GatewayInvariance == Spec => []IInv
  BY GatewayInit, GatewayStep, PTL DEF Spec

\* Type correctness of rows, requests, commands and answers.
THEOREM GatewayTypeCorrect == Spec => []TypeOK
  <1>1. IInv => TypeOK
    BY DEF IInv
  <1>2. QED BY <1>1, GatewayInvariance, PTL

\* No client is told what was not so during its request, for any number of
\* requests, late commands and cleanups.
THEOREM AnswersAreTrue == Spec => []AnswersWereTrue
  <1>1. IInv => AnswersWereTrue
    BY DEF IInv
  <1>2. QED BY <1>1, GatewayInvariance, PTL

\* The result of a COMPLETED job is found unless the cleanup was at the job,
\* whatever the default bucket is.
THEOREM ResultsAreServed == Spec => []ServedWithinRetention
  <1>1. IInv => ServedWithinRetention
    BY DEF IInv
  <1>2. QED BY <1>1, GatewayInvariance, PTL
=============================================================================
