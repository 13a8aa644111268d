----------------------- MODULE SubmissionOutboxProofs -----------------------
(***************************************************************************)
(* Proofs about SubmissionOutbox, for every number of jobs, replicas and   *)
(* rows, every batch size, concurrency and attempt limit, any number of    *)
(* abandoned calls and crashes.                                            *)
(***************************************************************************)
EXTENDS SubmissionOutbox, TLAPS

-----------------------------------------------------------------------------
(* The guards of JobStatus, for both ways a driver may bind the target status *)

\* A status update leaves a row alone or sets the status it was asked to set
\* (updateJobStatus, one UPDATE with its guard).
LEMMA UpdateSetsOrKeeps ==
    ASSUME NEW old, NEW s
    PROVE  UpdatedStatus(old, s) \in {old, s}
  BY DEF UpdatedStatus

\* An expiry moves unfinished rows to EXPIRED and no other (markJobExpired).
LEMMA ExpiryRespectsFinished ==
    ASSUME NEW old \in Status \cup {Absent}
    PROVE  ExpiredStatus(old) = IF old \in NonTerminal THEN "EXPIRED" ELSE old
  BY DEF ExpiredStatus, Status, NonTerminal, Terminal, Absent

\* Marking a job as enqueued moves SUBMITTED to ENQUEUED and nothing else
\* (the first UPDATE of markJobEnqueuedAndPublished).
LEMMA EnqueueMovesSubmittedOnly ==
    ASSUME NEW old
    PROVE  EnqueuedStatus(old) = IF old = "SUBMITTED" THEN "ENQUEUED" ELSE old
  BY DEF EnqueuedStatus

\* A worker's update never leaves a finished, expired or missing row changed:
\* COMPLETED, FAILED and EXPIRED are final, and no row appears.
THEOREM UpdateRespectsTerminal ==
    ASSUME NEW old \in Terminal \cup {Absent},
           NEW s \in {"PROCESSING", "COMPLETED", "FAILED"}
    PROVE  UpdatedStatus(old, s) = old
  BY DEF UpdatedStatus, StatusGuard, Terminal, NonTerminal, Absent

-----------------------------------------------------------------------------
(* Type correctness *)

\* The two statements that write the tables keep the types, for any row that
\* belongs to a job.
LEMMA EffectsTyped ==
    ASSUME TypeOK, NEW r \in RowId, aggregateId[r] \in Jobs
    PROVE  /\ MarkJobEnqueuedAndPublished(r) =>
                /\ status' \in [Jobs -> Status \cup {Absent}]
                /\ published' \subseteq stored' /\ due' \subseteq stored' \ published'
           /\ MarkFailed(r) =>
                /\ attempts' \in [RowId -> Nat]
                /\ due' \subseteq stored' \ published'
  <1>1. ASSUME MarkJobEnqueuedAndPublished(r)
        PROVE  /\ status' \in [Jobs -> Status \cup {Absent}]
               /\ published' \subseteq stored' /\ due' \subseteq stored' \ published'
    <2>1. EnqueuedStatus(status[aggregateId[r]]) \in Status \cup {Absent}
      BY EnqueueMovesSubmittedOnly DEF TypeOK, Status, NonTerminal
    <2>2. QED BY <1>1, <2>1 DEF MarkJobEnqueuedAndPublished, TypeOK
  <1>2. ASSUME MarkFailed(r)
        PROVE  /\ attempts' \in [RowId -> Nat]
               /\ due' \subseteq stored' \ published'
    BY <1>2 DEF MarkFailed, TypeOK
  <1>3. QED BY <1>1, <1>2

THEOREM InitInvariant == Init => IInv
  <1> SUFFICES ASSUME Init PROVE IInv
    OBVIOUS
  <1>1. TypeOK
    BY DEF Init, TypeOK, LateCall, Phases
  <1>2. RowsHaveJobs /\ MarkAfterSend
    BY DEF Init, RowsHaveJobs, MarkAfterSend
  <1>3. SubmittedHasPendingRow /\ WorkWasRequested /\ PublishedWasSent
    BY DEF Init, SubmittedHasPendingRow, WorkWasRequested, PublishedWasSent, Absent, Status,
           NonTerminal, Terminal
  <1>4. QED BY <1>1, <1>2, <1>3 DEF IInv

\* A step that leaves the tables alone and only adds to sent keeps what the
\* invariant says of the tables.
LEMMA TablesUntouched ==
    ASSUME IInv, UNCHANGED tables, sent \subseteq sent', sent' \subseteq RowId,
           \A r \in sent' \ sent : aggregateId[r] \in Jobs
    PROVE  /\ SubmittedHasPendingRow'
           /\ PublishedWasSent'
           /\ WorkWasRequested'
           /\ \A r \in (stored \cup sent)' : aggregateId'[r] \in Jobs
  BY DEF IInv, tables, TypeOK, RowsHaveJobs, SubmittedHasPendingRow, PublishedWasSent,
         WorkWasRequested

\* The marking transaction keeps it too, when the row's message was sent.
LEMMA MarkKeeps ==
    ASSUME IInv, NEW r \in sent, MarkJobEnqueuedAndPublished(r), UNCHANGED sent
    PROVE  /\ SubmittedHasPendingRow'
           /\ PublishedWasSent'
           /\ WorkWasRequested'
           /\ \A q \in (stored \cup sent)' : aggregateId'[q] \in Jobs
  <1> DEFINE j0 == aggregateId[r]
  <1>0. j0 \in Jobs /\ r \in RowId
    BY DEF IInv, RowsHaveJobs, TypeOK
  <1>1. \A j \in Jobs : status'[j] = IF j = j0 /\ status[j] = "SUBMITTED" THEN "ENQUEUED" ELSE status[j]
    BY <1>0, EnqueueMovesSubmittedOnly DEF MarkJobEnqueuedAndPublished, IInv, TypeOK
  <1>2. SubmittedHasPendingRow'
    <2> SUFFICES ASSUME NEW j \in Jobs, status'[j] = "SUBMITTED"
                 PROVE  \E q \in stored' \ published' : aggregateId'[q] = j
      BY DEF SubmittedHasPendingRow
    <2>1. status[j] = "SUBMITTED" /\ j # j0
      BY <1>1
    <2>2. PICK q \in stored \ published : aggregateId[q] = j
      BY <2>1 DEF IInv, SubmittedHasPendingRow
    <2>3. QED BY <2>1, <2>2 DEF MarkJobEnqueuedAndPublished
  <1>3. PublishedWasSent'
    BY DEF IInv, PublishedWasSent, MarkJobEnqueuedAndPublished
  <1>4. WorkWasRequested'
    <2> SUFFICES ASSUME NEW j \in Jobs, status'[j] \in Status \ {"SUBMITTED", "EXPIRED"}
                 PROVE  \E q \in sent' : aggregateId'[q] = j
      BY DEF WorkWasRequested
    <2>1. CASE j = j0
      BY <2>1 DEF MarkJobEnqueuedAndPublished
    <2>2. CASE j # j0
      BY <2>2, <1>1 DEF MarkJobEnqueuedAndPublished, IInv, WorkWasRequested
    <2>3. QED BY <2>1, <2>2
  <1>5. \A q \in (stored \cup sent)' : aggregateId'[q] \in Jobs
    BY DEF MarkJobEnqueuedAndPublished, IInv, RowsHaveJobs
  <1>6. QED BY <1>2, <1>3, <1>4, <1>5

\* Counting a failed attempt keeps it.
LEMMA FailKeeps ==
    ASSUME IInv, NEW r \in RowId, MarkFailed(r), UNCHANGED sent
    PROVE  /\ SubmittedHasPendingRow'
           /\ PublishedWasSent'
           /\ WorkWasRequested'
           /\ \A q \in (stored \cup sent)' : aggregateId'[q] \in Jobs
  BY DEF MarkFailed, IInv, SubmittedHasPendingRow, PublishedWasSent, WorkWasRequested, RowsHaveJobs

-----------------------------------------------------------------------------
(* One step of a lane *)

\* Moving a row on within a replica, as every lane step does: what is left to
\* show is that a row enters "marking" only when its message was sent.
LEMMA LaneMoves ==
    ASSUME IInv, NEW d \in Replicas, NEW r \in RowId, NEW from \in Phases \ {"none"}, NEW to \in Phases,
           Go(d, r, from, to), UNCHANGED aggregateId,
           sent \subseteq sent', to = "marking" => r \in sent'
    PROVE  /\ phase' \in [Replicas -> [RowId -> Phases]]
           /\ \A e \in Replicas, q \in RowId : phase'[e][q] # "none" => aggregateId'[q] \in Jobs
           /\ \A e \in Replicas, q \in RowId : phase'[e][q] = "marking" => q \in sent'
           /\ aggregateId[r] \in Jobs
  <1>1. phase[d][r] # "none" /\ aggregateId[r] \in Jobs
    BY DEF Go, IInv, RowsHaveJobs
  <1>2. phase' \in [Replicas -> [RowId -> Phases]]
    BY DEF Go, IInv, TypeOK
  <1>3. \A e \in Replicas, q \in RowId :
           phase'[e][q] = IF e = d /\ q = r THEN to ELSE phase[e][q]
    BY DEF Go, IInv, TypeOK
  <1>4. \A e \in Replicas, q \in RowId : phase'[e][q] # "none" => aggregateId'[q] \in Jobs
    BY <1>1, <1>3 DEF IInv, RowsHaveJobs
  <1>5. \A e \in Replicas, q \in RowId : phase'[e][q] = "marking" => q \in sent'
    BY <1>3 DEF IInv, MarkAfterSend
  <1>6. QED BY <1>1, <1>2, <1>4, <1>5

\* Abandoning a call keeps what the invariant says of abandoned calls, when
\* an abandoned marking belongs to a row that was sent.
LEMMA AbandonKeeps ==
    ASSUME IInv, NEW r \in RowId, NEW operation \in {"publish", "mark", "fail"},
           Abandon(r, operation), aggregateId[r] \in Jobs, UNCHANGED <<aggregateId, sent>>,
           operation = "mark" => r \in sent
    PROVE  /\ late' \subseteq LateCall
           /\ \A c \in late' : aggregateId'[c.row] \in Jobs
           /\ \A c \in late' : c.op = "mark" => c.row \in sent'
  <1> DEFINE call == [op |-> operation, row |-> r]
  <1>1. late' = late \cup {call} /\ call.row = r /\ call.op = operation /\ call \in LateCall
    BY DEF Abandon, LateCall
  <1>2. QED BY <1>1 DEF IInv, TypeOK, RowsHaveJobs, MarkAfterSend

LEMMA LaneStep ==
    ASSUME IInv, NEW d \in Replicas, NEW r \in RowId, Lane(d, r)
    PROVE  IInv'
  <1> USE DEF Phases
  <1>1. CASE StartDispatch(d, r)
    <2>1. Go(d, r, "claimed", "publishing") /\ UNCHANGED <<tables, sent, late>>
      BY <1>1 DEF StartDispatch
    <2>2. UNCHANGED aggregateId BY <2>1 DEF tables
    <2>3. TypeOK' BY <2>1, <2>2, LaneMoves DEF tables, IInv, TypeOK
    <2>4. RowsHaveJobs' /\ MarkAfterSend'
      BY <2>1, <2>2, LaneMoves, TablesUntouched DEF tables, IInv, RowsHaveJobs, MarkAfterSend
    <2>5. QED BY <2>1, <2>3, <2>4, TablesUntouched DEF IInv, TypeOK
  <1>2. CASE PublishOk(d, r)
    <2>1. Go(d, r, "publishing", "marking") /\ UNCHANGED <<tables, late>> /\ sent' = sent \cup {r}
      BY <1>2 DEF PublishOk, Publish
    <2>2. UNCHANGED aggregateId BY <2>1 DEF tables
    <2>3. aggregateId[r] \in Jobs BY <2>1, <2>2, LaneMoves
    <2>4. TypeOK' BY <2>1, <2>2, LaneMoves DEF tables, IInv, TypeOK
    <2>5. SubmittedHasPendingRow' /\ PublishedWasSent' /\ WorkWasRequested'
            /\ \A q \in (stored \cup sent)' : aggregateId'[q] \in Jobs
      BY <2>1, <2>3, TablesUntouched DEF IInv, TypeOK
    <2>6. RowsHaveJobs' /\ MarkAfterSend'
      BY <2>1, <2>2, <2>5, LaneMoves DEF IInv, RowsHaveJobs, MarkAfterSend
    <2>7. QED BY <2>4, <2>5, <2>6 DEF IInv
  <1>3. CASE PublishFails(d, r)
    <2>1. Go(d, r, "publishing", "failing") /\ UNCHANGED <<tables, late>> /\ sent' \in {sent, sent \cup {r}}
      BY <1>3 DEF PublishFails, Publish
    <2>2. UNCHANGED aggregateId BY <2>1 DEF tables
    <2>3. aggregateId[r] \in Jobs BY <2>1, <2>2, LaneMoves
    <2>4. TypeOK' BY <2>1, <2>2, LaneMoves DEF tables, IInv, TypeOK
    <2>5. SubmittedHasPendingRow' /\ PublishedWasSent' /\ WorkWasRequested'
            /\ \A q \in (stored \cup sent)' : aggregateId'[q] \in Jobs
      BY <2>1, <2>3, TablesUntouched DEF IInv, TypeOK
    <2>6. RowsHaveJobs' /\ MarkAfterSend'
      BY <2>1, <2>2, <2>5, LaneMoves DEF IInv, RowsHaveJobs, MarkAfterSend
    <2>7. QED BY <2>4, <2>5, <2>6 DEF IInv
  <1>4. ASSUME NEW from \in {"publishing", "marking", "failing"}, NEW to \in {"failing", "none"},
               NEW operation \in {"publish", "mark", "fail"},
               Go(d, r, from, to), Abandon(r, operation), UNCHANGED <<tables, sent>>,
               operation = "mark" => from = "marking"
        PROVE  IInv'
    <2>1. UNCHANGED <<aggregateId, sent>> BY <1>4 DEF tables
    <2>2. aggregateId[r] \in Jobs BY <1>4, <2>1, LaneMoves
    <2>3. operation = "mark" => r \in sent BY <1>4 DEF Go, IInv, MarkAfterSend
    <2>4. /\ late' \subseteq LateCall
          /\ \A c \in late' : aggregateId'[c.row] \in Jobs
          /\ \A c \in late' : c.op = "mark" => c.row \in sent'
      BY <1>4, <2>1, <2>2, <2>3, AbandonKeeps
    <2>5. TypeOK' BY <1>4, <2>1, <2>4, LaneMoves DEF tables, IInv, TypeOK
    <2>6. SubmittedHasPendingRow' /\ PublishedWasSent' /\ WorkWasRequested'
            /\ \A q \in (stored \cup sent)' : aggregateId'[q] \in Jobs
      BY <1>4, TablesUntouched DEF IInv, TypeOK
    <2>7. RowsHaveJobs' /\ MarkAfterSend'
      BY <1>4, <2>1, <2>4, <2>6, LaneMoves DEF RowsHaveJobs, MarkAfterSend
    <2>8. QED BY <2>5, <2>6, <2>7 DEF IInv
  <1>5. CASE PublishTimesOut(d, r)
    BY <1>5, <1>4 DEF PublishTimesOut
  <1>6. CASE MarkTimesOut(d, r)
    BY <1>6, <1>4 DEF MarkTimesOut
  <1>7. CASE RecordFailureTimesOut(d, r)
    BY <1>7, <1>4 DEF RecordFailureTimesOut
  <1>8. ASSUME NEW to \in {"failing", "none"}, Go(d, r, "marking", to),
               MarkJobEnqueuedAndPublished(r), UNCHANGED <<sent, late>>
        PROVE  IInv'
    <2>1. UNCHANGED <<aggregateId, stored, attempts>> BY <1>8 DEF MarkJobEnqueuedAndPublished
    <2>2. r \in sent /\ aggregateId[r] \in Jobs BY <1>8, <2>1, LaneMoves DEF Go, IInv, MarkAfterSend
    <2>3. TypeOK' BY <1>8, <2>1, <2>2, LaneMoves, EffectsTyped DEF IInv, TypeOK
    <2>4. SubmittedHasPendingRow' /\ PublishedWasSent' /\ WorkWasRequested'
            /\ \A q \in (stored \cup sent)' : aggregateId'[q] \in Jobs
      BY <1>8, <2>2, MarkKeeps
    <2>5. RowsHaveJobs' /\ MarkAfterSend'
      BY <1>8, <2>1, <2>4, LaneMoves DEF IInv, RowsHaveJobs, MarkAfterSend
    <2>6. QED BY <2>3, <2>4, <2>5 DEF IInv
  <1>9. ASSUME NEW from \in {"marking", "failing"}, NEW to \in {"failing", "none"},
               Go(d, r, from, to), UNCHANGED <<tables, sent, late>>
        PROVE  IInv'
    <2>1. UNCHANGED aggregateId BY <1>9 DEF tables
    <2>2. TypeOK' BY <1>9, <2>1, LaneMoves DEF tables, IInv, TypeOK
    <2>3. SubmittedHasPendingRow' /\ PublishedWasSent' /\ WorkWasRequested'
            /\ \A q \in (stored \cup sent)' : aggregateId'[q] \in Jobs
      BY <1>9, TablesUntouched DEF IInv, TypeOK
    <2>4. RowsHaveJobs' /\ MarkAfterSend'
      BY <1>9, <2>1, <2>3, LaneMoves DEF IInv, RowsHaveJobs, MarkAfterSend
    <2>5. QED BY <2>2, <2>3, <2>4 DEF IInv
  <1>10. CASE MarkOk(d, r)
    BY <1>10, <1>8 DEF MarkOk
  <1>11. CASE MarkFails(d, r)
    BY <1>11, <1>8, <1>9 DEF MarkFails
  <1>12. CASE RecordFailureFails(d, r)
    BY <1>12, <1>9 DEF RecordFailureFails
  <1>13. CASE RecordFailure(d, r)
    <2>1. Go(d, r, "failing", "none") /\ MarkFailed(r) /\ UNCHANGED <<sent, late>>
      BY <1>13 DEF RecordFailure
    <2>2. UNCHANGED <<status, aggregateId, stored, published>> BY <2>1 DEF MarkFailed
    <2>3. aggregateId[r] \in Jobs BY <2>1, <2>2, LaneMoves
    <2>4. TypeOK' BY <2>1, <2>2, <2>3, LaneMoves, EffectsTyped DEF IInv, TypeOK
    <2>5. SubmittedHasPendingRow' /\ PublishedWasSent' /\ WorkWasRequested'
            /\ \A q \in (stored \cup sent)' : aggregateId'[q] \in Jobs
      BY <2>1, FailKeeps
    <2>6. RowsHaveJobs' /\ MarkAfterSend'
      BY <2>1, <2>2, <2>5, LaneMoves DEF IInv, RowsHaveJobs, MarkAfterSend
    <2>7. QED BY <2>4, <2>5, <2>6 DEF IInv
  <1>14. QED
    BY <1>1, <1>2, <1>3, <1>5, <1>6, <1>7, <1>10, <1>11, <1>12, <1>13 DEF Lane

-----------------------------------------------------------------------------
(* The other steps *)

LEMMA SubmissionStep ==
    ASSUME IInv, NEW j \in Jobs, NEW r \in RowId, CreateJobSubmission(j, r)
    PROVE  IInv'
  <1>1. aggregateId[r] = NoJob /\ r \notin stored \cup sent
    <2>1. aggregateId[r] = NoJob
      BY DEF CreateJobSubmission, IsNextRow, RowId
    <2>2. QED BY <2>1, OutboxAssumption DEF IInv, RowsHaveJobs
  <1>2. \A q \in RowId : aggregateId'[q] = IF q = r THEN j ELSE aggregateId[q]
    BY DEF CreateJobSubmission, IInv, TypeOK
  <1>3. TypeOK'
    BY <1>1 DEF CreateJobSubmission, IInv, TypeOK, Status, NonTerminal
  <1>4. RowsHaveJobs' /\ MarkAfterSend' /\ PublishedWasSent'
    BY <1>2 DEF CreateJobSubmission, IInv, TypeOK, RowsHaveJobs, MarkAfterSend, PublishedWasSent, LateCall
  <1>5. SubmittedHasPendingRow'
    <2> SUFFICES ASSUME NEW k \in Jobs, status'[k] = "SUBMITTED"
                 PROVE  \E q \in stored' \ published' : aggregateId'[q] = k
      BY DEF SubmittedHasPendingRow
    <2>1. CASE k = j
      <3>1. r \in stored' \ published' /\ aggregateId'[r] = j
        BY <1>1, <1>2 DEF CreateJobSubmission, IInv, TypeOK
      <3>2. QED BY <2>1, <3>1
    <2>2. CASE k # j
      <3>1. PICK q \in stored \ published : aggregateId[q] = k
        BY <2>2 DEF CreateJobSubmission, IInv, TypeOK, SubmittedHasPendingRow
      <3>2. q \in RowId /\ q # r BY <1>1, <3>1 DEF IInv, TypeOK
      <3>3. QED BY <1>2, <3>1, <3>2 DEF CreateJobSubmission
    <2>3. QED BY <2>1, <2>2
  <1>6. WorkWasRequested'
    <2> SUFFICES ASSUME NEW k \in Jobs, status'[k] \in Status \ {"SUBMITTED", "EXPIRED"}
                 PROVE  \E q \in sent' : aggregateId'[q] = k
      BY DEF WorkWasRequested
    <2>1. k # j /\ status'[k] = status[k]
      BY DEF CreateJobSubmission, IInv, TypeOK
    <2>2. PICK q \in sent : aggregateId[q] = k
      BY <2>1 DEF IInv, WorkWasRequested
    <2>3. q \in RowId /\ q # r BY <1>1, <2>2 DEF IInv, TypeOK
    <2>4. QED BY <1>2, <2>2, <2>3 DEF CreateJobSubmission
  <1>7. QED BY <1>3, <1>4, <1>5, <1>6 DEF IInv

LEMMA PollStep ==
    ASSUME IInv, NEW d \in Replicas, ClaimBatch(d) \/ ClaimLost(d) \/ EmptyPoll(d)
    PROVE  IInv'
  <1>1. CASE ClaimBatch(d)
    <2>1. PICK S \in SUBSET Claimable :
             /\ phase' = [phase EXCEPT ![d] = [r \in RowId |-> IF r \in S THEN "claimed" ELSE "none"]]
             /\ due' = due \ S
      BY <1>1 DEF ClaimBatch
    <2>2. UNCHANGED <<status, aggregateId, stored, published, attempts, sent, late>>
      BY <1>1 DEF ClaimBatch
    <2>3. S \subseteq stored BY DEF Claimable, IInv, TypeOK
    <2>4. TypeOK' BY <2>1, <2>2 DEF IInv, TypeOK, Phases
    <2>5. \A e \in Replicas, q \in RowId :
             phase'[e][q] = IF e = d THEN (IF q \in S THEN "claimed" ELSE "none") ELSE phase[e][q]
      BY <2>1 DEF IInv, TypeOK
    <2>6. RowsHaveJobs' /\ MarkAfterSend'
      BY <2>2, <2>3, <2>5 DEF IInv, RowsHaveJobs, MarkAfterSend
    <2>7. SubmittedHasPendingRow' /\ PublishedWasSent' /\ WorkWasRequested'
      BY <2>2 DEF IInv, SubmittedHasPendingRow, PublishedWasSent, WorkWasRequested
    <2>8. QED BY <2>4, <2>6, <2>7 DEF IInv
  <1>2. CASE ClaimLost(d)
    BY <1>2 DEF ClaimLost, IInv, TypeOK, RowsHaveJobs, MarkAfterSend, SubmittedHasPendingRow,
                PublishedWasSent, WorkWasRequested
  <1>3. CASE EmptyPoll(d)
    BY <1>3 DEF EmptyPoll, vars, IInv, TypeOK, RowsHaveJobs, MarkAfterSend, SubmittedHasPendingRow,
                PublishedWasSent, WorkWasRequested
  <1>4. QED BY <1>1, <1>2, <1>3

LEMMA LateStep ==
    ASSUME IInv, NEW c \in late, LateEffect(c) \/ LateLost(c)
    PROVE  IInv'
  <1>1. /\ c.row \in RowId /\ aggregateId[c.row] \in Jobs
        /\ c.op \in {"publish", "mark", "fail"}
        /\ c.op = "mark" => c.row \in sent
    BY DEF IInv, TypeOK, LateCall, RowsHaveJobs, MarkAfterSend
  <1>2. late' = late \ {c} /\ UNCHANGED phase
    BY DEF LateEffect, LateLost
  <1>3. CASE (c.op = "publish" /\ LateEffect(c)) \/ LateLost(c)
    <2>1. UNCHANGED tables /\ sent' \in {sent, sent \cup {c.row}}
      BY <1>3 DEF LateEffect, LateLost, Publish
    <2>2. UNCHANGED aggregateId BY <2>1 DEF tables
    <2>3. TypeOK' BY <1>1, <1>2, <2>1 DEF tables, IInv, TypeOK
    <2>4. SubmittedHasPendingRow' /\ PublishedWasSent' /\ WorkWasRequested'
            /\ \A q \in (stored \cup sent)' : aggregateId'[q] \in Jobs
      BY <1>1, <2>1, TablesUntouched DEF IInv, TypeOK
    <2>5. RowsHaveJobs' /\ MarkAfterSend'
      BY <1>2, <2>1, <2>2, <2>4 DEF IInv, RowsHaveJobs, MarkAfterSend
    <2>6. QED BY <2>3, <2>4, <2>5 DEF IInv
  <1>4. CASE c.op = "mark" /\ LateEffect(c)
    <2>1. MarkJobEnqueuedAndPublished(c.row) /\ UNCHANGED sent
      BY <1>4 DEF LateEffect
    <2>2. UNCHANGED <<aggregateId, stored, attempts>> BY <2>1 DEF MarkJobEnqueuedAndPublished
    <2>3. TypeOK' BY <1>1, <1>2, <2>1, <2>2, EffectsTyped DEF IInv, TypeOK
    <2>4. SubmittedHasPendingRow' /\ PublishedWasSent' /\ WorkWasRequested'
            /\ \A q \in (stored \cup sent)' : aggregateId'[q] \in Jobs
      BY <1>1, <1>4, <2>1, MarkKeeps
    <2>5. RowsHaveJobs' /\ MarkAfterSend'
      BY <1>2, <2>1, <2>2, <2>4 DEF IInv, RowsHaveJobs, MarkAfterSend
    <2>6. QED BY <2>3, <2>4, <2>5 DEF IInv
  <1>5. CASE c.op = "fail" /\ LateEffect(c)
    <2>1. MarkFailed(c.row) /\ UNCHANGED sent
      BY <1>5 DEF LateEffect
    <2>2. UNCHANGED <<status, aggregateId, stored, published>> BY <2>1 DEF MarkFailed
    <2>3. TypeOK' BY <1>1, <1>2, <2>1, <2>2, EffectsTyped DEF IInv, TypeOK
    <2>4. SubmittedHasPendingRow' /\ PublishedWasSent' /\ WorkWasRequested'
            /\ \A q \in (stored \cup sent)' : aggregateId'[q] \in Jobs
      BY <1>1, <2>1, FailKeeps
    <2>5. RowsHaveJobs' /\ MarkAfterSend'
      BY <1>2, <2>1, <2>2, <2>4 DEF IInv, RowsHaveJobs, MarkAfterSend
    <2>6. QED BY <2>3, <2>4, <2>5 DEF IInv
  <1>6. QED BY <1>1, <1>3, <1>4, <1>5

\* A crash, the passing of time and the outbox cleanup.
LEMMA EnvironmentStep ==
    ASSUME IInv,
           \/ \E d \in Replicas : Crash(d)
           \/ \E r \in RowId : BecomeDue(r)
           \/ \E S \in SUBSET stored : DeletePublishedBefore(S)
    PROVE  IInv'
  <1>1. ASSUME NEW d \in Replicas, Crash(d) PROVE IInv'
    <2>1. UNCHANGED <<tables, sent, late>> BY <1>1 DEF Crash
    <2>2. UNCHANGED aggregateId BY <2>1 DEF tables
    <2>3. TypeOK' BY <1>1 DEF Crash, tables, IInv, TypeOK, Phases
    <2>4. \A e \in Replicas, q \in RowId : phase'[e][q] \in {"none", phase[e][q]}
      BY <1>1 DEF Crash, IInv, TypeOK
    <2>5. SubmittedHasPendingRow' /\ PublishedWasSent' /\ WorkWasRequested'
            /\ \A q \in (stored \cup sent)' : aggregateId'[q] \in Jobs
      BY <2>1, TablesUntouched DEF IInv, TypeOK
    <2>6. RowsHaveJobs' /\ MarkAfterSend'
      BY <2>1, <2>2, <2>4, <2>5 DEF IInv, RowsHaveJobs, MarkAfterSend
    <2>7. QED BY <2>3, <2>5, <2>6 DEF IInv
  <1>2. ASSUME NEW r \in RowId, BecomeDue(r) PROVE IInv'
    BY <1>2 DEF BecomeDue, IInv, TypeOK, RowsHaveJobs, MarkAfterSend, SubmittedHasPendingRow,
                PublishedWasSent, WorkWasRequested
  <1>3. ASSUME NEW S \in SUBSET stored, DeletePublishedBefore(S) PROVE IInv'
    <2>1. S \subseteq published /\ stored' = stored \ S /\ published' = published \ S
      BY <1>3 DEF DeletePublishedBefore
    <2>2. UNCHANGED <<status, aggregateId, due, attempts, sent, phase, late>>
      BY <1>3 DEF DeletePublishedBefore
    <2>3. TypeOK' BY <2>1, <2>2 DEF IInv, TypeOK
    <2>4. RowsHaveJobs' /\ MarkAfterSend' /\ PublishedWasSent' /\ WorkWasRequested'
      BY <2>1, <2>2 DEF IInv, RowsHaveJobs, MarkAfterSend, PublishedWasSent, WorkWasRequested
    <2>5. SubmittedHasPendingRow'
      BY <2>1, <2>2 DEF IInv, SubmittedHasPendingRow
    <2>6. QED BY <2>3, <2>4, <2>5 DEF IInv
  <1>4. QED BY <1>1, <1>2, <1>3

\* The other writers of the job rows: the scraper's reports and the cleanup.
LEMMA JobRowStep ==
    ASSUME IInv, NEW j \in Jobs,
           \/ \E s \in {"PROCESSING", "COMPLETED", "FAILED"} : WorkerReports(j, s)
           \/ ExpireJob(j)
           \/ DeleteJob(j)
    PROVE  IInv'
  <1>1. UNCHANGED <<aggregateId, stored, published, due, attempts, sent, phase, late>>
    BY DEF WorkerReports, ExpireJob, DeleteJob
  <1>2. \A k \in Jobs \ {j} : status'[k] = status[k]
    BY DEF WorkerReports, ExpireJob, DeleteJob, IInv, TypeOK
  <1> DEFINE Goal == /\ status' \in [Jobs -> Status \cup {Absent}]
                     /\ status'[j] # "SUBMITTED"
                     /\ status'[j] \in Status \ {"EXPIRED"} => \E r \in sent : aggregateId[r] = j
  <1>3. Goal
    <2>1. ASSUME NEW s \in {"PROCESSING", "COMPLETED", "FAILED"}, WorkerReports(j, s)
          PROVE  Goal
      <3>1. UpdatedStatus(status[j], s) \in {status[j], s}
        BY UpdateSetsOrKeeps
      <3>2. status' = [status EXCEPT ![j] = s]
        BY <2>1, <3>1 DEF WorkerReports, IInv, TypeOK
      <3>3. QED BY <2>1, <3>2 DEF WorkerReports, IInv, TypeOK, Status, NonTerminal, Terminal
    <2>2. ASSUME ExpireJob(j) PROVE Goal
      <3>1. status' = [status EXCEPT ![j] = "EXPIRED"]
        BY <2>2, ExpiryRespectsFinished DEF ExpireJob, IInv, TypeOK
      <3>2. QED BY <3>1 DEF IInv, TypeOK, Status, Terminal
    <2>3. ASSUME DeleteJob(j) PROVE Goal
      BY <2>3 DEF DeleteJob, IInv, TypeOK, Absent, Status, Terminal, NonTerminal
    <2>4. QED BY <2>1, <2>2, <2>3
  <1>4. TypeOK' BY <1>1, <1>3 DEF IInv, TypeOK
  <1>5. RowsHaveJobs' /\ MarkAfterSend' /\ PublishedWasSent'
    BY <1>1 DEF IInv, RowsHaveJobs, MarkAfterSend, PublishedWasSent
  <1>6. SubmittedHasPendingRow'
    BY <1>1, <1>2, <1>3 DEF IInv, SubmittedHasPendingRow
  <1>7. WorkWasRequested'
    BY <1>1, <1>2, <1>3 DEF IInv, WorkWasRequested
  <1>8. QED BY <1>4, <1>5, <1>6, <1>7 DEF IInv

-----------------------------------------------------------------------------
(* The theorems *)

\* No step of the system leaves the inductive invariant.
THEOREM StepInvariant == IInv /\ [Next]_vars => IInv'
  <1> SUFFICES ASSUME IInv, [Next]_vars PROVE IInv'
    OBVIOUS
  <1>1. CASE Next
    BY <1>1, SubmissionStep, PollStep, LaneStep, LateStep, EnvironmentStep, JobRowStep DEF Next
  <1>2. CASE UNCHANGED vars
    BY <1>2 DEF vars, IInv, TypeOK, RowsHaveJobs, MarkAfterSend, SubmittedHasPendingRow,
                PublishedWasSent, WorkWasRequested
  <1>3. QED BY <1>1, <1>2

THEOREM Invariance == Spec => []IInv
  BY InitInvariant, StepInvariant, PTL DEF Spec

\* The state of the outbox always has the types of the model.
THEOREM TypeCorrect == Spec => []TypeOK
  <1>1. IInv => TypeOK BY DEF IInv
  <1>2. QED BY <1>1, Invariance, PTL

\* No accepted submission is ever lost by the outbox.
THEOREM NoLostSubmission == Spec => []SubmittedHasPendingRow
  <1>1. IInv => SubmittedHasPendingRow BY DEF IInv
  <1>2. QED BY <1>1, Invariance, PTL

\* Nothing is marked published that the broker does not have.
THEOREM PublishBeforeMark == Spec => []PublishedWasSent
  <1>1. IInv => PublishedWasSent BY DEF IInv
  <1>2. QED BY <1>1, Invariance, PTL

\* The outbox cleanup only drops rows the broker has seen.
THEOREM CleanupDropsNoWork == Spec => OnlySentRowsAreDropped
  <1>1. IInv /\ [Next]_vars => [stored \ stored' \subseteq sent]_vars
    <2> SUFFICES ASSUME IInv, Next PROVE stored \ stored' \subseteq sent
      OBVIOUS
    <2>1. ASSUME NEW S \in SUBSET stored, DeletePublishedBefore(S)
          PROVE  stored \ stored' \subseteq sent
      BY <2>1 DEF DeletePublishedBefore, IInv, PublishedWasSent
    <2>2. CASE \E d \in Replicas, r \in RowId : Lane(d, r)
      BY <2>2 DEF Lane, StartDispatch, PublishOk, PublishFails, PublishTimesOut, MarkOk, MarkFails,
         MarkTimesOut, RecordFailure, RecordFailureFails, RecordFailureTimesOut, tables,
         MarkJobEnqueuedAndPublished, MarkFailed
    <2>3. CASE \E c \in late : LateEffect(c) \/ LateLost(c)
      BY <2>3 DEF LateEffect, LateLost, tables, MarkJobEnqueuedAndPublished, MarkFailed
    <2>4. CASE \/ \E j \in Jobs, r \in RowId : CreateJobSubmission(j, r)
               \/ \E d \in Replicas : ClaimBatch(d) \/ ClaimLost(d) \/ EmptyPoll(d)
               \/ \E d \in Replicas : Crash(d)
               \/ \E r \in RowId : BecomeDue(r)
      BY <2>4 DEF CreateJobSubmission, ClaimBatch, ClaimLost, EmptyPoll, vars, Crash, tables, BecomeDue
    <2>5. CASE \/ \E j \in Jobs : \E s \in {"PROCESSING", "COMPLETED", "FAILED"} : WorkerReports(j, s)
               \/ \E j \in Jobs : ExpireJob(j)
               \/ \E j \in Jobs : DeleteJob(j)
      BY <2>5 DEF WorkerReports, ExpireJob, DeleteJob
    <2>6. QED BY <2>1, <2>2, <2>3, <2>4, <2>5 DEF Next
  <1>2. QED BY <1>1, Invariance, PTL DEF Spec, OnlySentRowsAreDropped

-----------------------------------------------------------------------------
(* SubmissionOutbox implements JobLifecycle *)

LifecycleStep == Lifecycle!Next \/ UNCHANGED <<status, Requested>>

\* Handing a row's message to the broker is a Request of its job, or nothing.
LEMMA PublishImplements ==
    ASSUME NEW r \in RowId, aggregateId[r] \in Jobs, UNCHANGED <<status, aggregateId>>,
           sent' \in {sent, sent \cup {r}}
    PROVE  LifecycleStep
  <1>1. CASE sent' = sent
    BY <1>1 DEF LifecycleStep, Requested
  <1>2. CASE sent' = sent \cup {r}
    <2>1. Requested' = Requested \cup {aggregateId[r]}
      BY <1>2 DEF Requested
    <2>2. Lifecycle!Request(aggregateId[r])
      BY <2>1 DEF Lifecycle!Request
    <2>3. QED BY <2>2 DEF LifecycleStep, Lifecycle!Next
  <1>3. QED BY <1>1, <1>2

\* The marking transaction enqueues a SUBMITTED job, or changes no status.
LEMMA MarkImplements ==
    ASSUME IInv, NEW r \in sent, MarkJobEnqueuedAndPublished(r), UNCHANGED sent
    PROVE  LifecycleStep
  <1> DEFINE j == aggregateId[r]
  <1>1. j \in Jobs /\ j \in Requested /\ Requested' = Requested
    BY DEF IInv, RowsHaveJobs, Requested, MarkJobEnqueuedAndPublished
  <1>2. CASE status[j] = "SUBMITTED"
    <2>1. status' = [status EXCEPT ![j] = "ENQUEUED"]
      BY <1>1, <1>2, EnqueueMovesSubmittedOnly DEF MarkJobEnqueuedAndPublished, IInv, TypeOK
    <2>2. Lifecycle!Enqueue(j)
      BY <1>1, <1>2, <2>1 DEF Lifecycle!Enqueue, Lifecycle!Move
    <2>3. QED BY <1>1, <2>2 DEF LifecycleStep, Lifecycle!Next
  <1>3. CASE status[j] # "SUBMITTED"
    <2>1. status' = status
      BY <1>1, <1>3, EnqueueMovesSubmittedOnly DEF MarkJobEnqueuedAndPublished, IInv, TypeOK
    <2>2. QED BY <1>1, <2>1 DEF LifecycleStep
  <1>4. QED BY <1>2, <1>3

\* A worker's report on a message it was handed starts or finishes a job that
\* is still unfinished.
LEMMA ReportImplements ==
    ASSUME IInv, NEW j \in Jobs, NEW s \in {"PROCESSING", "COMPLETED", "FAILED"}, WorkerReports(j, s)
    PROVE  LifecycleStep
  <1>1. j \in Requested /\ Requested' = Requested
    BY DEF WorkerReports, Requested
  <1>2. status' = [status EXCEPT ![j] = s] /\ status[j] # s /\ StatusGuard(status[j], s)
    BY DEF WorkerReports, UpdatedStatus, IInv, TypeOK
  <1>3. CASE s = "PROCESSING"
    <2>1. Lifecycle!Process(j)
      BY <1>1, <1>2, <1>3 DEF StatusGuard, Terminal, Lifecycle!Process, Lifecycle!Move
    <2>2. QED BY <2>1 DEF LifecycleStep, Lifecycle!Next
  <1>4. CASE s \in {"COMPLETED", "FAILED"}
    <2>1. Lifecycle!Finish(j, s)
      BY <1>1, <1>2, <1>4 DEF StatusGuard, NonTerminal, Lifecycle!Finish, Lifecycle!Move
    <2>2. QED BY <1>4, <2>1 DEF LifecycleStep, Lifecycle!Next
  <1>5. QED BY <1>3, <1>4

LEMMA InitImplements == Init => Lifecycle!Init
  BY DEF Init, Lifecycle!Init, Requested, Absent

LEMMA StepImplements == IInv /\ [Next]_vars => [Lifecycle!Next]_(Lifecycle!jobVars)
  <1> SUFFICES ASSUME IInv, [Next]_vars PROVE LifecycleStep
    BY DEF LifecycleStep, Lifecycle!jobVars
  <1>1. ASSUME NEW j \in Jobs, NEW r \in RowId, CreateJobSubmission(j, r) PROVE LifecycleStep
    <2>1. aggregateId[r] = NoJob
      BY <1>1 DEF CreateJobSubmission, IsNextRow, RowId
    <2>2. r \notin sent /\ sent \subseteq RowId
      BY <2>1, OutboxAssumption DEF IInv, TypeOK, RowsHaveJobs
    <2>3. \A q \in sent : aggregateId'[q] = aggregateId[q]
      BY <1>1, <2>2 DEF CreateJobSubmission, IInv, TypeOK
    <2>4. Requested' = Requested
      BY <1>1, <2>3 DEF CreateJobSubmission, Requested
    <2>5. Lifecycle!Submit(j)
      BY <1>1, <2>4 DEF CreateJobSubmission, Lifecycle!Submit, Lifecycle!Move, Absent
    <2>6. QED BY <2>5 DEF LifecycleStep, Lifecycle!Next
  <1>2. ASSUME UNCHANGED <<status, aggregateId, sent>> PROVE LifecycleStep
    BY <1>2 DEF LifecycleStep, Requested
  <1>3. ASSUME NEW d \in Replicas, NEW r \in RowId, Lane(d, r) PROVE LifecycleStep
    <2>1. CASE PublishOk(d, r) \/ PublishFails(d, r)
      <3>1. phase[d][r] = "publishing" /\ UNCHANGED <<status, aggregateId>>
              /\ sent' \in {sent, sent \cup {r}}
        BY <2>1 DEF PublishOk, PublishFails, Go, Publish, tables
      <3>2. aggregateId[r] \in Jobs
        BY <3>1 DEF IInv, RowsHaveJobs
      <3>3. QED BY <3>1, <3>2, PublishImplements
    <2>2. CASE MarkOk(d, r) \/ MarkFails(d, r)
      <3>1. r \in sent /\ UNCHANGED sent
        BY <2>2 DEF MarkOk, MarkFails, Go, IInv, MarkAfterSend
      <3>2. MarkJobEnqueuedAndPublished(r) \/ UNCHANGED tables
        BY <2>2 DEF MarkOk, MarkFails
      <3>3. QED BY <1>2, <3>1, <3>2, MarkImplements DEF tables
    <2>3. CASE \/ StartDispatch(d, r) \/ PublishTimesOut(d, r) \/ MarkTimesOut(d, r)
               \/ RecordFailure(d, r) \/ RecordFailureFails(d, r) \/ RecordFailureTimesOut(d, r)
      BY <1>2, <2>3 DEF StartDispatch, PublishTimesOut, MarkTimesOut, RecordFailure,
         RecordFailureFails, RecordFailureTimesOut, MarkFailed, tables
    <2>4. QED BY <1>3, <2>1, <2>2, <2>3 DEF Lane
  <1>4. ASSUME NEW c \in late, LateEffect(c) \/ LateLost(c) PROVE LifecycleStep
    <2>1. c.row \in RowId /\ aggregateId[c.row] \in Jobs
      BY DEF IInv, TypeOK, LateCall, RowsHaveJobs
    <2>2. CASE c.op = "publish" /\ Publish(c.row) /\ UNCHANGED tables
      BY <2>1, <2>2, PublishImplements DEF Publish, tables
    <2>3. CASE c.op = "mark" /\ MarkJobEnqueuedAndPublished(c.row) /\ UNCHANGED sent
      BY <2>3, MarkImplements DEF IInv, MarkAfterSend
    <2>4. CASE \/ MarkFailed(c.row) /\ UNCHANGED sent
               \/ LateLost(c)
      BY <1>2, <2>4 DEF MarkFailed, LateLost, tables
    <2>5. QED BY <1>4, <2>2, <2>3, <2>4 DEF LateEffect
  <1>5. ASSUME NEW j \in Jobs, ExpireJob(j) PROVE LifecycleStep
    <2>1. status[j] \in NonTerminal /\ status' = [status EXCEPT ![j] = "EXPIRED"] /\ Requested' = Requested
      BY <1>5, ExpiryRespectsFinished DEF ExpireJob, IInv, TypeOK, Requested
    <2>2. Lifecycle!Expire(j)
      BY <2>1 DEF NonTerminal, Lifecycle!Expire, Lifecycle!Move
    <2>3. QED BY <2>2 DEF LifecycleStep, Lifecycle!Next
  <1>6. ASSUME NEW j \in Jobs, DeleteJob(j) PROVE LifecycleStep
    <2>1. Lifecycle!Delete(j)
      BY <1>6 DEF DeleteJob, Requested, Terminal, Absent, Lifecycle!Delete, Lifecycle!Move,
                  Lifecycle!Finished
    <2>2. QED BY <2>1 DEF LifecycleStep, Lifecycle!Next
  <1>7. CASE \/ \E d \in Replicas : ClaimBatch(d) \/ ClaimLost(d) \/ EmptyPoll(d) \/ Crash(d)
             \/ \E r \in RowId : BecomeDue(r)
             \/ \E S \in SUBSET stored : DeletePublishedBefore(S)
             \/ UNCHANGED vars
    BY <1>2, <1>7 DEF ClaimBatch, ClaimLost, EmptyPoll, Crash, BecomeDue, DeletePublishedBefore,
       tables, vars
  <1>8. QED BY <1>1, <1>3, <1>4, <1>5, <1>6, <1>7, ReportImplements DEF Next

\* Whatever dispatchers, crashes, late calls, workers and cleanups do, the
\* job table follows the lifecycle: the refinement the run checks, for every
\* instance.
THEOREM ImplementsLifecycle == Spec => LifecycleImplemented
  BY InitImplements, StepImplements, Invariance, PTL DEF Spec, LifecycleImplemented, Lifecycle!Spec
=============================================================================
