------------------------ MODULE ScrapePipelineProofs ------------------------
(***************************************************************************)
(* Proofs about ScrapePipeline and the promise of its queues, for any      *)
(* jobs, handlers, attempts on either queue and number of publishes.       *)
(***************************************************************************)
EXTENDS PipelineQueues, TLAPS

\* The part of TypeOK that a handler and its queue can disturb.
QueueTypes ==
    /\ message \in [Jobs -> 0..(MaxAttempts - 1) \cup {None}]
    /\ holder \in [Jobs -> Workers \cup {None}]
    /\ retries \subseteq Jobs \X (0..(MaxAttempts - 1))
    /\ deadLetters \subseteq Jobs
    /\ pc \in [Workers -> Stages]
    /\ job \in [Workers -> Jobs \cup {None}]
    /\ attempt \in [Workers -> 0..(MaxAttempts - 1)]

\* What any step of w does to the job queue: it can take its own message out
\* and adds retries of its own job only.
OnlyItsOwn(w) ==
    /\ \A v \in Workers \ {w} : /\ pc'[v] = pc[v]
                                /\ job'[v] = job[v]
                                /\ attempt'[v] = attempt[v]
    /\ job'[w] \in {job[w], None}
    /\ retries \subseteq retries'
    /\ \A r \in retries' : r \in retries \/ r[1] = job[w]
    /\ deadLetters \subseteq deadLetters'
    /\ \A j \in Jobs : message'[j] \in {message[j], None}
    /\ \A j \in Jobs \ {job[w]} : message'[j] = message[j]

\* When w takes its message out, a retry, a dead letter or an outcome is left.
Accounted(w) ==
    \/ message'[job[w]] = message[job[w]]
    \/ job[w] \in deadLetters'
    \/ \E n \in 0..(MaxAttempts - 1) : <<job[w], n>> \in retries'
    \/ \E u \in updates' : u.job = job[w] /\ u.to \in Outcomes

-----------------------------------------------------------------------------
(* The initial state *)

THEOREM PipelineInit == Init => IInv
  <1> SUFFICES ASSUME Init PROVE IInv
    OBVIOUS
  <1>1. TypeOK
    BY PipelineAssumption DEF Init, TypeOK, Status, NonTerminal, Absent, Stages
  <1>2. Requested = {}
    BY DEF Init, Requested
  <1>3. HandlersHold
    BY DEF Init, HandlersHold
  <1>4. ReportsAreTrue
    BY DEF Init, ReportsAreTrue
  <1>5. RowsAreRequested /\ ResultIsStored /\ NoSilentLoss
    BY <1>2 DEF Init, RowsAreRequested, ResultIsStored, NoSilentLoss, Absent, Status, NonTerminal, Terminal
  <1>6. QED BY <1>1, <1>3, <1>4, <1>5 DEF IInv

-----------------------------------------------------------------------------
(* The end of a run and the step to the next stage *)

\* A worker that is not idle has a job.
LEMMA BusyHasJob ==
    ASSUME IInv, NEW w \in Workers, pc[w] # "idle"
    PROVE  job[w] \in Jobs
  BY DEF IInv, TypeOK, HandlersHold

\* A worker that becomes idle leaves HandlersHold intact if it gives up the
\* message it holds, whether or not that stays in the queue.
LEMMA IdleKeepsHold ==
    ASSUME IInv, NEW w \in Workers, pc[w] # "idle", Idle(w),
           NEW gone \in BOOLEAN,
           holder' = IF Holds(w) THEN [holder EXCEPT ![job[w]] = None] ELSE holder,
           message' = IF Holds(w) /\ gone THEN [message EXCEPT ![job[w]] = None] ELSE message
    PROVE  /\ HandlersHold'
           /\ holder' \in [Jobs -> Workers \cup {None}]
           /\ message' \in [Jobs -> 0..(MaxAttempts - 1) \cup {None}]
           /\ pc' \in [Workers -> Stages]
           /\ job' \in [Workers -> Jobs \cup {None}]
           /\ attempt' \in [Workers -> 0..(MaxAttempts - 1)]
  <1>1. job[w] \in Jobs
    BY BusyHasJob
  <1>2. /\ holder' \in [Jobs -> Workers \cup {None}]
        /\ message' \in [Jobs -> 0..(MaxAttempts - 1) \cup {None}]
    BY DEF IInv, TypeOK
  <1>3. /\ pc' \in [Workers -> Stages]
        /\ job' \in [Workers -> Jobs \cup {None}]
        /\ attempt' \in [Workers -> 0..(MaxAttempts - 1)]
    BY PipelineAssumption DEF IInv, TypeOK, Idle, Stages
  <1>4. \A v \in Workers : /\ pc'[v] = IF v = w THEN "idle" ELSE pc[v]
                           /\ job'[v] = IF v = w THEN None ELSE job[v]
    BY DEF IInv, TypeOK, Idle
  <1>5. \A j \in Jobs : holder'[j] # None =>
          /\ holder[j] # None /\ holder'[j] = holder[j]
          /\ message'[j] = message[j]
          /\ holder[j] # w
    BY <1>1 DEF IInv, TypeOK, HandlersHold, Holds
  <1>6. \A j \in Jobs : holder'[j] # None => message'[j] # None /\ job'[holder'[j]] = j
    BY <1>4, <1>5 DEF IInv, TypeOK, HandlersHold
  <1>7. \A v \in Workers : pc'[v] = "idle" <=> job'[v] = None
    BY <1>4 DEF IInv, HandlersHold
  <1>8. QED BY <1>2, <1>3, <1>6, <1>7 DEF HandlersHold

\* Returns, Throws and LosesFrames: the queue stays well formed, and w only
\* touches what is its own.
LEMMA RunEnd ==
    ASSUME IInv, NEW w \in Workers, pc[w] # "idle",
           NEW d \in BOOLEAN, Returns(w) \/ Throws(w, d) \/ LosesFrames(w)
    PROVE  QueueTypes' /\ HandlersHold' /\ OnlyItsOwn(w) /\ Idle(w)
  <1>1. job[w] \in Jobs
    BY BusyHasJob
  <1>2. Idle(w)
    BY DEF Returns, Throws, LosesFrames
  <1>3. PICK gone \in BOOLEAN :
          /\ holder' = IF Holds(w) THEN [holder EXCEPT ![job[w]] = None] ELSE holder
          /\ message' = IF Holds(w) /\ gone THEN [message EXCEPT ![job[w]] = None] ELSE message
    BY DEF Returns, Throws, LosesFrames, Leaves, GoesBack
  <1>4. /\ HandlersHold'
        /\ holder' \in [Jobs -> Workers \cup {None}]
        /\ message' \in [Jobs -> 0..(MaxAttempts - 1) \cup {None}]
        /\ pc' \in [Workers -> Stages]
        /\ job' \in [Workers -> Jobs \cup {None}]
        /\ attempt' \in [Workers -> 0..(MaxAttempts - 1)]
    BY <1>2, <1>3, IdleKeepsHold
  <1>5. attempt[w] \in 0..(MaxAttempts - 1)
    BY DEF IInv, TypeOK
  <1>6. ~IsLast(w) => NextAttempt(w) \in 0..(MaxAttempts - 1)
    BY <1>5, PipelineAssumption DEF IsLast, NextAttempt
  <1>7. \/ retries' = retries
        \/ ~IsLast(w) /\ retries' = retries \cup {<<job[w], NextAttempt(w)>>}
    BY DEF Returns, Throws, LosesFrames
  <1>8. deadLetters' \in {deadLetters, deadLetters \cup {job[w]}}
    BY DEF Returns, Throws, LosesFrames, DeadLettered
  <1>9. /\ retries' \subseteq Jobs \X (0..(MaxAttempts - 1))
        /\ deadLetters' \subseteq Jobs
    BY <1>1, <1>6, <1>7, <1>8 DEF IInv, TypeOK
  <1>10. QueueTypes'
    BY <1>4, <1>9 DEF QueueTypes
  <1>11. /\ \A j \in Jobs : message'[j] \in {message[j], None}
         /\ \A j \in Jobs \ {job[w]} : message'[j] = message[j]
    BY <1>1, <1>3 DEF IInv, TypeOK
  <1>12. /\ \A v \in Workers \ {w} : /\ pc'[v] = pc[v]
                                     /\ job'[v] = job[v]
                                     /\ attempt'[v] = attempt[v]
         /\ job'[w] = None
    BY <1>2 DEF Idle, IInv, TypeOK
  <1>13. /\ retries \subseteq retries'
         /\ \A r \in retries' : r \in retries \/ r[1] = job[w]
    BY <1>7
  <1>14. OnlyItsOwn(w)
    BY <1>8, <1>11, <1>12, <1>13 DEF OnlyItsOwn
  <1>15. QED BY <1>2, <1>4, <1>10, <1>14

\* A run that throws, or whose frames are lost, accounts for its message, if
\* an exhausted one is dead-lettered.
LEMMA ThrowAccounts ==
    ASSUME IInv, NEW w \in Workers, pc[w] # "idle", NEW d \in BOOLEAN,
           Throws(w, d) \/ LosesFrames(w), d \/ ~IsLast(w)
    PROVE  Accounted(w)
  <1>1. attempt[w] \in 0..(MaxAttempts - 1)
    BY DEF IInv, TypeOK
  <1>2. ~IsLast(w) => NextAttempt(w) \in 0..(MaxAttempts - 1)
    BY <1>1, PipelineAssumption DEF IsLast, NextAttempt
  <1>3. CASE message' = message
    BY <1>3 DEF Accounted
  <1>4. CASE Holds(w) /\ IsLast(w) /\ deadLetters' = deadLetters \cup DeadLettered(d, job[w])
    BY <1>4 DEF Accounted, DeadLettered
  <1>5. CASE ~IsLast(w) /\ retries' = retries \cup {<<job[w], NextAttempt(w)>>}
    BY <1>2, <1>5 DEF Accounted
  <1>6. QED BY <1>3, <1>4, <1>5 DEF Throws, LosesFrames, GoesBack

\* GoOn: a step to another stage leaves the queue alone.
LEMMA StageChange ==
    ASSUME IInv, NEW w \in Workers, pc[w] # "idle",
           NEW stage \in Stages \ {"idle"}, GoOn(w, stage)
    PROVE  QueueTypes' /\ HandlersHold' /\ OnlyItsOwn(w) /\ Accounted(w)
  <1>1. \A v \in Workers : pc'[v] = IF v = w THEN stage ELSE pc[v]
    BY DEF GoOn, IInv, TypeOK
  <1>2. QueueTypes'
    BY DEF GoOn, IInv, TypeOK, QueueTypes
  <1>3. HandlersHold'
    BY <1>1 DEF GoOn, IInv, HandlersHold
  <1>4. OnlyItsOwn(w)
    BY <1>1 DEF GoOn, OnlyItsOwn
  <1>5. QED BY <1>2, <1>3, <1>4 DEF GoOn, Accounted

-----------------------------------------------------------------------------
(* The steps of a handler *)

\* What a step of a handler must do to keep the invariant.
LEMMA HandlerKeeps ==
    ASSUME IInv, NEW w \in Workers, job[w] \in Jobs,
           QueueTypes', HandlersHold', OnlyItsOwn(w), Accounted(w),
           UNCHANGED <<status, published, dropped>>,
           objects \subseteq objects', objects' \subseteq Jobs,
           updates \subseteq updates',
           \A u \in updates' : \/ u \in updates
                               \/ /\ u \in AllUpdates
                                  /\ u.job = job[w]
                                  /\ u.to = "COMPLETED" => job[w] \in objects',
           pc'[w] = "completing" => job'[w] = job[w] /\ job[w] \in objects',
           pc'[w] = "failing" => attempt'[w] + 1 >= MaxAttempts
    PROVE  IInv'
  <1>1. TypeOK'
    <2>1. updates' \subseteq AllUpdates
      BY DEF IInv, TypeOK
    <2>2. QED BY <2>1 DEF IInv, TypeOK, QueueTypes
  <1>2. Requested' = Requested /\ job[w] \in Requested
    <2>1. job[w] # None
      BY PipelineAssumption
    <2>2. QED BY <2>1 DEF Requested, IInv, ReportsAreTrue
  <1>3. ReportsAreTrue'
    <2>1. \A v \in Workers : /\ job'[v] # None => job'[v] \in Requested'
                             /\ pc'[v] = "completing" => job'[v] \in objects'
                             /\ pc'[v] = "failing" => IsLast(v)'
      BY <1>2 DEF IInv, ReportsAreTrue, OnlyItsOwn, IsLast
    <2>2. \A j \in Jobs : message'[j] # None => j \in Requested'
      BY <1>2 DEF IInv, ReportsAreTrue, OnlyItsOwn
    <2>3. \A r \in retries' : r[1] \in Requested'
      BY <1>2 DEF IInv, ReportsAreTrue, OnlyItsOwn
    <2>4. \A u \in updates' : /\ u.job \in Requested'
                              /\ u.to = "COMPLETED" => u.job \in objects'
      BY <1>2 DEF IInv, ReportsAreTrue
    <2>5. QED BY <2>1, <2>2, <2>3, <2>4 DEF ReportsAreTrue
  <1>4. RowsAreRequested' /\ ResultIsStored'
    BY <1>2 DEF IInv, RowsAreRequested, ResultIsStored
  <1>5. NoSilentLoss'
    <2> SUFFICES ASSUME NEW j \in Requested PROVE UnderWay(j)' \/ Over(j)'
      BY <1>2 DEF NoSilentLoss
    <2>1. j \in Jobs
      BY DEF Requested
    <2>2. UnderWay(j) \/ Over(j)
      BY DEF IInv, NoSilentLoss
    <2>3. CASE message[j] # None
      <3>1. CASE message'[j] = message[j]
        BY <2>3, <3>1 DEF UnderWay
      <3>2. CASE message'[j] # message[j]
        <4>1. j = job[w]
          BY <2>1, <3>2 DEF OnlyItsOwn
        <4>2. QED BY <3>2, <4>1 DEF Accounted, UnderWay, Over
      <3>3. QED BY <3>1, <3>2
    <2>4. CASE Over(j)
      BY <2>4 DEF Over, OnlyItsOwn
    <2>5. CASE \E n \in 0..(MaxAttempts - 1) : <<j, n>> \in retries
      BY <2>5 DEF UnderWay, OnlyItsOwn
    <2>6. CASE \E u \in updates : u.job = j /\ u.to \in Outcomes
      BY <2>6 DEF UnderWay
    <2>7. QED BY <2>2, <2>3, <2>4, <2>5, <2>6 DEF UnderWay
  <1>6. QED BY <1>1, <1>3, <1>4, <1>5 DEF IInv

\* A report of a handler is of its own job.
LEMMA SendAdds ==
    ASSUME IInv, NEW w \in Workers, job[w] \in Jobs, NEW s \in Reports,
           Sent(w, s) \/ UNCHANGED updates
    PROVE  /\ updates \subseteq updates'
           /\ \A u \in updates' : \/ u \in updates
                                  \/ u \in AllUpdates /\ u.job = job[w] /\ u.to = s
  <1>1. /\ Update(w, s) \in AllUpdates
        /\ Update(w, s).job = job[w] /\ Update(w, s).to = s
    BY PipelineAssumption DEF Update, AllUpdates
  <1>2. QED BY <1>1 DEF Sent

\* The idle worker is neither completing nor failing.
LEMMA IdleStage ==
    ASSUME IInv, NEW w \in Workers, Idle(w)
    PROVE  pc'[w] = "idle"
  BY DEF Idle, IInv, TypeOK

LEMMA AnnounceKeeps ==
    ASSUME IInv, NEW w \in Workers, Announce(w)
    PROVE  IInv'
  <1>1. pc[w] = "announcing" /\ pc[w] # "idle" /\ job[w] \in Jobs
    BY BusyHasJob DEF Announce
  <1>2. UNCHANGED <<status, published, dropped, objects>>
    BY DEF Announce
  <1>3. /\ updates \subseteq updates'
        /\ \A u \in updates' : \/ u \in updates
                               \/ u \in AllUpdates /\ u.job = job[w] /\ u.to = "PROCESSING"
    <2>1. Sent(w, "PROCESSING") \/ UNCHANGED updates
      BY DEF Announce, SendRejected
    <2>2. "PROCESSING" \in Reports
      BY DEF Reports
    <2>3. QED BY <1>1, <2>1, <2>2, SendAdds
  <1>4. CASE GoOn(w, "fetching")
    <2>1. "fetching" \in Stages \ {"idle"}
      BY DEF Stages
    <2>2. QueueTypes' /\ HandlersHold' /\ OnlyItsOwn(w) /\ Accounted(w)
      BY <1>1, <1>4, <2>1, StageChange
    <2>3. pc'[w] = "fetching"
      BY <1>4 DEF GoOn, IInv, TypeOK
    <2>4. QED BY <1>1, <1>2, <1>3, <2>2, <2>3, HandlerKeeps DEF IInv, TypeOK
  <1>5. CASE Throws(w, TRUE) \/ LosesFrames(w)
    <2>1. QueueTypes' /\ HandlersHold' /\ OnlyItsOwn(w) /\ Idle(w)
      BY <1>1, <1>5, RunEnd
    <2>2. Accounted(w)
      BY <1>1, <1>5, ThrowAccounts
    <2>3. pc'[w] = "idle"
      BY <2>1, IdleStage
    <2>4. QED BY <1>1, <1>2, <1>3, <2>1, <2>2, <2>3, HandlerKeeps DEF IInv, TypeOK
  <1>6. QED BY <1>4, <1>5 DEF Announce

\* The catch block of an error of fetchHtml or putText: on to FAILED, or a
\* retry.
LEMMA FailedKeeps ==
    ASSUME IInv, NEW w \in Workers, pc[w] # "idle", Failed(w),
           UNCHANGED <<status, published, dropped, updates>>,
           objects \subseteq objects', objects' \subseteq Jobs
    PROVE  IInv'
  <1>1. job[w] \in Jobs
    BY BusyHasJob
  <1>2. CASE IsLast(w) /\ GoOn(w, "failing")
    <2>1. "failing" \in Stages \ {"idle"}
      BY DEF Stages
    <2>2. QueueTypes' /\ HandlersHold' /\ OnlyItsOwn(w) /\ Accounted(w)
      BY <1>2, <2>1, StageChange
    <2>3. pc'[w] = "failing" /\ attempt'[w] + 1 >= MaxAttempts
      BY <1>2 DEF GoOn, IsLast, IInv, TypeOK
    <2>4. QED BY <1>1, <2>2, <2>3, HandlerKeeps
  <1>3. CASE ~IsLast(w) /\ (Throws(w, FALSE) \/ LosesFrames(w))
    <2>1. QueueTypes' /\ HandlersHold' /\ OnlyItsOwn(w) /\ Idle(w)
      BY <1>3, RunEnd
    <2>2. Accounted(w)
      BY <1>3, ThrowAccounts
    <2>3. pc'[w] = "idle"
      BY <2>1, IdleStage
    <2>4. QED BY <1>1, <2>1, <2>2, <2>3, HandlerKeeps
  <1>4. QED BY <1>2, <1>3 DEF Failed

LEMMA FetchKeeps ==
    ASSUME IInv, NEW w \in Workers, Fetch(w)
    PROVE  IInv'
  <1>1. pc[w] = "fetching" /\ pc[w] # "idle" /\ job[w] \in Jobs
    BY BusyHasJob DEF Fetch
  <1>2. UNCHANGED <<status, published, dropped, objects, updates>>
    BY DEF Fetch
  <1>3. CASE GoOn(w, "storing")
    <2>1. "storing" \in Stages \ {"idle"}
      BY DEF Stages
    <2>2. QueueTypes' /\ HandlersHold' /\ OnlyItsOwn(w) /\ Accounted(w)
      BY <1>1, <1>3, <2>1, StageChange
    <2>3. pc'[w] = "storing"
      BY <1>3 DEF GoOn, IInv, TypeOK
    <2>4. QED BY <1>1, <1>2, <2>2, <2>3, HandlerKeeps DEF IInv, TypeOK
  <1>4. CASE Failed(w)
    BY <1>1, <1>2, <1>4, FailedKeeps DEF IInv, TypeOK
  <1>5. QED BY <1>3, <1>4 DEF Fetch

LEMMA PutTextKeeps ==
    ASSUME IInv, NEW w \in Workers, PutText(w)
    PROVE  IInv'
  <1>1. pc[w] = "storing" /\ pc[w] # "idle" /\ job[w] \in Jobs
    BY BusyHasJob DEF PutText
  <1>2. /\ UNCHANGED <<status, published, dropped, updates>>
        /\ objects \subseteq objects' /\ objects' \subseteq Jobs
    BY <1>1 DEF PutText, IInv, TypeOK
  <1>3. CASE objects' = objects \cup {job[w]} /\ GoOn(w, "completing")
    <2>1. "completing" \in Stages \ {"idle"}
      BY DEF Stages
    <2>2. QueueTypes' /\ HandlersHold' /\ OnlyItsOwn(w) /\ Accounted(w)
      BY <1>1, <1>3, <2>1, StageChange
    <2>3. pc'[w] = "completing" /\ job' = job /\ job[w] \in objects'
      BY <1>3 DEF GoOn, IInv, TypeOK
    <2>4. QED BY <1>1, <1>2, <2>2, <2>3, HandlerKeeps
  <1>4. CASE Failed(w)
    BY <1>1, <1>2, <1>4, FailedKeeps
  <1>5. QED BY <1>3, <1>4 DEF PutText

\* A report of an outcome that was accepted accounts for the message.
LEMMA SentAccounts ==
    ASSUME NEW w \in Workers, NEW s \in Outcomes, Sent(w, s)
    PROVE  Accounted(w)
  <1>1. Update(w, s) \in updates' /\ Update(w, s).job = job[w] /\ Update(w, s).to = s
    BY DEF Sent, Update
  <1>2. QED BY <1>1 DEF Accounted

\* COMPLETED is reported by a worker that has stored the result.
LEMMA CompleteKeeps ==
    ASSUME IInv, NEW w \in Workers, Complete(w)
    PROVE  IInv'
  <1>1. /\ pc[w] = "completing" /\ pc[w] # "idle" /\ job[w] \in Jobs
        /\ job[w] \in objects
    BY BusyHasJob DEF Complete, IInv, ReportsAreTrue
  <1>2. UNCHANGED <<status, published, dropped, objects>>
    BY DEF Complete
  <1>3. /\ updates \subseteq updates'
        /\ \A u \in updates' : \/ u \in updates
                               \/ u \in AllUpdates /\ u.job = job[w] /\ u.to = "COMPLETED"
    <2>1. Sent(w, "COMPLETED") \/ UNCHANGED updates
      BY DEF Complete, SendRejected
    <2>2. "COMPLETED" \in Reports
      BY DEF Reports
    <2>3. QED BY <1>1, <2>1, <2>2, SendAdds
  <1>4. QueueTypes' /\ HandlersHold' /\ OnlyItsOwn(w) /\ Idle(w)
    BY <1>1, RunEnd DEF Complete
  <1>5. Accounted(w)
    <2>1. CASE Sent(w, "COMPLETED")
      BY <2>1, SentAccounts DEF Outcomes
    <2>2. CASE Throws(w, TRUE) \/ LosesFrames(w)
      BY <1>1, <2>2, ThrowAccounts
    <2>3. QED BY <2>1, <2>2 DEF Complete
  <1>6. pc'[w] = "idle"
    BY <1>4, IdleStage
  <1>7. QED BY <1>1, <1>2, <1>3, <1>4, <1>5, <1>6, HandlerKeeps DEF IInv, TypeOK

LEMMA FailKeeps ==
    ASSUME IInv, NEW w \in Workers, Fail(w)
    PROVE  IInv'
  <1>1. pc[w] = "failing" /\ pc[w] # "idle" /\ job[w] \in Jobs
    BY BusyHasJob DEF Fail
  <1>2. UNCHANGED <<status, published, dropped, objects>>
    BY DEF Fail
  <1>3. /\ updates \subseteq updates'
        /\ \A u \in updates' : \/ u \in updates
                               \/ u \in AllUpdates /\ u.job = job[w] /\ u.to = "FAILED"
    <2>1. Sent(w, "FAILED") \/ UNCHANGED updates
      BY DEF Fail, SendRejected
    <2>2. "FAILED" \in Reports
      BY DEF Reports
    <2>3. QED BY <1>1, <2>1, <2>2, SendAdds
  <1>4. QueueTypes' /\ HandlersHold' /\ OnlyItsOwn(w) /\ Idle(w)
    <2>1. CASE Throws(w, TRUE) \/ LosesFrames(w)
      BY <1>1, <2>1, RunEnd
    <2>2. CASE Throws(w, FALSE)
      BY <1>1, <2>2, RunEnd
    <2>3. QED BY <2>1, <2>2 DEF Fail
  <1>5. Accounted(w)
    <2>1. CASE Sent(w, "FAILED")
      BY <2>1, SentAccounts DEF Outcomes
    <2>2. CASE Throws(w, TRUE) \/ LosesFrames(w)
      BY <1>1, <2>2, ThrowAccounts
    <2>3. QED BY <2>1, <2>2 DEF Fail
  <1>6. pc'[w] = "idle"
    BY <1>4, IdleStage
  <1>7. QED BY <1>1, <1>2, <1>3, <1>4, <1>5, <1>6, HandlerKeeps DEF IInv, TypeOK

-----------------------------------------------------------------------------
(* The steps of the job queue *)

LEMMA DeliverKeeps ==
    ASSUME IInv, NEW w \in Workers, NEW j \in Jobs, Deliver(w, j)
    PROVE  IInv'
  <1>1. \A v \in Workers : /\ pc'[v] = IF v = w THEN "announcing" ELSE pc[v]
                           /\ job'[v] = IF v = w THEN j ELSE job[v]
    BY DEF Deliver, IInv, TypeOK
  <1>2. \A k \in Jobs : holder'[k] = IF k = j THEN w ELSE holder[k]
    BY DEF Deliver, IInv, TypeOK
  <1>3. TypeOK'
    <2>1. message[j] \in 0..(MaxAttempts - 1)
      BY DEF Deliver, IInv, TypeOK
    <2>2. QED BY <2>1 DEF Deliver, IInv, TypeOK, Stages
  <1>4. Requested' = Requested
    BY DEF Deliver, Requested
  <1>5. HandlersHold'
    <2>1. \A v \in Workers : pc'[v] = "idle" <=> job'[v] = None
      BY <1>1, PipelineAssumption DEF IInv, HandlersHold
    <2>2. \A k \in Jobs : holder'[k] # None => message'[k] # None /\ job'[holder'[k]] = k
      BY <1>1, <1>2, PipelineAssumption DEF Deliver, IInv, HandlersHold, TypeOK
    <2>3. QED BY <2>1, <2>2 DEF HandlersHold
  <1>6. ReportsAreTrue'
    <2>1. \A v \in Workers : /\ job'[v] # None => job'[v] \in Requested'
                             /\ pc'[v] = "completing" => job'[v] \in objects'
                             /\ pc'[v] = "failing" => IsLast(v)'
      BY <1>1, <1>4 DEF Deliver, IInv, TypeOK, ReportsAreTrue, IsLast
    <2>2. QED BY <1>4, <2>1 DEF Deliver, IInv, ReportsAreTrue
  <1>7. RowsAreRequested' /\ ResultIsStored'
    BY <1>4 DEF Deliver, IInv, RowsAreRequested, ResultIsStored
  <1>8. NoSilentLoss'
    BY <1>4 DEF Deliver, IInv, NoSilentLoss, UnderWay, Over
  <1>9. QED BY <1>3, <1>5, <1>6, <1>7, <1>8 DEF IInv

LEMMA RetryExpiresKeeps ==
    ASSUME IInv, NEW j \in Jobs, NEW n \in 0..(MaxAttempts - 1), RetryExpires(j, n)
    PROVE  IInv'
  <1>1. message'[j] # None /\ \A k \in Jobs \ {j} : message'[k] = message[k]
    BY PipelineAssumption DEF RetryExpires, handlerVars, IInv, TypeOK
  <1>2. Requested' = Requested
    BY DEF RetryExpires, handlerVars, Requested
  <1>3. TypeOK'
    BY DEF RetryExpires, handlerVars, IInv, TypeOK
  <1>4. HandlersHold'
    BY <1>1 DEF RetryExpires, handlerVars, IInv, HandlersHold
  <1>5. ReportsAreTrue'
    <2>1. \A k \in Jobs : message'[k] # None => k \in Requested'
      BY <1>1, <1>2 DEF RetryExpires, handlerVars, IInv, ReportsAreTrue
    <2>2. \A w \in Workers : IsLast(w)' <=> IsLast(w)
      BY DEF RetryExpires, handlerVars, IsLast
    <2>3. QED BY <1>2, <2>1, <2>2 DEF RetryExpires, handlerVars, IInv, ReportsAreTrue
  <1>6. RowsAreRequested' /\ ResultIsStored'
    BY <1>2 DEF RetryExpires, handlerVars, IInv, RowsAreRequested, ResultIsStored
  <1>7. NoSilentLoss'
    <2> SUFFICES ASSUME NEW k \in Requested PROVE UnderWay(k)' \/ Over(k)'
      BY <1>2 DEF NoSilentLoss
    <2>1. CASE k = j
      BY <1>1, <2>1 DEF UnderWay
    <2>2. CASE k # j
      <3>1. message'[k] = message[k]
        BY <1>1, <2>2 DEF Requested
      <3>2. \A m \in 0..(MaxAttempts - 1) : <<k, m>> \in retries => <<k, m>> \in retries'
        BY <2>2 DEF RetryExpires
      <3>3. QED BY <3>1, <3>2 DEF RetryExpires, handlerVars, IInv, NoSilentLoss, UnderWay, Over
    <2>3. QED BY <2>1, <2>2
  <1>8. QED BY <1>3, <1>4, <1>5, <1>6, <1>7 DEF IInv

LEMMA ConnectionLostKeeps ==
    ASSUME IInv, NEW w \in Workers, ConnectionLost(w)
    PROVE  IInv'
  <1>1. \A k \in Jobs : holder'[k] # None => holder'[k] = holder[k]
    BY DEF ConnectionLost, handlerVars, GoesBack, IInv, TypeOK
  <1>2. Requested' = Requested
    BY DEF ConnectionLost, handlerVars, Requested
  <1>3. TypeOK'
    BY DEF ConnectionLost, handlerVars, GoesBack, IInv, TypeOK
  <1>4. HandlersHold'
    BY <1>1 DEF ConnectionLost, handlerVars, GoesBack, IInv, HandlersHold
  <1>5. ReportsAreTrue'
    <2>1. \A v \in Workers : IsLast(v)' <=> IsLast(v)
      BY DEF ConnectionLost, handlerVars, IsLast
    <2>2. QED BY <1>2, <2>1 DEF ConnectionLost, handlerVars, GoesBack, IInv, ReportsAreTrue
  <1>6. RowsAreRequested' /\ ResultIsStored'
    BY <1>2 DEF ConnectionLost, handlerVars, IInv, RowsAreRequested, ResultIsStored
  <1>7. NoSilentLoss'
    BY <1>2 DEF ConnectionLost, handlerVars, GoesBack, IInv, NoSilentLoss, UnderWay, Over
  <1>8. QED BY <1>3, <1>4, <1>5, <1>6, <1>7 DEF IInv

LEMMA CrashKeeps ==
    ASSUME IInv, NEW w \in Workers, Crash(w)
    PROVE  IInv'
  <1>1. pc[w] # "idle" /\ job[w] \in Jobs /\ Idle(w)
    BY BusyHasJob DEF Crash
  <1>2. /\ holder' = IF Holds(w) THEN [holder EXCEPT ![job[w]] = None] ELSE holder
        /\ message' = message
    BY DEF Crash, GoesBack
  <1>3. /\ HandlersHold'
        /\ holder' \in [Jobs -> Workers \cup {None}]
        /\ message' \in [Jobs -> 0..(MaxAttempts - 1) \cup {None}]
        /\ pc' \in [Workers -> Stages]
        /\ job' \in [Workers -> Jobs \cup {None}]
        /\ attempt' \in [Workers -> 0..(MaxAttempts - 1)]
    <2>1. message' = IF Holds(w) /\ FALSE THEN [message EXCEPT ![job[w]] = None] ELSE message
      BY <1>2
    <2>2. QED BY <1>1, <1>2, <2>1, IdleKeepsHold
  <1>4. /\ QueueTypes'
        /\ UNCHANGED <<status, published, dropped, objects, updates, retries, deadLetters>>
    BY <1>3 DEF Crash, QueueTypes, IInv, TypeOK
  <1>5. OnlyItsOwn(w)
    <2>1. /\ \A v \in Workers \ {w} : /\ pc'[v] = pc[v]
                                      /\ job'[v] = job[v]
                                      /\ attempt'[v] = attempt[v]
          /\ job'[w] = None
      BY <1>1 DEF Idle, IInv, TypeOK
    <2>2. QED BY <1>2, <1>4, <2>1 DEF OnlyItsOwn
  <1>6. Accounted(w)
    BY <1>2 DEF Accounted
  <1>7. pc'[w] = "idle"
    BY <1>1, IdleStage
  <1>8. QED BY <1>1, <1>3, <1>4, <1>5, <1>6, <1>7, HandlerKeeps DEF IInv, TypeOK

-----------------------------------------------------------------------------
(* The steps around the worker *)

\* A row that takes an update, an expiry or a mark is never brought back from
\* its end, never disappears, and is COMPLETED only if it was or was to be.
LEMMA RowsKeep ==
    ASSUME NEW old \in Status \cup {Absent}, NEW s \in Reports, NEW new,
           \/ new = UpdatedStatus(old, s)
           \/ new = EnqueuedStatus(old)
           \/ new = ExpiredStatus(old)
    PROVE  /\ new \in Status \cup {Absent}
           /\ old \in Terminal => new = old
           /\ old = Absent <=> new = Absent
           /\ new = "COMPLETED" => old = "COMPLETED" \/ s = "COMPLETED"
  BY DEF UpdatedStatus, EnqueuedStatus, ExpiredStatus, StatusGuard, Status,
         NonTerminal, Terminal, Absent, Reports

\* An outcome that is applied to a row leaves it finished.
LEMMA OutcomeEnds ==
    ASSUME NEW old \in Status, NEW s \in Outcomes
    PROVE  UpdatedStatus(old, s) \in Terminal
  BY DEF UpdatedStatus, StatusGuard, Status, NonTerminal, Terminal, Outcomes

LEMMA SubmitKeeps ==
    ASSUME IInv, NEW j \in Jobs, Submit(j)
    PROVE  IInv'
  <1>1. Requested' = Requested /\ j \notin Requested
    BY DEF Submit, queueVars, Requested, IInv, RowsAreRequested
  <1>2. \A k \in Jobs : status'[k] = IF k = j THEN "SUBMITTED" ELSE status[k]
    BY DEF Submit, IInv, TypeOK
  <1>3. "SUBMITTED" \in Status /\ "SUBMITTED" # Absent /\ "SUBMITTED" \notin Terminal
    BY DEF Status, NonTerminal, Terminal, Absent
  <1>4. TypeOK'
    BY <1>3 DEF Submit, queueVars, handlerVars, IInv, TypeOK
  <1>5. HandlersHold'
    BY DEF Submit, queueVars, handlerVars, IInv, HandlersHold
  <1>6. ReportsAreTrue'
    <2>1. \A w \in Workers : IsLast(w)' <=> IsLast(w)
      BY DEF Submit, handlerVars, IsLast
    <2>2. QED BY <1>1, <2>1 DEF Submit, queueVars, handlerVars, IInv, ReportsAreTrue
  <1>7. RowsAreRequested' /\ ResultIsStored'
    BY <1>1, <1>2, <1>3 DEF Submit, IInv, RowsAreRequested, ResultIsStored
  <1>8. NoSilentLoss'
    <2> SUFFICES ASSUME NEW k \in Requested PROVE UnderWay(k)' \/ Over(k)'
      BY <1>1 DEF NoSilentLoss
    <2>1. status'[k] = status[k]
      BY <1>1, <1>2 DEF Requested
    <2>2. QED BY <2>1 DEF Submit, queueVars, handlerVars, IInv, NoSilentLoss, UnderWay, Over
  <1>9. QED BY <1>4, <1>5, <1>6, <1>7, <1>8 DEF IInv

LEMMA PublishKeeps ==
    ASSUME IInv, NEW j \in Jobs, Publish(j)
    PROVE  IInv'
  <1>1. Requested' = Requested \cup {j}
    BY DEF Publish, Requested, IInv, TypeOK
  <1>2. message'[j] # None /\ \A k \in Jobs \ {j} : message'[k] = message[k]
    BY PipelineAssumption DEF Publish, IInv, TypeOK
  <1>3. TypeOK'
    BY PipelineAssumption DEF Publish, handlerVars, IInv, TypeOK
  <1>4. HandlersHold'
    BY <1>2 DEF Publish, handlerVars, IInv, HandlersHold
  <1>5. ReportsAreTrue'
    <2>1. \A w \in Workers : IsLast(w)' <=> IsLast(w)
      BY DEF Publish, handlerVars, IsLast
    <2>2. \A k \in Jobs : message'[k] # None => k \in Requested'
      BY <1>1, <1>2 DEF IInv, ReportsAreTrue
    <2>3. QED BY <1>1, <2>1, <2>2 DEF Publish, handlerVars, IInv, ReportsAreTrue
  <1>6. RowsAreRequested' /\ ResultIsStored'
    BY <1>1 DEF Publish, IInv, RowsAreRequested, ResultIsStored
  <1>7. NoSilentLoss'
    <2> SUFFICES ASSUME NEW k \in Requested' PROVE UnderWay(k)' \/ Over(k)'
      BY DEF NoSilentLoss
    <2>1. CASE k = j
      BY <1>2, <2>1 DEF UnderWay
    <2>2. CASE k # j
      <3>1. k \in Requested /\ message'[k] = message[k]
        BY <1>1, <1>2, <2>2 DEF Requested
      <3>2. QED BY <3>1 DEF Publish, handlerVars, IInv, NoSilentLoss, UnderWay, Over
    <2>3. QED BY <2>1, <2>2
  <1>8. QED BY <1>3, <1>4, <1>5, <1>6, <1>7 DEF IInv

\* What a step that only changes rows, reports and the history keeps, whatever
\* it makes of the rows.
LEMMA RowStep ==
    ASSUME IInv, UNCHANGED <<queueVars, handlerVars, objects>>,
           status' \in [Jobs -> Status \cup {Absent}],
           \A j \in Jobs : status[j] = Absent <=> status'[j] = Absent,
           \A j \in Jobs : status[j] \in Terminal => status'[j] = status[j],
           \A j \in Jobs : status'[j] = "COMPLETED" => j \in objects,
           \A j \in Jobs \ Requested : status'[j] \in {status[j], "EXPIRED"},
           updates' \subseteq AllUpdates,
           \A u \in updates' : \E v \in updates : u.job = v.job /\ u.to = v.to,
           dropped \subseteq dropped', dropped' \subseteq Jobs,
           \A u \in updates : u.to \in Outcomes =>
              \/ \E v \in updates' : v.job = u.job /\ v.to \in Outcomes
              \/ status'[u.job] \in Terminal
              \/ u.job \in dropped'
    PROVE  IInv'
  <1>1. Requested' = Requested
    BY DEF queueVars, Requested
  <1>2. TypeOK'
    BY DEF queueVars, handlerVars, IInv, TypeOK
  <1>3. HandlersHold'
    BY DEF queueVars, handlerVars, IInv, HandlersHold
  <1>4. ReportsAreTrue'
    <2>1. \A w \in Workers : IsLast(w)' <=> IsLast(w)
      BY DEF handlerVars, IsLast
    <2>2. \A u \in updates' : /\ u.job \in Requested
                              /\ u.to = "COMPLETED" => u.job \in objects
      BY DEF IInv, ReportsAreTrue
    <2>3. QED BY <1>1, <2>1, <2>2 DEF queueVars, handlerVars, IInv, ReportsAreTrue
  <1>5. RowsAreRequested'
    <2>1. \A j \in Requested' : status'[j] # Absent
      BY <1>1 DEF IInv, RowsAreRequested, Requested
    <2>2. \A j \in Jobs : status'[j] \in Status \ {"SUBMITTED", "EXPIRED"} => j \in Requested'
      BY <1>1 DEF IInv, RowsAreRequested
    <2>3. QED BY <2>1, <2>2 DEF RowsAreRequested
  <1>6. ResultIsStored'
    BY DEF ResultIsStored
  <1>7. NoSilentLoss'
    <2> SUFFICES ASSUME NEW j \in Requested PROVE UnderWay(j)' \/ Over(j)'
      BY <1>1 DEF NoSilentLoss
    <2>1. (UnderWay(j) \/ Over(j)) /\ j \in Jobs
      BY DEF IInv, NoSilentLoss, Requested
    <2>2. CASE Over(j)
      BY <2>1, <2>2 DEF Over, queueVars
    <2>3. CASE \E u \in updates : u.job = j /\ u.to \in Outcomes
      BY <2>3 DEF UnderWay, Over
    <2>4. CASE message[j] # None \/ \E n \in 0..(MaxAttempts - 1) : <<j, n>> \in retries
      BY <2>4 DEF UnderWay, queueVars
    <2>5. QED BY <2>1, <2>2, <2>3, <2>4 DEF UnderWay
  <1>8. QED BY <1>2, <1>3, <1>4, <1>5, <1>6, <1>7 DEF IInv

LEMMA UpdateElsewhereKeeps ==
    ASSUME IInv, NEW j \in Jobs, UpdateElsewhere(j)
    PROVE  IInv'
  <1>1. PICK new : /\ status' = [status EXCEPT ![j] = new]
                   /\ \/ j \in Requested /\ new = EnqueuedStatus(status[j])
                      \/ new = ExpiredStatus(status[j])
    BY DEF UpdateElsewhere
  <1>2. status[j] \in Status \cup {Absent}
    BY DEF IInv, TypeOK
  <1>3. /\ new \in Status \cup {Absent}
        /\ status[j] \in Terminal => new = status[j]
        /\ status[j] = Absent <=> new = Absent
        /\ new = "COMPLETED" => status[j] = "COMPLETED"
    <2>1. "PROCESSING" \in Reports
      BY DEF Reports
    <2>2. QED BY <1>1, <1>2, <2>1, RowsKeep
  <1>4. j \notin Requested => new \in {status[j], "EXPIRED"}
    BY <1>1 DEF ExpiredStatus
  <1>5. \A k \in Jobs : status'[k] = IF k = j THEN new ELSE status[k]
    BY <1>1 DEF IInv, TypeOK
  <1>6. status' \in [Jobs -> Status \cup {Absent}]
    BY <1>1, <1>3 DEF IInv, TypeOK
  <1>7. UNCHANGED <<queueVars, handlerVars, objects, updates, dropped>>
    BY DEF UpdateElsewhere
  <1>8. \A k \in Jobs : status'[k] = "COMPLETED" => k \in objects
    BY <1>3, <1>5 DEF IInv, ResultIsStored
  <1>9. QED
    BY <1>3, <1>4, <1>5, <1>6, <1>7, <1>8, RowStep DEF IInv, TypeOK

\* What updateJobStatus may do to the rows, whether or not it rejects.
LEMMA UpdateStep ==
    ASSUME IInv, NEW u \in updates,
           status' \in {status, [status EXCEPT ![u.job] = UpdatedStatus(@, u.to)]}
    PROVE  /\ status' \in [Jobs -> Status \cup {Absent}]
           /\ \A j \in Jobs : status[j] = Absent <=> status'[j] = Absent
           /\ \A j \in Jobs : status[j] \in Terminal => status'[j] = status[j]
           /\ \A j \in Jobs : status'[j] = "COMPLETED" => j \in objects
           /\ \A j \in Jobs \ Requested : status'[j] \in {status[j], "EXPIRED"}
  <1>1. u.job \in Jobs /\ u.to \in Reports /\ u.job \in Requested
    BY DEF IInv, TypeOK, ReportsAreTrue, AllUpdates
  <1>2. u.to = "COMPLETED" => u.job \in objects
    BY DEF IInv, ReportsAreTrue
  <1>3. PICK new : /\ status' = [status EXCEPT ![u.job] = new]
                   /\ new \in {status[u.job], UpdatedStatus(status[u.job], u.to)}
    BY <1>1 DEF IInv, TypeOK
  <1>4. status[u.job] \in Status \cup {Absent}
    BY <1>1 DEF IInv, TypeOK
  <1>5. /\ new \in Status \cup {Absent}
        /\ status[u.job] \in Terminal => new = status[u.job]
        /\ status[u.job] = Absent <=> new = Absent
        /\ new = "COMPLETED" => status[u.job] = "COMPLETED" \/ u.to = "COMPLETED"
    <2>1. CASE new = status[u.job]
      BY <1>4, <2>1
    <2>2. CASE new = UpdatedStatus(status[u.job], u.to)
      BY <1>1, <1>4, <2>2, RowsKeep
    <2>3. QED BY <1>3, <2>1, <2>2
  <1>6. \A j \in Jobs : status'[j] = IF j = u.job THEN new ELSE status[j]
    BY <1>3 DEF IInv, TypeOK
  <1>7. status' \in [Jobs -> Status \cup {Absent}]
    BY <1>3, <1>5 DEF IInv, TypeOK
  <1>8. \A j \in Jobs : status'[j] = "COMPLETED" => j \in objects
    BY <1>2, <1>5, <1>6 DEF IInv, ResultIsStored
  <1>9. QED BY <1>1, <1>5, <1>6, <1>7, <1>8

LEMMA ApplyUpdateKeeps ==
    ASSUME IInv, NEW u \in updates, ApplyUpdate(u)
    PROVE  IInv'
  <1>1. /\ status' \in [Jobs -> Status \cup {Absent}]
        /\ \A j \in Jobs : status[j] = Absent <=> status'[j] = Absent
        /\ \A j \in Jobs : status[j] \in Terminal => status'[j] = status[j]
        /\ \A j \in Jobs : status'[j] = "COMPLETED" => j \in objects
        /\ \A j \in Jobs \ Requested : status'[j] \in {status[j], "EXPIRED"}
    BY UpdateStep DEF ApplyUpdate
  <1>2. UNCHANGED <<queueVars, handlerVars, objects, dropped>>
    BY DEF ApplyUpdate
  <1>3. updates' \in {updates, updates \ {u}}
    BY DEF ApplyUpdate
  <1>4. u.to \in Outcomes => status'[u.job] \in Terminal
    <2>1. u.job \in Jobs /\ u.job \in Requested
      BY DEF IInv, TypeOK, ReportsAreTrue, AllUpdates
    <2>2. status[u.job] \in Status
      BY <2>1 DEF IInv, TypeOK, RowsAreRequested
    <2>3. status'[u.job] = UpdatedStatus(status[u.job], u.to)
      BY <2>1 DEF ApplyUpdate, IInv, TypeOK
    <2>4. QED BY <2>2, <2>3, OutcomeEnds
  <1>5. \A v \in updates : v.to \in Outcomes =>
              \/ \E x \in updates' : x.job = v.job /\ x.to \in Outcomes
              \/ status'[v.job] \in Terminal
    BY <1>3, <1>4
  <1>6. QED BY <1>1, <1>2, <1>3, <1>5, RowStep DEF IInv, TypeOK

LEMMA UpdateFailsKeeps ==
    ASSUME IInv, NEW u \in updates, UpdateFails(u)
    PROVE  IInv'
  <1>1. /\ status' \in [Jobs -> Status \cup {Absent}]
        /\ \A j \in Jobs : status[j] = Absent <=> status'[j] = Absent
        /\ \A j \in Jobs : status[j] \in Terminal => status'[j] = status[j]
        /\ \A j \in Jobs : status'[j] = "COMPLETED" => j \in objects
        /\ \A j \in Jobs \ Requested : status'[j] \in {status[j], "EXPIRED"}
    BY UpdateStep DEF UpdateFails
  <1>2. UNCHANGED <<queueVars, handlerVars, objects>>
    BY DEF UpdateFails
  <1>3. u \in AllUpdates /\ u.job \in Jobs
    BY DEF IInv, TypeOK, AllUpdates
  <1>4. CASE IsLastUpdate(u)
    <2>1. /\ updates' = updates \ {u}
          /\ dropped' = IF u.to \in Outcomes THEN dropped \cup {u.job} ELSE dropped
      BY <1>4 DEF UpdateFails
    <2>2. QED BY <1>1, <1>2, <1>3, <2>1, RowStep DEF IInv, TypeOK
  <1>5. CASE ~IsLastUpdate(u)
    <2> DEFINE next == [u EXCEPT !.made = @ + 1]
    <2>1. /\ next \in AllUpdates
          /\ next.job = u.job /\ next.to = u.to
      BY <1>3, <1>5, PipelineAssumption DEF AllUpdates, IsLastUpdate
    <2>2. /\ updates' \in {(updates \ {u}) \cup {next}, updates \cup {next}}
          /\ dropped' = dropped
      BY <1>5 DEF UpdateFails
    <2> HIDE DEF next
    <2>3. QED BY <1>1, <1>2, <2>1, <2>2, RowStep DEF IInv, TypeOK
  <1>6. QED BY <1>4, <1>5

-----------------------------------------------------------------------------
(* The invariant and the theorems *)

LEMMA StutterKeeps ==
    ASSUME IInv, UNCHANGED vars
    PROVE  IInv'
  <1>1. Requested' = Requested
    BY DEF vars, queueVars, Requested
  <1>2. TypeOK' /\ HandlersHold'
    BY DEF vars, queueVars, handlerVars, IInv, TypeOK, HandlersHold
  <1>3. ReportsAreTrue'
    BY <1>1 DEF vars, queueVars, handlerVars, IInv, ReportsAreTrue, IsLast
  <1>4. RowsAreRequested' /\ ResultIsStored'
    BY <1>1 DEF vars, IInv, RowsAreRequested, ResultIsStored
  <1>5. NoSilentLoss'
    BY <1>1 DEF vars, queueVars, IInv, NoSilentLoss, UnderWay, Over
  <1>6. QED BY <1>2, <1>3, <1>4, <1>5 DEF IInv

\* Every step keeps the inductive invariant.
THEOREM PipelineStep == IInv /\ [Next]_vars => IInv'
  <1> SUFFICES ASSUME IInv, [Next]_vars PROVE IInv'
    OBVIOUS
  <1>1. ASSUME NEW j \in Jobs, Submit(j) PROVE IInv'
    BY <1>1, SubmitKeeps
  <1>2. ASSUME NEW j \in Jobs, Publish(j) PROVE IInv'
    BY <1>2, PublishKeeps
  <1>3. ASSUME NEW j \in Jobs, UpdateElsewhere(j) PROVE IInv'
    BY <1>3, UpdateElsewhereKeeps
  <1>4. ASSUME NEW w \in Workers, NEW j \in Jobs, Deliver(w, j) PROVE IInv'
    BY <1>4, DeliverKeeps
  <1>5. ASSUME NEW j \in Jobs, NEW n \in 0..(MaxAttempts - 1), RetryExpires(j, n) PROVE IInv'
    BY <1>5, RetryExpiresKeeps
  <1>6. ASSUME NEW w \in Workers, Handle(w) PROVE IInv'
    BY <1>6, AnnounceKeeps, FetchKeeps, PutTextKeeps, CompleteKeeps, FailKeeps DEF Handle
  <1>7. ASSUME NEW w \in Workers, ConnectionLost(w) PROVE IInv'
    BY <1>7, ConnectionLostKeeps
  <1>8. ASSUME NEW w \in Workers, Crash(w) PROVE IInv'
    BY <1>8, CrashKeeps
  <1>9. ASSUME NEW u \in updates, ApplyUpdate(u) PROVE IInv'
    BY <1>9, ApplyUpdateKeeps
  <1>10. ASSUME NEW u \in updates, UpdateFails(u) PROVE IInv'
    BY <1>10, UpdateFailsKeeps
  <1>11. CASE Settled \/ UNCHANGED vars
    BY <1>11, StutterKeeps DEF Settled
  <1>12. QED
    BY <1>1, <1>2, <1>3, <1>4, <1>5, <1>6, <1>7, <1>8, <1>9, <1>10, <1>11 DEF Next

\* The inductive invariant holds in every state of every instance.
THEOREM PipelineInvariance == Spec => []IInv
  BY PipelineInit, PipelineStep, PTL DEF Spec

\* Type correctness of rows, messages, retries, handlers and reports; no
\* message carries maxAttempts attempts.
THEOREM PipelineTypeCorrect == Spec => []TypeOK
  <1>1. IInv => TypeOK
    BY DEF IInv
  <1>2. QED BY <1>1, PipelineInvariance, PTL

\* A COMPLETED job has its result in the bucket, for any number of handlers,
\* crashes, lost channels and repeated reports.
THEOREM CompletedJobsHaveResults == Spec => []ResultIsStored
  <1>1. IInv => ResultIsStored
    BY DEF IInv
  <1>2. QED BY <1>1, PipelineInvariance, PTL

\* A published job is under way, finished, or accounted for by a dead letter
\* or an exhausted status message.
THEOREM NoJobVanishes == Spec => []NoSilentLoss
  <1>1. IInv => NoSilentLoss
    BY DEF IInv
  <1>2. QED BY <1>1, PipelineInvariance, PTL

-----------------------------------------------------------------------------
(* The refinement of JobLifecycle *)

LEMMA PipelineInitImplements == Init => Lifecycle!Init
  BY DEF Init, Lifecycle!Init, Requested, Absent

\* An update of a row is a step of the lifecycle of a published job, or none.
LEMMA RowMoves ==
    ASSUME IInv, NEW j \in Jobs, NEW s \in Reports, j \in Requested, UNCHANGED published,
           status' \in {status, [status EXCEPT ![j] = UpdatedStatus(@, s)]}
    PROVE  [Lifecycle!Next]_(Lifecycle!jobVars)
  <1>1. Requested' = Requested
    BY DEF Requested
  <1>2. CASE status' = status
    BY <1>1, <1>2 DEF Lifecycle!jobVars
  <1>3. CASE status' = [status EXCEPT ![j] = UpdatedStatus(@, s)]
    <2>1. status[j] \in Status \cup {Absent} /\ status \in [Jobs -> Status \cup {Absent}]
      BY DEF IInv, TypeOK
    <2>2. CASE UpdatedStatus(status[j], s) = status[j]
      BY <1>1, <1>3, <2>1, <2>2 DEF Lifecycle!jobVars
    <2>3. CASE UpdatedStatus(status[j], s) # status[j]
      <3>1. status' = [status EXCEPT ![j] = s]
        BY <1>3, <2>3 DEF UpdatedStatus
      <3>2. \/ s = "PROCESSING" /\ status[j] \in {"SUBMITTED", "ENQUEUED"}
            \/ s \in Outcomes /\ status[j] \in {"SUBMITTED", "ENQUEUED", "PROCESSING"}
        BY <2>3 DEF UpdatedStatus, StatusGuard, Reports, Outcomes, Terminal, NonTerminal
      <3>3. CASE s = "PROCESSING" /\ status[j] \in {"SUBMITTED", "ENQUEUED"}
        <4>1. Lifecycle!Process(j)
          BY <1>1, <3>1, <3>3 DEF Lifecycle!Process, Lifecycle!Move
        <4>2. QED BY <4>1 DEF Lifecycle!Next
      <3>4. CASE s \in Outcomes /\ status[j] \in {"SUBMITTED", "ENQUEUED", "PROCESSING"}
        <4>1. Lifecycle!Finish(j, s)
          BY <1>1, <3>1, <3>4 DEF Lifecycle!Finish, Lifecycle!Move
        <4>2. QED BY <3>4, <4>1 DEF Lifecycle!Next, Outcomes
      <3>5. QED BY <3>2, <3>3, <3>4
    <2>4. QED BY <2>2, <2>3
  <1>4. QED BY <1>2, <1>3

LEMMA PipelineStepImplements ==
    IInv /\ [Next]_vars => [Lifecycle!Next]_(Lifecycle!jobVars)
  <1> SUFFICES ASSUME IInv, [Next]_vars PROVE [Lifecycle!Next]_(Lifecycle!jobVars)
    OBVIOUS
  <1>1. ASSUME NEW j \in Jobs, Submit(j) PROVE Lifecycle!Next
    <2>1. Requested' = Requested
      BY <1>1 DEF Submit, queueVars, Requested
    <2>2. Lifecycle!Submit(j)
      BY <1>1, <2>1 DEF Submit, Lifecycle!Submit, Lifecycle!Move, Absent
    <2>3. QED BY <2>2 DEF Lifecycle!Next
  <1>2. ASSUME NEW j \in Jobs, Publish(j) PROVE Lifecycle!Next
    <2>1. Requested' = Requested \cup {j}
      BY <1>2 DEF Publish, Requested, IInv, TypeOK
    <2>2. Lifecycle!Request(j)
      BY <1>2, <2>1 DEF Publish, Lifecycle!Request
    <2>3. QED BY <2>2 DEF Lifecycle!Next
  <1>3. ASSUME NEW j \in Jobs, UpdateElsewhere(j) PROVE Lifecycle!Next
    <2>1. Requested' = Requested
      BY <1>3 DEF UpdateElsewhere, queueVars, Requested
    <2>2. status[j] \in Status \cup {Absent} /\ status \in [Jobs -> Status \cup {Absent}]
      BY DEF IInv, TypeOK
    <2>3. CASE j \in Requested /\ status' = [status EXCEPT ![j] = EnqueuedStatus(@)]
      <3>1. EnqueuedStatus(status[j]) # status[j]
        BY <1>3, <2>2, <2>3 DEF UpdateElsewhere
      <3>2. status[j] = "SUBMITTED" /\ status' = [status EXCEPT ![j] = "ENQUEUED"]
        BY <2>3, <3>1 DEF EnqueuedStatus
      <3>3. Lifecycle!Enqueue(j)
        BY <2>1, <2>3, <3>2 DEF Lifecycle!Enqueue, Lifecycle!Move
      <3>4. QED BY <3>3 DEF Lifecycle!Next
    <2>4. CASE status' = [status EXCEPT ![j] = ExpiredStatus(@)]
      <3>1. ExpiredStatus(status[j]) # status[j]
        BY <1>3, <2>2, <2>4 DEF UpdateElsewhere
      <3>2. status[j] \in NonTerminal /\ status' = [status EXCEPT ![j] = "EXPIRED"]
        BY <2>2, <2>4, <3>1 DEF ExpiredStatus
      <3>3. Lifecycle!Expire(j)
        BY <2>1, <3>2 DEF Lifecycle!Expire, Lifecycle!Move, NonTerminal
      <3>4. QED BY <3>3 DEF Lifecycle!Next
    <2>5. QED BY <1>3, <2>3, <2>4 DEF UpdateElsewhere
  <1>4. ASSUME NEW u \in updates, ApplyUpdate(u) \/ UpdateFails(u)
        PROVE  [Lifecycle!Next]_(Lifecycle!jobVars)
    <2>1. u.job \in Jobs /\ u.to \in Reports /\ u.job \in Requested
      BY DEF IInv, TypeOK, ReportsAreTrue, AllUpdates
    <2>2. /\ UNCHANGED published
          /\ status' \in {status, [status EXCEPT ![u.job] = UpdatedStatus(@, u.to)]}
      BY <1>4 DEF ApplyUpdate, UpdateFails, queueVars
    <2>3. QED BY <2>1, <2>2, RowMoves
  <1>5. CASE UNCHANGED <<status, published>>
    BY <1>5 DEF Requested, Lifecycle!jobVars
  <1>6. ASSUME NEW w \in Workers, NEW j \in Jobs, Deliver(w, j) PROVE UNCHANGED <<status, published>>
    BY <1>6 DEF Deliver
  <1>7. ASSUME NEW j \in Jobs, NEW n \in 0..(MaxAttempts - 1), RetryExpires(j, n)
        PROVE  UNCHANGED <<status, published>>
    BY <1>7 DEF RetryExpires
  <1>8. ASSUME NEW w \in Workers, Handle(w) \/ ConnectionLost(w) \/ Crash(w)
        PROVE  UNCHANGED <<status, published>>
    BY <1>8 DEF Handle, Announce, Fetch, PutText, Complete, Fail, ConnectionLost, Crash
  <1>9. CASE Settled \/ UNCHANGED vars
    BY <1>5, <1>9 DEF Settled, vars, queueVars
  <1>10. QED
    BY <1>1, <1>2, <1>3, <1>4, <1>5, <1>6, <1>7, <1>8, <1>9 DEF Next

\* The reports of any number of handlers, in any order, keep every row on its
\* lifecycle: the refinement the run checks, for every instance.
THEOREM PipelineImplementsLifecycle == Spec => LifecycleImplemented
  BY PipelineInitImplements, PipelineStepImplements, PipelineInvariance, PTL
     DEF Spec, LifecycleImplemented, Lifecycle!Spec

-----------------------------------------------------------------------------
(* The histories of PipelineQueues *)

\* Whatever is proved of the pipeline is true of the watched one.
LEMMA WatchedStepIsStep == [WatchedNext]_watchedVars => [Next]_vars
  BY DEF WatchedNext, watchedVars, Elsewhere, Next

THEOREM WatchedIsPipeline == WatchedSpec => Spec
  <1>1. WatchedInit => Init
    BY DEF WatchedInit
  <1>2. QED BY <1>1, WatchedStepIsStep, PTL DEF WatchedSpec, Spec

LEMMA WatchedInitInvariant == WatchedInit => WInv
  <1> SUFFICES ASSUME WatchedInit PROVE WInv
    OBVIOUS
  <1>1. IInv
    BY PipelineInit DEF WatchedInit
  <1>2. HistoriesOK
    BY PipelineAssumption DEF WatchedInit, HistoriesOK
  <1>3. RunsAreEarned /\ UpdatesAreEarned
    BY PipelineAssumption DEF WatchedInit, Init, RunsAreEarned, UpdatesAreEarned, Holds
  <1>4. QED BY <1>1, <1>2, <1>3 DEF WInv

LEMMA SameJobQueue ==
    ASSUME UNCHANGED <<message, retries>>
    PROVE  InJobQueue' = InJobQueue
  BY DEF InJobQueue

LEMMA HeldIsInQueue ==
    ASSUME IInv, NEW w \in Workers, Holds(w)
    PROVE  job[w] \in Jobs /\ message[job[w]] # None /\ job[w] \in InJobQueue
  BY PipelineAssumption DEF IInv, TypeOK, HandlersHold, Holds, InJobQueue

-----------------------------------------------------------------------------
(* Steps that are none of the job queue's *)

\* Delivery, the return of a retry and the loss of a handler or its channel
\* leave the queue with the messages it had.
LEMMA ElsewhereKeepsRuns ==
    ASSUME WInv, Elsewhere, UNCHANGED jobHistory
    PROVE  RunsAreEarned' /\ InJobQueue' = InJobQueue /\ deadLetters' = deadLetters /\ updates' = updates
  <1> USE DEF WInv, RunsAreEarned, jobHistory
  <1>1. CASE (\E j \in Jobs : Submit(j) \/ UpdateElsewhere(j)) \/ Settled
    BY <1>1, SameJobQueue DEF Submit, UpdateElsewhere, Settled, vars, queueVars, handlerVars, Holds
  <1>2. ASSUME NEW w \in Workers, NEW j \in Jobs, Deliver(w, j)
        PROVE  RunsAreEarned' /\ InJobQueue' = InJobQueue /\ deadLetters' = deadLetters /\ updates' = updates
    <2>1. UNCHANGED <<message, retries, deadLetters, updates>>
      BY <1>2 DEF Deliver
    <2>2. ASSUME NEW v \in Workers, Holds(v)' PROVE attempt'[v] = message'[job'[v]]
      <3>1. CASE v = w
        BY <1>2, <2>1, <3>1 DEF Deliver, IInv, TypeOK
      <3>2. CASE v # w
        <4>1. job'[v] = job[v] /\ attempt'[v] = attempt[v]
          BY <1>2, <3>2 DEF Deliver, IInv, TypeOK
        <4>2. job[v] # None /\ holder'[job[v]] = v
          BY <2>2, <4>1 DEF Holds
        <4>3. holder[job[v]] = v
          BY <1>2, <3>2, <4>2 DEF Deliver, IInv, TypeOK
        <4>4. QED BY <2>1, <4>1, <4>2, <4>3 DEF Holds
      <3>3. QED BY <3>1, <3>2
    <2>3. QED BY <2>1, <2>2, SameJobQueue
  <1>3. ASSUME NEW j \in Jobs, NEW n \in 0..(MaxAttempts - 1), RetryExpires(j, n)
        PROVE  RunsAreEarned' /\ InJobQueue' = InJobQueue /\ deadLetters' = deadLetters /\ updates' = updates
    <2>1. /\ <<j, n>> \in retries
          /\ retries' = retries \ {<<j, n>>}
          /\ UNCHANGED <<holder, job, attempt, deadLetters, updates>>
      BY <1>3 DEF RetryExpires, handlerVars
    <2>2. \A k \in Jobs : message'[k] = IF k = j /\ message[j] = None THEN n ELSE message[k]
      BY <1>3 DEF RetryExpires, IInv, TypeOK
    <2>3. n # None
      BY PipelineAssumption
    <2>4. InJobQueue' = InJobQueue
      <3>1. j \in InJobQueue
        BY <2>1 DEF InJobQueue
      <3>2. j \in InJobQueue'
        BY <2>2, <2>3 DEF InJobQueue
      <3>3. ASSUME NEW k \in Jobs, k # j PROVE k \in InJobQueue' <=> k \in InJobQueue
        BY <2>1, <2>2, <3>3 DEF InJobQueue
      <3>4. QED BY <3>1, <3>2, <3>3 DEF InJobQueue
    <2>5. \A k \in Jobs : message'[k] # None => message'[k] <= failedRuns[k]
      <3>1. n <= failedRuns[j]
        BY <2>1
      <3>2. QED BY <2>2, <3>1
    <2>6. ASSUME NEW v \in Workers, Holds(v) PROVE message'[job[v]] = message[job[v]]
      BY <2>2, <2>6, HeldIsInQueue
    <2>7. QED BY <2>1, <2>4, <2>5, <2>6 DEF Holds
  <1>4. ASSUME NEW w \in Workers, ConnectionLost(w) \/ Crash(w)
        PROVE  RunsAreEarned' /\ InJobQueue' = InJobQueue /\ deadLetters' = deadLetters /\ updates' = updates
    <2>1. UNCHANGED <<message, retries, deadLetters, updates>>
      BY <1>4 DEF ConnectionLost, Crash, GoesBack
    <2>2. ASSUME NEW v \in Workers, Holds(v)' PROVE Holds(v) /\ job'[v] = job[v] /\ attempt'[v] = attempt[v]
      <3>1. \A k \in Jobs : holder'[k] # None => holder'[k] = holder[k]
        <4>1. holder' = [holder EXCEPT ![job[w]] = None] \/ holder' = holder
          BY <1>4 DEF ConnectionLost, Crash, GoesBack
        <4>2. QED BY <4>1 DEF IInv, TypeOK
      <3>2. job'[v] # None => job'[v] = job[v] /\ attempt'[v] = attempt[v]
        BY <1>4 DEF ConnectionLost, Crash, Idle, IInv, TypeOK, handlerVars
      <3>3. job'[v] # None /\ holder'[job'[v]] = v
        BY <2>2 DEF Holds
      <3>4. job[v] \in Jobs /\ v # None
        BY <3>2, <3>3, PipelineAssumption DEF IInv, TypeOK
      <3>5. QED BY <3>1, <3>2, <3>3, <3>4 DEF Holds
    <2>3. QED BY <2>1, <2>2, SameJobQueue
  <1>5. QED BY <1>1, <1>2, <1>3, <1>4 DEF Elsewhere

\* A new message starts with no failed run, and so does what is counted of it.
LEMMA PublishKeepsRuns ==
    ASSUME WInv, NEW j \in Jobs, Publish(j), JobAccepted(j)
    PROVE  /\ RunsAreEarned' /\ handled' \subseteq Jobs /\ failedRuns' \in [Jobs -> 0..MaxAttempts]
           /\ updates' = updates
           /\ JobQueue!Accept(j) \/ UNCHANGED <<InJobQueue, handled, failedRuns, deadLetters>>
  <1> USE DEF WInv, HistoriesOK, RunsAreEarned, jobHistory
  <1>1. UNCHANGED <<holder, retries, deadLetters, job, attempt, updates>>
    BY DEF Publish, handlerVars
  <1>2. /\ \A k \in Jobs : message'[k] = IF k = j /\ message[j] = None THEN 0 ELSE message[k]
        /\ 0 # None
    BY PipelineAssumption DEF Publish, IInv, TypeOK
  <1>3. InJobQueue' = InJobQueue \cup {j}
    <2>1. j \in InJobQueue'
      BY <1>2 DEF InJobQueue
    <2>2. ASSUME NEW k \in Jobs, k # j PROVE k \in InJobQueue' <=> k \in InJobQueue
      BY <1>1, <1>2, <2>2 DEF InJobQueue
    <2>3. QED BY <2>1, <2>2 DEF InJobQueue
  <1>4. ASSUME NEW v \in Workers, Holds(v)' PROVE attempt'[v] = message'[job'[v]]
    <2>1. Holds(v)
      BY <1>1, <1>4 DEF Holds
    <2>2. QED BY <1>1, <1>2, <2>1, HeldIsInQueue
  <1>5. CASE j \in InJobQueue
    <2>1. UNCHANGED <<handled, failedRuns>>
      BY <1>5 DEF JobAccepted
    <2>2. InJobQueue' = InJobQueue
      BY <1>3, <1>5
    <2>3. \A k \in Jobs : message'[k] # None => message'[k] <= failedRuns'[k]
      BY <1>2, <2>1
    <2>4. QED BY <1>1, <1>4, <2>1, <2>2, <2>3
  <1>6. CASE j \notin InJobQueue
    <2>1. handled' = handled \ {j} /\ failedRuns' = [failedRuns EXCEPT ![j] = 0]
      BY <1>6 DEF JobAccepted
    <2>2. failedRuns' \in [Jobs -> 0..MaxAttempts]
      BY <2>1, PipelineAssumption
    <2>3. JobQueue!Accept(j)
      BY <1>1, <1>3, <1>6, <2>1 DEF JobQueue!Accept
    <2>4. \A k \in Jobs : message'[k] # None => message'[k] <= failedRuns'[k]
      <3>1. message[j] = None
        BY <1>6 DEF InJobQueue
      <3>2. QED BY <1>2, <2>1, <3>1
    <2>5. ASSUME NEW r \in retries' PROVE r[2] <= failedRuns'[r[1]]
      <3>1. r \in retries /\ r[1] \in Jobs /\ r[2] \in 0..(MaxAttempts - 1) /\ r = <<r[1], r[2]>>
        BY <1>1 DEF IInv, TypeOK
      <3>2. r[1] # j
        BY <1>6, <3>1 DEF InJobQueue
      <3>3. QED BY <2>1, <3>1, <3>2
    <2>6. QED BY <1>1, <1>4, <2>1, <2>2, <2>3, <2>4, <2>5
  <1>7. QED BY <1>5, <1>6

-----------------------------------------------------------------------------
(* The end of a run *)

\* The four ways a step of a handler may treat the queue.
LEMMA HandleForms ==
    ASSUME IInv, NEW w \in Workers, Handle(w)
    PROVE  /\ pc[w] # "idle" /\ job[w] \in Jobs
           /\ \/ \E stage \in Stages \ {"idle"} : GoOn(w, stage)
              \/ HandlerReturned(w)
              \/ Throws(w, TRUE) \/ Throws(w, FALSE)
              \/ LosesFrames(w)
  <1>1. pc[w] # "idle"
    BY DEF Handle, Announce, Fetch, PutText, Complete, Fail
  <1>2. job[w] \in Jobs
    BY <1>1, BusyHasJob
  <1>3. CASE Announce(w)
    BY <1>1, <1>2, <1>3 DEF Announce, Stages
  <1>4. CASE Fetch(w)
    BY <1>1, <1>2, <1>4 DEF Fetch, Failed, Stages
  <1>5. CASE PutText(w)
    BY <1>1, <1>2, <1>5 DEF PutText, Failed, Stages
  <1>6. CASE Complete(w)
    BY <1>1, <1>2, <1>6 DEF Complete, HandlerReturned
  <1>7. CASE Fail(w)
    BY <1>1, <1>2, <1>7 DEF Fail
  <1>8. QED BY <1>1, <1>2, <1>3, <1>4, <1>5, <1>6, <1>7 DEF Handle

\* What it may do to the message it holds: nothing, take it out and leave a
\* retry, settle it after its last attempt, or leave a retry beside it.
LEMMA RunEndForms ==
    ASSUME WInv, NEW w \in Workers, job[w] \in Jobs,
           Throws(w, TRUE) \/ Throws(w, FALSE) \/ LosesFrames(w)
    PROVE  /\ Idle(w)
           /\ \/ UNCHANGED <<message, retries, deadLetters>>
              \/ /\ Holds(w) /\ ~IsLast(w)
                 /\ message' \in {message, [message EXCEPT ![job[w]] = None]}
                 /\ retries' = retries \cup {<<job[w], attempt[w] + 1>>}
                 /\ deadLetters' = deadLetters
              \/ /\ Holds(w) /\ IsLast(w)
                 /\ message' = [message EXCEPT ![job[w]] = None]
                 /\ retries' = retries
                 /\ deadLetters' \in {deadLetters, deadLetters \cup {job[w]}}
  BY DEF Throws, LosesFrames, GoesBack, Leaves, NextAttempt, DeadLettered

\* The message of one job leaves, and a retry of it may have been there.
LEMMA TakenOut ==
    ASSUME IInv, NEW j \in Jobs, j \in InJobQueue,
           message' = [message EXCEPT ![j] = None], retries' = retries
    PROVE  InJobQueue' = InJobQueue \/ InJobQueue' = InJobQueue \ {j}
  <1>1. \A k \in Jobs : message'[k] = IF k = j THEN None ELSE message[k]
    BY DEF IInv, TypeOK
  <1>2. ASSUME NEW k \in Jobs, k # j PROVE k \in InJobQueue' <=> k \in InJobQueue
    BY <1>1, <1>2 DEF InJobQueue
  <1>3. \A k \in InJobQueue \cup InJobQueue' : k \in Jobs
    BY DEF InJobQueue
  <1>4. CASE j \in InJobQueue'
    BY <1>2, <1>3, <1>4
  <1>5. CASE j \notin InJobQueue'
    BY <1>2, <1>3, <1>5
  <1>6. QED BY <1>4, <1>5

\* The other handlers hold what they held.
LEMMA OthersHold ==
    ASSUME WInv, NEW w \in Workers, job[w] \in Jobs, Idle(w),
           holder' \in {holder, [holder EXCEPT ![job[w]] = None]},
           message' = message \/ (Holds(w) /\ message' = [message EXCEPT ![job[w]] = None]),
           NEW v \in Workers, Holds(v)'
    PROVE  attempt'[v] = message'[job'[v]]
  <1> USE DEF WInv
  <1>1. v # w
    BY DEF Holds, Idle, IInv, TypeOK
  <1>2. job'[v] = job[v] /\ attempt'[v] = attempt[v]
    BY <1>1 DEF Idle, IInv, TypeOK
  <1>3. job[v] \in Jobs /\ holder'[job[v]] = v
    BY <1>2 DEF Holds, IInv, TypeOK
  <1>4. holder[job[v]] = v
    BY <1>3, PipelineAssumption DEF IInv, TypeOK
  <1>5. Holds(v)
    BY <1>2, <1>3, <1>4, PipelineAssumption DEF Holds
  <1>6. message'[job[v]] = message[job[v]]
    <2>1. CASE message' = message
      BY <2>1
    <2>2. CASE Holds(w) /\ message' = [message EXCEPT ![job[w]] = None]
      <3>1. job[v] # job[w]
        BY <1>1, <1>4, <2>2 DEF Holds
      <3>2. QED BY <1>3, <2>2, <3>1 DEF IInv, TypeOK
    <2>3. QED BY <2>1, <2>2
  <1>7. QED BY <1>2, <1>5, <1>6 DEF RunsAreEarned

LEMMA ReturnedKeepsRuns ==
    ASSUME WInv, NEW w \in Workers, job[w] \in InJobQueue, HandlerReturned(w),
           handled' = handled \cup {job[w]}, UNCHANGED failedRuns
    PROVE  RunsAreEarned' /\ JobQueue!Next
  <1> USE DEF WInv
  <1>1. job[w] \in Jobs
    BY DEF InJobQueue
  <1>2. /\ Idle(w) /\ UNCHANGED <<retries, deadLetters>>
        /\ \/ UNCHANGED <<message, holder>>
           \/ /\ Holds(w)
              /\ message' = [message EXCEPT ![job[w]] = None]
              /\ holder' = [holder EXCEPT ![job[w]] = None]
    BY DEF HandlerReturned, Returns, Leaves
  <1>3. ASSUME NEW v \in Workers, Holds(v)' PROVE attempt'[v] = message'[job'[v]]
    <2>1. /\ holder' \in {holder, [holder EXCEPT ![job[w]] = None]}
          /\ message' = message \/ (Holds(w) /\ message' = [message EXCEPT ![job[w]] = None])
      BY <1>2
    <2>2. QED BY <1>1, <1>2, <1>3, <2>1, OthersHold
  <1>4. \A k \in Jobs : message'[k] # None => message'[k] = message[k]
    BY <1>2 DEF IInv, TypeOK
  <1>5. RunsAreEarned'
    BY <1>2, <1>3, <1>4 DEF RunsAreEarned
  <1>6. InJobQueue' = InJobQueue \/ InJobQueue' = InJobQueue \ {job[w]}
    BY <1>1, <1>2, TakenOut, SameJobQueue
  <1>7. JobQueue!Succeed(job[w]) \/ JobQueue!SucceedAndSettle(job[w])
    BY <1>2, <1>6 DEF JobQueue!Succeed, JobQueue!SucceedAndSettle
  <1>8. QED BY <1>1, <1>5, <1>7 DEF JobQueue!Next

LEMMA ThrewKeepsRuns ==
    ASSUME WInv, NEW w \in Workers, job[w] \in InJobQueue,
           Throws(w, TRUE) \/ Throws(w, FALSE) \/ LosesFrames(w),
           failedRuns' = [failedRuns EXCEPT ![job[w]] = IF @ < MaxAttempts THEN @ + 1 ELSE @],
           UNCHANGED handled
    PROVE  RunsAreEarned' /\ failedRuns' \in [Jobs -> 0..MaxAttempts] /\ JobQueue!Next
  <1> USE DEF WInv, HistoriesOK
  <1>1. job[w] \in Jobs
    BY DEF InJobQueue
  <1>2. /\ failedRuns' \in [Jobs -> 0..MaxAttempts]
        /\ \A k \in Jobs : failedRuns[k] <= failedRuns'[k]
    BY <1>1, PipelineAssumption
  <1>3. Idle(w)
    BY <1>1, RunEndForms
  <1>4. /\ holder' \in {holder, [holder EXCEPT ![job[w]] = None]}
        /\ message' = message \/ (Holds(w) /\ message' = [message EXCEPT ![job[w]] = None])
    <2>1. CASE Throws(w, TRUE)
      BY <2>1 DEF Throws, Leaves
    <2>2. CASE Throws(w, FALSE)
      BY <2>2 DEF Throws, Leaves
    <2>3. CASE LosesFrames(w)
      BY <2>3 DEF LosesFrames, GoesBack
    <2>4. QED BY <2>1, <2>2, <2>3
  <1>5. ASSUME NEW v \in Workers, Holds(v)' PROVE attempt'[v] = message'[job'[v]]
    BY <1>1, <1>3, <1>4, <1>5, OthersHold
  <1>6. \A k \in Jobs : message'[k] # None => message'[k] = message[k]
    BY <1>1, <1>4 DEF IInv, TypeOK
  <1>7. \A k \in Jobs : message'[k] # None => message'[k] <= failedRuns'[k]
    <2>1. ASSUME NEW k \in Jobs, message'[k] # None PROVE message'[k] <= failedRuns'[k]
      <3>1. message'[k] = message[k] /\ message[k] <= failedRuns[k] /\ message[k] \in Nat
        BY <1>6, <2>1, PipelineAssumption DEF RunsAreEarned, IInv, TypeOK
      <3>2. QED BY <1>2, <3>1
    <2>2. QED BY <2>1
  <1>8. Holds(w) => /\ attempt[w] <= failedRuns[job[w]]
                    /\ attempt[w] \in 0..(MaxAttempts - 1)
    BY HeldIsInQueue DEF RunsAreEarned, IInv, TypeOK
  <1>9. \A r \in retries : r[2] <= failedRuns'[r[1]]
    <2>1. ASSUME NEW r \in retries PROVE r[2] <= failedRuns'[r[1]]
      <3>1. r[1] \in Jobs /\ r[2] \in Nat /\ r[2] <= failedRuns[r[1]]
        BY PipelineAssumption DEF RunsAreEarned, IInv, TypeOK
      <3>2. QED BY <1>2, <3>1
    <2>2. QED BY <2>1
  <1>10. CASE UNCHANGED <<message, retries, deadLetters>>
    <2>1. JobQueue!Fail(job[w])
      BY <1>10, SameJobQueue DEF JobQueue!Fail
    <2>2. QED BY <1>1, <1>2, <1>5, <1>7, <1>9, <1>10, <2>1 DEF RunsAreEarned, JobQueue!Next
  <1>11. CASE /\ Holds(w) /\ ~IsLast(w)
              /\ message' \in {message, [message EXCEPT ![job[w]] = None]}
              /\ retries' = retries \cup {<<job[w], attempt[w] + 1>>}
              /\ deadLetters' = deadLetters
    <2>1. attempt[w] + 1 <= failedRuns'[job[w]]
      BY <1>1, <1>8, <1>11, PipelineAssumption DEF IsLast
    <2>2. \A r \in retries' : r[2] <= failedRuns'[r[1]]
      BY <1>9, <1>11, <2>1
    <2>3. attempt[w] + 1 \in 0..(MaxAttempts - 1)
      BY <1>8, <1>11, PipelineAssumption DEF IsLast
    <2>4. InJobQueue' = InJobQueue
      <3>1. job[w] \in InJobQueue'
        BY <1>1, <1>11, <2>3 DEF InJobQueue
      <3>2. ASSUME NEW k \in Jobs, k # job[w] PROVE k \in InJobQueue' <=> k \in InJobQueue
        <4>1. message'[k] = message[k]
          BY <1>11, <3>2 DEF IInv, TypeOK
        <4>2. \A n : <<k, n>> \in retries' <=> <<k, n>> \in retries
          BY <1>11, <3>2
        <4>3. QED BY <4>1, <4>2 DEF InJobQueue
      <3>3. QED BY <3>1, <3>2 DEF InJobQueue
    <2>5. JobQueue!Fail(job[w])
      BY <1>11, <2>4 DEF JobQueue!Fail
    <2>6. QED BY <1>1, <1>2, <1>5, <1>7, <2>2, <2>5 DEF RunsAreEarned, JobQueue!Next
  <1>12. CASE /\ Holds(w) /\ IsLast(w)
              /\ message' = [message EXCEPT ![job[w]] = None]
              /\ retries' = retries
              /\ deadLetters' \in {deadLetters, deadLetters \cup {job[w]}}
    <2>1. failedRuns[job[w]] \in 0..MaxAttempts /\ failedRuns[job[w]] + 1 >= MaxAttempts
      BY <1>1, <1>8, <1>12, PipelineAssumption DEF IsLast
    <2>2. failedRuns' = [failedRuns EXCEPT ![job[w]] = MaxAttempts]
      <3>1. (IF failedRuns[job[w]] < MaxAttempts THEN failedRuns[job[w]] + 1 ELSE failedRuns[job[w]])
              = MaxAttempts
        BY <2>1, PipelineAssumption
      <3>2. QED BY <3>1
    <2>3. InJobQueue' = InJobQueue \/ InJobQueue' = InJobQueue \ {job[w]}
      BY <1>1, <1>12, TakenOut
    <2>4. JobQueue!FailAndSettle(job[w])
      BY <1>12, <2>1, <2>2, <2>3 DEF JobQueue!FailAndSettle
    <2>5. QED BY <1>1, <1>2, <1>5, <1>7, <1>9, <1>12, <2>4 DEF RunsAreEarned, JobQueue!Next
  <1>13. QED BY <1>1, <1>10, <1>11, <1>12, RunEndForms

LEMMA HandleKeepsRuns ==
    ASSUME WInv, NEW w \in Workers, Handle(w), RunJudged(w)
    PROVE  /\ RunsAreEarned' /\ handled' \subseteq Jobs /\ failedRuns' \in [Jobs -> 0..MaxAttempts]
           /\ JobQueue!Next \/ UNCHANGED <<InJobQueue, handled, failedRuns, deadLetters>>
  <1> USE DEF WInv, HistoriesOK, jobHistory
  <1>1. job[w] \in Jobs
    BY HandleForms
  <1>2. CASE \E stage \in Stages \ {"idle"} : GoOn(w, stage)
    <2>1. UNCHANGED <<job, attempt, message, holder, retries, deadLetters>> /\ pc'[w] # "idle"
      BY <1>2 DEF GoOn, IInv, TypeOK
    <2>2. UNCHANGED <<handled, failedRuns>>
      BY <2>1 DEF RunJudged
    <2>3. QED BY <2>1, <2>2, SameJobQueue DEF RunsAreEarned, Holds
  <1>3. CASE HandlerReturned(w) \/ Throws(w, TRUE) \/ Throws(w, FALSE) \/ LosesFrames(w)
    <2>1. pc'[w] = "idle" /\ Idle(w)
      BY <1>3 DEF HandlerReturned, Returns, Throws, LosesFrames, Idle, IInv, TypeOK
    <2>2. CASE job[w] \notin InJobQueue
      <3>1. UNCHANGED <<message, holder, retries, deadLetters>>
        BY <1>3, <2>2, HeldIsInQueue DEF HandlerReturned, Returns, Throws, LosesFrames
      <3>2. UNCHANGED <<handled, failedRuns>>
        BY <2>1, <2>2 DEF RunJudged
      <3>3. ASSUME NEW v \in Workers, Holds(v)' PROVE attempt'[v] = message'[job'[v]]
        BY <1>1, <2>1, <3>1, <3>3, OthersHold
      <3>4. QED BY <3>1, <3>2, <3>3, SameJobQueue DEF RunsAreEarned
    <2>3. CASE job[w] \in InJobQueue /\ HandlerReturned(w)
      <3>1. handled' = handled \cup {job[w]} /\ UNCHANGED failedRuns
        BY <2>1, <2>3 DEF RunJudged
      <3>2. QED BY <1>1, <2>3, <3>1, ReturnedKeepsRuns
    <2>4. CASE job[w] \in InJobQueue /\ ~HandlerReturned(w)
      <3>1. /\ failedRuns' = [failedRuns EXCEPT ![job[w]] = IF @ < MaxAttempts THEN @ + 1 ELSE @]
            /\ UNCHANGED handled
        BY <2>1, <2>4 DEF RunJudged
      <3>2. QED BY <1>3, <2>4, <3>1, ThrewKeepsRuns
    <2>5. QED BY <2>2, <2>3, <2>4
  <1>4. QED BY <1>2, <1>3, HandleForms

-----------------------------------------------------------------------------
(* The status queue *)

LEMMA ReportsAreReports ==
    ASSUME IInv
    PROVE  /\ InStatusQueue \subseteq AllReports
           /\ \A u \in updates : u.made \in 0..(StatusAttempts - 1)
  BY DEF IInv, TypeOK, AllUpdates, InStatusQueue, ReportOf, AllReports

LEMMA SameStatusQueue ==
    ASSUME updates' = updates
    PROVE  InStatusQueue' = InStatusQueue
  BY DEF InStatusQueue

\* A step of a handler sends one report or none.
LEMMA HandleSends ==
    ASSUME IInv, NEW w \in Workers, Handle(w)
    PROVE  updates' = updates \/ \E s \in Reports : updates' = updates \cup {Update(w, s)}
  <1> USE DEF Sent, SendRejected, Reports
  <1>1. CASE Announce(w)
    BY <1>1 DEF Announce
  <1>2. CASE Fetch(w) \/ PutText(w)
    BY <1>2 DEF Fetch, PutText
  <1>3. CASE Complete(w)
    BY <1>3 DEF Complete
  <1>4. CASE Fail(w)
    BY <1>4 DEF Fail
  <1>5. QED BY <1>1, <1>2, <1>3, <1>4 DEF Handle

LEMMA HandleKeepsReports ==
    ASSUME WInv, NEW w \in Workers, Handle(w), ReportsAccepted
    PROVE  /\ UpdatesAreEarned' /\ applied' \subseteq AllReports
           /\ failedUpdates' \in [AllReports -> 0..StatusAttempts]
           /\ StatusQueue!Next \/ UNCHANGED <<InStatusQueue, applied, failedUpdates>>
  <1> USE DEF WInv, HistoriesOK
  <1>1. /\ applied' \subseteq AllReports
        /\ failedUpdates' \in [AllReports -> 0..StatusAttempts]
    BY PipelineAssumption DEF ReportsAccepted
  <1>2. ASSUME NEW u \in updates PROVE u.made <= failedUpdates'[ReportOf(u)]
    <2>1. ReportOf(u) \in InStatusQueue /\ ReportOf(u) \in AllReports
      BY ReportsAreReports DEF InStatusQueue
    <2>2. failedUpdates'[ReportOf(u)] = failedUpdates[ReportOf(u)]
      BY <2>1 DEF ReportsAccepted
    <2>3. QED BY <2>2 DEF UpdatesAreEarned
  <1>3. CASE InStatusQueue' = InStatusQueue
    <2>1. applied' = applied
      BY <1>3 DEF ReportsAccepted
    <2>2. failedUpdates' = [r \in AllReports |-> failedUpdates[r]]
      BY <1>3 DEF ReportsAccepted
    <2>3. failedUpdates' = failedUpdates
      BY <2>2
    <2>4. UNCHANGED <<InStatusQueue, applied, failedUpdates>>
      BY <1>3, <2>1, <2>3
    <2>5. CASE updates' = updates
      BY <1>1, <1>2, <2>4, <2>5 DEF UpdatesAreEarned
    <2>6. ASSUME NEW s \in Reports, updates' = updates \cup {Update(w, s)} PROVE UpdatesAreEarned'
      <3>1. ReportOf(Update(w, s)) \in InStatusQueue'
        BY <2>6 DEF InStatusQueue
      <3>2. 0 <= failedUpdates'[ReportOf(Update(w, s))] /\ Update(w, s).made = 0
        BY <1>1, <1>3, <3>1, ReportsAreReports DEF Update
      <3>3. QED BY <1>2, <2>6, <3>2 DEF UpdatesAreEarned
    <2>7. QED BY <1>1, <2>4, <2>5, <2>6, HandleSends
  <1>4. CASE InStatusQueue' # InStatusQueue
    <2>1. PICK s \in Reports : updates' = updates \cup {Update(w, s)}
      BY <1>4, HandleSends, SameStatusQueue
    <2>2. PICK r : r = ReportOf(Update(w, s))
      OBVIOUS
    <2>3. InStatusQueue' = InStatusQueue \cup {r}
      BY <2>1, <2>2 DEF InStatusQueue
    <2>4. InStatusQueue' \ InStatusQueue = {r} /\ r \notin InStatusQueue
      BY <1>4, <2>3
    <2>5. r \in AllReports
      <3>1. job[w] \in Jobs
        BY HandleForms
      <3>2. QED BY <2>2, <3>1 DEF ReportOf, Update, AllReports
    <2>6. applied' = applied \ {r}
      BY <2>4 DEF ReportsAccepted
    <2>7. failedUpdates' = [failedUpdates EXCEPT ![r] = 0]
      BY <2>4, <2>5 DEF ReportsAccepted
    <2>8. StatusQueue!Accept(r)
      BY <2>3, <2>4, <2>6, <2>7 DEF StatusQueue!Accept
    <2>9. Update(w, s).made <= failedUpdates'[ReportOf(Update(w, s))]
      BY <2>2, <2>5, <2>7 DEF Update
    <2>10. QED BY <1>1, <1>2, <2>1, <2>5, <2>8, <2>9 DEF UpdatesAreEarned, StatusQueue!Next
  <1>5. QED BY <1>3, <1>4

\* One copy of a report leaves, and another may have been there.
LEMMA ReportTakenOut ==
    ASSUME IInv, NEW u \in updates, updates' = updates \ {u}
    PROVE  InStatusQueue' = InStatusQueue \/ InStatusQueue' = InStatusQueue \ {ReportOf(u)}
  <1>1. InStatusQueue = InStatusQueue' \cup {ReportOf(u)}
    BY DEF InStatusQueue
  <1>2. QED BY <1>1

LEMMA UpdateKeepsReports ==
    ASSUME WInv, NEW u \in updates,
           (ApplyUpdate(u) /\ UpdateReturned(u)) \/ (UpdateFails(u) /\ UpdateThrew(u))
    PROVE  /\ UpdatesAreEarned' /\ applied' \subseteq AllReports
           /\ failedUpdates' \in [AllReports -> 0..StatusAttempts]
           /\ StatusQueue!Next
  <1> USE DEF WInv, HistoriesOK
  <1>1. /\ ReportOf(u) \in InStatusQueue /\ ReportOf(u) \in AllReports
        /\ u.made \in 0..(StatusAttempts - 1) /\ u.made <= failedUpdates[ReportOf(u)]
    BY ReportsAreReports DEF InStatusQueue, UpdatesAreEarned
  <1>2. CASE ApplyUpdate(u) /\ UpdateReturned(u)
    <2>1. applied' = applied \cup {ReportOf(u)} /\ failedUpdates' = failedUpdates
      BY <1>2 DEF UpdateReturned
    <2>2. updates' = updates \/ updates' = updates \ {u}
      BY <1>2 DEF ApplyUpdate
    <2>3. UpdatesAreEarned'
      BY <2>1, <2>2 DEF UpdatesAreEarned
    <2>4. InStatusQueue' = InStatusQueue \/ InStatusQueue' = InStatusQueue \ {ReportOf(u)}
      BY <2>2, ReportTakenOut, SameStatusQueue
    <2>5. StatusQueue!Succeed(ReportOf(u)) \/ StatusQueue!SucceedAndSettle(ReportOf(u))
      BY <1>1, <2>1, <2>4 DEF StatusQueue!Succeed, StatusQueue!SucceedAndSettle
    <2>6. QED BY <1>1, <2>1, <2>3, <2>5 DEF StatusQueue!Next
  <1>3. CASE UpdateFails(u) /\ UpdateThrew(u)
    <2>1. /\ failedUpdates' = [failedUpdates EXCEPT ![ReportOf(u)] =
                                  IF @ < StatusAttempts THEN @ + 1 ELSE @]
          /\ applied' = applied
      BY <1>3 DEF UpdateThrew
    <2>2. /\ failedUpdates' \in [AllReports -> 0..StatusAttempts]
          /\ \A r \in AllReports : failedUpdates[r] <= failedUpdates'[r]
      BY <1>1, <2>1, PipelineAssumption
    <2>3. \A v \in updates : v.made <= failedUpdates'[ReportOf(v)]
      <3>1. ASSUME NEW v \in updates PROVE v.made <= failedUpdates'[ReportOf(v)]
        <4>1. /\ ReportOf(v) \in AllReports /\ v.made \in Nat
              /\ v.made <= failedUpdates[ReportOf(v)]
          BY ReportsAreReports, PipelineAssumption DEF InStatusQueue, UpdatesAreEarned
        <4>2. QED BY <2>2, <4>1
      <3>2. QED BY <3>1
    <2>4. CASE IsLastUpdate(u)
      <3>1. updates' = updates \ {u}
        BY <1>3, <2>4 DEF UpdateFails
      <3>2. /\ failedUpdates[ReportOf(u)] \in 0..StatusAttempts
            /\ failedUpdates[ReportOf(u)] + 1 >= StatusAttempts
        BY <1>1, <2>4, PipelineAssumption DEF IsLastUpdate
      <3>3. failedUpdates' = [failedUpdates EXCEPT ![ReportOf(u)] = StatusAttempts]
        <4>1. (IF failedUpdates[ReportOf(u)] < StatusAttempts THEN failedUpdates[ReportOf(u)] + 1
                                                               ELSE failedUpdates[ReportOf(u)])
                = StatusAttempts
          BY <3>2, PipelineAssumption
        <4>2. QED BY <2>1, <4>1
      <3>4. InStatusQueue' = InStatusQueue \/ InStatusQueue' = InStatusQueue \ {ReportOf(u)}
        BY <3>1, ReportTakenOut
      <3>5. StatusQueue!FailAndSettle(ReportOf(u))
        BY <1>1, <2>1, <3>2, <3>3, <3>4 DEF StatusQueue!FailAndSettle
      <3>6. QED BY <1>1, <2>1, <2>2, <2>3, <3>1, <3>5 DEF UpdatesAreEarned, StatusQueue!Next
    <2>5. CASE ~IsLastUpdate(u)
      <3>1. PICK n : n = [u EXCEPT !.made = u.made + 1]
        OBVIOUS
      <3>2. updates' = (updates \ {u}) \cup {n} \/ updates' = updates \cup {n}
        BY <1>3, <2>5, <3>1 DEF UpdateFails
      <3>3. n.made = u.made + 1 /\ ReportOf(n) = ReportOf(u)
        BY <3>1 DEF ReportOf, IInv, TypeOK, AllUpdates
      <3>4. n.made <= failedUpdates'[ReportOf(n)]
        BY <1>1, <2>1, <2>5, <3>3, PipelineAssumption DEF IsLastUpdate
      <3>5. InStatusQueue' = InStatusQueue
        BY <3>2, <3>3 DEF InStatusQueue
      <3>6. StatusQueue!Fail(ReportOf(u))
        BY <1>1, <2>1, <3>5 DEF StatusQueue!Fail
      <3>7. QED BY <1>1, <2>1, <2>2, <2>3, <3>2, <3>4, <3>6 DEF UpdatesAreEarned, StatusQueue!Next
    <2>6. QED BY <2>4, <2>5
  <1>4. QED BY <1>2, <1>3

-----------------------------------------------------------------------------
(* Both queues *)

\* What a step does to each of the queues, and that it keeps the histories.
LEMMA WatchedStep ==
    ASSUME WInv, WatchedNext
    PROVE  /\ HistoriesOK' /\ RunsAreEarned' /\ UpdatesAreEarned'
           /\ JobQueue!Next \/ UNCHANGED JobQueue!queueVars
           /\ StatusQueue!Next \/ UNCHANGED StatusQueue!queueVars
  <1> USE DEF WInv, HistoriesOK, jobHistory, reportHistory, JobQueue!queueVars, StatusQueue!queueVars
  <1>1. ASSUME UNCHANGED <<updates, reportHistory>>
        PROVE  /\ UpdatesAreEarned'
               /\ applied' \subseteq AllReports /\ failedUpdates' \in [AllReports -> 0..StatusAttempts]
               /\ UNCHANGED StatusQueue!queueVars
    BY <1>1, SameStatusQueue DEF UpdatesAreEarned
  <1>2. ASSUME NEW j \in Jobs, Publish(j), JobAccepted(j), UNCHANGED reportHistory
        PROVE  /\ HistoriesOK' /\ RunsAreEarned' /\ UpdatesAreEarned'
               /\ JobQueue!Next \/ UNCHANGED JobQueue!queueVars
               /\ UNCHANGED StatusQueue!queueVars
    BY <1>1, <1>2, PublishKeepsRuns DEF JobQueue!Next
  <1>3. ASSUME NEW w \in Workers, Handle(w), RunJudged(w), ReportsAccepted
        PROVE  /\ HistoriesOK' /\ RunsAreEarned' /\ UpdatesAreEarned'
               /\ JobQueue!Next \/ UNCHANGED JobQueue!queueVars
               /\ StatusQueue!Next \/ UNCHANGED StatusQueue!queueVars
    BY <1>3, HandleKeepsRuns, HandleKeepsReports
  <1>4. ASSUME NEW u \in updates, UNCHANGED jobHistory,
               (ApplyUpdate(u) /\ UpdateReturned(u)) \/ (UpdateFails(u) /\ UpdateThrew(u))
        PROVE  /\ HistoriesOK' /\ RunsAreEarned' /\ UpdatesAreEarned'
               /\ UNCHANGED JobQueue!queueVars
               /\ StatusQueue!Next
    <2>1. UNCHANGED <<message, holder, retries, deadLetters, job, attempt>>
      BY <1>4 DEF ApplyUpdate, UpdateFails, queueVars, handlerVars
    <2>2. RunsAreEarned' /\ UNCHANGED JobQueue!queueVars
      BY <1>4, <2>1, SameJobQueue DEF RunsAreEarned, Holds
    <2>3. QED BY <1>4, <2>2, UpdateKeepsReports
  <1>5. CASE Elsewhere /\ UNCHANGED <<jobHistory, reportHistory>>
    <2>1. RunsAreEarned' /\ InJobQueue' = InJobQueue /\ deadLetters' = deadLetters /\ updates' = updates
      BY <1>5, ElsewhereKeepsRuns
    <2>2. QED BY <1>1, <1>5, <2>1
  <1>6. QED BY <1>2, <1>3, <1>4, <1>5 DEF WatchedNext

LEMMA WatchedStutter ==
    ASSUME WInv, UNCHANGED watchedVars
    PROVE  /\ HistoriesOK' /\ RunsAreEarned' /\ UpdatesAreEarned'
           /\ UNCHANGED JobQueue!queueVars /\ UNCHANGED StatusQueue!queueVars
  BY SameJobQueue, SameStatusQueue
     DEF WInv, HistoriesOK, RunsAreEarned, UpdatesAreEarned, Holds, watchedVars, vars, queueVars,
         handlerVars, jobHistory, reportHistory, JobQueue!queueVars, StatusQueue!queueVars

THEOREM WatchedInvariance == WatchedSpec => []WInv
  <1>1. WInv /\ [WatchedNext]_watchedVars => WInv'
    BY WatchedStep, WatchedStutter, WatchedStepIsStep, PipelineStep DEF WInv
  <1>2. QED BY WatchedInitInvariant, <1>1, PTL DEF WatchedSpec

\* A message of either queue leaves it only after a handler has returned for it
\* or thrown at its every attempt, for any number of handlers, attempts and
\* publishes.
THEOREM PipelineQueuesKeepPromise == WatchedSpec => QueuesKeepPromise
  <1>1. WatchedInit => JobQueue!Init /\ StatusQueue!Init
    <2> SUFFICES ASSUME WatchedInit PROVE JobQueue!Init /\ StatusQueue!Init
      OBVIOUS
    <2>1. InJobQueue = {} /\ InStatusQueue = {}
      BY DEF WatchedInit, Init, InJobQueue, InStatusQueue
    <2>2. QED BY <2>1 DEF WatchedInit, Init, JobQueue!Init, StatusQueue!Init
  <1>2. WInv /\ [WatchedNext]_watchedVars => [JobQueue!Next]_(JobQueue!queueVars)
    BY WatchedStep, WatchedStutter
  <1>3. WInv /\ [WatchedNext]_watchedVars => [StatusQueue!Next]_(StatusQueue!queueVars)
    BY WatchedStep, WatchedStutter
  <1>4. QED BY <1>1, <1>2, <1>3, WatchedInvariance, PTL
            DEF WatchedSpec, QueuesKeepPromise, JobQueue!Spec, StatusQueue!Spec

=============================================================================
