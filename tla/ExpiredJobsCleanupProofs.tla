---------------------- MODULE ExpiredJobsCleanupProofs ----------------------
(***************************************************************************)
(* Proofs about ExpiredJobsCleanup, for every number of jobs and replicas  *)
(* and every batch size: the types whatever happens, the rest as long as   *)
(* Postgres does not end the session of a working cleaner                  *)
(* (LockLoss = FALSE).  At the end, proofs about CleanupOrder, for lost    *)
(* sessions too; only OthersAreServed rests on OrderAssumption, that fewer *)
(* jobs are stubborn than a batch has places.                              *)
(***************************************************************************)
EXTENDS CleanupOrder, FiniteSetTheorems, SequenceTheorems, TLAPS

-----------------------------------------------------------------------------
(* Types, whatever happens to the lock *)

\* TypeOK in three parts: the rows, the messages and objects, the cleaners.
RowTypes == /\ status \in [Jobs -> Status \cup {Absent}]
            /\ resultPath \subseteq Rows
            /\ overdue \subseteq matured
            /\ matured \subseteq Rows

TraceTypes == /\ requested \subseteq Jobs
              /\ objects \subseteq produced
              /\ produced \subseteq requested

CleanerTypes ==
    /\ lock \subseteq Cleaners
    /\ phase \in [Cleaners -> Phases]
    /\ todo \in [Cleaners -> SUBSET Jobs]
    /\ \A c \in Cleaners : Cardinality(todo[c]) <= BatchSize
    /\ snapshot \in [Cleaners -> SUBSET Jobs]
    /\ current \in [Cleaners -> Jobs \cup {NoJob}]
    /\ \A c \in Cleaners : current[c] = NoJob <=> phase[c] \in {"idle", "finding", "next"}

LEMMA TypesSplit == TypeOK <=> RowTypes /\ TraceTypes /\ CleanerTypes
  BY DEF TypeOK, RowTypes, TraceTypes, CleanerTypes

\* A worker's update is of an existing row.
LEMMA GuardNeedsRow ==
    ASSUME NEW old, NEW s, StatusGuard(old, s)
    PROVE  old \in Status
  BY DEF StatusGuard, Status, NonTerminal, Terminal

LEMMA NoStatusIsAbsent == Absent \notin Status
  BY DEF Absent, Status, NonTerminal, Terminal

\* A statement that sets the status of one row, and removes none.
LEMMA RowStays ==
    ASSUME RowTypes, NEW j \in Jobs, NEW s \in Status, status' = [status EXCEPT ![j] = s]
    PROVE  /\ status' \in [Jobs -> Status \cup {Absent}]
           /\ Rows' = Rows \cup {j}
  BY NoStatusIsAbsent DEF RowTypes, Rows

\* ExpiredStatus of a row is that of a row, and of a missing row that of none.
LEMMA MarkingTyped ==
    ASSUME RowTypes, NEW j \in Jobs, UNCHANGED <<resultPath, overdue, matured>>,
           status' = status \/ status' = [status EXCEPT ![j] = ExpiredStatus(@)]
    PROVE  RowTypes'
  <1>1. CASE status' = status
    BY <1>1 DEF RowTypes, Rows
  <1>2. CASE status' = [status EXCEPT ![j] = ExpiredStatus(@)]
    <2>1. CASE status[j] = Absent
      BY <1>2, <2>1 DEF RowTypes, Rows, ExpiredStatus, Absent, NonTerminal
    <2>2. CASE status[j] \in Status
      <3>1. ExpiredStatus(status[j]) \in Status
        BY <2>2 DEF ExpiredStatus, Status, Terminal
      <3>2. QED BY <1>2, <3>1, RowStays DEF RowTypes
    <2>3. QED BY <2>1, <2>2 DEF RowTypes
  <1>3. QED BY <1>1, <1>2

\* The four effects of deleting a row go together.
LEMMA DeletionTyped ==
    ASSUME RowTypes, NEW j \in Jobs, RowDeleted(j)
    PROVE  RowTypes' /\ Rows' = Rows \ {j}
  BY DEF RowTypes, RowDeleted, Rows

LEMMA EnvironmentTyped ==
    ASSUME RowTypes, TraceTypes, NEW j \in Jobs, Environment(j)
    PROVE  RowTypes' /\ TraceTypes' /\ UNCHANGED <<lock, cleanerVars>>
  <1>1. CASE Submit(j)
    <2>1. Rows' = Rows \cup {j} /\ status' \in [Jobs -> Status \cup {Absent}]
      BY <1>1, RowStays DEF Submit, Status, NonTerminal
    <2>2. QED BY <1>1, <2>1 DEF Submit, RowTypes, TraceTypes
  <1>2. CASE Request(j) \/ PutText(j)
    BY <1>2 DEF Request, PutText, rowVars, RowTypes, TraceTypes, Rows
  <1>3. CASE Enqueue(j)
    <2>1. EnqueuedStatus(status[j]) \in Status /\ j \in Rows
      BY <1>3 DEF Enqueue, EnqueuedStatus, Status, NonTerminal, Rows, Absent
    <2>2. Rows' = Rows \cup {j} /\ status' \in [Jobs -> Status \cup {Absent}]
      BY <1>3, <2>1, RowStays DEF Enqueue
    <2>3. QED BY <1>3, <2>2 DEF Enqueue, RowTypes, TraceTypes
  <1>4. CASE BecomeOverdue(j)
    BY <1>4 DEF BecomeOverdue, RowTypes, TraceTypes, Rows
  <1>5. ASSUME NEW s \in {"PROCESSING", "COMPLETED", "FAILED"}, UpdateJobStatus(j, s)
        PROVE  RowTypes' /\ TraceTypes' /\ UNCHANGED <<lock, cleanerVars>>
    <2>1. status[j] \in Status /\ s \in Status
      BY <1>5, GuardNeedsRow DEF UpdateJobStatus, Status, NonTerminal, Terminal
    <2>2. j \in Rows
      BY <2>1, NoStatusIsAbsent DEF Rows
    <2>3. Rows' = Rows \cup {j} /\ status' \in [Jobs -> Status \cup {Absent}]
      BY <1>5, <2>1, RowStays DEF UpdateJobStatus
    <2>4. QED BY <1>5, <2>2, <2>3 DEF UpdateJobStatus, RowTypes, TraceTypes
  <1>6. QED BY <1>1, <1>2, <1>3, <1>4, <1>5 DEF Environment

\* What a cleaner may do to its own variables.
Moves(c, there, T, S, k) ==
    /\ phase' = [phase EXCEPT ![c] = there]
    /\ todo' = [todo EXCEPT ![c] = T]
    /\ snapshot' = [snapshot EXCEPT ![c] = S]
    /\ current' = [current EXCEPT ![c] = k]

LEMMA MovesTyped ==
    ASSUME CleanerTypes, NEW c \in Cleaners, lock' \subseteq Cleaners,
           NEW there \in Phases, NEW T \in SUBSET Jobs, NEW S \in SUBSET Jobs,
           NEW k \in Jobs \cup {NoJob},
           k = NoJob <=> there \in {"idle", "finding", "next"},
           Cardinality(T) <= BatchSize,
           Moves(c, there, T, S, k)
    PROVE  CleanerTypes'
  BY DEF CleanerTypes, Moves

\* A batch can only get smaller.
LEMMA SmallerBatch ==
    ASSUME CleanerTypes, NEW c \in Cleaners, NEW j
    PROVE  /\ todo[c] \ {j} \in SUBSET Jobs
           /\ Cardinality(todo[c] \ {j}) <= BatchSize
  <1>1. IsFiniteSet(todo[c]) /\ todo[c] \in SUBSET Jobs
    BY CleanupAssumption, FS_Subset DEF CleanerTypes
  <1>2. Cardinality(todo[c]) \in Nat /\ Cardinality(todo[c]) <= BatchSize
    BY <1>1, FS_CardinalityType DEF CleanerTypes
  <1>3. todo[c] \ {j} \in SUBSET todo[c]
    OBVIOUS
  <1>4. IsFiniteSet(todo[c] \ {j}) /\ Cardinality(todo[c] \ {j}) <= Cardinality(todo[c])
    BY <1>1, <1>3, FS_Subset
  <1>5. Cardinality(todo[c] \ {j}) \in Nat
    BY <1>4, FS_CardinalityType
  <1>6. QED BY <1>1, <1>2, <1>4, <1>5, CleanupAssumption

\* A cleaner that works on a job works on a job of the model.
LEMMA CurrentIsJob ==
    ASSUME CleanerTypes, NEW c \in Cleaners, phase[c] \in {"lookup", "object", "row"}
    PROVE  current[c] \in Jobs
  BY DEF CleanerTypes

LEMMA LockTyped ==
    ASSUME RowTypes, TraceTypes, CleanerTypes, NEW c \in Cleaners,
           TryLock(c) \/ Unlock(c) \/ SessionEnds(c)
    PROVE  RowTypes' /\ TraceTypes' /\ CleanerTypes'
  <1>1. UNCHANGED <<rowVars, requested, objects, produced>> /\ lock' \subseteq Cleaners
    BY DEF TryLock, Unlock, SessionEnds, CleanerTypes
  <1>2. RowTypes' /\ TraceTypes'
    BY <1>1 DEF rowVars, RowTypes, TraceTypes, Rows
  <1>3. CASE TryLock(c)
    <2>1. Moves(c, "finding", todo[c], snapshot[c], NoJob)
      BY <1>3 DEF TryLock, GoTo, Moves, CleanerTypes
    <2>2. todo[c] \in SUBSET Jobs /\ snapshot[c] \in SUBSET Jobs /\ Cardinality(todo[c]) <= BatchSize
      BY DEF CleanerTypes
    <2>3. QED BY <1>1, <1>2, <2>1, <2>2, MovesTyped DEF Phases
  <1>4. CASE Unlock(c) \/ (SessionEnds(c) /\ Crash(c))
    <2>1. Moves(c, "idle", {}, {}, NoJob)
      BY <1>4 DEF Unlock, SessionEnds, Crash, Forget, GoTo, Moves
    <2>2. Cardinality({}) <= BatchSize
      BY FS_EmptySet, CleanupAssumption
    <2>3. QED BY <1>1, <1>2, <2>1, <2>2, MovesTyped DEF Phases
  <1>5. CASE SessionEnds(c) /\ LoseLock(c)
    BY <1>1, <1>2, <1>5 DEF LoseLock, cleanerVars, CleanerTypes
  <1>6. QED BY <1>3, <1>4, <1>5 DEF SessionEnds

LEMMA FindTyped ==
    ASSUME RowTypes, TraceTypes, CleanerTypes, NEW c \in Cleaners, FindExpiredJobs(c)
    PROVE  RowTypes' /\ TraceTypes' /\ CleanerTypes'
  <1>1. PICK S \in SUBSET Rows :
           /\ IsExpiredBatch(S)
           /\ Moves(c, "next", S, S \cap resultPath, NoJob)
    BY DEF FindExpiredJobs, GoTo, Moves, CleanerTypes
  <1>2. S \in SUBSET Jobs /\ S \cap resultPath \in SUBSET Jobs /\ Cardinality(S) <= BatchSize
    BY <1>1 DEF IsExpiredBatch, Rows
  <1>3. UNCHANGED <<rowVars, requested, objects, produced, lock>>
    BY DEF FindExpiredJobs
  <1>4. RowTypes' /\ TraceTypes' /\ lock' \subseteq Cleaners
    BY <1>3 DEF rowVars, RowTypes, TraceTypes, Rows, CleanerTypes
  <1>5. QED BY <1>1, <1>2, <1>4, MovesTyped DEF Phases

LEMMA VisitTyped ==
    ASSUME RowTypes, TraceTypes, CleanerTypes, NEW c \in Cleaners, Visit(c)
    PROVE  RowTypes' /\ TraceTypes' /\ CleanerTypes'
  <1>0. /\ todo[c] \in SUBSET Jobs /\ snapshot[c] \in SUBSET Jobs
        /\ Cardinality(todo[c]) <= BatchSize
    BY DEF CleanerTypes
  <1>1. ASSUME NEW j \in Jobs, MarkJobExpired(c, j) \/ MarkJobExpiredFails(c, j)
        PROVE  RowTypes' /\ TraceTypes' /\ CleanerTypes'
    <2>1. RowTypes' /\ TraceTypes' /\ lock' \subseteq Cleaners
      BY <1>1, MarkingTyped DEF MarkJobExpired, MarkJobExpiredFails, TraceTypes, CleanerTypes
    <2>2. \/ Moves(c, "next", todo[c] \ {j}, snapshot[c], NoJob)
          \/ \E there \in {"object", "row", "lookup"} : Moves(c, there, todo[c] \ {j}, snapshot[c], j)
      BY <1>1 DEF MarkJobExpired, MarkJobExpiredFails, AfterMark, GoTo, Moves, CleanerTypes
    <2>3. j # NoJob
      BY CleanupAssumption
    <2>4. todo[c] \ {j} \in SUBSET Jobs /\ Cardinality(todo[c] \ {j}) <= BatchSize
      BY SmallerBatch
    <2>5. CASE Moves(c, "next", todo[c] \ {j}, snapshot[c], NoJob)
      BY <1>0, <2>1, <2>4, <2>5, MovesTyped DEF Phases
    <2>6. ASSUME NEW there \in {"object", "row", "lookup"},
                 Moves(c, there, todo[c] \ {j}, snapshot[c], j)
          PROVE  CleanerTypes'
      BY <1>0, <2>1, <2>3, <2>4, <2>6, MovesTyped DEF Phases
    <2>7. QED BY <2>1, <2>2, <2>5, <2>6
  <1>2. CASE LookUp(c) \/ LookUpFails(c) \/ DeleteObject(c) \/ DeleteObjectFails(c)
             \/ DeleteJob(c) \/ DeleteJobFails(c)
    <2>1. current[c] \in Jobs /\ current[c] # NoJob
      BY <1>2, CurrentIsJob, CleanupAssumption
         DEF LookUp, LookUpFails, DeleteObject, DeleteObjectFails, DeleteJob, DeleteJobFails
    <2>2. /\ UNCHANGED rowVars \/ RowDeleted(current[c])
          /\ objects' \subseteq objects
          /\ UNCHANGED <<requested, produced, lock>>
      BY <1>2 DEF LookUp, LookUpFails, DeleteObject, DeleteObjectFails, DeleteJob, DeleteJobFails
    <2>3. RowTypes'
      BY <2>1, <2>2, DeletionTyped DEF rowVars, RowTypes, Rows
    <2>4. TraceTypes' /\ lock' \subseteq Cleaners
      BY <2>2 DEF TraceTypes, CleanerTypes
    <2>5. \/ Moves(c, "next", todo[c], snapshot[c], NoJob)
          \/ \E there \in {"object", "row"} : Moves(c, there, todo[c], snapshot[c], current[c])
      BY <1>2 DEF LookUp, LookUpFails, DeleteObject, DeleteObjectFails, DeleteJob, DeleteJobFails,
                  NextJob, AfterMark, GoTo, Moves, CleanerTypes
    <2>6. QED BY <1>0, <2>1, <2>3, <2>4, <2>5, MovesTyped DEF Phases
  <1>3. QED BY <1>1, <1>2 DEF Visit

\* Every step keeps the types, also one that loses the lock.
THEOREM CleanupTypesStep ==
    ASSUME TypeOK, [Next]_vars
    PROVE  TypeOK'
  <1> USE TypesSplit
  <1>1. CASE UNCHANGED vars
    BY <1>1 DEF vars, TypeOK, Rows
  <1>2. ASSUME NEW c \in Cleaners, Cleaner(c) \/ SessionEnds(c)
        PROVE  TypeOK'
    <2>1. RowTypes' /\ TraceTypes' /\ CleanerTypes'
      BY <1>2, LockTyped, FindTyped, VisitTyped DEF Cleaner
    <2>2. QED BY <2>1 DEF TypeOK, RowTypes, TraceTypes, CleanerTypes
  <1>3. ASSUME NEW j \in Jobs, Environment(j)
        PROVE  TypeOK'
    <2>1. RowTypes' /\ TraceTypes' /\ UNCHANGED <<lock, cleanerVars>>
      BY <1>3, EnvironmentTyped
    <2>2. CleanerTypes'
      BY <2>1 DEF cleanerVars, CleanerTypes
    <2>3. QED BY <2>1, <2>2 DEF TypeOK, RowTypes, TraceTypes, CleanerTypes
  <1>4. QED BY <1>1, <1>2, <1>3 DEF Next

\* No row, no message, no object, and every cleaner waits.
LEMMA CleanupInitTypes == Init => TypeOK
  <1> SUFFICES ASSUME Init PROVE TypeOK
    OBVIOUS
  <1>1. \A c \in Cleaners : Cardinality(todo[c]) <= BatchSize
    BY FS_EmptySet, CleanupAssumption DEF Init
  <1>2. QED BY <1>1 DEF Init, TypeOK, Phases, Rows

\* The variables keep their types, a batch never exceeds the limit, and a
\* cleaner names a job exactly while it works on one; with sessions that are
\* lost, too.
THEOREM CleanupTypeCorrect == Spec => []TypeOK
  <1>1. TypeOK /\ [Next]_vars => TypeOK'
    BY CleanupTypesStep
  <1>2. QED BY CleanupInitTypes, <1>1, PTL DEF Spec

-----------------------------------------------------------------------------
(* The inductive invariant, for sessions that are not lost *)

\* The initial state satisfies the invariant.
THEOREM CleanupInitInvariant == Init => IInv
  <1> SUFFICES ASSUME Init PROVE IInv
    OBVIOUS
  <1>1. LockHeld /\ BatchIsMatured
    BY DEF Init, LockHeld, BatchIsMatured
  <1>2. WorkWasRequested
    BY DEF Init, WorkWasRequested, Absent, Status, NonTerminal, Terminal
  <1>3. QED BY <1>1, <1>2, CleanupInitTypes DEF IInv

-----------------------------------------------------------------------------
(* The environment *)

\* An update by a worker only makes a row move forward; a finished row keeps
\* its status.
LEMMA GuardSeparates ==
    ASSUME NEW old, NEW s \in {"PROCESSING", "COMPLETED", "FAILED"}, StatusGuard(old, s)
    PROVE  old \in Terminal => s = old
  BY DEF StatusGuard, NonTerminal, Terminal

\* A change of rows that keeps finished rows, and rows that have been overdue,
\* as they are does not touch what the invariant says of the cleaners.
LEMMA CleanersUndisturbed ==
    ASSUME IInv, UNCHANGED <<lock, cleanerVars>>, matured \subseteq matured',
           \A j \in matured : status[j] \in Terminal => status'[j] \in Terminal
    PROVE  LockHeld' /\ BatchIsMatured'
  <1>1. LockHeld'
    BY DEF IInv, LockHeld, cleanerVars
  <1>2. BatchIsMatured'
    BY DEF IInv, BatchIsMatured, cleanerVars
  <1>3. QED BY <1>1, <1>2

LEMMA EnvironmentKeeps ==
    ASSUME IInv, NEW j \in Jobs, Environment(j)
    PROVE  LockHeld' /\ BatchIsMatured' /\ WorkWasRequested'
  <1> USE DEF IInv, TypeOK
  <1>1. CASE Submit(j)
    <2>1. \A k \in matured : status'[k] = status[k]
      BY <1>1 DEF Submit, Rows
    <2>2. LockHeld' /\ BatchIsMatured'
      BY <1>1, <2>1, CleanersUndisturbed DEF Submit
    <2>3. WorkWasRequested'
      BY <1>1 DEF Submit, WorkWasRequested
    <2>4. QED BY <2>2, <2>3
  <1>2. CASE Request(j) \/ PutText(j)
    BY <1>2, CleanersUndisturbed DEF Request, PutText, rowVars, WorkWasRequested
  <1>3. CASE Enqueue(j)
    <2>1. status'[j] = "ENQUEUED" /\ \A k \in Jobs \ {j} : status'[k] = status[k]
      BY <1>3 DEF Enqueue, EnqueuedStatus
    <2>2. status[j] \notin Terminal
      BY <1>3 DEF Enqueue, Terminal
    <2>3. \A k \in matured : status[k] \in Terminal => status'[k] \in Terminal
      BY <2>1, <2>2 DEF Rows
    <2>4. LockHeld' /\ BatchIsMatured'
      BY <1>3, <2>3, CleanersUndisturbed DEF Enqueue
    <2>5. WorkWasRequested'
      BY <1>3, <2>1 DEF Enqueue, WorkWasRequested
    <2>6. QED BY <2>4, <2>5
  <1>4. CASE BecomeOverdue(j)
    BY <1>4, CleanersUndisturbed DEF BecomeOverdue, WorkWasRequested
  <1>5. ASSUME NEW s \in {"PROCESSING", "COMPLETED", "FAILED"}, UpdateJobStatus(j, s)
        PROVE  LockHeld' /\ BatchIsMatured' /\ WorkWasRequested'
    <2>1. status'[j] = s /\ \A k \in Jobs \ {j} : status'[k] = status[k]
      BY <1>5 DEF UpdateJobStatus
    <2>2. status[j] \in Terminal => s = status[j]
      BY <1>5, GuardSeparates DEF UpdateJobStatus
    <2>3. \A k \in matured : status[k] \in Terminal => status'[k] \in Terminal
      BY <2>1, <2>2 DEF Rows
    <2>4. LockHeld' /\ BatchIsMatured'
      BY <1>5, <2>3, CleanersUndisturbed DEF UpdateJobStatus
    <2>5. WorkWasRequested'
      BY <1>5, <2>1 DEF UpdateJobStatus, WorkWasRequested
    <2>6. QED BY <2>4, <2>5
  <1>6. QED BY <1>1, <1>2, <1>3, <1>4, <1>5 DEF Environment

-----------------------------------------------------------------------------
(* The cleaners *)

\* While a cleaner works every other one is idle.
LEMMA OneCleaner ==
    ASSUME IInv, NEW c \in Cleaners, phase[c] # "idle"
    PROVE  /\ c \in lock
           /\ \A d \in Cleaners \ {c} :
                 phase[d] = "idle" /\ todo[d] = {} /\ current[d] = NoJob /\ d \notin lock
  <1>1. \A d \in Cleaners \ {c} : phase[d] = "idle" /\ d \notin lock
    BY DEF IInv, LockHeld
  <1>2. QED BY <1>1 DEF IInv, TypeOK, BatchIsMatured, LockHeld

\* Taking and giving back the lock, and dying.
LEMMA LockSteps ==
    ASSUME ~LockLoss, IInv, NEW c \in Cleaners,
           TryLock(c) \/ Unlock(c) \/ SessionEnds(c)
    PROVE  LockHeld' /\ BatchIsMatured' /\ WorkWasRequested'
  <1>1. UNCHANGED <<rowVars, requested, objects, produced>>
    BY DEF TryLock, Unlock, SessionEnds
  <1>2. WorkWasRequested'
    BY <1>1 DEF IInv, WorkWasRequested, rowVars
  <1>3. CASE TryLock(c)
    <2>1. lock' = {c} /\ \A d \in Cleaners : phase[d] = "idle"
      BY <1>3 DEF TryLock, LockFree, IInv, LockHeld
    <2>2. phase' = [phase EXCEPT ![c] = "finding"] /\ UNCHANGED <<todo, snapshot, current>>
      BY <1>3 DEF TryLock, GoTo
    <2>3. QED BY <1>1, <1>2, <2>1, <2>2 DEF LockHeld, BatchIsMatured, IInv, TypeOK, rowVars
  <1>4. CASE Unlock(c) \/ SessionEnds(c)
    <2>1. /\ phase[c] # "idle"
          /\ lock' = lock \ {c}
          /\ Moves(c, "idle", {}, {}, NoJob)
      BY <1>4 DEF Unlock, SessionEnds, Crash, LoseLock, Forget, GoTo, Moves
    <2>2. QED
      BY <1>1, <1>2, <2>1, OneCleaner DEF Moves, LockHeld, BatchIsMatured, IInv, TypeOK, rowVars
  <1>5. QED BY <1>3, <1>4

\* What a working cleaner may do to its own variables, when the rows its
\* batch names stay.
LEMMA OwnMoves ==
    ASSUME IInv, NEW c \in Cleaners, phase[c] # "idle", UNCHANGED lock,
           NEW there \in Phases \ {"idle"}, NEW T, NEW S, NEW k \in Jobs \cup {NoJob},
           Moves(c, there, T, S, k),
           T \subseteq matured' \ {k},
           k # NoJob => k \in matured' /\ status'[k] \in Terminal
    PROVE  LockHeld' /\ BatchIsMatured'
  <1>1. \A d \in Cleaners \ {c} :
           phase'[d] = "idle" /\ todo'[d] = {} /\ current'[d] = NoJob /\ d \notin lock
    BY OneCleaner DEF Moves, IInv, TypeOK
  <1>2. phase'[c] = there /\ todo'[c] = T /\ current'[c] = k
    BY DEF Moves, IInv, TypeOK
  <1>3. LockHeld'
    BY <1>1, <1>2, OneCleaner DEF LockHeld, IInv
  <1>4. BatchIsMatured'
    BY <1>1, <1>2 DEF BatchIsMatured
  <1>5. QED BY <1>3, <1>4

\* Marking the row of j leaves a finished row behind, and removes none.
LEMMA MarkingKeepsRows ==
    ASSUME IInv, NEW j \in matured, status' = [status EXCEPT ![j] = ExpiredStatus(@)],
           UNCHANGED requested
    PROVE  Rows' = Rows /\ status'[j] \in Terminal /\ WorkWasRequested'
  <1>0. j \in Jobs /\ status[j] \in Status
    BY DEF IInv, TypeOK, Rows
  <1>1. status'[j] \in Terminal /\ (status'[j] = "EXPIRED" \/ status'[j] = status[j])
    BY <1>0 DEF ExpiredStatus, IInv, TypeOK, Status, NonTerminal, Terminal
  <1>2. \A k \in Jobs \ {j} : status'[k] = status[k]
    BY DEF IInv, TypeOK
  <1>3. Rows' = Rows
    BY <1>0, <1>1, <1>2, NoStatusIsAbsent DEF Rows, Status
  <1>4. WorkWasRequested'
    BY <1>0, <1>1, <1>2 DEF IInv, WorkWasRequested
  <1>5. QED BY <1>1, <1>3, <1>4

LEMMA FindKeeps ==
    ASSUME IInv, NEW c \in Cleaners, FindExpiredJobs(c)
    PROVE  LockHeld' /\ BatchIsMatured' /\ WorkWasRequested'
  <1>1. PICK S \in SUBSET Rows :
           IsExpiredBatch(S) /\ Moves(c, "next", S, S \cap resultPath, NoJob)
    BY DEF FindExpiredJobs, GoTo, Moves, IInv, TypeOK
  <1>2. phase[c] = "finding" /\ UNCHANGED <<rowVars, requested, objects, produced, lock>>
    BY DEF FindExpiredJobs
  <1>3. S \subseteq matured' \ {NoJob}
    BY <1>1, <1>2, CleanupAssumption DEF IsExpiredBatch, IInv, TypeOK, Rows, rowVars
  <1>4. LockHeld' /\ BatchIsMatured'
    BY <1>1, <1>2, <1>3, OwnMoves DEF Phases
  <1>5. QED BY <1>2, <1>4 DEF IInv, rowVars, WorkWasRequested

LEMMA MarkKeeps ==
    ASSUME IInv, NEW c \in Cleaners, NEW j \in Jobs,
           MarkJobExpired(c, j) \/ MarkJobExpiredFails(c, j)
    PROVE  LockHeld' /\ BatchIsMatured' /\ WorkWasRequested'
  <1>1. /\ phase[c] = "next" /\ j \in todo[c]
        /\ UNCHANGED <<resultPath, overdue, matured, requested, objects, produced, lock>>
    BY DEF MarkJobExpired, MarkJobExpiredFails
  <1>2. j \in matured /\ j # NoJob
    BY <1>1, CleanupAssumption DEF IInv, BatchIsMatured
  <1>3. /\ todo[c] \ {j} \subseteq matured' \ {j}
        /\ todo[c] \ {j} \subseteq matured' \ {NoJob}
    BY <1>1, CleanupAssumption DEF IInv, TypeOK, BatchIsMatured, Rows
  <1>4. CASE MarkJobExpired(c, j)
    <2>1. PICK there \in {"object", "row", "lookup"} :
             Moves(c, there, todo[c] \ {j}, snapshot[c], j)
      BY <1>4 DEF MarkJobExpired, AfterMark, GoTo, Moves, IInv, TypeOK
    <2>2. status'[j] \in Terminal /\ WorkWasRequested'
      BY <1>2, <1>4, MarkingKeepsRows DEF MarkJobExpired
    <2>3. QED BY <1>1, <1>2, <1>3, <2>1, <2>2, OwnMoves DEF Phases
  <1>5. CASE MarkJobExpiredFails(c, j)
    <2>1. Moves(c, "next", todo[c] \ {j}, snapshot[c], NoJob)
      BY <1>5 DEF MarkJobExpiredFails, Moves, IInv, TypeOK
    <2>2. CASE status' = status
      BY <1>1, <1>3, <2>1, <2>2, OwnMoves DEF Phases, IInv, WorkWasRequested
    <2>3. CASE status' = [status EXCEPT ![j] = ExpiredStatus(@)]
      BY <1>1, <1>2, <1>3, <2>1, <2>3, MarkingKeepsRows, OwnMoves DEF Phases
    <2>4. QED BY <1>5, <2>2, <2>3 DEF MarkJobExpiredFails
  <1>6. QED BY <1>4, <1>5

\* The steps after the marking that leave the rows alone.
LEMMA MiddleKeeps ==
    ASSUME IInv, NEW c \in Cleaners,
           LookUp(c) \/ LookUpFails(c) \/ DeleteObject(c) \/ DeleteObjectFails(c)
    PROVE  LockHeld' /\ BatchIsMatured' /\ WorkWasRequested'
  <1>1. phase[c] \in {"lookup", "object"} /\ UNCHANGED <<rowVars, requested, produced, lock>>
    BY DEF LookUp, LookUpFails, DeleteObject, DeleteObjectFails
  <1>2. \/ Moves(c, "next", todo[c], snapshot[c], NoJob)
        \/ \E there \in {"object", "row"} : Moves(c, there, todo[c], snapshot[c], current[c])
    BY DEF LookUp, LookUpFails, DeleteObject, DeleteObjectFails, NextJob, AfterMark, GoTo, Moves,
           IInv, TypeOK
  <1>3. /\ todo[c] \subseteq matured' \ {current[c]} /\ todo[c] \subseteq matured' \ {NoJob}
        /\ current[c] \in Jobs
        /\ current[c] \in matured' /\ status'[current[c]] \in Terminal
    BY <1>1, CleanupAssumption DEF IInv, TypeOK, BatchIsMatured, rowVars
  <1>4. LockHeld' /\ BatchIsMatured'
    BY <1>1, <1>2, <1>3, OwnMoves DEF Phases
  <1>5. QED BY <1>1, <1>4 DEF IInv, WorkWasRequested, rowVars

\* What DeleteJob does to the rows, or does not do.
LEMMA DeletionStep ==
    ASSUME IInv, NEW c \in Cleaners, DeleteJob(c) \/ DeleteJobFails(c)
    PROVE  /\ UNCHANGED rowVars \/ RowDeleted(current[c])
           /\ current[c] \in Jobs /\ current[c] \in matured
           /\ status[current[c]] \in Terminal
           /\ UNCHANGED <<requested, objects, produced, lock>>
  BY DEF DeleteJob, DeleteJobFails, IInv, TypeOK, BatchIsMatured

LEMMA DeleteRowKeeps ==
    ASSUME IInv, NEW c \in Cleaners, DeleteJob(c) \/ DeleteJobFails(c)
    PROVE  LockHeld' /\ BatchIsMatured' /\ WorkWasRequested'
  <1>1. /\ phase[c] = "row"
        /\ Moves(c, "next", todo[c], snapshot[c], NoJob)
        /\ UNCHANGED <<requested, objects, produced, lock>>
    BY DEF DeleteJob, DeleteJobFails, NextJob, GoTo, Moves, IInv, TypeOK
  <1>2. todo[c] \subseteq matured' \ {NoJob}
    BY CleanupAssumption, DeletionStep DEF IInv, TypeOK, BatchIsMatured, RowDeleted, rowVars
  <1>3. LockHeld' /\ BatchIsMatured'
    BY <1>1, <1>2, OwnMoves DEF Phases
  <1>4. WorkWasRequested'
    <2>1. CASE UNCHANGED rowVars
      BY <1>1, <2>1 DEF rowVars, IInv, WorkWasRequested
    <2>2. CASE RowDeleted(current[c])
      BY <1>1, <2>2, NoStatusIsAbsent DEF RowDeleted, IInv, TypeOK, WorkWasRequested
    <2>3. QED BY <2>1, <2>2, DeletionStep
  <1>5. QED BY <1>3, <1>4

\* Every step keeps the invariant.
THEOREM CleanupStepInvariant ==
    ASSUME ~LockLoss, IInv, [Next]_vars
    PROVE  IInv'
  <1> SUFFICES LockHeld' /\ BatchIsMatured' /\ WorkWasRequested'
    BY CleanupTypesStep DEF IInv
  <1>1. CASE UNCHANGED vars
    BY <1>1 DEF vars, IInv, LockHeld, BatchIsMatured, WorkWasRequested
  <1>2. ASSUME NEW c \in Cleaners, Cleaner(c) \/ SessionEnds(c)
        PROVE  LockHeld' /\ BatchIsMatured' /\ WorkWasRequested'
    <2>1. CASE TryLock(c) \/ Unlock(c) \/ SessionEnds(c)
      BY <2>1, LockSteps
    <2>2. CASE FindExpiredJobs(c)
      BY <2>2, FindKeeps
    <2>3. CASE Visit(c)
      BY <2>3, MarkKeeps, MiddleKeeps, DeleteRowKeeps DEF Visit
    <2>4. QED BY <1>2, <2>1, <2>2, <2>3 DEF Cleaner
  <1>3. ASSUME NEW j \in Jobs, Environment(j)
        PROVE  LockHeld' /\ BatchIsMatured' /\ WorkWasRequested'
    BY <1>3, EnvironmentKeeps
  <1>4. QED BY <1>1, <1>2, <1>3 DEF Next

THEOREM CleanupInvariance ==
    ASSUME ~LockLoss
    PROVE  Spec => []IInv
  <1>1. IInv /\ [Next]_vars => IInv'
    BY CleanupStepInvariant
  <1>2. QED BY CleanupInitInvariant, <1>1, PTL DEF Spec

-----------------------------------------------------------------------------
(* What follows from the invariant *)

\* What a step may do to the rows: an environment step leaves every row in
\* the table, a cleaner deletes at most the row it works on.
LEMMA RowsDeletedByCleaners ==
    ASSUME ~LockLoss, IInv, [Next]_vars, NEW j \in Jobs, status[j] # Absent, status'[j] = Absent
    PROVE  j \in matured /\ status[j] \in Terminal /\ status' = [status EXCEPT ![j] = Absent]
           /\ UNCHANGED requested
  <1>0. Absent \notin Status
    BY DEF Absent, Status, NonTerminal, Terminal
  <1>1. CASE UNCHANGED vars
    BY <1>1 DEF vars
  <1>2. ASSUME NEW c \in Cleaners, Cleaner(c) \/ SessionEnds(c)
        PROVE  j \in matured /\ status[j] \in Terminal /\ status' = [status EXCEPT ![j] = Absent]
               /\ UNCHANGED requested
    <2>1. CASE TryLock(c) \/ Unlock(c) \/ SessionEnds(c) \/ FindExpiredJobs(c)
      BY <2>1 DEF TryLock, Unlock, SessionEnds, FindExpiredJobs, rowVars
    <2>2. CASE LookUp(c) \/ LookUpFails(c) \/ DeleteObject(c) \/ DeleteObjectFails(c)
      BY <2>2 DEF LookUp, LookUpFails, DeleteObject, DeleteObjectFails, rowVars
    <2>3. CASE DeleteJob(c) \/ DeleteJobFails(c)
      BY <2>3, DeletionStep DEF RowDeleted, rowVars, IInv, TypeOK
    <2>4. ASSUME NEW k \in Jobs, MarkJobExpired(c, k) \/ MarkJobExpiredFails(c, k)
          PROVE  FALSE
      <3>1. k \in matured /\ UNCHANGED <<resultPath, overdue, matured, requested>>
        BY <2>4 DEF MarkJobExpired, MarkJobExpiredFails, IInv, BatchIsMatured
      <3>2. status' = status \/ status' = [status EXCEPT ![k] = ExpiredStatus(@)]
        BY <2>4 DEF MarkJobExpired, MarkJobExpiredFails
      <3>3. status' = [status EXCEPT ![k] = ExpiredStatus(@)] => Rows' = Rows
        BY <3>1, MarkingKeepsRows
      <3>4. QED BY <3>2, <3>3 DEF Rows
    <2>5. QED BY <1>2, <2>1, <2>2, <2>3, <2>4 DEF Cleaner, Visit
  <1>3. ASSUME NEW k \in Jobs, Environment(k)
        PROVE  FALSE
    <2>1. status' = status \/ \E s \in Status : status' = [status EXCEPT ![k] = s]
      BY <1>3 DEF Environment, Submit, Request, Enqueue, EnqueuedStatus, PutText, BecomeOverdue,
                  UpdateJobStatus, rowVars, Status, NonTerminal, Terminal
    <2>2. QED BY <1>0, <2>1 DEF IInv, TypeOK
  <1>4. QED BY <1>1, <1>2, <1>3 DEF Next

\* No row is deleted that has not been overdue itself.
THEOREM DeletedRowsWereOverdue ==
    ASSUME ~LockLoss
    PROVE  Spec => NoPrematureDeletion
  <1>1. IInv /\ [Next]_vars =>
          [\A j \in Jobs : status[j] # Absent /\ status'[j] = Absent => j \in matured]_vars
    BY RowsDeletedByCleaners
  <1>2. QED BY CleanupInvariance, <1>1, PTL DEF Spec, NoPrematureDeletion

-----------------------------------------------------------------------------
(* The cleanup implements JobLifecycle *)

CleanupLifecycleStep == Lifecycle!Next \/ UNCHANGED <<status, requested>>

\* What one job's submitter, dispatcher, worker and clock do.
LEMMA EnvironmentImplements ==
    ASSUME IInv, NEW j \in Jobs, Environment(j)
    PROVE  CleanupLifecycleStep
  <1>1. CASE Submit(j)
    <2>1. Lifecycle!Submit(j)
      BY <1>1 DEF Submit, Lifecycle!Submit, Lifecycle!Move, Absent
    <2>2. QED BY <2>1 DEF CleanupLifecycleStep, Lifecycle!Next
  <1>2. CASE Request(j)
    <2>1. Lifecycle!Request(j)
      BY <1>2 DEF Request, rowVars, Lifecycle!Request
    <2>2. QED BY <2>1 DEF CleanupLifecycleStep, Lifecycle!Next
  <1>3. CASE Enqueue(j)
    <2>1. CASE status[j] = "SUBMITTED"
      <3>1. Lifecycle!Enqueue(j)
        BY <1>3, <2>1 DEF Enqueue, EnqueuedStatus, Lifecycle!Enqueue, Lifecycle!Move
      <3>2. QED BY <3>1 DEF CleanupLifecycleStep, Lifecycle!Next
    <2>2. CASE status[j] = "ENQUEUED"
      <3>1. status' = status
        BY <1>3, <2>2 DEF Enqueue, EnqueuedStatus, IInv, TypeOK
      <3>2. QED BY <1>3, <3>1 DEF Enqueue, CleanupLifecycleStep
    <2>3. QED BY <1>3, <2>1, <2>2 DEF Enqueue
  <1>4. CASE PutText(j) \/ BecomeOverdue(j)
    BY <1>4 DEF PutText, BecomeOverdue, rowVars, CleanupLifecycleStep
  <1>5. ASSUME NEW s \in {"PROCESSING", "COMPLETED", "FAILED"}, UpdateJobStatus(j, s)
        PROVE  CleanupLifecycleStep
    <2>1. /\ StatusGuard(status[j], s) /\ j \in requested
          /\ status' = [status EXCEPT ![j] = s] /\ UNCHANGED requested
      BY <1>5 DEF UpdateJobStatus
    <2>2. CASE status[j] = s
      BY <2>1, <2>2 DEF CleanupLifecycleStep, IInv, TypeOK
    <2>3. CASE status[j] # s /\ s = "PROCESSING"
      <3>1. Lifecycle!Process(j)
        BY <2>1, <2>3 DEF StatusGuard, Terminal, Lifecycle!Process, Lifecycle!Move
      <3>2. QED BY <3>1 DEF CleanupLifecycleStep, Lifecycle!Next
    <2>4. CASE status[j] # s /\ s \in {"COMPLETED", "FAILED"}
      <3>1. Lifecycle!Finish(j, s)
        BY <2>1, <2>4 DEF StatusGuard, NonTerminal, Lifecycle!Finish, Lifecycle!Move
      <3>2. QED BY <2>4, <3>1 DEF CleanupLifecycleStep, Lifecycle!Next
    <2>5. QED BY <2>2, <2>3, <2>4
  <1>6. QED BY <1>1, <1>2, <1>3, <1>4, <1>5 DEF Environment

\* markJobExpired expires an unfinished row and leaves any other alone.
LEMMA MarkingImplements ==
    ASSUME IInv, NEW j \in Jobs, UNCHANGED requested,
           status' = status \/ status' = [status EXCEPT ![j] = ExpiredStatus(@)]
    PROVE  CleanupLifecycleStep
  <1>1. CASE status' # status
    <2>1. status[j] \in NonTerminal /\ status' = [status EXCEPT ![j] = "EXPIRED"]
      BY <1>1 DEF ExpiredStatus, IInv, TypeOK
    <2>2. Lifecycle!Expire(j)
      BY <2>1 DEF NonTerminal, Lifecycle!Expire, Lifecycle!Move
    <2>3. QED BY <2>2 DEF CleanupLifecycleStep, Lifecycle!Next
  <1>2. QED BY <1>1 DEF CleanupLifecycleStep

LEMMA CleanupStepImplements ==
    ASSUME ~LockLoss, IInv, [Next]_vars
    PROVE  [Lifecycle!Next]_(Lifecycle!jobVars)
  <1> SUFFICES CleanupLifecycleStep
    BY DEF CleanupLifecycleStep, Lifecycle!jobVars
  <1>1. CASE UNCHANGED vars
    BY <1>1 DEF vars, CleanupLifecycleStep
  <1>2. ASSUME NEW c \in Cleaners, Cleaner(c) \/ SessionEnds(c)
        PROVE  CleanupLifecycleStep
    <2>1. CASE TryLock(c) \/ Unlock(c) \/ SessionEnds(c) \/ FindExpiredJobs(c)
      BY <2>1 DEF TryLock, Unlock, SessionEnds, FindExpiredJobs, rowVars, CleanupLifecycleStep
    <2>2. CASE LookUp(c) \/ LookUpFails(c) \/ DeleteObject(c) \/ DeleteObjectFails(c)
      BY <2>2 DEF LookUp, LookUpFails, DeleteObject, DeleteObjectFails, rowVars, CleanupLifecycleStep
    <2>3. CASE DeleteJob(c) \/ DeleteJobFails(c)
      <3>1. CASE UNCHANGED rowVars
        BY <2>3, <3>1, DeletionStep DEF rowVars, CleanupLifecycleStep
      <3>2. CASE RowDeleted(current[c])
        <4>1. Lifecycle!Delete(current[c]) /\ current[c] \in Jobs
          BY <2>3, <3>2, DeletionStep DEF RowDeleted, Terminal, Absent, IInv, TypeOK, Rows,
             Lifecycle!Delete, Lifecycle!Move, Lifecycle!Finished
        <4>2. QED BY <4>1 DEF CleanupLifecycleStep, Lifecycle!Next
      <3>3. QED BY <2>3, <3>1, <3>2, DeletionStep
    <2>4. ASSUME NEW j \in Jobs, MarkJobExpired(c, j) \/ MarkJobExpiredFails(c, j)
          PROVE  CleanupLifecycleStep
      BY <2>4, MarkingImplements DEF MarkJobExpired, MarkJobExpiredFails
    <2>5. QED BY <1>2, <2>1, <2>2, <2>3, <2>4 DEF Cleaner, Visit
  <1>3. QED BY <1>1, <1>2, EnvironmentImplements DEF Next

\* The cleanup, running against everything else that changes a job row, only
\* takes steps of JobLifecycle: what the model of the outbox assumes of it.
THEOREM CleanupImplementsLifecycle ==
    ASSUME ~LockLoss
    PROVE  Spec => LifecycleImplemented
  <1>1. Init => Lifecycle!Init
    BY DEF Init, Lifecycle!Init, Absent
  <1>2. IInv /\ [Next]_vars => [Lifecycle!Next]_(Lifecycle!jobVars)
    BY CleanupStepImplements
  <1>3. QED
    BY CleanupInvariance, <1>1, <1>2, PTL DEF Spec, LifecycleImplemented, Lifecycle!Spec

-----------------------------------------------------------------------------
(* CleanupOrder: the queue of the overdue rows *)

\* Taking the k-th element out of a sequence makes it shorter ...
LEMMA RemoveAtTyped ==
    ASSUME NEW S, NEW n \in Nat, NEW s \in [1..n -> S], NEW k \in 1..n
    PROVE  Seqs!RemoveAt(s, k) \in [1..(n - 1) -> S]
  <1> DEFINE front == SubSeq(s, 1, k - 1)
             back  == SubSeq(s, k + 1, n)
             r     == front \o back
  <1>1. s \in Seq(S) /\ Len(s) = n
    OBVIOUS
  <1>2. front \in Seq(S) /\ Len(front) = k - 1 /\ back \in Seq(S) /\ Len(back) = n - k
    BY <1>1
  <1>3. Seqs!RemoveAt(s, k) = r
    BY <1>1 DEF Seqs!RemoveAt
  <1> HIDE DEF front, back
  <1>4. r \in Seq(S) /\ Len(r) = Len(front) + Len(back)
    BY <1>2, ConcatProperties
  <1> HIDE DEF r
  <1>5. r \in Seq(S) /\ Len(r) = n - 1
    BY <1>2, <1>4
  <1>6. r \in [1..(n - 1) -> S]
    BY <1>5
  <1>7. QED BY <1>3, <1>6

\* ... and lets those behind it move up.
LEMMA RemoveAtPlaces ==
    ASSUME NEW S, NEW n \in Nat, NEW s \in [1..n -> S], NEW k \in 1..n, NEW i \in 1..(n - 1)
    PROVE  Seqs!RemoveAt(s, k)[i] = IF i < k THEN s[i] ELSE s[i + 1]
  <1> DEFINE front == SubSeq(s, 1, k - 1)
             back  == SubSeq(s, k + 1, n)
  <1>1. s \in Seq(S) /\ Len(s) = n
    OBVIOUS
  <1>2. front \in Seq(S) /\ Len(front) = k - 1 /\ \A m \in 1..(k - 1) : front[m] = s[m]
    BY <1>1
  <1>3. back \in Seq(S) /\ Len(back) = n - k /\ \A m \in 1..(n - k) : back[m] = s[k + m]
    BY <1>1
  <1>4. Seqs!RemoveAt(s, k) = front \o back
    BY <1>1 DEF Seqs!RemoveAt
  <1> HIDE DEF front, back
  <1>5. CASE i < k
    BY <1>2, <1>3, <1>4, <1>5
  <1>6. CASE ~(i < k)
    <2>1. i - (k - 1) \in 1..(n - k) /\ k + (i - (k - 1)) = i + 1 /\ i \notin 1..(k - 1)
      BY <1>6
    <2>2. (front \o back)[i] = back[i - (k - 1)]
      BY <1>2, <1>3, <2>1
    <2>3. QED BY <1>3, <1>4, <1>6, <2>1, <2>2
  <1>7. QED BY <1>5, <1>6

\* Appending an element puts it last.
LEMMA AppendPlaces ==
    ASSUME NEW S, NEW n \in Nat, NEW s \in [1..n -> S], NEW e \in S, NEW i
    PROVE  /\ Append(s, e) \in [1..(n + 1) -> S]
           /\ i \in 1..n => Append(s, e)[i] = s[i]
           /\ Append(s, e)[n + 1] = e
  <1> DEFINE r == Append(s, e)
  <1>1. s \in Seq(S) /\ Len(s) = n
    OBVIOUS
  <1>2. /\ r \in Seq(S) /\ Len(r) = n + 1
        /\ i \in 1..n => r[i] = s[i]
        /\ r[n + 1] = e
    BY <1>1, AppendProperties
  <1> HIDE DEF r
  <1>3. r \in [1..(n + 1) -> S]
    BY <1>2
  <1>4. QED BY <1>2, <1>3 DEF r

\* The queue has each overdue row exactly once.
LEMMA QueueIsEnumeration ==
    ASSUME OrderTypeOK
    PROVE  /\ IsFiniteSet(overdue) /\ overdue \subseteq Jobs
           /\ Cardinality(overdue) \in Nat
           /\ DOMAIN queue = 1..Cardinality(overdue)
           /\ \A m, n \in DOMAIN queue : queue[m] = queue[n] => m = n
  <1>1. overdue \subseteq Jobs
    BY DEF OrderTypeOK, TypeOK, Rows
  <1>2. IsFiniteSet(overdue) /\ Cardinality(overdue) \in Nat
    BY <1>1, CleanupAssumption, FS_Subset, FS_CardinalityType
  <1> DEFINE N == Cardinality(overdue)
             D == 1..N
  <1>3. IsFiniteSet(D) /\ Cardinality(D) = N
    BY <1>2, FS_Interval
  <1>4. queue \in Surjection(D, overdue)
    BY DEF OrderTypeOK, Surjection
  <1> HIDE DEF D
  <1>5. queue \in Injection(D, overdue)
    BY <1>3, <1>4, FS_SurjSameCardinalityImpliesInj
  <1>6. QED BY <1>1, <1>2, <1>5 DEF D, Injection, IsInjective, OrderTypeOK

\* A step of the system changes at most one row's being overdue, so that the
\* queue can always follow: InOrder forbids no step.
LEMMA OneRowAtATime ==
    ASSUME TypeOK, Next
    PROVE  \/ overdue' = overdue
           \/ \E j \in overdue : overdue' = overdue \ {j}
           \/ \E j \in Jobs \ overdue : overdue' = overdue \cup {j}
  <1>1. ASSUME NEW j \in Jobs, Environment(j)
        PROVE  \/ overdue' = overdue \/ overdue' = overdue \ {j}
               \/ j \notin overdue /\ overdue' = overdue \cup {j}
    BY <1>1 DEF Environment, Submit, Request, Enqueue, PutText, BecomeOverdue, UpdateJobStatus, rowVars
  <1>2. ASSUME NEW c \in Cleaners, Cleaner(c) \/ SessionEnds(c)
        PROVE  overdue' = overdue \/ overdue' = overdue \ {current[c]}
    BY <1>2 DEF Cleaner, TryLock, FindExpiredJobs, Unlock, SessionEnds, Visit, MarkJobExpired,
                MarkJobExpiredFails, LookUp, LookUpFails, DeleteObject, DeleteObjectFails,
                DeleteJob, DeleteJobFails, RowDeleted, rowVars
  <1>3. \A j : overdue \ {j} = overdue \/ j \in overdue
    OBVIOUS
  <1>4. QED BY <1>1, <1>2, <1>3 DEF Next

\* The oldest rows, as many as a batch takes, are a batch that the model of
\* the cleanup allows: ordering it forbids no search either.
LEMMA OldestIsABatch ==
    ASSUME OrderTypeOK
    PROVE  IsExpiredBatch(Oldest) /\ Oldest \subseteq Rows
  <1> DEFINE N == Cardinality(overdue)
             K == {n \in DOMAIN queue : n <= BatchSize}
             first == [k \in K |-> queue[k]]
  <1>1. N \in Nat /\ DOMAIN queue = 1..N /\ IsFiniteSet(overdue) /\ overdue = {queue[k] : k \in 1..N}
    BY QueueIsEnumeration DEF OrderTypeOK
  <1>2. Oldest \subseteq overdue
    BY <1>1 DEF Oldest
  <1>3. Oldest \subseteq Rows
    BY <1>2 DEF OrderTypeOK, TypeOK
  <1>4. CASE N <= BatchSize
    <2>1. Oldest = overdue
      BY <1>1, <1>4, CleanupAssumption DEF Oldest
    <2>2. QED BY <1>3, <1>4, <2>1 DEF IsExpiredBatch
  <1>5. CASE ~(N <= BatchSize)
    <2>1. K = 1..BatchSize
      BY <1>1, <1>5, CleanupAssumption
    <2>2. IsFiniteSet(1..BatchSize) /\ Cardinality(1..BatchSize) = BatchSize
      BY FS_Interval, CleanupAssumption
    <2>3. first \in Bijection(K, Oldest)
      BY QueueIsEnumeration DEF Bijection, Injection, Surjection, IsInjective, Oldest
    <2> HIDE DEF K, first
    <2>4. Cardinality(Oldest) = BatchSize
      BY <2>1, <2>2, <2>3, FS_Bijection DEF ExistsBijection
    <2>5. QED BY <1>2, <1>3, <2>4, CleanupAssumption DEF IsExpiredBatch
  <1>6. QED BY <1>4, <1>5

\* The three ways the queue moves, and what each does to the places: a row
\* that leaves lets those behind it move up, one that comes is the last.
LEMMA LeavingMovesUp ==
    ASSUME OrderTypeOK, NEW k \in DOMAIN queue,
           overdue' = overdue \ {queue[k]}, queue' = Seqs!RemoveAt(queue, k)
    PROVE  /\ queue' \in [1..Cardinality(overdue') -> Jobs]
           /\ overdue' = {queue'[i] : i \in DOMAIN queue'}
           /\ DOMAIN queue' = 1..(Cardinality(overdue) - 1)
           /\ \A i \in DOMAIN queue' : queue'[i] = IF i < k THEN queue[i] ELSE queue[i + 1]
  <1>0. PICK N \in Nat : N = Cardinality(overdue)
    BY QueueIsEnumeration
  <1>1. /\ IsFiniteSet(overdue) /\ k \in 1..N /\ queue \in [1..N -> Jobs]
        /\ queue[k] \in overdue
    BY <1>0, QueueIsEnumeration DEF OrderTypeOK
  <1>2. Cardinality(overdue') = N - 1
    BY <1>0, <1>1, FS_RemoveElement
  <1>3. /\ queue' \in [1..(N - 1) -> Jobs]
        /\ \A i \in 1..(N - 1) : queue'[i] = IF i < k THEN queue[i] ELSE queue[i + 1]
    BY <1>1, RemoveAtTyped, RemoveAtPlaces
  <1>4. \A i \in 1..(N - 1) : queue'[i] \in overdue'
    <2>1. TAKE i \in 1..(N - 1)
    <2>2. \E m \in 1..N \ {k} : queue'[i] = queue[m]
      <3>1. CASE i < k
        BY <1>1, <1>3, <3>1
      <3>2. CASE ~(i < k)
        BY <1>1, <1>3, <3>2
      <3>3. QED BY <3>1, <3>2
    <2>3. QED BY <1>1, <2>2, QueueIsEnumeration DEF OrderTypeOK
  <1>5. \A j \in overdue' : \E i \in 1..(N - 1) : queue'[i] = j
    <2>1. TAKE j \in overdue'
    <2>2. PICK m \in 1..N : queue[m] = j /\ m # k
      BY <1>1 DEF OrderTypeOK
    <2>3. CASE m < k
      BY <1>1, <1>3, <2>2, <2>3
    <2>4. CASE ~(m < k)
      <3>1. m - 1 \in 1..(N - 1) /\ ~(m - 1 < k) /\ (m - 1) + 1 = m
        BY <1>1, <2>2, <2>4
      <3>2. QED BY <1>3, <2>2, <3>1
    <2>5. QED BY <2>3, <2>4
  <1>6. DOMAIN queue' = 1..(N - 1)
    BY <1>3
  <1>7. overdue' = {queue'[i] : i \in 1..(N - 1)}
    BY <1>4, <1>5
  <1>8. QED BY <1>0, <1>2, <1>3, <1>6, <1>7

LEMMA ComingIsLast ==
    ASSUME OrderTypeOK, NEW j \in Jobs \ overdue,
           overdue' = overdue \cup {j}, queue' = Append(queue, j)
    PROVE  /\ queue' \in [1..Cardinality(overdue') -> Jobs]
           /\ overdue' = {queue'[i] : i \in DOMAIN queue'}
           /\ DOMAIN queue' = 1..(Cardinality(overdue) + 1)
           /\ \A i \in DOMAIN queue : queue'[i] = queue[i]
  <1>0. PICK N \in Nat : N = Cardinality(overdue)
    BY QueueIsEnumeration
  <1>1. IsFiniteSet(overdue) /\ queue \in [1..N -> Jobs] /\ DOMAIN queue = 1..N
    BY <1>0, QueueIsEnumeration DEF OrderTypeOK
  <1>2. Cardinality(overdue') = N + 1
    BY <1>0, <1>1, FS_AddElement
  <1>3. j \in Jobs
    OBVIOUS
  <1>4. /\ queue' \in [1..(N + 1) -> Jobs]
        /\ \A i \in 1..N : queue'[i] = queue[i]
        /\ queue'[N + 1] = j
    <2>1. queue' \in [1..(N + 1) -> Jobs]
      BY <1>1, <1>3, AppendPlaces
    <2>2. ASSUME NEW i \in 1..N PROVE queue'[i] = queue[i]
      BY <1>1, <1>3, AppendPlaces
    <2>3. queue'[N + 1] = j
      BY <1>1, <1>3, AppendPlaces
    <2>4. QED BY <2>1, <2>2, <2>3
  <1>5. 1..(N + 1) = 1..N \cup {N + 1}
    BY <1>1
  <1>6. overdue' = {queue'[i] : i \in 1..(N + 1)}
    <2>1. {queue'[i] : i \in 1..(N + 1)} = {queue[i] : i \in 1..N} \cup {j}
      BY <1>4, <1>5
    <2>2. QED BY <1>1, <2>1 DEF OrderTypeOK
  <1>7. QED BY <1>0, <1>1, <1>2, <1>4, <1>6

LEMMA OrderTypesStep ==
    ASSUME OrderTypeOK, [OrderNext]_orderVars
    PROVE  OrderTypeOK'
  <1>1. TypeOK'
    BY CleanupTypesStep DEF OrderTypeOK, OrderNext, orderVars
  <1>2. CASE overdue' = overdue /\ UNCHANGED queue
    BY <1>1, <1>2 DEF OrderTypeOK
  <1>3. ASSUME NEW k \in DOMAIN queue,
               overdue' = overdue \ {queue[k]}, queue' = Seqs!RemoveAt(queue, k)
        PROVE  OrderTypeOK'
    BY <1>1, <1>3, LeavingMovesUp DEF OrderTypeOK
  <1>4. ASSUME NEW j \in Jobs \ overdue,
               overdue' = overdue \cup {j}, queue' = Append(queue, j)
        PROVE  OrderTypeOK'
    BY <1>1, <1>4, ComingIsLast DEF OrderTypeOK
  <1>5. QED BY <1>2, <1>3, <1>4 DEF OrderNext, Ordered, InOrder, orderVars, vars

\* The queue of findExpiredJobs always lists the overdue rows, each once.
THEOREM OrderTypeCorrect == OrderSpec => []OrderTypeOK
  <1>1. OrderInit => OrderTypeOK
    <2>1. ASSUME OrderInit PROVE OrderTypeOK
      <3>1. Cardinality(overdue) = 0 /\ overdue = {}
        BY <2>1, FS_EmptySet DEF OrderInit, Init
      <3>2. queue = <<>>
        BY <2>1 DEF OrderInit
      <3>3. QED BY <2>1, <3>1, <3>2, CleanupInitTypes DEF OrderInit, OrderTypeOK
    <2>2. QED BY <2>1
  <1>2. OrderTypeOK /\ [OrderNext]_orderVars => OrderTypeOK'
    BY OrderTypesStep
  <1>3. QED BY <1>1, <1>2, PTL DEF OrderSpec

-----------------------------------------------------------------------------
(* CleanupOrder: why nobody is held up *)

\* Jobs a and b are overdue, and a has been so for longer.
Before(q, a, b) == \E m, n \in DOMAIN q : m < n /\ q[m] = a /\ q[n] = b

\* Nobody overtakes: of two jobs that stay overdue, the older stays in front.
\* A job that was renewed comes back behind all others.
NobodyOvertakes ==
    [][\A a, b \in overdue \cap overdue' : Before(queue, a, b) => Before(queue', a, b)]_orderVars

LEMMA OvertakingStep ==
    ASSUME OrderTypeOK, [OrderNext]_orderVars, NEW a \in overdue \cap overdue',
           NEW b \in overdue \cap overdue', Before(queue, a, b)
    PROVE  Before(queue', a, b)
  <1>1. PICK m, n \in DOMAIN queue : m < n /\ queue[m] = a /\ queue[n] = b
    BY DEF Before
  <1>2. CASE overdue' = overdue /\ UNCHANGED queue
    BY <1>1, <1>2 DEF Before
  <1>3. ASSUME NEW k \in DOMAIN queue,
               overdue' = overdue \ {queue[k]}, queue' = Seqs!RemoveAt(queue, k)
        PROVE  Before(queue', a, b)
    <2>1. PICK N \in Nat : N = Cardinality(overdue) /\ DOMAIN queue = 1..N
      BY QueueIsEnumeration
    <2>2. /\ DOMAIN queue' = 1..(N - 1)
          /\ \A i \in DOMAIN queue' : queue'[i] = IF i < k THEN queue[i] ELSE queue[i + 1]
      BY <1>3, <2>1, LeavingMovesUp
    <2>3. k \in 1..N /\ m \in 1..N /\ n \in 1..N /\ m # k /\ n # k
      BY <1>1, <1>3, <2>1
    <2> DEFINE Up(p) == IF p < k THEN p ELSE p - 1
    <2>4. ASSUME NEW p \in 1..N, p # k
          PROVE  Up(p) \in DOMAIN queue' /\ queue'[Up(p)] = queue[p]
      <3>1. CASE p < k
        BY <2>2, <2>3, <2>4, <3>1
      <3>2. CASE p > k
        <4>1. p - 1 \in 1..(N - 1) /\ ~(p - 1 < k) /\ (p - 1) + 1 = p /\ ~(p < k)
          BY <2>3, <2>4, <3>2
        <4>2. QED BY <2>2, <4>1
      <3>3. QED BY <2>3, <2>4, <3>1, <3>2
    <2>5. Up(m) < Up(n)
      BY <1>1, <2>3
    <2>6. QED BY <1>1, <2>3, <2>4, <2>5 DEF Before
  <1>4. ASSUME NEW j \in Jobs \ overdue,
               overdue' = overdue \cup {j}, queue' = Append(queue, j)
        PROVE  Before(queue', a, b)
    <2>1. /\ DOMAIN queue \subseteq DOMAIN queue'
          /\ \A i \in DOMAIN queue : queue'[i] = queue[i]
      BY <1>4, ComingIsLast, QueueIsEnumeration
    <2>2. QED BY <1>1, <2>1 DEF Before
  <1>5. QED BY <1>2, <1>3, <1>4 DEF OrderNext, Ordered, InOrder, orderVars, vars

\* Whatever is renewed, deleted or becomes overdue, no job overtakes another.
THEOREM OrderIsKept == OrderSpec => NobodyOvertakes
  <1>1. OrderTypeOK /\ [OrderNext]_orderVars =>
          [\A a, b \in overdue \cap overdue' : Before(queue, a, b) => Before(queue', a, b)]_orderVars
    BY OvertakingStep
  <1>2. QED BY OrderTypeCorrect, <1>1, PTL DEF OrderSpec, NobodyOvertakes

\* In front of job j there are only jobs of which the cleanup always fails.
OnlyStubbornBefore(j) == \A i \in Jobs : Before(queue, i, j) => i \in Stubborn

\* A batch that is read while such a job waits contains it: fewer stubborn jobs
\* than places cannot fill a batch.
FirstOthersAreServed ==
    [][\A c \in Cleaners : phase[c] = "finding" /\ phase'[c] = "next" =>
          \A j \in overdue : OnlyStubbornBefore(j) => j \in todo'[c]]_orderVars

\* The first job behind stubborn ones has a place in the first batch.
LEMMA FirstOtherIsOldest ==
    ASSUME OrderTypeOK, NEW j \in overdue, OnlyStubbornBefore(j)
    PROVE  j \in Oldest
  <1>1. PICK N \in Nat : DOMAIN queue = 1..N
    BY QueueIsEnumeration
  <1>2. PICK n \in 1..N : queue[n] = j
    BY <1>1 DEF OrderTypeOK
  <1> DEFINE D == 1..(n - 1)
             front == [m \in D |-> queue[m]]
  <1>3. front \in Injection(D, Stubborn)
    <2>1. ASSUME NEW m \in D
          PROVE  m \in DOMAIN queue /\ Before(queue, queue[m], j) /\ queue[m] \in Jobs
      <3>1. m \in DOMAIN queue /\ n \in DOMAIN queue /\ m < n
        BY <1>1
      <3>2. Before(queue, queue[m], j)
        BY <1>2, <3>1 DEF Before
      <3>3. QED BY <3>1, <3>2 DEF OrderTypeOK
    <2>2. \A m \in D : queue[m] \in Stubborn
      BY <2>1 DEF OnlyStubbornBefore
    <2>3. \A m, p \in D : queue[m] = queue[p] => m = p
      BY <2>1, QueueIsEnumeration
    <2>4. QED BY <2>2, <2>3 DEF Injection, IsInjective
  <1>4. IsFiniteSet(Stubborn) /\ Cardinality(Stubborn) \in Nat /\ Cardinality(Stubborn) < BatchSize
    BY CleanupAssumption, OrderAssumption, FS_Subset, FS_CardinalityType
  <1>5. Cardinality(D) = n - 1
    BY FS_Interval
  <1> HIDE DEF D, front
  <1>6. Cardinality(D) <= Cardinality(Stubborn)
    BY <1>3, <1>4, FS_Injection
  <1>7. n <= BatchSize
    BY <1>4, <1>5, <1>6, CleanupAssumption
  <1>8. QED BY <1>1, <1>2, <1>7 DEF Oldest

\* The oldest job that is not stubborn is in every batch, so that stubborn jobs
\* can never keep the cleanup from the others.
THEOREM OthersAreServed == OrderSpec => FirstOthersAreServed
  <1>1. OrderTypeOK /\ [OrderNext]_orderVars =>
          [\A c \in Cleaners : phase[c] = "finding" /\ phase'[c] = "next" =>
             \A j \in overdue : OnlyStubbornBefore(j) => j \in todo'[c]]_orderVars
    BY FirstOtherIsOldest DEF OrderNext, Ordered, FindsOldest
  <1>2. QED BY OrderTypeCorrect, <1>1, PTL DEF OrderSpec, FirstOthersAreServed

=============================================================================
