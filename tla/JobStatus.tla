------------------------------ MODULE JobStatus ------------------------------
(***************************************************************************)
(* The status column of a job row and the guards every UPDATE of it        *)
(* carries: packages/domain/src/lib/job.types.ts and                       *)
(* packages/persistence/src/lib/postgres-job-repository.ts.  Every other   *)
(* module changes a job row through these operators only.                  *)
(***************************************************************************)

(***************************************************************************)
(* RebindMatches: createStatusGuard binds the target status of a repeated  *)
(* terminal update (and of an update to SUBMITTED) as a one-element ARRAY. *)
(* Whether `status = :targetStatus' then matches the same status is the    *)
(* database driver's business, so it is a parameter and the properties are *)
(* checked and proved for both values.                                     *)
(***************************************************************************)
CONSTANT RebindMatches

ASSUME RebindMatchesAssumption == RebindMatches \in BOOLEAN

\* The value of a row that is not in the table.
Absent == "absent"

NonTerminal == {"SUBMITTED", "ENQUEUED", "PROCESSING"}
Terminal    == {"COMPLETED", "FAILED", "EXPIRED"}
Status      == NonTerminal \cup Terminal

\* createStatusGuard: the clause an UPDATE to s puts on the present status.
StatusGuard(old, s) ==
    \/ s = "SUBMITTED"  /\ old = "SUBMITTED" /\ RebindMatches
    \/ s = "ENQUEUED"   /\ old \in {"SUBMITTED", "ENQUEUED"}
    \/ s = "PROCESSING" /\ old \in {"SUBMITTED", "ENQUEUED", "PROCESSING"}
    \/ s \in Terminal   /\ old \in NonTerminal
    \/ s \in Terminal   /\ old = s /\ RebindMatches

\* What a status UPDATE to s leaves in a row whose status is old: a missing
\* row and a blocked transition both leave the row alone.
UpdatedStatus(old, s) == IF StatusGuard(old, s) THEN s ELSE old

\* markJobExpired carries its own clause: any row that is not finished, or
\* already EXPIRED (bound as a plain string, so it does match).
ExpiredStatus(old) == IF old \in NonTerminal \cup {"EXPIRED"} THEN "EXPIRED" ELSE old

\* Mutant of the next definition: the status clause is missing.
EnqueuedStatusUnguarded(old) == IF old \in Status THEN "ENQUEUED" ELSE old

\* The first UPDATE of markJobEnqueuedAndPublished.
EnqueuedStatus(old) == IF old \in {"SUBMITTED", "ENQUEUED"} THEN "ENQUEUED" ELSE old
=============================================================================
