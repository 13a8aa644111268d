---------------------------- MODULE JobLifecycle ----------------------------
(***************************************************************************)
(* What the job table promises, whatever dispatchers, workers, cleaners    *)
(* and crashes do: a job is created SUBMITTED, its status only moves       *)
(* forward, nothing but EXPIRED is reached before its scrape message has   *)
(* been handed to the broker, and only a finished or expired job is ever   *)
(* deleted.  The detailed modules are shown to implement this one.         *)
(***************************************************************************)
CONSTANT Jobs

VARIABLES status,      \* Jobs -> Status, or Absent
          requested    \* the jobs whose scrape message reached the broker

jobVars == <<status, requested>>

Finished == {"COMPLETED", "FAILED", "EXPIRED"}

Init == /\ status = [j \in Jobs |-> "absent"]
        /\ requested = {}

Move(j, from, to) == /\ status[j] \in from
                     /\ status' = [status EXCEPT ![j] = to]
                     /\ UNCHANGED requested

Submit(j) == Move(j, {"absent"}, "SUBMITTED")

Request(j) == /\ requested' = requested \cup {j}
              /\ UNCHANGED status

Enqueue(j) == j \in requested /\ Move(j, {"SUBMITTED"}, "ENQUEUED")

Process(j) == j \in requested /\ Move(j, {"SUBMITTED", "ENQUEUED"}, "PROCESSING")

Finish(j, outcome) ==
    j \in requested /\ Move(j, {"SUBMITTED", "ENQUEUED", "PROCESSING"}, outcome)

Expire(j) == Move(j, {"SUBMITTED", "ENQUEUED", "PROCESSING"}, "EXPIRED")

Delete(j) == Move(j, Finished, "absent")

Next == \E j \in Jobs :
    \/ Submit(j)
    \/ Request(j)
    \/ Enqueue(j)
    \/ Process(j)
    \/ \E outcome \in {"COMPLETED", "FAILED"} : Finish(j, outcome)
    \/ Expire(j)
    \/ Delete(j)

Spec == Init /\ [][Next]_jobVars
=============================================================================
