---------------------------- MODULE CleanupOrder ----------------------------
(***************************************************************************)
(* The order in which ExpiredJobsCleanupService takes up overdue jobs:     *)
(* findExpiredJobs orders by expires_at, oldest first, and takes at most   *)
(* batchSize rows.  A job whose cleanup fails every time stays in front of *)
(* the order and takes up one place of every batch; the others must still  *)
(* come to their turn.                                                     *)
(*                                                                         *)
(* Rows become overdue in the order of their expires_at, so `queue', the   *)
(* overdue rows as they became so, has the order of the query.             *)
(***************************************************************************)
EXTENDS ExpiredJobsCleanup, Sequences

Seqs == INSTANCE SequencesExt

CONSTANTS Stubborn,   \* jobs of which some statement fails every time
          Dispatched  \* bound: jobs whose message reaches the broker; the
                      \* others have used up the attempts of their outbox row

ASSUME OrderAssumption ==
    /\ Stubborn \subseteq Jobs
    /\ Cardinality(Stubborn) < BatchSize
    /\ Dispatched \subseteq Jobs

VARIABLE queue        \* the overdue rows, the oldest first

orderVars == <<vars, queue>>

OrderInit == Init /\ queue = <<>>

\* Mutant: a renewed or deleted row keeps its place.
InOrderOfArrival ==
    \/ overdue' \subseteq overdue /\ UNCHANGED queue
    \/ \E j \in overdue' \ overdue : queue' = Append(queue, j)

\* A row that is renewed or deleted leaves the order, one whose expires_at
\* has passed comes last.  No step does more than one of these.
InOrder ==
    \/ overdue' = overdue /\ UNCHANGED queue
    \/ \E k \in DOMAIN queue : /\ overdue' = overdue \ {queue[k]}
                               /\ queue' = Seqs!RemoveAt(queue, k)
    \/ \E j \in Jobs \ overdue : /\ overdue' = overdue \cup {j}
                                 /\ queue' = Append(queue, j)

\* Mutant: ORDER BY expires_at DESC.
Newest == {queue[k] : k \in {n \in DOMAIN queue : n + BatchSize > Len(queue)}}

\* ORDER BY expires_at ASC LIMIT batchSize
Oldest == {queue[k] : k \in {n \in DOMAIN queue : n <= BatchSize}}

FindsOldest ==
    \A c \in Cleaners :
        phase[c] = "finding" /\ phase'[c] = "next" => todo'[c] = Oldest

Ordered == InOrder /\ FindsOldest

OrderNext ==
    /\ Next
    /\ requested' \subseteq Dispatched
    /\ Ordered

OrderSpec == OrderInit /\ [][OrderNext]_orderVars

\* A statement for job j rejects.
Fails(c, j) ==
    \/ MarkJobExpiredFails(c, j)
    \/ current[c] = j /\ (LookUpFails(c) \/ DeleteObjectFails(c) \/ DeleteJobFails(c))

Succeeds(c, j) ==
    \/ MarkJobExpired(c, j)
    \/ current[c] = j /\ (LookUp(c) \/ DeleteObject(c) \/ DeleteJob(c))

\* Every replica ticks on and its loop runs on; crashes, and errors of the
\* statements for other than the stubborn jobs, come to an end (a step that
\* may be an error is then an ordinary one with the same effect).
OrderFairness ==
    /\ \A c \in Cleaners :
          /\ SF_orderVars(TryLock(c) /\ Ordered)
          /\ WF_orderVars(FindExpiredJobs(c) /\ Ordered)
          /\ WF_orderVars(Visit(c) /\ Ordered)
          /\ WF_orderVars(Unlock(c) /\ Ordered)
    /\ <>[][\A c \in Cleaners : /\ SessionEnds(c) /\ Crash(c) => Cleaner(c)
                               /\ \A j \in Jobs \ Stubborn : Fails(c, j) => Succeeds(c, j)]_orderVars

OrderFairSpec == OrderSpec /\ OrderFairness

-----------------------------------------------------------------------------
(* Properties *)

\* Every variable has its type, and the order has each overdue row once.
OrderTypeOK ==
    /\ TypeOK
    /\ queue \in [1..Cardinality(overdue) -> Jobs]
    /\ overdue = {queue[k] : k \in DOMAIN queue}

\* An overdue job of which the statements do not always fail is deleted in the
\* end, or renewed by an update, although the jobs in front of it, fewer than
\* a batch, are never done and further ones keep coming.
NobodyIsHeldUp ==
    \A j \in Jobs \ Stubborn : j \in overdue ~> j \notin overdue
=============================================================================
