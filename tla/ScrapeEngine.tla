---------------------------- MODULE ScrapeEngine ----------------------------
(***************************************************************************)
(* ScrapeEngineService of the scraper: concurrent fetchHtml calls share a  *)
(* counting semaphore built from promises (acquireRequestSlot), a per-host *)
(* reservation of start times and a per-host rotation of user agents.      *)
(*                                                                         *)
(* The process is single threaded, so an action is the code between two    *)
(* awaits.  Resolving a waiter's promise only queues it: other code may    *)
(* run before the waiter looks at the counter again ("woken").             *)
(*                                                                         *)
(* Time is counted in ticks down to the event; a timer fires up to MaxLag  *)
(* ticks late, never early (setTimeout).                                   *)
(***************************************************************************)
EXTENDS Integers, Sequences, FiniteSets

CONSTANTS Fetches,          \* the calls of fetchHtml, each made once
          Hosts,
          HostOf,           \* getHostKey of the URL of each call
          MaxConcurrent,    \* maxConcurrentRequests
          MaxRetryAttempts, \* maxRetryAttempts
          MinInterval,      \* minRequestIntervalMs
          BaseRetryDelay,   \* baseRetryDelayMs
          AgentCount,       \* userAgents.length
          MaxLag            \* bound: how late a timer may fire

ASSUME EngineAssumption ==
    /\ IsFiniteSet(Fetches)
    /\ HostOf \in [Fetches -> Hosts]
    /\ MaxConcurrent \in Nat \ {0}
    /\ MaxRetryAttempts \in Nat \ {0}
    /\ MinInterval \in Nat
    /\ BaseRetryDelay \in Nat
    /\ AgentCount \in Nat \ {0}
    /\ MaxLag \in Nat
    /\ MaxLag < MinInterval

VARIABLES pc,          \* where each call is
          attempt,     \* its loop counter
          timer,       \* ticks until its delay() is over (pacing, backoff)
          agent,       \* the user agent it will send, as an index
          active,      \* activeRequests
          waitQueue,   \* waitQueue, the resolvers in order
          nextIn,      \* nextRequestAtByHost, as ticks from now
          agentIndex,  \* userAgentIndexByHost, modulo AgentCount
          sinceStart   \* ticks since the last request to a host started,
                       \* counted up to MinInterval (history)

vars == <<pc, attempt, timer, agent, active, waitQueue, nextIn, agentIndex, sinceStart>>

Stages == {"idle", "waiting", "woken", "pacing", "requesting", "backoff", "done", "failed"}

\* The calls between acquiring a slot and running its release function.
Holding == {"pacing", "requesting", "backoff"}
Holders == {f \in Fetches : pc[f] \in Holding}
Woken   == {f \in Fetches : pc[f] = "woken"}

Init == /\ pc = [f \in Fetches |-> "idle"]
        /\ attempt = [f \in Fetches |-> 0]
        /\ timer = [f \in Fetches |-> 0]
        /\ agent = [f \in Fetches |-> 0]
        /\ active = 0
        /\ waitQueue = <<>>
        /\ nextIn = [h \in Hosts |-> 0]
        /\ agentIndex = [h \in Hosts |-> 0]
        /\ sinceStart = [h \in Hosts |-> MinInterval]

-----------------------------------------------------------------------------
(* acquireRequestSlot and the release function it returns *)

\* Mutant of the next definition: only the last reservation counts.
ReservedFromNow(next) == MinInterval

\* Math.max(nextRequestAt, now) + minRequestIntervalMs, as ticks from now.
Reserved(next) == next + MinInterval

\* The loop test and what follows it, entered with act requests active, the
\* queue q and the other calls at p.
TryAcquire(f, act, q, p) ==
    \/ /\ act >= MaxConcurrent
       /\ active' = act
       /\ waitQueue' = Append(q, f)
       /\ pc' = [p EXCEPT ![f] = "waiting"]
       /\ timer' = [timer EXCEPT ![f] = 0]
       /\ UNCHANGED nextIn
    \/ /\ act < MaxConcurrent
       /\ active' = act + 1
       /\ waitQueue' = q
       /\ pc' = [p EXCEPT ![f] = "pacing"]
       /\ timer' = [timer EXCEPT ![f] = nextIn[HostOf[f]]]
       /\ nextIn' = [nextIn EXCEPT ![HostOf[f]] = Reserved(@)]

\* Mutant of the next definition: the released slot wakes nobody.
NobodyWoken(q, p) == p

\* waitQueue.shift() and the call of the resolver it returns.
HeadWoken(q, p) == IF q = <<>> THEN p ELSE [p EXCEPT ![Head(q)] = "woken"]
Shifted(q) == IF q = <<>> THEN q ELSE Tail(q)

\* The finally clause of the last attempt.
Finish(f, outcome) ==
    /\ active' = active - 1
    /\ waitQueue' = Shifted(waitQueue)
    /\ pc' = [HeadWoken(waitQueue, pc) EXCEPT ![f] = outcome]
    /\ UNCHANGED <<attempt, timer, agent, nextIn, agentIndex, sinceStart>>

\* The finally clause of any other attempt: the slot is released, a waiter is
\* woken, and the loop asks for a slot again before that waiter can run.
NextAttempt(f) ==
    /\ attempt' = [attempt EXCEPT ![f] = @ + 1]
    /\ TryAcquire(f, active - 1, Shifted(waitQueue), HeadWoken(waitQueue, pc))
    /\ UNCHANGED <<agent, agentIndex, sinceStart>>

-----------------------------------------------------------------------------
(* fetchHtml *)

Call(f) ==
    /\ pc[f] = "idle"
    /\ agent' = [agent EXCEPT ![f] = agentIndex[HostOf[f]]]
    /\ attempt' = [attempt EXCEPT ![f] = 1]
    /\ TryAcquire(f, active, waitQueue, pc)
    /\ UNCHANGED <<agentIndex, sinceStart>>

\* Mutant: a woken waiter takes its slot without looking at the counter again
\* (`if' in place of `while').
ResumeUnchecked(f) ==
    /\ pc[f] = "woken"
    /\ active' = active + 1
    /\ pc' = [pc EXCEPT ![f] = "pacing"]
    /\ timer' = [timer EXCEPT ![f] = nextIn[HostOf[f]]]
    /\ nextIn' = [nextIn EXCEPT ![HostOf[f]] = Reserved(@)]
    /\ UNCHANGED <<attempt, agent, waitQueue, agentIndex, sinceStart>>

\* The waiter's promise has been resolved: back to the loop test, and to the
\* end of the queue if someone else took the slot.
Resume(f) ==
    /\ pc[f] = "woken"
    /\ TryAcquire(f, active, waitQueue, pc)
    /\ UNCHANGED <<attempt, agent, agentIndex, sinceStart>>

\* axios.get.  A redirect that axios follows itself (up to five, l. 67) is part
\* of the same request: the code neither paces nor counts it.
StartRequest(f) ==
    /\ pc[f] = "pacing"
    /\ timer[f] <= 0
    /\ pc' = [pc EXCEPT ![f] = "requesting"]
    /\ timer' = [timer EXCEPT ![f] = 0]
    /\ sinceStart' = [sinceStart EXCEPT ![HostOf[f]] = 0]
    /\ UNCHANGED <<attempt, agent, active, waitQueue, nextIn, agentIndex>>

RequestOk(f) ==
    /\ pc[f] = "requesting"
    /\ Finish(f, "done")

\* getRetryDelayMs after attempt n.
RetryDelay(n, tooMany) ==
    IF tooMany THEN BaseRetryDelay * n * 2 ELSE BaseRetryDelay * 2 ^ (n - 1)

\* Mutant of the next definition: the index runs off the list.
IndexPlusOne(i) == i + 1

RotatedIndex(i) == (i + 1) % AgentCount

\* No response or a retryable status, and attempts left: the call sleeps with
\* its slot still taken.  After a 429 (tooMany) it rotates the user agent.
BackOff(f, tooMany) ==
    /\ pc[f] = "requesting"
    /\ attempt[f] < MaxRetryAttempts
    /\ IF tooMany
       THEN /\ agentIndex' = [agentIndex EXCEPT ![HostOf[f]] = RotatedIndex(@)]
            /\ agent' = [agent EXCEPT ![f] = RotatedIndex(agentIndex[HostOf[f]])]
       ELSE UNCHANGED <<agentIndex, agent>>
    /\ pc' = [pc EXCEPT ![f] = "backoff"]
    /\ timer' = [timer EXCEPT ![f] = RetryDelay(attempt[f], tooMany)]
    /\ UNCHANGED <<attempt, active, waitQueue, nextIn, sinceStart>>

BackoffOver(f) ==
    /\ pc[f] = "backoff"
    /\ timer[f] <= 0
    /\ NextAttempt(f)

\* Any other error: the catch block logs it and falls through, so the loop
\* goes on to the next attempt at once.
RetryAtOnce(f) ==
    /\ pc[f] = "requesting"
    /\ attempt[f] < MaxRetryAttempts
    /\ NextAttempt(f)

\* The last attempt failed, whatever the error.
GiveUp(f) ==
    /\ pc[f] = "requesting"
    /\ attempt[f] = MaxRetryAttempts
    /\ Finish(f, "failed")

-----------------------------------------------------------------------------
(* Time *)

Sleeping == {f \in Fetches : pc[f] \in {"pacing", "backoff"}}

Lower(n) == IF n > 0 THEN n - 1 ELSE 0

\* One tick passes, and no timer gets more than MaxLag late.
Tick ==
    /\ \A f \in Sleeping : timer[f] > -MaxLag
    /\ timer' = [f \in Fetches |-> IF f \in Sleeping THEN timer[f] - 1 ELSE timer[f]]
    /\ nextIn' = [h \in Hosts |-> Lower(nextIn[h])]
    /\ sinceStart' = [h \in Hosts |-> IF sinceStart[h] < MinInterval
                                        THEN sinceStart[h] + 1 ELSE MinInterval]
    /\ <<timer, nextIn, sinceStart>>' # <<timer, nextIn, sinceStart>>
    /\ UNCHANGED <<pc, attempt, agent, active, waitQueue, agentIndex>>

Finished(f) == pc[f] \in {"done", "failed"}

\* Nothing is left to do.
AllFinished == (\A f \in Fetches : Finished(f)) /\ UNCHANGED vars

Step(f) ==
    \/ Call(f) \/ Resume(f) \/ StartRequest(f) \/ RequestOk(f)
    \/ BackOff(f, TRUE) \/ BackOff(f, FALSE) \/ BackoffOver(f)
    \/ RetryAtOnce(f) \/ GiveUp(f)

Next == (\E f \in Fetches : Step(f)) \/ Tick \/ AllFinished

Spec == Init /\ [][Next]_vars

\* The event loop runs whatever can run and timers fire; axios ends every
\* request, by its answer or its timeout.
Fairness == WF_vars(Tick) /\ \A f \in Fetches : WF_vars(Step(f))

FairSpec == Spec /\ Fairness

-----------------------------------------------------------------------------
(* Properties *)

TypeOK ==
    /\ pc \in [Fetches -> Stages]
    /\ attempt \in [Fetches -> 0..MaxRetryAttempts]
    /\ timer \in [Fetches -> Int]
    /\ agent \in [Fetches -> 0..(AgentCount - 1)]
    /\ active \in Int
    /\ waitQueue \in Seq(Fetches)
    /\ nextIn \in [Hosts -> Nat]
    /\ agentIndex \in [Hosts -> 0..(AgentCount - 1)]
    /\ sinceStart \in [Hosts -> 0..MinInterval]

\* The counter is exactly the number of slots taken, never above the limit:
\* no path through retries, errors and wake-ups releases a slot twice or
\* forgets to.
SlotAccounting == active = Cardinality(Holders) /\ active <= MaxConcurrent

\* A call waits only while the free slots are all promised to woken calls:
\* no release is lost on a waiter, whoever barges in between.
NoLostWakeup ==
    (\E f \in Fetches : pc[f] = "waiting") => active + Cardinality(Woken) >= MaxConcurrent

\* Two calls of axios.get for one host start at least MinInterval apart, up to
\* the lateness of the timer of the first, also when retries and first attempts
\* of several calls are mixed.  The redirects within one call are not paced.
HostSpacing ==
    [][\A f \in Fetches : pc[f] = "pacing" /\ pc'[f] = "requesting"
          => sinceStart[HostOf[f]] >= MinInterval - MaxLag]_vars

\* Every call of fetchHtml returns or throws.
EveryFetchFinishes == \A f \in Fetches : pc[f] # "idle" ~> Finished(f)

-----------------------------------------------------------------------------
(* The inductive invariant *)

\* The queue q holds exactly the calls that wait according to p, each once.
QueueHolds(q, p) ==
    /\ \A f \in Fetches : p[f] = "waiting" <=> \E i \in 1..Len(q) : q[i] = f
    /\ \A i, k \in 1..Len(q) : q[i] = q[k] => i = k

QueueIsWaiting == QueueHolds(waitQueue, pc)

Pacing(h) == {f \in Fetches : pc[f] = "pacing" /\ HostOf[f] = h}

\* The reservations of a host are MinInterval apart, the next one and the
\* last start included.
Reservations ==
    \A h \in Hosts :
        /\ nextIn[h] + sinceStart[h] >= MinInterval - MaxLag
        /\ \A f \in Pacing(h) :
              /\ nextIn[h] >= timer[f] + MinInterval
              /\ sinceStart[h] + timer[f] >= MinInterval - MaxLag
              /\ timer[f] >= -MaxLag
              /\ \A g \in Pacing(h) \ {f} : \/ timer[f] >= timer[g] + MinInterval
                                            \/ timer[g] >= timer[f] + MinInterval

\* A call under way is in its first attempt or a later one, and one in backoff
\* has another attempt left.
AttemptsCounted ==
    \A f \in Fetches : /\ pc[f] # "idle" => attempt[f] >= 1
                       /\ pc[f] = "backoff" => attempt[f] < MaxRetryAttempts

IInv == /\ TypeOK
        /\ SlotAccounting
        /\ NoLostWakeup
        /\ QueueIsWaiting
        /\ Reservations
        /\ AttemptsCounted
=============================================================================
