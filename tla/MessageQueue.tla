---------------------------- MODULE MessageQueue ----------------------------
(***************************************************************************)
(* RabbitMqMessageQueue: a durable queue, its retry queue, whose messages  *)
(* expire back into the first, and its dead-letter queue.  A failed        *)
(* handler makes the consumer publish the message again with one more      *)
(* attempt counted and acknowledge the copy it holds, two frames on one    *)
(* channel; the channel may close at any point, and the broker then        *)
(* redelivers whatever was not acknowledged.  The job queue can be         *)
(* declared with the deduplication plugin.                                 *)
(*                                                                         *)
(* Copies of a message are told apart by a CopyId.  The broker (external)  *)
(* keeps what it has accepted and serves each channel in order.  A retry   *)
(* waits out its backoff (1 s) and so expires only after the broker has    *)
(* read the acknowledgement sent right behind it.                          *)
(***************************************************************************)
EXTENDS Naturals, FiniteSets

CONSTANTS Messages,     \* message ids; a job's message has the id of the job
          NoMessage,    \* of a CopyId not in use
          Workers,      \* consumer channels
          NoWorker,     \* of a copy nobody holds
          MaxCopies,    \* bound: copies that exist at once
          MaxAttempts,  \* maxAttempts header
          Prefetch,     \* channel.prefetch
          Deduplicated  \* messages with a deduplication header, on a queue
                        \* with queueDeduplication.enabled

ASSUME QueueAssumption ==
    /\ NoMessage \notin Messages
    /\ NoWorker \notin Workers
    /\ MaxCopies \in Nat
    /\ MaxAttempts \in Nat \ {0}
    /\ Prefetch \in Nat \ {0}
    /\ Deduplicated \subseteq Messages

CopyId == 1..MaxCopies

VARIABLES place,         \* where each copy is
          msg,           \* its message
          attemptsMade,  \* its attemptsMade header
          holder,        \* the channel it was delivered on
          deadLetters,   \* messages in the dead-letter queue
          done,          \* messages a handler has returned for since they
                         \* were last new to the queue (history)
          failures       \* their failed runs, up to MaxAttempts (history)

vars == <<place, msg, attemptsMade, holder, deadLetters, done, failures>>
history == <<done, failures>>

\* "ready"; "held": a handler runs; then what the consumer has sent for the
\* copy and the broker has not read: "acking", "rejecting", "retrying" (the
\* retry, then the ack), "retried" (the ack only, the retry is in its queue).
\* "waiting": in the retry queue.
Unacked   == {"held", "acking", "rejecting", "retrying", "retried"}
MainQueue == {"ready"} \cup Unacked
Places    == {"free", "waiting"} \cup MainQueue

Free  == {c \in CopyId : place[c] = "free"}
Alive == CopyId \ Free

\* New copies take the lowest identifiers.
IsFresh(S) == S \subseteq Free /\ \A c \in S, d \in Free \ S : c < d

Init == /\ place = [c \in CopyId |-> "free"]
        /\ msg = [c \in CopyId |-> NoMessage]
        /\ attemptsMade = [c \in CopyId |-> 0]
        /\ holder = [c \in CopyId |-> NoWorker]
        /\ deadLetters = {}
        /\ done = {}
        /\ failures = [m \in Messages |-> 0]

-----------------------------------------------------------------------------
(* The broker *)

\* The deduplication plugin drops what is in the queue already, delivered and
\* unacknowledged copies included.
IsDuplicate(m) == m \in Deduplicated /\ \E c \in CopyId : place[c] \in MainQueue /\ msg[c] = m

Freed(c) == /\ place' = [place EXCEPT ![c] = "free"]
            /\ msg' = [msg EXCEPT ![c] = NoMessage]
            /\ attemptsMade' = [attemptsMade EXCEPT ![c] = 0]
            /\ holder' = [holder EXCEPT ![c] = NoWorker]

BackToReady(c) == /\ place' = [place EXCEPT ![c] = "ready"]
                  /\ holder' = [holder EXCEPT ![c] = NoWorker]
                  /\ UNCHANGED <<msg, attemptsMade>>

\* publish with its confirm.  A duplicate is confirmed and dropped, which
\* changes nothing.
Publish(m, c) ==
    /\ IsFresh({c})
    /\ ~IsDuplicate(m)
    /\ place' = [place EXCEPT ![c] = "ready"]
    /\ msg' = [msg EXCEPT ![c] = m]
    /\ IF \E d \in Alive : msg[d] = m
       THEN UNCHANGED history
       ELSE done' = done \ {m} /\ failures' = [failures EXCEPT ![m] = 0]
    /\ UNCHANGED <<attemptsMade, holder, deadLetters>>

HeldBy(w) == {c \in CopyId : holder[c] = w}

Deliver(w, c) ==
    /\ place[c] = "ready"
    /\ Cardinality(HeldBy(w)) < Prefetch
    /\ place' = [place EXCEPT ![c] = "held"]
    /\ holder' = [holder EXCEPT ![c] = w]
    /\ UNCHANGED <<msg, attemptsMade, deadLetters, history>>

\* The broker reads an ack ...
AckArrives(c) ==
    /\ place[c] = "acking"
    /\ Freed(c)
    /\ UNCHANGED <<deadLetters, history>>

\* ... or a nack without requeue.
RejectArrives(c) ==
    /\ place[c] = "rejecting"
    /\ deadLetters' = deadLetters \cup {msg[c]}
    /\ Freed(c)
    /\ UNCHANGED history

\* ... or a retry, which enters the retry queue with its expiration ...
RetryArrives(c) ==
    /\ place[c] = "retrying"
    /\ place' = [place EXCEPT ![c] = "retried"]
    /\ UNCHANGED <<msg, attemptsMade, holder, deadLetters, history>>

\* Mutant of the next definition: the retry does not count the attempt.
RetryNotCounted(c) ==
    /\ place[c] = "retried"
    /\ place' = [place EXCEPT ![c] = "waiting"]
    /\ holder' = [holder EXCEPT ![c] = NoWorker]
    /\ UNCHANGED <<msg, attemptsMade, deadLetters, history>>

\* ... and then the ack of its original: from here on the copy is the retry.
RetryAckArrives(c) ==
    /\ place[c] = "retried"
    /\ place' = [place EXCEPT ![c] = "waiting"]
    /\ attemptsMade' = [attemptsMade EXCEPT ![c] = @ + 1]
    /\ holder' = [holder EXCEPT ![c] = NoWorker]
    /\ UNCHANGED <<msg, deadLetters, history>>

\* Mutants of the next definition: without a backoff the retry expires before
\* the ack of its original is read, and is dropped as its duplicate; and the
\* retry has lost its deduplication header.
RetryExpiresAtOnce(c) ==
    \/ /\ place[c] = "retried"
       /\ IsDuplicate(msg[c])
       /\ place' = [place EXCEPT ![c] = "acking"]
       /\ UNCHANGED <<msg, attemptsMade, holder, deadLetters, history>>
    \/ /\ place[c] = "waiting"
       /\ IF IsDuplicate(msg[c]) THEN Freed(c) ELSE BackToReady(c)
       /\ UNCHANGED <<deadLetters, history>>

RetryExpiresUnchecked(c) ==
    /\ place[c] = "waiting"
    /\ BackToReady(c)
    /\ UNCHANGED <<deadLetters, history>>

\* The expiration of a retry: dead-lettered into the first queue, where the
\* headers extractRetryHeaders kept make it a duplicate like any other.
RetryExpires(c) ==
    /\ place[c] = "waiting"
    /\ IF IsDuplicate(msg[c]) THEN Freed(c) ELSE BackToReady(c)
    /\ UNCHANGED <<deadLetters, history>>

\* The channel closes: connection lost, process killed, or closeWorker, which
\* does not wait for handlers.  Unacknowledged copies are redelivered; a
\* retry the broker has accepted stays, beside its original.
ConnectionLost(w) ==
    /\ HeldBy(w) # {}
    /\ LET Retried == {c \in HeldBy(w) : place[c] = "retried"}
       IN  \E New \in SUBSET Free :
           \E original \in [New -> Retried] :
              /\ IsFresh(New)
              /\ \A c \in Retried : \E d \in New : original[d] = c
              /\ \A d, e \in New : original[d] = original[e] => d = e
              /\ place' = [c \in CopyId |-> IF c \in New THEN "waiting"
                                            ELSE IF c \in HeldBy(w) THEN "ready" ELSE place[c]]
              /\ msg' = [c \in CopyId |-> IF c \in New THEN msg[original[c]] ELSE msg[c]]
              /\ attemptsMade' = [c \in CopyId |-> IF c \in New THEN attemptsMade[original[c]] + 1
                                                   ELSE attemptsMade[c]]
              /\ holder' = [c \in CopyId |-> IF c \in HeldBy(w) THEN NoWorker ELSE holder[c]]
    /\ UNCHANGED <<deadLetters, history>>

-----------------------------------------------------------------------------
(* handleMessage *)

Send(c, frames) == /\ place[c] = "held"
                   /\ place' = [place EXCEPT ![c] = frames]
                   /\ UNCHANGED <<msg, attemptsMade, holder, deadLetters>>

HandlerSucceeds(c) ==
    /\ Send(c, "acking")
    /\ done' = done \cup {msg[c]}
    /\ UNCHANGED failures

FailureCounted(c) ==
    /\ failures' = [failures EXCEPT ![msg[c]] = IF @ < MaxAttempts THEN @ + 1 ELSE @]
    /\ UNCHANGED done

\* Mutant of the next definition: one attempt too many.
ExhaustedLate(c) == attemptsMade[c] >= MaxAttempts

IsExhausted(c) == attemptsMade[c] + 1 >= MaxAttempts

\* The handler throws on the last attempt: the error decides between the
\* dead-letter queue and dropping the message (shouldDeadLetterOnExhaustion).
HandlerExhausted(c, deadLetter) ==
    /\ IsExhausted(c)
    /\ Send(c, IF deadLetter THEN "rejecting" ELSE "acking")
    /\ FailureCounted(c)

\* It throws earlier: publishRetry, then ack.
HandlerFails(c) ==
    /\ ~IsExhausted(c)
    /\ Send(c, "retrying")
    /\ FailureCounted(c)

\* publishRetry throws: nack with requeue, the attempt is not counted.
RetryFails(c) ==
    /\ place[c] = "held"
    /\ ~IsExhausted(c)
    /\ BackToReady(c)
    /\ FailureCounted(c)
    /\ UNCHANGED deadLetters

-----------------------------------------------------------------------------
HandlerEnds(c) == \/ HandlerSucceeds(c)
                  \/ HandlerExhausted(c, TRUE) \/ HandlerExhausted(c, FALSE)
                  \/ HandlerFails(c)

FrameArrives(c) == AckArrives(c) \/ RejectArrives(c) \/ RetryArrives(c) \/ RetryAckArrives(c)

Next ==
    \/ \E m \in Messages, c \in CopyId : Publish(m, c)
    \/ \E w \in Workers : ConnectionLost(w)
    \/ \E w \in Workers, c \in CopyId : Deliver(w, c)
    \/ \E c \in CopyId : HandlerEnds(c) \/ RetryFails(c) \/ FrameArrives(c) \/ RetryExpires(c)

Spec == Init /\ [][Next]_vars

(***************************************************************************)
(* Fairness: the broker delivers, reads frames and expires retries; every  *)
(* handler ends, and if runs of a copy keep ending, not all of them end in *)
(* a publishRetry that throws.  Publishing and the loss of channels come   *)
(* to an end.  Nothing is assumed of the outcome of a handler.             *)
(***************************************************************************)
Fairness ==
    /\ \A c \in CopyId :
          /\ WF_vars(\E w \in Workers : Deliver(w, c))
          /\ SF_vars(HandlerEnds(c))
          /\ WF_vars(FrameArrives(c))
          /\ WF_vars(RetryExpires(c))
    /\ <>[][\A m \in Messages, c \in CopyId : ~Publish(m, c)]_vars
    /\ <>[][\A w \in Workers : ConnectionLost(w) => \E c \in CopyId : RetryFails(c)]_vars

FairSpec == Spec /\ Fairness

-----------------------------------------------------------------------------
(* Properties *)

TypeOK ==
    /\ place \in [CopyId -> Places]
    /\ msg \in [CopyId -> Messages \cup {NoMessage}]
    /\ attemptsMade \in [CopyId -> 0..(MaxAttempts - 1)]
    /\ holder \in [CopyId -> Workers \cup {NoWorker}]
    /\ \A c \in CopyId : place[c] = "free" <=> msg[c] = NoMessage
    /\ \A c \in CopyId : place[c] = "free" => attemptsMade[c] = 0
    /\ \A c \in CopyId : place[c] \in Unacked <=> holder[c] # NoWorker
    /\ deadLetters \subseteq Messages
    /\ done \subseteq Messages
    /\ failures \in [Messages -> 0..MaxAttempts]

\* With deduplication the queue never holds two copies of one message, also
\* while retries come back and the outbox publishes again.  (A handler whose
\* channel is lost runs on beside the next one; its message is still one.)
NoTwinCopies ==
    \A c, d \in CopyId :
        /\ place[c] \in MainQueue /\ place[d] \in MainQueue
        /\ msg[c] = msg[d] /\ msg[c] \in Deduplicated
        => c = d

\* The queue keeps the promise of AtLeastOnceQueue: whatever is lost,
\* redelivered, retried, duplicated or dropped as a duplicate, a message
\* disappears only after a handler succeeded or failed MaxAttempts times.
Pending == {msg[c] : c \in Alive}

Promise == INSTANCE AtLeastOnceQueue WITH pending <- Pending

PromiseKept == Promise!Spec

\* Every published message is settled in the end.
MessagesSettle == \A m \in Messages : m \in Pending ~> m \notin Pending

-----------------------------------------------------------------------------
(* The inductive invariant *)

\* A copy has been through as many failures as its header says, and one more
\* while its retry is on the way; what is being acknowledged has a verdict.
HeadersAreEarned ==
    \A c \in Alive :
        /\ attemptsMade[c] <= failures[msg[c]]
        /\ place[c] \in {"retrying", "retried"} =>
              attemptsMade[c] + 1 < MaxAttempts /\ attemptsMade[c] + 1 <= failures[msg[c]]
        /\ place[c] = "acking" => msg[c] \in done \/ failures[msg[c]] = MaxAttempts
        /\ place[c] = "rejecting" => failures[msg[c]] = MaxAttempts

IInv == TypeOK /\ NoTwinCopies /\ HeadersAreEarned
=============================================================================
