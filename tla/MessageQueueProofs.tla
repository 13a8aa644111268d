------------------------- MODULE MessageQueueProofs -------------------------
(***************************************************************************)
(* Proofs about MessageQueue, for any messages, channels, prefetch, number *)
(* of copies and attempts, whichever messages are deduplicated, and any    *)
(* number of lost channels.                                                *)
(***************************************************************************)
EXTENDS MessageQueue, TLAPS

\* What HeadersAreEarned says of a copy with the given place, message and
\* header.
Earned(p, m, n, ok, failed) ==
    /\ n <= failed[m]
    /\ p \in {"retrying", "retried"} => n + 1 < MaxAttempts /\ n + 1 <= failed[m]
    /\ p = "acking" => m \in ok \/ failed[m] = MaxAttempts
    /\ p = "rejecting" => failed[m] = MaxAttempts

LEMMA EarnedByAll ==
    /\ HeadersAreEarned <=>
         \A c \in Alive : Earned(place[c], msg[c], attemptsMade[c], done, failures)
    /\ HeadersAreEarned' <=>
         \A c \in Alive' : Earned(place'[c], msg'[c], attemptsMade'[c], done', failures')
  BY DEF HeadersAreEarned, Earned

-----------------------------------------------------------------------------
(* The invariant *)

THEOREM QueueInitInvariant == Init => IInv
  <1> SUFFICES ASSUME Init PROVE IInv
    OBVIOUS
  <1>1. TypeOK
    BY QueueAssumption DEF Init, TypeOK, Places, Unacked, MainQueue
  <1>2. Alive = {} /\ NoTwinCopies
    BY DEF Init, Alive, Free, NoTwinCopies, MainQueue, Unacked
  <1>3. QED BY <1>1, <1>2 DEF IInv, HeadersAreEarned

\* A step that changes one copy keeps the invariant, if the copy's new values
\* fit together, it enters the queue only when it is no duplicate, and the
\* histories of the others only grow.
LEMMA OneCopyChanges ==
    ASSUME IInv, NEW c \in CopyId,
           NEW p \in Places, NEW m \in Messages \cup {NoMessage},
           NEW n \in 0..(MaxAttempts - 1), NEW w \in Workers \cup {NoWorker},
           place' = [place EXCEPT ![c] = p],
           msg' = [msg EXCEPT ![c] = m],
           attemptsMade' = [attemptsMade EXCEPT ![c] = n],
           holder' = [holder EXCEPT ![c] = w],
           p = "free" <=> m = NoMessage, p = "free" => n = 0,
           p \in Unacked <=> w # NoWorker,
           deadLetters' \subseteq Messages, done' \subseteq Messages,
           failures' \in [Messages -> 0..MaxAttempts],
           \A d \in Alive \ {c} : /\ msg[d] \in done => msg[d] \in done'
                                  /\ failures[msg[d]] <= failures'[msg[d]],
           p # "free" => Earned(p, m, n, done', failures'),
           p \in MainQueue => (place[c] \in MainQueue /\ m = msg[c]) \/ ~IsDuplicate(m)
    PROVE  IInv'
  <1>1. \A d \in CopyId : /\ place'[d] = IF d = c THEN p ELSE place[d]
                          /\ msg'[d] = IF d = c THEN m ELSE msg[d]
                          /\ attemptsMade'[d] = IF d = c THEN n ELSE attemptsMade[d]
                          /\ holder'[d] = IF d = c THEN w ELSE holder[d]
    BY DEF IInv, TypeOK
  <1>2. TypeOK'
    <2>1. /\ place' \in [CopyId -> Places] /\ msg' \in [CopyId -> Messages \cup {NoMessage}]
          /\ attemptsMade' \in [CopyId -> 0..(MaxAttempts - 1)]
          /\ holder' \in [CopyId -> Workers \cup {NoWorker}]
      BY DEF IInv, TypeOK
    <2>2. \A d \in CopyId : /\ place'[d] = "free" <=> msg'[d] = NoMessage
                            /\ place'[d] = "free" => attemptsMade'[d] = 0
                            /\ place'[d] \in Unacked <=> holder'[d] # NoWorker
      BY <1>1 DEF IInv, TypeOK
    <2>3. QED BY <2>1, <2>2 DEF TypeOK
  <1>3. NoTwinCopies'
    BY <1>1 DEF IInv, NoTwinCopies, IsDuplicate
  <1>4. HeadersAreEarned'
    <2> SUFFICES ASSUME NEW d \in CopyId, place'[d] # "free"
                 PROVE  Earned(place'[d], msg'[d], attemptsMade'[d], done', failures')
      BY EarnedByAll DEF Alive, Free
    <2>1. CASE d = c
      BY <1>1, <2>1
    <2>2. CASE d # c
      <3>1. d \in Alive \ {c} /\ msg[d] \in Messages
        BY <1>1, <2>2 DEF Alive, Free, IInv, TypeOK
      <3>2. Earned(place[d], msg[d], attemptsMade[d], done, failures)
        BY <3>1, EarnedByAll DEF IInv
      <3>3. /\ failures[msg[d]] \in 0..MaxAttempts /\ failures'[msg[d]] \in 0..MaxAttempts
            /\ attemptsMade[d] \in 0..(MaxAttempts - 1) /\ MaxAttempts \in Nat
        BY <3>1, QueueAssumption DEF IInv, TypeOK
      <3>4. QED BY <1>1, <2>2, <3>1, <3>2, <3>3 DEF Earned
    <2>3. QED BY <2>1, <2>2
  <1>5. QED BY <1>2, <1>3, <1>4 DEF IInv

\* An unchanged variable is one changed to the value it has.
LEMMA Unchanged ==
    ASSUME TypeOK, NEW c \in CopyId
    PROVE  /\ place = [place EXCEPT ![c] = place[c]]
           /\ msg = [msg EXCEPT ![c] = msg[c]]
           /\ attemptsMade = [attemptsMade EXCEPT ![c] = attemptsMade[c]]
           /\ holder = [holder EXCEPT ![c] = holder[c]]
           /\ place[c] \in Places /\ msg[c] \in Messages \cup {NoMessage}
           /\ attemptsMade[c] \in 0..(MaxAttempts - 1) /\ holder[c] \in Workers \cup {NoWorker}
  BY DEF TypeOK

LEMMA HistoryTyped ==
    ASSUME TypeOK
    PROVE  /\ done \subseteq Messages
           /\ failures \in [Messages -> 0..MaxAttempts]
           /\ \A c \in Alive : msg[c] \in Messages /\ failures[msg[c]] \in 0..MaxAttempts
           /\ MaxAttempts \in Nat \ {0} /\ 0 \in 0..(MaxAttempts - 1)
  BY QueueAssumption DEF TypeOK, Alive, Free

LEMMA EarnedHere ==
    ASSUME IInv, NEW c \in Alive
    PROVE  Earned(place[c], msg[c], attemptsMade[c], done, failures)
  BY EarnedByAll DEF IInv

\* A copy that leaves the system.
LEMMA FreedKeeps ==
    ASSUME IInv, NEW c \in CopyId, Freed(c), UNCHANGED history, deadLetters' \subseteq Messages
    PROVE  IInv'
  <1>1. TypeOK /\ "free" \in Places /\ "free" \notin MainQueue /\ "free" \notin Unacked
    BY DEF IInv, Places, MainQueue, Unacked
  <1>2. done' = done /\ failures' = failures
    BY DEF history
  <1>3. \A d \in Alive \ {c} : /\ msg[d] \in done => msg[d] \in done'
                               /\ failures[msg[d]] <= failures'[msg[d]]
    BY <1>1, <1>2, HistoryTyped
  <1>4. QED BY <1>1, <1>2, <1>3, HistoryTyped, OneCopyChanges DEF Freed

\* A copy that the queue takes in, or back.
LEMMA ReadyKeeps ==
    ASSUME IInv, NEW c \in Alive, BackToReady(c), deadLetters' = deadLetters,
           done' \subseteq Messages, failures' \in [Messages -> 0..MaxAttempts],
           \A m \in Messages : /\ m \in done => m \in done'
                               /\ failures[m] <= failures'[m],
           place[c] \in MainQueue \/ ~IsDuplicate(msg[c])
    PROVE  IInv'
  <1>1. /\ TypeOK /\ c \in CopyId /\ place[c] # "free"
        /\ "ready" \in Places /\ "ready" \in MainQueue /\ "ready" \notin Unacked
        /\ deadLetters' \subseteq Messages
    BY DEF IInv, Places, MainQueue, Unacked, Alive, Free, TypeOK
  <1>2. msg[c] \in Messages /\ msg[c] # NoMessage
    BY <1>1, HistoryTyped, QueueAssumption
  <1>3. Earned("ready", msg[c], attemptsMade[c], done', failures')
    <2>1. attemptsMade[c] <= failures[msg[c]]
      BY EarnedHere DEF Earned
    <2>2. failures'[msg[c]] \in 0..MaxAttempts /\ failures[msg[c]] \in 0..MaxAttempts
      BY <1>1, <1>2, HistoryTyped
    <2>3. QED BY <1>1, <1>2, <2>1, <2>2, Unchanged, QueueAssumption DEF Earned
  <1>4. \A d \in Alive \ {c} : /\ msg[d] \in done => msg[d] \in done'
                               /\ failures[msg[d]] <= failures'[msg[d]]
    BY <1>1, HistoryTyped
  <1>5. /\ place' = [place EXCEPT ![c] = "ready"]
        /\ holder' = [holder EXCEPT ![c] = NoWorker]
        /\ msg' = [msg EXCEPT ![c] = msg[c]]
        /\ attemptsMade' = [attemptsMade EXCEPT ![c] = attemptsMade[c]]
    BY <1>1, Unchanged DEF BackToReady
  <1>6. QED BY <1>1, <1>2, <1>3, <1>4, <1>5, Unchanged, OneCopyChanges

Moves(c, p) == /\ place' = [place EXCEPT ![c] = p]
               /\ UNCHANGED <<msg, attemptsMade, holder, deadLetters>>

\* A copy that moves on within the queue, holder and header unchanged.
LEMMA MoveKeeps ==
    ASSUME IInv, NEW c \in Alive, NEW p \in Unacked, place[c] \in Unacked,
           Moves(c, p),
           done' \subseteq Messages, failures' \in [Messages -> 0..MaxAttempts],
           \A m \in Messages : /\ m \in done => m \in done'
                               /\ failures[m] <= failures'[m],
           Earned(p, msg[c], attemptsMade[c], done', failures')
    PROVE  IInv'
  <1>1. /\ TypeOK /\ c \in CopyId /\ place[c] # "free" /\ place[c] \in MainQueue
        /\ p \in Places /\ p # "free" /\ holder[c] # NoWorker
        /\ deadLetters' \subseteq Messages
    BY DEF Moves, IInv, Places, MainQueue, Unacked, Alive, Free, TypeOK
  <1>2. msg[c] \in Messages /\ msg[c] # NoMessage
    BY <1>1, HistoryTyped, QueueAssumption
  <1>3. \A d \in Alive \ {c} : /\ msg[d] \in done => msg[d] \in done'
                               /\ failures[msg[d]] <= failures'[msg[d]]
    BY <1>1, HistoryTyped
  <1>4. /\ place' = [place EXCEPT ![c] = p]
        /\ msg' = [msg EXCEPT ![c] = msg[c]]
        /\ attemptsMade' = [attemptsMade EXCEPT ![c] = attemptsMade[c]]
        /\ holder' = [holder EXCEPT ![c] = holder[c]]
    BY <1>1, Unchanged DEF Moves
  <1>5. /\ holder[c] \in Workers \cup {NoWorker} /\ msg[c] \in Messages \cup {NoMessage}
        /\ attemptsMade[c] \in 0..(MaxAttempts - 1)
    BY <1>1, Unchanged
  <1>6. QED BY <1>1, <1>2, <1>3, <1>4, <1>5, OneCopyChanges

LEMMA PublishKeeps ==
    ASSUME IInv, NEW m \in Messages, NEW c \in CopyId, Publish(m, c)
    PROVE  IInv'
  <1>1. /\ TypeOK /\ c \notin Alive /\ place[c] = "free" /\ holder[c] = NoWorker
        /\ "ready" \in Places /\ "ready" \notin Unacked /\ m # NoMessage
        /\ deadLetters' \subseteq Messages
    BY QueueAssumption DEF IInv, TypeOK, Publish, IsFresh, Alive, Free, Places, MainQueue, Unacked
  <1>2. /\ place' = [place EXCEPT ![c] = "ready"]
        /\ msg' = [msg EXCEPT ![c] = m]
        /\ attemptsMade' = [attemptsMade EXCEPT ![c] = attemptsMade[c]]
        /\ holder' = [holder EXCEPT ![c] = holder[c]]
    BY <1>1, Unchanged DEF Publish
  <1>3. done' \subseteq Messages /\ failures' \in [Messages -> 0..MaxAttempts]
    BY <1>1, HistoryTyped DEF Publish, history
  <1>4. \A d \in Alive \ {c} : /\ msg[d] \in done => msg[d] \in done'
                               /\ failures[msg[d]] <= failures'[msg[d]]
    BY <1>1, HistoryTyped DEF Publish, history
  <1>5. Earned("ready", m, attemptsMade[c], done', failures')
    BY <1>1, <1>3, QueueAssumption DEF Earned, TypeOK
  <1>6. attemptsMade[c] \in 0..(MaxAttempts - 1) /\ ~IsDuplicate(m)
    BY <1>1, Unchanged DEF Publish
  <1>7. QED BY <1>1, <1>2, <1>3, <1>4, <1>5, <1>6, OneCopyChanges

LEMMA DeliverKeeps ==
    ASSUME IInv, NEW v \in Workers, NEW c \in CopyId, Deliver(v, c)
    PROVE  IInv'
  <1>1. /\ TypeOK /\ c \in Alive /\ place[c] = "ready" /\ v # NoWorker
        /\ "held" \in Places /\ "held" \in Unacked /\ "held" \in MainQueue /\ place[c] \in MainQueue
        /\ deadLetters' \subseteq Messages
    BY QueueAssumption DEF IInv, TypeOK, Deliver, Alive, Free, Places, MainQueue, Unacked
  <1>2. /\ place' = [place EXCEPT ![c] = "held"]
        /\ msg' = [msg EXCEPT ![c] = msg[c]]
        /\ attemptsMade' = [attemptsMade EXCEPT ![c] = attemptsMade[c]]
        /\ holder' = [holder EXCEPT ![c] = v]
    BY <1>1, Unchanged DEF Deliver
  <1>3. done' = done /\ failures' = failures
    BY DEF Deliver, history
  <1>4. msg[c] \in Messages \cup {NoMessage} /\ msg[c] # NoMessage
           /\ attemptsMade[c] \in 0..(MaxAttempts - 1)
    BY <1>1, HistoryTyped, QueueAssumption, Unchanged
  <1>5. \A d \in Alive \ {c} : /\ msg[d] \in done => msg[d] \in done'
                               /\ failures[msg[d]] <= failures'[msg[d]]
    BY <1>1, <1>3, HistoryTyped
  <1>6. Earned("held", msg[c], attemptsMade[c], done', failures')
    BY <1>1, <1>3, EarnedHere DEF Earned
  <1>7. done' \subseteq Messages /\ failures' \in [Messages -> 0..MaxAttempts]
    BY <1>1, <1>3, HistoryTyped
  <1>8. QED BY <1>1, <1>2, <1>4, <1>5, <1>6, <1>7, OneCopyChanges

LEMMA FrameKeeps ==
    ASSUME IInv, NEW c \in CopyId, FrameArrives(c)
    PROVE  IInv'
  <1>0. TypeOK
    BY DEF IInv
  <1>1. CASE AckArrives(c)
    BY <1>0, <1>1, FreedKeeps DEF AckArrives, TypeOK
  <1>2. CASE RejectArrives(c)
    <2>1. c \in Alive
      BY <1>2 DEF RejectArrives, Alive, Free
    <2>2. deadLetters' \subseteq Messages
      BY <1>0, <1>2, <2>1, HistoryTyped DEF RejectArrives, TypeOK
    <2>3. QED BY <1>2, <2>2, FreedKeeps DEF RejectArrives
  <1>3. CASE RetryArrives(c)
    <2>1. c \in Alive /\ place[c] \in Unacked /\ "retried" \in Unacked /\ Moves(c, "retried")
      BY <1>3 DEF RetryArrives, Alive, Free, Unacked, Moves
    <2>2. done' = done /\ failures' = failures
      BY <1>3 DEF RetryArrives, history
    <2>3. Earned("retried", msg[c], attemptsMade[c], done', failures')
      BY <1>3, <2>1, <2>2, EarnedHere DEF RetryArrives, Earned
    <2>4. /\ done' \subseteq Messages /\ failures' \in [Messages -> 0..MaxAttempts]
          /\ \A m \in Messages : failures[m] <= failures'[m]
      BY <1>0, <2>2, HistoryTyped
    <2>5. QED BY <2>1, <2>2, <2>3, <2>4, MoveKeeps
  <1>4. CASE RetryAckArrives(c)
    <2>1. /\ c \in Alive /\ place[c] = "retried" /\ deadLetters' \subseteq Messages
          /\ "waiting" \in Places /\ "waiting" \notin MainQueue /\ "waiting" \notin Unacked
      BY <1>0, <1>4 DEF RetryAckArrives, Alive, Free, TypeOK, Places, MainQueue, Unacked
    <2>2. done' = done /\ failures' = failures
      BY <1>4 DEF RetryAckArrives, history
    <2>3. Earned("retried", msg[c], attemptsMade[c], done, failures)
      BY <2>1, EarnedHere
    <2>4. /\ msg[c] \in Messages \cup {NoMessage} /\ msg[c] # NoMessage
          /\ attemptsMade[c] + 1 \in 0..(MaxAttempts - 1)
          /\ attemptsMade[c] + 1 <= failures[msg[c]]
      BY <1>0, <2>1, <2>3, HistoryTyped, QueueAssumption, Unchanged DEF Earned
    <2>5. Earned("waiting", msg[c], attemptsMade[c] + 1, done', failures')
      BY <2>2, <2>4 DEF Earned
    <2>6. \A d \in Alive \ {c} : /\ msg[d] \in done => msg[d] \in done'
                                 /\ failures[msg[d]] <= failures'[msg[d]]
      BY <1>0, <2>2, HistoryTyped
    <2>7. /\ place' = [place EXCEPT ![c] = "waiting"]
          /\ msg' = [msg EXCEPT ![c] = msg[c]]
          /\ attemptsMade' = [attemptsMade EXCEPT ![c] = attemptsMade[c] + 1]
          /\ holder' = [holder EXCEPT ![c] = NoWorker]
      BY <1>0, <1>4, Unchanged DEF RetryAckArrives
    <2>8. done' \subseteq Messages /\ failures' \in [Messages -> 0..MaxAttempts]
      BY <1>0, <2>2, HistoryTyped
    <2>9. QED BY <2>1, <2>4, <2>5, <2>6, <2>7, <2>8, OneCopyChanges
  <1>5. QED BY <1>1, <1>2, <1>3, <1>4 DEF FrameArrives

LEMMA ExpiryKeeps ==
    ASSUME IInv, NEW c \in CopyId, RetryExpires(c)
    PROVE  IInv'
  <1>1. TypeOK /\ c \in Alive /\ deadLetters' = deadLetters /\ done' = done /\ failures' = failures
    BY DEF IInv, RetryExpires, Alive, Free, history
  <1>2. CASE IsDuplicate(msg[c])
    BY <1>1, <1>2, FreedKeeps DEF RetryExpires, TypeOK
  <1>3. CASE ~IsDuplicate(msg[c])
    <2>1. BackToReady(c)
      BY <1>3 DEF RetryExpires
    <2>2. /\ done' \subseteq Messages /\ failures' \in [Messages -> 0..MaxAttempts]
          /\ \A m \in Messages : failures[m] <= failures'[m]
      BY <1>1, HistoryTyped
    <2>3. QED BY <1>1, <1>3, <2>1, <2>2, ReadyKeeps
  <1>4. QED BY <1>2, <1>3

\* A failed run counts for its message, and for no other.
LEMMA CountedRightly ==
    ASSUME TypeOK, NEW c \in Alive, FailureCounted(c)
    PROVE  /\ done' \subseteq Messages /\ failures' \in [Messages -> 0..MaxAttempts]
           /\ \A m \in Messages : /\ m \in done => m \in done'
                                  /\ failures[m] <= failures'[m]
           /\ failures'[msg[c]] = IF failures[msg[c]] < MaxAttempts THEN failures[msg[c]] + 1
                                  ELSE MaxAttempts
  <1>1. msg[c] \in Messages /\ MaxAttempts \in Nat \ {0} /\ failures \in [Messages -> 0..MaxAttempts]
    BY HistoryTyped
  <1>2. \A m \in Messages : failures[m] \in 0..MaxAttempts /\ failures'[m] =
            IF m = msg[c] /\ failures[m] < MaxAttempts THEN failures[m] + 1 ELSE failures[m]
    BY <1>1 DEF FailureCounted
  <1>3. failures' \in [Messages -> 0..MaxAttempts]
    BY <1>1, <1>2 DEF FailureCounted
  <1>4. done' \subseteq Messages /\ done' = done
    BY DEF FailureCounted, TypeOK
  <1>5. QED BY <1>1, <1>2, <1>3, <1>4

LEMMA HandlerKeeps ==
    ASSUME IInv, NEW c \in CopyId, HandlerEnds(c) \/ RetryFails(c)
    PROVE  IInv'
  <1>1. TypeOK /\ c \in Alive /\ place[c] = "held" /\ place[c] \in Unacked /\ place[c] \in MainQueue
    BY DEF IInv, HandlerEnds, HandlerSucceeds, HandlerExhausted, HandlerFails, RetryFails, Send,
           Alive, Free, Unacked, MainQueue
  <1>2. /\ Earned("held", msg[c], attemptsMade[c], done, failures)
        /\ msg[c] \in Messages /\ failures[msg[c]] \in 0..MaxAttempts
        /\ attemptsMade[c] \in 0..(MaxAttempts - 1) /\ MaxAttempts \in Nat \ {0}
    BY <1>1, EarnedHere, HistoryTyped, Unchanged
  <1>3. CASE HandlerSucceeds(c)
    <2>1. Moves(c, "acking") /\ "acking" \in Unacked
      BY <1>3 DEF HandlerSucceeds, Send, Moves, Unacked
    <2>2. /\ done' \subseteq Messages /\ failures' \in [Messages -> 0..MaxAttempts]
          /\ \A m \in Messages : /\ m \in done => m \in done'
                                 /\ failures[m] <= failures'[m]
      BY <1>1, <1>2, <1>3, HistoryTyped DEF HandlerSucceeds
    <2>3. Earned("acking", msg[c], attemptsMade[c], done', failures')
      BY <1>2, <1>3 DEF HandlerSucceeds, Earned
    <2>4. QED BY <1>1, <2>1, <2>2, <2>3, MoveKeeps
  <1>4. ASSUME NEW deadLetter \in BOOLEAN, HandlerExhausted(c, deadLetter)
        PROVE  IInv'
    <2>1. PICK p \in {"acking", "rejecting"} : Moves(c, p)
      BY <1>4 DEF HandlerExhausted, Send, Moves
    <2>2. p \in Unacked
      BY DEF Unacked
    <2>3. Earned(p, msg[c], attemptsMade[c], done', failures')
      BY <1>1, <1>2, <1>4, CountedRightly DEF HandlerExhausted, IsExhausted, Earned
    <2>4. QED BY <1>1, <1>4, <2>1, <2>2, <2>3, CountedRightly, MoveKeeps DEF HandlerExhausted
  <1>5. CASE HandlerFails(c)
    <2>1. Moves(c, "retrying") /\ "retrying" \in Unacked
      BY <1>5 DEF HandlerFails, Send, Moves, Unacked
    <2>2. Earned("retrying", msg[c], attemptsMade[c], done', failures')
      BY <1>1, <1>2, <1>5, CountedRightly DEF HandlerFails, IsExhausted, Earned
    <2>3. QED BY <1>1, <1>5, <2>1, <2>2, CountedRightly, MoveKeeps DEF HandlerFails
  <1>6. CASE RetryFails(c)
    BY <1>1, <1>6, CountedRightly, ReadyKeeps DEF RetryFails
  <1>7. QED BY <1>3, <1>4, <1>5, <1>6 DEF HandlerEnds

\* A lost channel: its copies go back, and a retry the broker had accepted
\* becomes a copy of its own.
LEMMA LossKeeps ==
    ASSUME IInv, NEW v \in Workers, ConnectionLost(v)
    PROVE  IInv' /\ Pending' = Pending
  <1> DEFINE Retried == {c \in HeldBy(v) : place[c] = "retried"}
  <1>1. PICK New \in SUBSET Free :
          \E original \in [New -> Retried] :
              /\ IsFresh(New)
              /\ \A c \in Retried : \E d \in New : original[d] = c
              /\ \A d, e \in New : original[d] = original[e] => d = e
              /\ place' = [c \in CopyId |-> IF c \in New THEN "waiting"
                                            ELSE IF c \in HeldBy(v) THEN "ready" ELSE place[c]]
              /\ msg' = [c \in CopyId |-> IF c \in New THEN msg[original[c]] ELSE msg[c]]
              /\ attemptsMade' = [c \in CopyId |-> IF c \in New THEN attemptsMade[original[c]] + 1
                                                   ELSE attemptsMade[c]]
              /\ holder' = [c \in CopyId |-> IF c \in HeldBy(v) THEN NoWorker ELSE holder[c]]
    BY DEF ConnectionLost
  <1>2. PICK original \in [New -> Retried] :
              /\ place' = [c \in CopyId |-> IF c \in New THEN "waiting"
                                            ELSE IF c \in HeldBy(v) THEN "ready" ELSE place[c]]
              /\ msg' = [c \in CopyId |-> IF c \in New THEN msg[original[c]] ELSE msg[c]]
              /\ attemptsMade' = [c \in CopyId |-> IF c \in New THEN attemptsMade[original[c]] + 1
                                                   ELSE attemptsMade[c]]
              /\ holder' = [c \in CopyId |-> IF c \in HeldBy(v) THEN NoWorker ELSE holder[c]]
    BY <1>1
  <1>3. TypeOK /\ done' = done /\ failures' = failures /\ deadLetters' = deadLetters
    BY DEF IInv, ConnectionLost, history
  \* The copies of the channel are unacknowledged, the new ones were free.
  <1>4. \A c \in HeldBy(v) : c \in CopyId /\ c \notin New /\ place[c] \in Unacked /\ c \in Alive
    BY <1>3, QueueAssumption DEF HeldBy, TypeOK, Unacked, Alive, Free
  <1>5. \A c \in New : /\ c \in CopyId /\ c \notin Alive /\ original[c] \in Alive
                       /\ place[original[c]] = "retried"
                       /\ holder[c] = NoWorker
    BY <1>3, <1>4 DEF Free, Alive, TypeOK, Unacked
  <1>6. \A c \in New : /\ Earned("waiting", msg[original[c]], attemptsMade[original[c]] + 1, done, failures)
                       /\ attemptsMade[original[c]] + 1 \in 0..(MaxAttempts - 1)
                       /\ msg[original[c]] \in Messages
    <2> SUFFICES ASSUME NEW c \in New
                 PROVE  /\ Earned("waiting", msg[original[c]], attemptsMade[original[c]] + 1, done, failures)
                        /\ attemptsMade[original[c]] + 1 \in 0..(MaxAttempts - 1)
                        /\ msg[original[c]] \in Messages
      OBVIOUS
    <2>1. Earned("retried", msg[original[c]], attemptsMade[original[c]], done, failures)
      BY <1>5, EarnedHere
    <2>2. attemptsMade[original[c]] \in 0..(MaxAttempts - 1) /\ original[c] \in CopyId
      BY <1>3, <1>5, Unchanged DEF Alive
    <2>3. QED BY <1>3, <1>5, <2>1, <2>2, HistoryTyped, QueueAssumption DEF Earned
  <1>7. TypeOK'
    <2>1. place' \in [CopyId -> Places] /\ holder' \in [CopyId -> Workers \cup {NoWorker}]
      BY <1>2, <1>3 DEF TypeOK, Places, MainQueue
    <2>2. msg' \in [CopyId -> Messages \cup {NoMessage}]
            /\ attemptsMade' \in [CopyId -> 0..(MaxAttempts - 1)]
      BY <1>2, <1>3, <1>6 DEF TypeOK
    <2>3. \A c \in CopyId : /\ place'[c] = "free" <=> msg'[c] = NoMessage
                            /\ place'[c] = "free" => attemptsMade'[c] = 0
      BY <1>2, <1>3, <1>4, <1>5, <1>6, QueueAssumption DEF TypeOK, Alive, Free
    <2>4. \A c \in CopyId : place'[c] \in Unacked <=> holder'[c] # NoWorker
      BY <1>2, <1>3, <1>4, <1>5 DEF TypeOK, Unacked
    <2>5. QED BY <1>3, <2>1, <2>2, <2>3, <2>4 DEF TypeOK
  <1>8. NoTwinCopies'
    <2>1. \A c \in CopyId : place'[c] \in MainQueue => /\ place[c] \in MainQueue /\ msg'[c] = msg[c]
      BY <1>2, <1>4 DEF MainQueue, Unacked
    <2>2. QED BY <2>1 DEF IInv, NoTwinCopies
  <1>9. HeadersAreEarned'
    <2> SUFFICES ASSUME NEW c \in CopyId, place'[c] # "free"
                 PROVE  Earned(place'[c], msg'[c], attemptsMade'[c], done', failures')
      BY EarnedByAll DEF Alive, Free
    <2>1. CASE c \in New
      BY <1>2, <1>3, <1>6, <2>1
    <2>2. CASE c \notin New
      <3>1. c \in Alive /\ msg'[c] = msg[c] /\ attemptsMade'[c] = attemptsMade[c]
              /\ place'[c] \in {"ready", place[c]}
        BY <1>2, <1>4, <2>2 DEF Alive, Free
      <3>2. QED BY <1>3, <3>1, EarnedHere DEF Earned
    <2>3. QED BY <2>1, <2>2
  <1>10. Pending' = Pending
    <2>1. \A c \in CopyId : c \in Alive' <=> c \in Alive \/ c \in New
      BY <1>2, <1>4, <1>5 DEF Alive, Free
    <2>2. \A c \in Alive : c \in Alive' /\ msg'[c] = msg[c]
      BY <1>2, <1>5, <2>1 DEF Alive
    <2>3. \A c \in Alive' : msg'[c] \in Pending
      BY <1>2, <1>5, <2>1, <2>2 DEF Alive, Pending
    <2>4. QED BY <2>2, <2>3 DEF Pending
  <1>11. QED BY <1>7, <1>8, <1>9, <1>10 DEF IInv

THEOREM QueueStepInvariant == IInv /\ [Next]_vars => IInv'
  <1> SUFFICES ASSUME IInv, [Next]_vars PROVE IInv'
    OBVIOUS
  <1>1. CASE UNCHANGED vars
    <2>1. UNCHANGED <<TypeOK, NoTwinCopies, HeadersAreEarned>>
      BY <1>1 DEF vars, TypeOK, NoTwinCopies, HeadersAreEarned, Alive, Free
    <2>2. QED BY <2>1 DEF IInv
  <1>2. CASE Next
    BY <1>2, PublishKeeps, LossKeeps, DeliverKeeps, HandlerKeeps, FrameKeeps, ExpiryKeeps DEF Next
  <1>3. QED BY <1>1, <1>2

THEOREM QueueInvariance == Spec => []IInv
  BY QueueInitInvariant, QueueStepInvariant, PTL DEF Spec

\* The state of the queue always has the types of the model; in particular
\* no header ever counts MaxAttempts.
THEOREM QueueTypeCorrect == Spec => []TypeOK
  <1>1. IInv => TypeOK BY DEF IInv
  <1>2. QED BY <1>1, QueueInvariance, PTL

\* A deduplicated message is in the queue at most once.
THEOREM NoTwins == Spec => []NoTwinCopies
  <1>1. IInv => NoTwinCopies BY DEF IInv
  <1>2. QED BY <1>1, QueueInvariance, PTL

-----------------------------------------------------------------------------
(* MessageQueue implements AtLeastOnceQueue *)

PromiseStep == Promise!Next \/ UNCHANGED <<Pending, done, failures, deadLetters>>

\* A copy that leaves takes its message along only if it was the last one.
LEMMA FreedPending ==
    ASSUME TypeOK, NEW c \in Alive, Freed(c)
    PROVE  /\ Pending' \in {Pending, Pending \ {msg[c]}}
           /\ (\E d \in Alive \ {c} : msg[d] = msg[c]) => Pending' = Pending
  <1>1. \A d \in CopyId : d \in Alive' <=> d \in Alive /\ d # c
    BY DEF Freed, TypeOK, Alive, Free
  <1>2. \A d \in Alive' : msg'[d] = msg[d]
    BY <1>1 DEF Freed, TypeOK, Alive
  <1>3. Pending' = {msg[d] : d \in Alive \ {c}}
    BY <1>1, <1>2 DEF Pending, Alive
  <1>4. QED BY <1>3 DEF Pending

\* Copies that only move keep every message pending.
LEMMA MovedPending ==
    ASSUME TypeOK, NEW c \in Alive, NEW p \in Places \ {"free"},
           place' = [place EXCEPT ![c] = p], msg' = msg
    PROVE  Pending' = Pending
  <1>1. Alive' = Alive
    BY DEF TypeOK, Alive, Free
  <1>2. QED BY <1>1 DEF Pending

LEMMA PublishIsAccept ==
    ASSUME IInv, NEW m \in Messages, NEW c \in CopyId, Publish(m, c)
    PROVE  PromiseStep
  <1>1. TypeOK /\ c \notin Alive /\ deadLetters' = deadLetters
    BY DEF IInv, Publish, IsFresh, Alive
  <1>2. \A d \in CopyId : d \in Alive' <=> d \in Alive \/ d = c
    BY <1>1 DEF Publish, TypeOK, Alive, Free
  <1>3. \A d \in Alive' : msg'[d] = IF d = c THEN m ELSE msg[d]
    BY <1>1, <1>2 DEF Publish, TypeOK, Alive
  <1>4. Pending' = Pending \cup {m}
    BY <1>1, <1>2, <1>3 DEF Pending, Alive
  <1>5. CASE m \in Pending
    <2>1. UNCHANGED history
      BY <1>5 DEF Publish, Pending
    <2>2. QED BY <1>1, <1>4, <1>5, <2>1 DEF PromiseStep, history
  <1>6. CASE m \notin Pending
    <2>1. done' = done \ {m} /\ failures' = [failures EXCEPT ![m] = 0]
      BY <1>6 DEF Publish, Pending
    <2>2. Promise!Accept(m)
      BY <1>1, <1>4, <1>6, <2>1 DEF Promise!Accept
    <2>3. QED BY <2>2 DEF PromiseStep, Promise!Next
  <1>7. QED BY <1>5, <1>6

LEMMA FrameIsSettle ==
    ASSUME IInv, NEW c \in CopyId, FrameArrives(c)
    PROVE  PromiseStep
  <1>1. TypeOK /\ c \in Alive /\ msg[c] \in Messages /\ done' = done /\ failures' = failures
    <2>1. TypeOK /\ c \in Alive /\ UNCHANGED history
      BY DEF IInv, FrameArrives, AckArrives, RejectArrives, RetryArrives, RetryAckArrives, Alive, Free
    <2>2. QED BY <2>1, HistoryTyped DEF history
  <1>2. Earned(place[c], msg[c], attemptsMade[c], done, failures)
    BY <1>1, EarnedHere
  <1>3. CASE AckArrives(c)
    <2>1. Pending' \in {Pending, Pending \ {msg[c]}} /\ deadLetters' = deadLetters
      BY <1>1, <1>3, FreedPending DEF AckArrives
    <2>2. msg[c] \in done \/ failures[msg[c]] = MaxAttempts
      BY <1>2, <1>3 DEF AckArrives, Earned
    <2>3. Pending' = Pending \/ Promise!Settle(msg[c])
      BY <1>1, <2>1, <2>2 DEF Promise!Settle
    <2>4. QED BY <1>1, <2>1, <2>3 DEF PromiseStep, Promise!Next
  <1>4. CASE RejectArrives(c)
    <2>1. /\ Pending' \in {Pending, Pending \ {msg[c]}}
          /\ deadLetters' = deadLetters \cup {msg[c]}
          /\ failures[msg[c]] = MaxAttempts
      BY <1>1, <1>2, <1>4, FreedPending DEF RejectArrives, Earned
    <2>2. Promise!DeadLetter(msg[c])
      BY <1>1, <2>1 DEF Promise!DeadLetter
    <2>3. QED BY <1>1, <2>2 DEF PromiseStep, Promise!Next
  <1>5. CASE RetryArrives(c) \/ RetryAckArrives(c)
    <2>1. PICK p \in {"retried", "waiting"} : place' = [place EXCEPT ![c] = p]
      BY <1>5 DEF RetryArrives, RetryAckArrives
    <2>2. p \in Places \ {"free"} /\ msg' = msg /\ deadLetters' = deadLetters
      BY <1>5 DEF Places, MainQueue, Unacked, RetryArrives, RetryAckArrives
    <2>3. Pending' = Pending
      BY <1>1, <2>1, <2>2, MovedPending
    <2>4. QED BY <1>1, <2>2, <2>3 DEF PromiseStep
  <1>6. QED BY <1>3, <1>4, <1>5 DEF FrameArrives

LEMMA HandlerIsVerdict ==
    ASSUME IInv, NEW c \in CopyId, HandlerEnds(c) \/ RetryFails(c)
    PROVE  PromiseStep
  <1>1. /\ TypeOK /\ c \in Alive /\ msg[c] \in Messages /\ msg[c] \in Pending
        /\ msg' = msg /\ deadLetters' = deadLetters
    <2>1. TypeOK /\ c \in Alive /\ msg' = msg /\ deadLetters' = deadLetters
      BY DEF IInv, HandlerEnds, HandlerSucceeds, HandlerExhausted, HandlerFails, RetryFails, Send,
             BackToReady, Alive, Free
    <2>2. QED BY <2>1, HistoryTyped DEF Pending
  <1>2. Pending' = Pending
    <2>1. PICK p \in {"acking", "rejecting", "retrying", "ready"} : place' = [place EXCEPT ![c] = p]
      BY DEF HandlerEnds, HandlerSucceeds, HandlerExhausted, HandlerFails, RetryFails, Send, BackToReady
    <2>2. p \in Places \ {"free"}
      BY DEF Places, MainQueue, Unacked
    <2>3. QED BY <1>1, <2>1, <2>2, MovedPending
  <1>3. CASE HandlerSucceeds(c)
    <2>1. Promise!Succeed(msg[c])
      BY <1>1, <1>2, <1>3 DEF HandlerSucceeds, Promise!Succeed
    <2>2. QED BY <1>1, <2>1 DEF PromiseStep, Promise!Next
  <1>4. CASE FailureCounted(c)
    <2>1. Promise!Fail(msg[c])
      BY <1>1, <1>2, <1>4 DEF FailureCounted, Promise!Fail
    <2>2. QED BY <1>1, <2>1 DEF PromiseStep, Promise!Next
  <1>5. QED BY <1>3, <1>4 DEF HandlerEnds, HandlerExhausted, HandlerFails, RetryFails

LEMMA ExpiryIsStutter ==
    ASSUME IInv, NEW c \in CopyId, RetryExpires(c)
    PROVE  PromiseStep
  <1>1. /\ TypeOK /\ c \in Alive /\ place[c] = "waiting"
        /\ done' = done /\ failures' = failures /\ deadLetters' = deadLetters
    BY DEF IInv, RetryExpires, Alive, Free, history
  <1>2. CASE IsDuplicate(msg[c])
    <2>1. \E d \in Alive \ {c} : msg[d] = msg[c]
      BY <1>1, <1>2 DEF IsDuplicate, MainQueue, Unacked, Alive, Free
    <2>2. QED BY <1>1, <1>2, <2>1, FreedPending DEF RetryExpires, PromiseStep
  <1>3. CASE ~IsDuplicate(msg[c])
    <2>1. Pending' = Pending
      BY <1>1, <1>3, MovedPending DEF RetryExpires, BackToReady, Places, MainQueue
    <2>2. QED BY <1>1, <2>1 DEF PromiseStep
  <1>4. QED BY <1>2, <1>3

LEMMA PromiseInit == Init => Promise!Init
  BY DEF Init, Promise!Init, Pending, Alive, Free

LEMMA PromiseSteps == IInv /\ [Next]_vars => [Promise!Next]_(Promise!queueVars)
  <1> SUFFICES ASSUME IInv, [Next]_vars PROVE PromiseStep
    BY DEF PromiseStep, Promise!queueVars
  <1>1. ASSUME UNCHANGED vars PROVE PromiseStep
    BY <1>1 DEF vars, PromiseStep, Pending, Alive, Free
  <1>2. ASSUME NEW v \in Workers, ConnectionLost(v) PROVE PromiseStep
    BY <1>2, LossKeeps DEF ConnectionLost, history, PromiseStep
  <1>3. ASSUME NEW v \in Workers, NEW c \in CopyId, Deliver(v, c) PROVE PromiseStep
    <2>1. TypeOK /\ c \in Alive /\ "held" \in Places \ {"free"}
      BY <1>3 DEF IInv, Deliver, Alive, Free, Places, MainQueue, Unacked
    <2>2. Pending' = Pending
      BY <1>3, <2>1, MovedPending DEF Deliver
    <2>3. QED BY <1>3, <2>2 DEF Deliver, history, PromiseStep
  <1>4. QED BY <1>1, <1>2, <1>3, PublishIsAccept, FrameIsSettle, HandlerIsVerdict, ExpiryIsStutter
            DEF Next

\* Every published message is handled at least once or fails MaxAttempts
\* times before it disappears: the refinement the run checks, for every
\* instance.
THEOREM QueueKeepsPromise == Spec => PromiseKept
  BY PromiseInit, PromiseSteps, QueueInvariance, PTL DEF Spec, PromiseKept, Promise!Spec
=============================================================================
