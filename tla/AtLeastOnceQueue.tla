-------------------------- MODULE AtLeastOnceQueue --------------------------
(***************************************************************************)
(* What the services rely on when they publish and consume through         *)
(* IMessageQueue: an accepted message stays pending until a handler has    *)
(* returned normally for it, or has failed for it MaxAttempts times; only  *)
(* a message of the second kind is dead-lettered.  A message may be        *)
(* handled any number of times.                                            *)
(***************************************************************************)
EXTENDS Naturals

CONSTANTS Messages, MaxAttempts

VARIABLES pending,      \* accepted and not settled
          done,         \* pending messages a handler has returned for
          failures,     \* failed runs of a message, counted up to MaxAttempts
          deadLetters   \* messages that reached the dead-letter queue

queueVars == <<pending, done, failures, deadLetters>>

Init == /\ pending = {}
        /\ done = {}
        /\ failures = [m \in Messages |-> 0]
        /\ deadLetters = {}

\* A message that is pending already may be accepted again and merged.
Accept(m) ==
    /\ m \notin pending
    /\ pending' = pending \cup {m}
    /\ done' = done \ {m}
    /\ failures' = [failures EXCEPT ![m] = 0]
    /\ UNCHANGED deadLetters

Succeed(m) ==
    /\ m \in pending
    /\ done' = done \cup {m}
    /\ UNCHANGED <<pending, failures, deadLetters>>

Fail(m) ==
    /\ m \in pending
    /\ failures' = [failures EXCEPT ![m] = IF @ < MaxAttempts THEN @ + 1 ELSE @]
    /\ UNCHANGED <<pending, done, deadLetters>>

Settle(m) ==
    /\ m \in done \/ failures[m] = MaxAttempts
    /\ pending' = pending \ {m}
    /\ UNCHANGED <<done, failures, deadLetters>>

DeadLetter(m) ==
    /\ failures[m] = MaxAttempts
    /\ pending' \in {pending, pending \ {m}}
    /\ deadLetters' = deadLetters \cup {m}
    /\ UNCHANGED <<done, failures>>

\* Succeed or Fail with what it allows, for a model that has both in one step.
SucceedAndSettle(m) ==
    /\ m \in pending
    /\ done' = done \cup {m}
    /\ pending' = pending \ {m}
    /\ UNCHANGED <<failures, deadLetters>>

FailAndSettle(m) ==
    /\ m \in pending
    /\ failures[m] + 1 >= MaxAttempts
    /\ failures' = [failures EXCEPT ![m] = MaxAttempts]
    /\ pending' \in {pending, pending \ {m}}
    /\ deadLetters' \in {deadLetters, deadLetters \cup {m}}
    /\ UNCHANGED done

Next == \E m \in Messages :
            \/ Accept(m)
            \/ Succeed(m) \/ Fail(m) \/ Settle(m) \/ DeadLetter(m)
            \/ SucceedAndSettle(m) \/ FailAndSettle(m)

Spec == Init /\ [][Next]_queueVars
=============================================================================
