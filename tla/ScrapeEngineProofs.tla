-------------------------- MODULE ScrapeEngineProofs --------------------------
(***************************************************************************)
(* Proofs about ScrapeEngine, for any number of calls, hosts, slots and    *)
(* attempts: the slots are counted exactly, no wake-up is lost, and the    *)
(* starts of requests to one host keep their distance.                     *)
(***************************************************************************)
EXTENDS ScrapeEngine, FiniteSetTheorems, TLAPS

\* The calls that p puts at one of the stages S.
At(p, S) == {g \in Fetches : p[g] \in S}

\* The stage of a call that has been woken.
Roused == {"woken"}

-----------------------------------------------------------------------------
(* Counting calls *)

\* Moving one call changes a count by that call only.
LEMMA CountMoves ==
    ASSUME NEW p \in [Fetches -> Stages], NEW f \in Fetches, NEW s \in Stages,
           NEW S \in SUBSET Stages
    PROVE  LET q == [p EXCEPT ![f] = s] IN
           /\ IsFiniteSet(At(p, S)) /\ Cardinality(At(p, S)) \in Nat
           /\ Cardinality(At(p, S) \ {f}) \in Nat
           /\ p[f] \in S => Cardinality(At(p, S)) = Cardinality(At(p, S) \ {f}) + 1
           /\ p[f] \notin S => Cardinality(At(p, S)) = Cardinality(At(p, S) \ {f})
           /\ s \in S => Cardinality(At(q, S)) = Cardinality(At(p, S) \ {f}) + 1
           /\ s \notin S => Cardinality(At(q, S)) = Cardinality(At(p, S) \ {f})
<1> DEFINE q == [p EXCEPT ![f] = s]
           R == At(p, S) \ {f}
<1>1. IsFiniteSet(At(p, S))
  BY FS_Subset, EngineAssumption DEF At, EngineAssumption
<1>2. IsFiniteSet(R)
  BY <1>1, FS_Subset
<1>3. Cardinality(At(p, S)) \in Nat /\ Cardinality(R) \in Nat
  BY <1>1, <1>2, FS_CardinalityType
<1>4. Cardinality(R \cup {f}) = Cardinality(R) + 1
  BY <1>2, FS_AddElement
<1>5. /\ p[f] \in S => At(p, S) = R \cup {f}
      /\ p[f] \notin S => At(p, S) = R
  BY DEF At
<1>6. /\ s \in S => At(q, S) = R \cup {f}
      /\ s \notin S => At(q, S) = R
  BY DEF At
<1>7. QED
  BY <1>1, <1>3, <1>4, <1>5, <1>6

\* The sets of the specification in these terms.
LEMMA CountedSets == Holders = At(pc, Holding) /\ Woken = At(pc, Roused)
BY DEF Holders, Woken, At, Roused

-----------------------------------------------------------------------------
(* The wait queue *)

\* A call that does not wait moves to a stage where it does not wait.
LEMMA QueueUndisturbed ==
    ASSUME NEW p \in [Fetches -> Stages], NEW q \in Seq(Fetches), QueueHolds(q, p),
           NEW f \in Fetches, p[f] # "waiting", NEW s \in Stages, s # "waiting"
    PROVE  QueueHolds(q, [p EXCEPT ![f] = s])
BY DEF QueueHolds

\* A call that does not wait is put at the end of the queue.
LEMMA QueueAppended ==
    ASSUME NEW p \in [Fetches -> Stages], NEW q \in Seq(Fetches), QueueHolds(q, p),
           NEW f \in Fetches, p[f] # "waiting"
    PROVE  QueueHolds(Append(q, f), [p EXCEPT ![f] = "waiting"])
<1> DEFINE a == Append(q, f)
           r == [p EXCEPT ![f] = "waiting"]
<1>1. /\ Len(a) = Len(q) + 1 /\ Len(q) \in Nat
      /\ a[Len(q) + 1] = f
      /\ \A i \in 1..Len(q) : a[i] = q[i]
  OBVIOUS
<1>2. \A i \in 1..Len(q) : q[i] # f /\ q[i] \in Fetches
  BY DEF QueueHolds
<1>3. \A g \in Fetches : r[g] = "waiting" <=> \E i \in 1..Len(a) : a[i] = g
  <2> SUFFICES ASSUME NEW g \in Fetches
               PROVE  r[g] = "waiting" <=> \E i \in 1..Len(a) : a[i] = g
    OBVIOUS
  <2>1. CASE g = f
    BY <1>1, <2>1
  <2>2. CASE g # f
    <3>1. r[g] = "waiting" <=> \E i \in 1..Len(q) : q[i] = g
      BY <2>2 DEF QueueHolds
    <3>2. (\E i \in 1..Len(a) : a[i] = g) <=> (\E i \in 1..Len(q) : q[i] = g)
      BY <1>1, <2>2
    <3>3. QED
      BY <3>1, <3>2
  <2>3. QED
    BY <2>1, <2>2
<1>4. \A i, k \in 1..Len(a) : a[i] = a[k] => i = k
  <2> SUFFICES ASSUME NEW i \in 1..Len(a), NEW k \in 1..Len(a), a[i] = a[k]
               PROVE  i = k
    OBVIOUS
  <2>1. CASE i \in 1..Len(q) /\ k \in 1..Len(q)
    BY <1>1, <2>1 DEF QueueHolds
  <2>2. CASE i = Len(q) + 1 \/ k = Len(q) + 1
    BY <1>1, <1>2, <2>2
  <2>3. QED
    BY <1>1, <2>1, <2>2
<1>5. QED
  BY <1>3, <1>4 DEF QueueHolds

\* Shifting the queue and waking its head: the rest waits on, and only the
\* head has moved, from waiting to woken.
LEMMA QueueShifted ==
    ASSUME NEW p \in [Fetches -> Stages], NEW q \in Seq(Fetches), QueueHolds(q, p)
    PROVE  /\ Shifted(q) \in Seq(Fetches)
           /\ HeadWoken(q, p) \in [Fetches -> Stages]
           /\ QueueHolds(Shifted(q), HeadWoken(q, p))
           /\ q = <<>> => HeadWoken(q, p) = p /\ Shifted(q) = <<>>
           /\ q # <<>> => /\ Head(q) \in Fetches /\ p[Head(q)] = "waiting"
                          /\ HeadWoken(q, p) = [p EXCEPT ![Head(q)] = "woken"]
<1>1. CASE q = <<>>
  BY <1>1 DEF Shifted, HeadWoken
<1>2. CASE q # <<>>
  <2> DEFINE t == Tail(q)
             r == [p EXCEPT ![Head(q)] = "woken"]
  <2>1. /\ Len(q) \in Nat \ {0} /\ t \in Seq(Fetches) /\ Len(t) = Len(q) - 1
        /\ \A i \in 1..Len(t) : t[i] = q[i + 1]
        /\ Head(q) = q[1] /\ q[1] \in Fetches
    BY <1>2
  <2>2. Shifted(q) = t /\ HeadWoken(q, p) = r
    BY <1>2 DEF Shifted, HeadWoken
  <2>3. p[Head(q)] = "waiting"
    BY <2>1 DEF QueueHolds
  <2>4. r \in [Fetches -> Stages]
    BY DEF Stages
  <2>5. \A g \in Fetches : r[g] = "waiting" <=> \E i \in 1..Len(t) : t[i] = g
    <3> SUFFICES ASSUME NEW g \in Fetches
                 PROVE  r[g] = "waiting" <=> \E i \in 1..Len(t) : t[i] = g
      OBVIOUS
    <3>1. CASE g = Head(q)
      <4>1. r[g] # "waiting"
        BY <3>1
      <4>2. \A i \in 1..Len(t) : t[i] # g
        BY <2>1, <3>1 DEF QueueHolds
      <4>3. QED
        BY <4>1, <4>2
    <3>2. CASE g # Head(q)
      <4>1. r[g] = "waiting" <=> \E k \in 1..Len(q) : q[k] = g
        BY <3>2 DEF QueueHolds
      <4>2. ASSUME NEW k \in 1..Len(q), q[k] = g
            PROVE  \E i \in 1..Len(t) : t[i] = g
        <5>1. k # 1
          BY <2>1, <3>2, <4>2
        <5>2. k - 1 \in 1..Len(t) /\ t[k - 1] = g
          BY <2>1, <4>2, <5>1
        <5>3. QED
          BY <5>2
      <4>3. ASSUME NEW i \in 1..Len(t), t[i] = g
            PROVE  \E k \in 1..Len(q) : q[k] = g
        BY <2>1, <4>3
      <4>4. QED
        BY <4>1, <4>2, <4>3
    <3>3. QED
      BY <3>1, <3>2
  <2>6. \A i, k \in 1..Len(t) : t[i] = t[k] => i = k
    BY <2>1 DEF QueueHolds
  <2>7. QED
    BY <1>2, <2>1, <2>2, <2>3, <2>4, <2>5, <2>6 DEF QueueHolds
<1>3. QED
  BY <1>1, <1>2

-----------------------------------------------------------------------------
(* Slots *)

\* SlotAccounting, NoLostWakeup and QueueIsWaiting of a counter, queue and
\* stages.
SlotsOK(act, q, p) ==
    /\ act = Cardinality(At(p, Holding)) /\ act <= MaxConcurrent
    /\ q # <<>> => act + Cardinality(At(p, Roused)) >= MaxConcurrent
    /\ QueueHolds(q, p)

\* The same at the loop test of f, which holds no slot and, if it has been
\* woken, has not answered for it yet.
Asking(f, act, q, p) ==
    /\ p[f] # "waiting"
    /\ act = Cardinality(At(p, Holding) \ {f}) /\ act <= MaxConcurrent
    /\ q # <<>> => act + Cardinality(At(p, Roused) \ {f}) + 1 >= MaxConcurrent
    /\ QueueHolds(q, p)

\* Somebody waits if and only if the queue is not empty.
LEMMA QueueNonempty ==
    ASSUME NEW p, NEW q \in Seq(Fetches), QueueHolds(q, p)
    PROVE  (\E f \in Fetches : p[f] = "waiting") <=> q # <<>>
<1>1. q = <<>> => \A f \in Fetches : p[f] # "waiting"
  BY DEF QueueHolds
<1>2. ASSUME q # <<>>
      PROVE  \E f \in Fetches : p[f] = "waiting"
  <2>1. 1 \in 1..Len(q) /\ q[1] \in Fetches
    BY <1>2
  <2>2. p[q[1]] = "waiting"
    BY <2>1 DEF QueueHolds
  <2>3. QED
    BY <2>1, <2>2
<1>3. QED
  BY <1>1, <1>2

LEMMA SlotsRestated ==
    ASSUME TypeOK
    PROVE  SlotsOK(active, waitQueue, pc) <=> SlotAccounting /\ NoLostWakeup /\ QueueIsWaiting
<1>1. QueueIsWaiting => ((\E f \in Fetches : pc[f] = "waiting") <=> waitQueue # <<>>)
  BY QueueNonempty DEF QueueIsWaiting, TypeOK
<1>2. QED
  BY <1>1, CountedSets DEF SlotsOK, SlotAccounting, NoLostWakeup, QueueIsWaiting

\* Whatever the loop test decides, the slots are in order again.
LEMMA AskingSettled ==
    ASSUME NEW f \in Fetches, NEW act \in Nat, NEW q \in Seq(Fetches),
           NEW p \in [Fetches -> Stages],
           Asking(f, act, q, p), TryAcquire(f, act, q, p)
    PROVE  SlotsOK(active', waitQueue', pc')
<1> USE DEF Asking
<1>0. MaxConcurrent \in Nat
  BY EngineAssumption DEF EngineAssumption
<1>1. CASE act >= MaxConcurrent
  <2>1. active' = act /\ waitQueue' = Append(q, f) /\ pc' = [p EXCEPT ![f] = "waiting"]
    BY <1>1, <1>0 DEF TryAcquire
  <2>2. QueueHolds(waitQueue', pc')
    BY <2>1, QueueAppended
  <2>3. /\ Cardinality(At(pc', Holding)) = Cardinality(At(p, Holding) \ {f})
        /\ Cardinality(At(pc', Roused)) \in Nat
    <3>1. "waiting" \in Stages /\ Holding \in SUBSET Stages /\ Roused \in SUBSET Stages
      BY DEF Stages, Holding, Roused
    <3>2. "waiting" \notin Holding /\ "waiting" \notin Roused
      BY DEF Holding, Roused
    <3>3. QED
      BY <2>1, <3>1, <3>2, CountMoves
  <2>4. QED
    BY <1>0, <1>1, <2>1, <2>2, <2>3 DEF SlotsOK
<1>2. CASE act < MaxConcurrent
  <2>1. active' = act + 1 /\ waitQueue' = q /\ pc' = [p EXCEPT ![f] = "pacing"]
    BY <1>2, <1>0 DEF TryAcquire
  <2>2. QueueHolds(waitQueue', pc')
    BY <2>1, QueueUndisturbed DEF Stages
  <2>3. /\ Cardinality(At(pc', Holding)) = Cardinality(At(p, Holding) \ {f}) + 1
        /\ Cardinality(At(pc', Roused)) = Cardinality(At(p, Roused) \ {f})
        /\ Cardinality(At(pc', Roused)) \in Nat
    <3>1. "pacing" \in Stages /\ Holding \in SUBSET Stages /\ Roused \in SUBSET Stages
      BY DEF Stages, Holding, Roused
    <3>2. "pacing" \in Holding /\ "pacing" \notin Roused
      BY DEF Holding, Roused
    <3>3. Cardinality(At(pc', Holding)) = Cardinality(At(p, Holding) \ {f}) + 1
      BY <2>1, <3>1, <3>2, CountMoves
    <3>4. /\ Cardinality(At(pc', Roused)) = Cardinality(At(p, Roused) \ {f})
          /\ Cardinality(At(p, Roused) \ {f}) \in Nat
      BY <2>1, <3>1, <3>2, CountMoves
    <3>5. QED
      BY <3>3, <3>4
  <2>4. QED
    BY <1>0, <1>2, <2>1, <2>2, <2>3 DEF SlotsOK
<1>3. QED
  BY <1>0, <1>1, <1>2

\* A holder f that releases its slot wakes the head of the queue, which then
\* stands for the slot.
LEMMA Released ==
    ASSUME TypeOK, SlotsOK(active, waitQueue, pc), NEW f \in Fetches, pc[f] \in Holding
    PROVE  LET q == Shifted(waitQueue)  p == HeadWoken(waitQueue, pc) IN
           /\ q \in Seq(Fetches) /\ p \in [Fetches -> Stages] /\ p[f] = pc[f]
           /\ active - 1 \in Nat
           /\ Asking(f, active - 1, q, p)
           /\ q # <<>> => active - 1 + Cardinality(At(p, Roused)) >= MaxConcurrent
<1> DEFINE q == Shifted(waitQueue)
           p == HeadWoken(waitQueue, pc)
<1>0. MaxConcurrent \in Nat
  BY EngineAssumption DEF EngineAssumption
<1>1. waitQueue \in Seq(Fetches) /\ pc \in [Fetches -> Stages]
  BY DEF TypeOK
<1>2. QueueHolds(waitQueue, pc)
  BY DEF SlotsOK
<1>3. Holding \in SUBSET Stages /\ Roused \in SUBSET Stages /\ "woken" \in Stages
      /\ "woken" \notin Holding /\ "waiting" \notin Holding
      /\ "woken" \in Roused /\ "waiting" \notin Roused /\ Holding \cap Roused = {}
  BY DEF Holding, Stages, Roused
<1>4. /\ q \in Seq(Fetches) /\ p \in [Fetches -> Stages] /\ QueueHolds(q, p)
      /\ waitQueue = <<>> => p = pc /\ q = <<>>
      /\ waitQueue # <<>> => /\ Head(waitQueue) \in Fetches /\ pc[Head(waitQueue)] = "waiting"
                             /\ p = [pc EXCEPT ![Head(waitQueue)] = "woken"]
  BY <1>1, <1>2, QueueShifted
<1> HIDE DEF p, q
<1>5. p[f] = pc[f]
  BY <1>1, <1>3, <1>4
<1>6. At(p, Holding) = At(pc, Holding)
  BY <1>1, <1>3, <1>4 DEF At
<1>7. active - 1 = Cardinality(At(p, Holding) \ {f}) /\ active - 1 \in Nat
  <2>1. /\ Cardinality(At(pc, Holding)) = Cardinality(At(pc, Holding) \ {f}) + 1
        /\ Cardinality(At(pc, Holding) \ {f}) \in Nat
    BY <1>1, <1>3, CountMoves
  <2>2. active = Cardinality(At(pc, Holding))
    BY DEF SlotsOK
  <2>3. active - 1 = Cardinality(At(pc, Holding) \ {f}) /\ active - 1 \in Nat
    BY <2>1, <2>2
  <2>4. QED
    BY <1>6, <2>3
<1>8. At(p, Roused) \ {f} = At(p, Roused)
  BY <1>5, <1>3 DEF At
<1>9. q # <<>> => active - 1 + Cardinality(At(p, Roused)) >= MaxConcurrent
  <2> SUFFICES ASSUME q # <<>>
               PROVE  active - 1 + Cardinality(At(p, Roused)) >= MaxConcurrent
    OBVIOUS
  <2>1. waitQueue # <<>>
    BY <1>4
  <2>2. active + Cardinality(At(pc, Roused)) >= MaxConcurrent
    BY <2>1 DEF SlotsOK
  <2>3. Cardinality(At(p, Roused)) = Cardinality(At(pc, Roused)) + 1
    <3> DEFINE h == Head(waitQueue)
    <3>1. h \in Fetches /\ pc[h] \notin Roused /\ p = [pc EXCEPT ![h] = "woken"]
      BY <2>1, <1>3, <1>4
    <3> HIDE DEF h
    <3>2. Cardinality(At(pc, Roused)) = Cardinality(At(pc, Roused) \ {h})
      BY <1>1, <1>3, <3>1, CountMoves
    <3>3. Cardinality(At(p, Roused)) = Cardinality(At(pc, Roused) \ {h}) + 1
      BY <1>1, <1>3, <3>1, CountMoves
    <3>4. QED
      BY <3>2, <3>3
  <2>4. Cardinality(At(pc, Roused)) \in Nat
    BY <1>1, <1>3, CountMoves
  <2>5. QED
    BY <1>0, <1>7, <2>2, <2>3, <2>4 DEF TypeOK
<1>10. Asking(f, active - 1, q, p)
  <2>1. p[f] # "waiting"
    BY <1>3, <1>5
  <2>2. active - 1 <= MaxConcurrent
    BY <1>0, <1>7 DEF SlotsOK, TypeOK
  <2>3. q # <<>> => active - 1 + Cardinality(At(p, Roused) \ {f}) + 1 >= MaxConcurrent
    <3>1. Cardinality(At(p, Roused)) \in Nat
      BY <1>3, <1>4, CountMoves
    <3> DEFINE n == Cardinality(At(p, Roused))
    <3>2. n \in Nat /\ (q # <<>> => active - 1 + n >= MaxConcurrent)
      BY <3>1, <1>9
    <3>3. q # <<>> => active - 1 + n + 1 >= MaxConcurrent
      <4> HIDE DEF n
      <4>1. QED
        BY <1>0, <1>7, <3>2
    <3>4. QED
      BY <1>8, <3>3
  <2>4. QED
    BY <1>4, <1>7, <2>1, <2>2, <2>3 DEF Asking
<1>11. QED
  BY <1>4, <1>5, <1>7, <1>9, <1>10 DEF p, q

\* A call that ends gives its slot back.
LEMMA FinishSettles ==
    ASSUME TypeOK, SlotsOK(active, waitQueue, pc), NEW f \in Fetches, pc[f] \in Holding,
           NEW outcome \in {"done", "failed"}, Finish(f, outcome)
    PROVE  SlotsOK(active', waitQueue', pc')
<1> DEFINE q == Shifted(waitQueue)
           p == HeadWoken(waitQueue, pc)
<1>1. /\ q \in Seq(Fetches) /\ p \in [Fetches -> Stages] /\ p[f] = pc[f]
      /\ Asking(f, active - 1, q, p)
      /\ q # <<>> => active - 1 + Cardinality(At(p, Roused)) >= MaxConcurrent
  BY Released
<1>2. active' = active - 1 /\ waitQueue' = q /\ pc' = [p EXCEPT ![f] = outcome]
  BY DEF Finish
<1> HIDE DEF p, q
<1>3. /\ outcome \in Stages /\ outcome # "waiting" /\ outcome \notin Holding /\ outcome \notin Roused
      /\ pc[f] \notin Roused /\ Holding \in SUBSET Stages /\ Roused \in SUBSET Stages
  BY DEF Holding, Stages, Roused
<1>4. QueueHolds(waitQueue', pc')
  BY <1>1, <1>2, <1>3, QueueUndisturbed DEF Asking
<1>5. Cardinality(At(pc', Holding)) = Cardinality(At(p, Holding) \ {f})
  BY <1>1, <1>2, <1>3, CountMoves
<1>6. Cardinality(At(pc', Roused)) = Cardinality(At(p, Roused) \ {f})
  BY <1>1, <1>2, <1>3, CountMoves
<1>7. At(p, Roused) \ {f} = At(p, Roused)
  BY <1>1, <1>3 DEF At
<1>8. QED
  BY <1>1, <1>2, <1>4, <1>5, <1>6, <1>7 DEF SlotsOK, Asking

\* A call that keeps its slot changes nothing about the slots.
LEMMA HolderMoves ==
    ASSUME TypeOK, SlotsOK(active, waitQueue, pc), NEW f \in Fetches, pc[f] \in Holding,
           NEW s \in Holding, pc' = [pc EXCEPT ![f] = s], UNCHANGED <<active, waitQueue>>
    PROVE  SlotsOK(active', waitQueue', pc')
<1>1. /\ s \in Stages /\ s # "waiting" /\ s \notin Roused /\ pc[f] # "waiting" /\ pc[f] \notin Roused
      /\ pc \in [Fetches -> Stages] /\ waitQueue \in Seq(Fetches)
  BY DEF Holding, Stages, Roused, TypeOK
<1>2. At(pc', Holding) = At(pc, Holding) /\ At(pc', Roused) = At(pc, Roused)
  BY <1>1 DEF At
<1>3. QueueHolds(waitQueue, pc')
  BY <1>1, QueueUndisturbed DEF SlotsOK
<1>4. QED
  BY <1>2, <1>3 DEF SlotsOK

LEMMA CallAsks ==
    ASSUME TypeOK, SlotsOK(active, waitQueue, pc), NEW f \in Fetches, pc[f] \in {"idle", "woken"}
    PROVE  active \in Nat /\ Asking(f, active, waitQueue, pc)
<1>0. MaxConcurrent \in Nat
  BY EngineAssumption DEF EngineAssumption
<1>1. /\ pc[f] # "waiting" /\ pc[f] \notin Holding /\ pc \in [Fetches -> Stages] /\ "idle" \in Stages
      /\ Holding \in SUBSET Stages /\ Roused \in SUBSET Stages
  BY DEF Holding, Stages, Roused, TypeOK
<1>2. Cardinality(At(pc, Holding)) = Cardinality(At(pc, Holding) \ {f})
  BY <1>1, CountMoves
<1>3. Cardinality(At(pc, Holding)) \in Nat
  BY <1>1, CountMoves
<1>4. /\ Cardinality(At(pc, Roused) \ {f}) \in Nat
      /\ pc[f] \in Roused => Cardinality(At(pc, Roused)) = Cardinality(At(pc, Roused) \ {f}) + 1
      /\ pc[f] \notin Roused => Cardinality(At(pc, Roused)) = Cardinality(At(pc, Roused) \ {f})
  BY <1>1, CountMoves
<1> DEFINE n == Cardinality(At(pc, Roused))
           k == Cardinality(At(pc, Roused) \ {f})
<1>5. k \in Nat /\ (n = k \/ n = k + 1)
  BY <1>4
<1>6. active \in Nat /\ (waitQueue # <<>> => active + n >= MaxConcurrent)
  BY <1>3 DEF SlotsOK
<1>7. waitQueue # <<>> => active + k + 1 >= MaxConcurrent
  <2> HIDE DEF n, k
  <2>1. QED
    BY <1>0, <1>5, <1>6
<1>8. QED
  BY <1>1, <1>2, <1>6, <1>7 DEF Asking, SlotsOK

\* Every step keeps the slots in order.
LEMMA SlotsKept ==
    ASSUME IInv, [Next]_vars
    PROVE  SlotsOK(active', waitQueue', pc')
<1>0. TypeOK /\ SlotsOK(active, waitQueue, pc)
  BY SlotsRestated DEF IInv
<1>1. /\ waitQueue \in Seq(Fetches) /\ pc \in [Fetches -> Stages]
  BY <1>0 DEF TypeOK
<1>2. ASSUME NEW f \in Fetches, Call(f) \/ Resume(f)
      PROVE  SlotsOK(active', waitQueue', pc')
  <2>1. pc[f] \in {"idle", "woken"} /\ TryAcquire(f, active, waitQueue, pc)
    BY <1>2 DEF Call, Resume
  <2>2. active \in Nat /\ Asking(f, active, waitQueue, pc)
    BY <1>0, <2>1, CallAsks
  <2>3. QED
    BY <1>1, <2>1, <2>2, AskingSettled
<1>3. ASSUME NEW f \in Fetches, BackoffOver(f) \/ RetryAtOnce(f)
      PROVE  SlotsOK(active', waitQueue', pc')
  <2> DEFINE q == Shifted(waitQueue)
             p == HeadWoken(waitQueue, pc)
  <2>1. pc[f] \in Holding /\ TryAcquire(f, active - 1, q, p)
    BY <1>3 DEF BackoffOver, RetryAtOnce, NextAttempt, Holding
  <2>2. /\ q \in Seq(Fetches) /\ p \in [Fetches -> Stages] /\ active - 1 \in Nat
        /\ Asking(f, active - 1, q, p)
    BY <1>0, <2>1, Released
  <2>3. QED
    BY <2>1, <2>2, AskingSettled
<1>4. ASSUME NEW f \in Fetches, RequestOk(f) \/ GiveUp(f)
      PROVE  SlotsOK(active', waitQueue', pc')
  <2>1. pc[f] \in Holding
    BY <1>4 DEF RequestOk, GiveUp, Holding
  <2>2. CASE RequestOk(f)
    <3>1. Finish(f, "done")
      BY <2>2 DEF RequestOk
    <3>2. QED
      BY <1>0, <2>1, <3>1, FinishSettles
  <2>3. CASE GiveUp(f)
    <3>1. Finish(f, "failed")
      BY <2>3 DEF GiveUp
    <3>2. QED
      BY <1>0, <2>1, <3>1, FinishSettles
  <2>4. QED
    BY <1>4, <2>2, <2>3
<1>5. ASSUME NEW f \in Fetches, StartRequest(f) \/ BackOff(f, TRUE) \/ BackOff(f, FALSE)
      PROVE  SlotsOK(active', waitQueue', pc')
  <2>1. /\ pc[f] \in Holding /\ UNCHANGED <<active, waitQueue>>
        /\ \E s \in Holding : pc' = [pc EXCEPT ![f] = s]
    BY <1>5 DEF StartRequest, BackOff, Holding
  <2>2. QED
    BY <1>0, <2>1, HolderMoves
<1>6. ASSUME Tick \/ UNCHANGED vars
      PROVE  SlotsOK(active', waitQueue', pc')
  <2>1. UNCHANGED <<active, waitQueue, pc>>
    BY <1>6 DEF Tick, vars
  <2>2. QED
    BY <1>0, <2>1
<1>7. QED
  BY <1>2, <1>3, <1>4, <1>5, <1>6 DEF Next, Step, AllFinished

-----------------------------------------------------------------------------
(* Types and attempts *)

LEMMA ConstantsTyped ==
    /\ MaxConcurrent \in Nat \ {0} /\ MaxRetryAttempts \in Nat \ {0} /\ AgentCount \in Nat \ {0}
    /\ MinInterval \in Nat /\ BaseRetryDelay \in Nat /\ MaxLag \in Nat /\ MaxLag < MinInterval
    /\ \A f \in Fetches : HostOf[f] \in Hosts
BY EngineAssumption DEF EngineAssumption

LEMMA TryAcquireTyped ==
    ASSUME TypeOK, NEW f \in Fetches, NEW act \in Int, NEW q \in Seq(Fetches),
           NEW p \in [Fetches -> Stages], TryAcquire(f, act, q, p)
    PROVE  /\ pc' \in [Fetches -> Stages]
           /\ timer' \in [Fetches -> Int]
           /\ active' \in Int
           /\ waitQueue' \in Seq(Fetches)
           /\ nextIn' \in [Hosts -> Nat]
           /\ pc'[f] \in {"waiting", "pacing"}
           /\ \A g \in Fetches \ {f} : pc'[g] = p[g]
<1>1. "waiting" \in Stages /\ "pacing" \in Stages
  BY DEF Stages
<1>2. CASE act >= MaxConcurrent /\ pc' = [p EXCEPT ![f] = "waiting"]
           /\ active' = act /\ waitQueue' = Append(q, f)
           /\ timer' = [timer EXCEPT ![f] = 0] /\ UNCHANGED nextIn
  BY <1>1, <1>2 DEF TypeOK
<1>3. CASE act < MaxConcurrent /\ pc' = [p EXCEPT ![f] = "pacing"]
           /\ active' = act + 1 /\ waitQueue' = q
           /\ timer' = [timer EXCEPT ![f] = nextIn[HostOf[f]]]
           /\ nextIn' = [nextIn EXCEPT ![HostOf[f]] = Reserved(@)]
  BY <1>1, <1>3, ConstantsTyped DEF TypeOK, Reserved
<1>4. QED
  BY <1>2, <1>3 DEF TryAcquire

\* Only the woken head changes its stage when a slot is released.
LEMMA HeadWokenOnly ==
    ASSUME TypeOK, QueueIsWaiting
    PROVE  /\ HeadWoken(waitQueue, pc) \in [Fetches -> Stages]
           /\ Shifted(waitQueue) \in Seq(Fetches)
           /\ \A g \in Fetches : \/ HeadWoken(waitQueue, pc)[g] = pc[g]
                                 \/ pc[g] = "waiting" /\ HeadWoken(waitQueue, pc)[g] = "woken"
<1>1. waitQueue \in Seq(Fetches) /\ pc \in [Fetches -> Stages] /\ QueueHolds(waitQueue, pc)
  BY DEF TypeOK, QueueIsWaiting
<1>2. QED
  BY <1>1, QueueShifted

LEMMA DelayTyped ==
    ASSUME NEW n \in Nat \ {0}, NEW tooMany \in BOOLEAN
    PROVE  RetryDelay(n, tooMany) \in Int
<1>1. \A k \in Nat : 2 ^ k \in Int
  OBVIOUS
<1>2. n - 1 \in Nat
  OBVIOUS
<1>3. 2 ^ (n - 1) \in Int
  BY <1>1, <1>2
<1>4. \A a, b \in Int : a * b \in Int
  OBVIOUS
<1>5. BaseRetryDelay * n \in Int /\ BaseRetryDelay * 2 ^ (n - 1) \in Int
  BY <1>3, <1>4, ConstantsTyped
<1>6. BaseRetryDelay * n * 2 \in Int
  BY <1>4, <1>5
<1>7. QED
  BY <1>5, <1>6 DEF RetryDelay

LEMMA AgentTyped ==
    ASSUME NEW i \in 0..(AgentCount - 1)
    PROVE  RotatedIndex(i) \in 0..(AgentCount - 1)
BY ConstantsTyped DEF RotatedIndex

\* Every step keeps the types and the count of attempts.
LEMMA TypesKept ==
    ASSUME IInv, [Next]_vars
    PROVE  TypeOK' /\ AttemptsCounted'
<1>0. TypeOK /\ AttemptsCounted /\ QueueIsWaiting
  BY DEF IInv
<1>1. ASSUME NEW f \in Fetches, Call(f)
      PROVE  TypeOK' /\ AttemptsCounted'
  <2>1. /\ pc' \in [Fetches -> Stages] /\ timer' \in [Fetches -> Int] /\ active' \in Int
        /\ waitQueue' \in Seq(Fetches) /\ nextIn' \in [Hosts -> Nat]
        /\ pc'[f] \in {"waiting", "pacing"} /\ \A g \in Fetches \ {f} : pc'[g] = pc[g]
    <3>1. active \in Int /\ waitQueue \in Seq(Fetches) /\ pc \in [Fetches -> Stages]
      BY <1>0 DEF TypeOK
    <3>2. TryAcquire(f, active, waitQueue, pc)
      BY <1>1 DEF Call
    <3>3. QED
      BY <1>0, <3>1, <3>2, TryAcquireTyped
  <2>2. /\ agent' = [agent EXCEPT ![f] = agentIndex[HostOf[f]]]
        /\ attempt' = [attempt EXCEPT ![f] = 1]
        /\ UNCHANGED <<agentIndex, sinceStart>>
    BY <1>1 DEF Call
  <2>3. agentIndex[HostOf[f]] \in 0..(AgentCount - 1) /\ 1 \in 0..MaxRetryAttempts
    BY <1>0, ConstantsTyped DEF TypeOK
  <2>4. /\ agent' \in [Fetches -> 0..(AgentCount - 1)]
        /\ attempt' \in [Fetches -> 0..MaxRetryAttempts]
    BY <1>0, <2>2, <2>3 DEF TypeOK
  <2>5. TypeOK'
    BY <1>0, <2>1, <2>2, <2>4 DEF TypeOK
  <2>6. AttemptsCounted'
    <3> SUFFICES ASSUME NEW g \in Fetches
                 PROVE  /\ pc'[g] # "idle" => attempt'[g] >= 1
                        /\ pc'[g] = "backoff" => attempt'[g] < MaxRetryAttempts
      BY DEF AttemptsCounted
    <3>1. CASE g = f
      BY <1>0, <2>1, <2>2, <3>1 DEF TypeOK
    <3>2. CASE g # f
      BY <1>0, <2>1, <2>2, <3>2 DEF TypeOK, AttemptsCounted
    <3>3. QED
      BY <3>1, <3>2
  <2>7. QED
    BY <2>5, <2>6
<1>2. ASSUME NEW f \in Fetches, Resume(f)
      PROVE  TypeOK' /\ AttemptsCounted'
  <2>1. /\ pc' \in [Fetches -> Stages] /\ timer' \in [Fetches -> Int] /\ active' \in Int
        /\ waitQueue' \in Seq(Fetches) /\ nextIn' \in [Hosts -> Nat]
        /\ pc'[f] \in {"waiting", "pacing"} /\ \A g \in Fetches \ {f} : pc'[g] = pc[g]
    <3>1. active \in Int /\ waitQueue \in Seq(Fetches) /\ pc \in [Fetches -> Stages]
      BY <1>0 DEF TypeOK
    <3>2. TryAcquire(f, active, waitQueue, pc)
      BY <1>2 DEF Resume
    <3>3. QED
      BY <1>0, <3>1, <3>2, TryAcquireTyped
  <2>2. pc[f] = "woken" /\ UNCHANGED <<attempt, agent, agentIndex, sinceStart>>
    BY <1>2 DEF Resume
  <2>3. QED
    BY <1>0, <2>1, <2>2 DEF TypeOK, AttemptsCounted
<1>3. ASSUME NEW f \in Fetches, BackoffOver(f) \/ RetryAtOnce(f)
      PROVE  TypeOK' /\ AttemptsCounted'
  <2> DEFINE q == Shifted(waitQueue)
             p == HeadWoken(waitQueue, pc)
  <2>1. /\ pc[f] \in {"backoff", "requesting"} /\ attempt[f] < MaxRetryAttempts /\ NextAttempt(f)
    BY <1>0, <1>3 DEF BackoffOver, RetryAtOnce, AttemptsCounted
  <2>2. /\ q \in Seq(Fetches) /\ p \in [Fetches -> Stages]
        /\ \A g \in Fetches : p[g] = pc[g] \/ (pc[g] = "waiting" /\ p[g] = "woken")
    BY <1>0, HeadWokenOnly
  <2>3. /\ TryAcquire(f, active - 1, q, p)
        /\ attempt' = [attempt EXCEPT ![f] = @ + 1]
        /\ UNCHANGED <<agent, agentIndex, sinceStart>>
    BY <2>1 DEF NextAttempt
  <2> HIDE DEF p, q
  <2>4. /\ pc' \in [Fetches -> Stages] /\ timer' \in [Fetches -> Int] /\ active' \in Int
        /\ waitQueue' \in Seq(Fetches) /\ nextIn' \in [Hosts -> Nat]
        /\ pc'[f] \in {"waiting", "pacing"} /\ \A g \in Fetches \ {f} : pc'[g] = p[g]
    <3>1. active - 1 \in Int
      BY <1>0 DEF TypeOK
    <3>2. QED
      BY <1>0, <2>2, <2>3, <3>1, TryAcquireTyped
  <2>5. attempt[f] \in 0..MaxRetryAttempts /\ attempt[f] >= 1
    BY <1>0, <2>1 DEF TypeOK, AttemptsCounted
  <2>6. TypeOK'
    <3>1. attempt[f] + 1 \in 0..MaxRetryAttempts
      BY <2>1, <2>5, ConstantsTyped
    <3>2. attempt' \in [Fetches -> 0..MaxRetryAttempts]
      BY <1>0, <2>3, <3>1 DEF TypeOK
    <3>3. QED
      BY <1>0, <2>3, <2>4, <3>2 DEF TypeOK
  <2>7. AttemptsCounted'
    <3> SUFFICES ASSUME NEW g \in Fetches
                 PROVE  /\ pc'[g] # "idle" => attempt'[g] >= 1
                        /\ pc'[g] = "backoff" => attempt'[g] < MaxRetryAttempts
      BY DEF AttemptsCounted
    <3>1. CASE g = f
      BY <1>0, <2>3, <2>4, <2>5, <3>1 DEF TypeOK
    <3>2. CASE g # f
      BY <1>0, <2>2, <2>3, <2>4, <3>2 DEF TypeOK, AttemptsCounted
    <3>3. QED
      BY <3>1, <3>2
  <2>8. QED
    BY <2>6, <2>7
<1>4. ASSUME NEW f \in Fetches, RequestOk(f) \/ GiveUp(f)
      PROVE  TypeOK' /\ AttemptsCounted'
  <2> DEFINE q == Shifted(waitQueue)
             p == HeadWoken(waitQueue, pc)
  <2>1. /\ q \in Seq(Fetches) /\ p \in [Fetches -> Stages]
        /\ \A g \in Fetches : p[g] = pc[g] \/ (pc[g] = "waiting" /\ p[g] = "woken")
    BY <1>0, HeadWokenOnly
  <2>2. pc[f] = "requesting" /\ \E outcome \in {"done", "failed"} : Finish(f, outcome)
    BY <1>4 DEF RequestOk, GiveUp
  <2>3. PICK outcome \in {"done", "failed"} : Finish(f, outcome)
    BY <2>2
  <2>4. /\ active' = active - 1 /\ waitQueue' = q /\ pc' = [p EXCEPT ![f] = outcome]
        /\ UNCHANGED <<attempt, timer, agent, nextIn, agentIndex, sinceStart>>
    BY <2>3 DEF Finish
  <2> HIDE DEF p, q
  <2>5. outcome \in Stages
    BY DEF Stages
  <2>6. QED
    BY <1>0, <2>1, <2>2, <2>4, <2>5 DEF TypeOK, AttemptsCounted
<1>5. ASSUME NEW f \in Fetches, StartRequest(f)
      PROVE  TypeOK' /\ AttemptsCounted'
  BY <1>0, <1>5, ConstantsTyped DEF StartRequest, TypeOK, AttemptsCounted, Stages
<1>6. ASSUME NEW f \in Fetches, NEW tooMany \in BOOLEAN, BackOff(f, tooMany)
      PROVE  TypeOK' /\ AttemptsCounted'
  <2>1. attempt[f] \in Nat \ {0}
    <3>1. pc[f] = "requesting"
      BY <1>6 DEF BackOff
    <3>2. attempt[f] \in 0..MaxRetryAttempts /\ attempt[f] >= 1
      BY <1>0, <3>1 DEF TypeOK, AttemptsCounted
    <3>3. QED
      BY <3>2, ConstantsTyped
  <2>2. RetryDelay(attempt[f], tooMany) \in Int
    BY <2>1, DelayTyped
  <2>3. RotatedIndex(agentIndex[HostOf[f]]) \in 0..(AgentCount - 1)
    BY <1>0, ConstantsTyped, AgentTyped DEF TypeOK
  <2>4. /\ agent' \in [Fetches -> 0..(AgentCount - 1)]
        /\ agentIndex' \in [Hosts -> 0..(AgentCount - 1)]
    BY <1>0, <1>6, <2>3, ConstantsTyped DEF BackOff, TypeOK
  <2>5. /\ pc' = [pc EXCEPT ![f] = "backoff"] /\ attempt[f] < MaxRetryAttempts
        /\ timer' = [timer EXCEPT ![f] = RetryDelay(attempt[f], tooMany)]
        /\ UNCHANGED <<attempt, active, waitQueue, nextIn, sinceStart>>
    BY <1>6 DEF BackOff
  <2>6. AttemptsCounted'
    BY <1>0, <2>1, <2>5, ConstantsTyped DEF TypeOK, AttemptsCounted
  <2>7. TypeOK'
    BY <1>0, <2>2, <2>4, <2>5 DEF TypeOK, Stages
  <2>8. QED
    BY <2>6, <2>7
<1>7. ASSUME Tick
      PROVE  TypeOK' /\ AttemptsCounted'
  <2>1. \A n \in Nat : Lower(n) \in Nat
    BY DEF Lower
  <2>2. timer' \in [Fetches -> Int]
    BY <1>0, <1>7 DEF TypeOK, Tick
  <2>3. nextIn' \in [Hosts -> Nat]
    BY <1>0, <1>7, <2>1 DEF TypeOK, Tick
  <2>4. sinceStart' \in [Hosts -> 0..MinInterval]
    BY <1>0, <1>7, ConstantsTyped DEF TypeOK, Tick
  <2>5. UNCHANGED <<pc, attempt, agent, active, waitQueue, agentIndex>>
    BY <1>7 DEF Tick
  <2>6. QED
    BY <1>0, <2>2, <2>3, <2>4, <2>5 DEF TypeOK, AttemptsCounted
<1>8. CASE UNCHANGED vars
  BY <1>0, <1>8 DEF vars, TypeOK, AttemptsCounted
<1>9. QED
  BY <1>1, <1>2, <1>3, <1>4, <1>5, <1>6, <1>7, <1>8 DEF Next, Step, AllFinished

-----------------------------------------------------------------------------
(* Reservations of start times *)

\* The reservations of one host: n is the next start, s the age of the last
\* one, P the calls that pace and t their timers.
Spaced(n, s, P, t) ==
    /\ n + s >= MinInterval - MaxLag
    /\ \A f \in P : /\ n >= t[f] + MinInterval
                    /\ s + t[f] >= MinInterval - MaxLag
                    /\ t[f] >= -MaxLag
                    /\ \A g \in P \ {f} : \/ t[f] >= t[g] + MinInterval
                                          \/ t[g] >= t[f] + MinInterval

LEMMA ReservationsRestated ==
    Reservations <=> \A h \in Hosts : Spaced(nextIn[h], sinceStart[h], Pacing(h), timer)
BY DEF Reservations, Spaced

\* Fewer calls, or other timers elsewhere, leave a host's reservations alone.
LEMMA SpacedFewer ==
    ASSUME NEW n, NEW s, NEW P, NEW t, NEW Q \in SUBSET P, NEW u,
           \A f \in Q : u[f] = t[f], Spaced(n, s, P, t)
    PROVE  Spaced(n, s, Q, u)
BY DEF Spaced

\* A call that reserves the next start goes behind all the others.
LEMMA SpacedReserved ==
    ASSUME NEW n \in Nat, NEW s \in Nat, NEW P, NEW t, NEW f, NEW u,
           \A g \in P : t[g] \in Int, f \notin P,
           \A g \in P : u[g] = t[g], u[f] = n, Spaced(n, s, P, t)
    PROVE  Spaced(Reserved(n), s, P \cup {f}, u)
<1> DEFINE m == n + MinInterval
<1>0. MinInterval \in Nat /\ MaxLag \in Nat /\ Reserved(n) = m /\ m \in Nat /\ m >= n
  BY ConstantsTyped DEF Reserved
<1>1. m + s >= MinInterval - MaxLag
  BY <1>0
<1>2. n + s >= MinInterval - MaxLag
  BY DEF Spaced
<1>3. ASSUME NEW g \in P
      PROVE  /\ u[g] \in Int /\ n >= u[g] + MinInterval /\ m >= u[g] + MinInterval
             /\ s + u[g] >= MinInterval - MaxLag /\ u[g] >= -MaxLag
             /\ \A k \in P \ {g} : u[g] >= u[k] + MinInterval \/ u[k] >= u[g] + MinInterval
  <2>1. /\ u[g] = t[g] /\ t[g] \in Int /\ n >= t[g] + MinInterval
        /\ s + t[g] >= MinInterval - MaxLag /\ t[g] >= -MaxLag
        /\ \A k \in P \ {g} : t[g] >= t[k] + MinInterval \/ t[k] >= t[g] + MinInterval
    BY DEF Spaced
  <2>2. m >= u[g] + MinInterval
    BY <1>0, <2>1
  <2>3. QED
    BY <2>1, <2>2
<1>4. m >= u[f] + MinInterval /\ s + u[f] >= MinInterval - MaxLag /\ u[f] >= -MaxLag
  BY <1>0, <1>2
<1>5. \A k \in P : u[f] >= u[k] + MinInterval
  BY <1>3
<1> HIDE DEF m
<1>6. \A g \in P \cup {f} :
        /\ m >= u[g] + MinInterval /\ s + u[g] >= MinInterval - MaxLag /\ u[g] >= -MaxLag
        /\ \A k \in (P \cup {f}) \ {g} : u[g] >= u[k] + MinInterval \/ u[k] >= u[g] + MinInterval
  BY <1>3, <1>4, <1>5
<1>7. QED
  BY <1>0, <1>1, <1>6 DEF Spaced

\* The loop test keeps the reservations, whether it takes a slot or waits.
LEMMA AskingReserves ==
    ASSUME TypeOK, Reservations, NEW f \in Fetches, NEW act \in Int, NEW q,
           NEW p \in [Fetches -> Stages], TryAcquire(f, act, q, p), UNCHANGED sinceStart,
           \A g \in Fetches : p[g] = "pacing" <=> pc[g] = "pacing", pc[f] # "pacing"
    PROVE  Reservations'
<1>0. /\ nextIn \in [Hosts -> Nat] /\ timer \in [Fetches -> Int]
      /\ sinceStart \in [Hosts -> Nat]
      /\ HostOf[f] \in Hosts
  BY ConstantsTyped DEF TypeOK
<1> SUFFICES ASSUME NEW h \in Hosts
             PROVE  Spaced(nextIn'[h], sinceStart'[h], Pacing(h)', timer')
  BY DEF Reservations, Spaced
<1>1. Spaced(nextIn[h], sinceStart[h], Pacing(h), timer)
  BY ReservationsRestated
<1>2. \A g \in Pacing(h) : g \in Fetches /\ g # f
  BY DEF Pacing
<1>3. CASE /\ pc' = [p EXCEPT ![f] = "waiting"] /\ timer' = [timer EXCEPT ![f] = 0]
           /\ UNCHANGED nextIn
  <2>1. Pacing(h)' \in SUBSET Pacing(h)
    BY <1>3 DEF Pacing
  <2>2. \A g \in Pacing(h)' : timer'[g] = timer[g]
    BY <1>0, <1>2, <1>3, <2>1
  <2>3. QED
    BY <1>1, <1>3, <2>1, <2>2, SpacedFewer
<1>4. CASE /\ pc' = [p EXCEPT ![f] = "pacing"]
           /\ timer' = [timer EXCEPT ![f] = nextIn[HostOf[f]]]
           /\ nextIn' = [nextIn EXCEPT ![HostOf[f]] = Reserved(@)]
  <2>0. timer'[f] = nextIn[HostOf[f]] /\ \A g \in Fetches \ {f} : timer'[g] = timer[g]
    BY <1>0, <1>4
  <2>1. CASE h = HostOf[f]
    <3>1. Pacing(h)' = Pacing(h) \cup {f}
      BY <1>4, <2>1 DEF Pacing
    <3>2. nextIn'[h] = Reserved(nextIn[h]) /\ sinceStart'[h] = sinceStart[h]
      BY <1>0, <1>4, <2>1
    <3>3. /\ \A g \in Pacing(h) : timer[g] \in Int /\ timer'[g] = timer[g]
          /\ timer'[f] = nextIn[h] /\ f \notin Pacing(h)
      BY <1>0, <1>2, <2>0, <2>1
    <3>4. nextIn[h] \in Nat /\ sinceStart[h] \in Nat
      BY <1>0
    <3>5. Spaced(Reserved(nextIn[h]), sinceStart[h], Pacing(h) \cup {f}, timer')
      BY <1>1, <3>3, <3>4, SpacedReserved
    <3>6. QED
      BY <3>1, <3>2, <3>5
  <2>2. CASE h # HostOf[f]
    <3>1. Pacing(h)' \in SUBSET Pacing(h)
      BY <1>4, <2>2 DEF Pacing
    <3>2. nextIn'[h] = nextIn[h] /\ sinceStart'[h] = sinceStart[h]
      BY <1>0, <1>4, <2>2
    <3>3. \A g \in Pacing(h)' : timer'[g] = timer[g]
      BY <1>2, <2>0, <3>1
    <3>4. QED
      BY <1>1, <3>1, <3>2, <3>3, SpacedFewer
  <2>3. QED
    BY <2>1, <2>2
<1>5. QED
  BY <1>3, <1>4 DEF TryAcquire

\* A call that starts its request leaves the others at least an interval,
\* less a timer's lateness, behind it.
LEMMA StartReserves ==
    ASSUME TypeOK, Reservations, NEW f \in Fetches, StartRequest(f)
    PROVE  Reservations'
<1>0. /\ nextIn \in [Hosts -> Nat] /\ timer \in [Fetches -> Int]
      /\ sinceStart \in [Hosts -> Nat] /\ pc \in [Fetches -> Stages]
      /\ HostOf[f] \in Hosts
      /\ MinInterval \in Nat /\ MaxLag \in Nat /\ MaxLag < MinInterval
  BY ConstantsTyped DEF TypeOK
<1>1. /\ pc[f] = "pacing" /\ timer[f] <= 0
      /\ pc' = [pc EXCEPT ![f] = "requesting"] /\ timer' = [timer EXCEPT ![f] = 0]
      /\ sinceStart' = [sinceStart EXCEPT ![HostOf[f]] = 0] /\ UNCHANGED nextIn
  BY DEF StartRequest
<1> SUFFICES ASSUME NEW h \in Hosts
             PROVE  Spaced(nextIn'[h], sinceStart'[h], Pacing(h)', timer')
  BY DEF Reservations, Spaced
<1>2. Spaced(nextIn[h], sinceStart[h], Pacing(h), timer)
  BY ReservationsRestated
<1>3. Pacing(h)' = Pacing(h) \ {f} /\ Pacing(h) \in SUBSET Fetches
  BY <1>0, <1>1 DEF Pacing
<1>4. \A g \in Pacing(h)' : timer'[g] = timer[g] /\ timer[g] \in Int
  BY <1>0, <1>1, <1>3
<1>5. CASE h = HostOf[f]
  <2>1. f \in Pacing(h)
    BY <1>1, <1>5 DEF Pacing
  <2>2. /\ nextIn[h] >= timer[f] + MinInterval /\ timer[f] >= -MaxLag /\ timer[f] \in Int
        /\ nextIn[h] \in Nat /\ nextIn'[h] = nextIn[h] /\ sinceStart'[h] = 0
    BY <1>0, <1>1, <1>2, <1>5, <2>1 DEF Spaced
  <2>3. nextIn'[h] + sinceStart'[h] >= MinInterval - MaxLag
    BY <1>0, <2>2
  <2>4. ASSUME NEW g \in Pacing(h)'
        PROVE  sinceStart'[h] + timer[g] >= MinInterval - MaxLag
    <3>1. g \in Pacing(h) \ {f} /\ timer[g] \in Int
      BY <1>3, <1>4
    <3>2. \/ timer[f] >= timer[g] + MinInterval
          \/ timer[g] >= timer[f] + MinInterval
      BY <1>2, <2>1, <3>1 DEF Spaced
    <3>3. timer[g] >= -MaxLag
      BY <1>2, <3>1 DEF Spaced
    <3>4. QED
      BY <1>0, <1>1, <2>2, <3>1, <3>2, <3>3
  <2>5. QED
    BY <1>2, <1>3, <1>4, <2>2, <2>3, <2>4 DEF Spaced
<1>6. CASE h # HostOf[f]
  <2>1. nextIn'[h] = nextIn[h] /\ sinceStart'[h] = sinceStart[h]
    BY <1>0, <1>1, <1>6
  <2>2. QED
    BY <1>2, <1>3, <1>4, <2>1, SpacedFewer
<1>7. QED
  BY <1>5, <1>6

\* Time moves every pacing timer of a host alike.
LEMMA TickReserves ==
    ASSUME TypeOK, Reservations, Tick
    PROVE  Reservations'
<1>0. /\ nextIn \in [Hosts -> Nat] /\ timer \in [Fetches -> Int]
      /\ sinceStart \in [Hosts -> 0..MinInterval]
      /\ MinInterval \in Nat /\ MaxLag \in Nat /\ MaxLag < MinInterval
  BY ConstantsTyped DEF TypeOK
<1>1. /\ \A f \in Sleeping : timer[f] > -MaxLag
      /\ timer' = [f \in Fetches |-> IF f \in Sleeping THEN timer[f] - 1 ELSE timer[f]]
      /\ nextIn' = [h \in Hosts |-> Lower(nextIn[h])]
      /\ sinceStart' = [h \in Hosts |-> IF sinceStart[h] < MinInterval
                                          THEN sinceStart[h] + 1 ELSE MinInterval]
      /\ pc' = pc
  BY DEF Tick
<1> SUFFICES ASSUME NEW h \in Hosts
             PROVE  Spaced(nextIn'[h], sinceStart'[h], Pacing(h)', timer')
  BY DEF Reservations, Spaced
<1>2. Spaced(nextIn[h], sinceStart[h], Pacing(h), timer)
  BY ReservationsRestated
<1>3. Pacing(h)' = Pacing(h)
  BY <1>1 DEF Pacing
<1>4. \A f \in Pacing(h) : timer'[f] = timer[f] - 1 /\ timer[f] > -MaxLag /\ timer[f] \in Int
  BY <1>0, <1>1 DEF Pacing, Sleeping
<1> DEFINE n == nextIn[h]
           m == nextIn'[h]
           s == sinceStart[h]
           r == sinceStart'[h]
<1>5. /\ n \in Nat /\ m \in Nat /\ m >= n - 1
      /\ s \in 0..MinInterval
      /\ (s < MinInterval /\ r = s + 1) \/ (s = MinInterval /\ r = MinInterval)
  <2>1. m = Lower(n)
    BY <1>1
  <2>2. r = IF s < MinInterval THEN s + 1 ELSE MinInterval
    BY <1>1
  <2>3. QED
    BY <1>0, <2>1, <2>2 DEF Lower
<1>6. n + s >= MinInterval - MaxLag
  BY <1>2 DEF Spaced
<1>7. \A f \in Pacing(h) : /\ n >= timer[f] + MinInterval
                           /\ s + timer[f] >= MinInterval - MaxLag
                           /\ \A g \in Pacing(h) \ {f} : \/ timer[f] >= timer[g] + MinInterval
                                                         \/ timer[g] >= timer[f] + MinInterval
  BY <1>2 DEF Spaced
<1> HIDE DEF n, m, s, r
<1>8. m + r >= MinInterval - MaxLag
  BY <1>0, <1>5, <1>6
<1>9. ASSUME NEW f \in Pacing(h)
      PROVE  /\ m >= timer'[f] + MinInterval
             /\ r + timer'[f] >= MinInterval - MaxLag
             /\ timer'[f] >= -MaxLag
             /\ \A g \in Pacing(h) \ {f} : \/ timer'[f] >= timer'[g] + MinInterval
                                           \/ timer'[g] >= timer'[f] + MinInterval
  <2>1. /\ timer'[f] = timer[f] - 1 /\ timer[f] > -MaxLag /\ timer[f] \in Int
        /\ n >= timer[f] + MinInterval /\ s + timer[f] >= MinInterval - MaxLag
    BY <1>4, <1>7
  <2>2. m >= timer'[f] + MinInterval /\ timer'[f] >= -MaxLag
    BY <1>0, <1>5, <2>1
  <2>3. r + timer'[f] >= MinInterval - MaxLag
    BY <1>0, <1>5, <2>1
  <2>4. ASSUME NEW g \in Pacing(h) \ {f}
        PROVE  \/ timer'[f] >= timer'[g] + MinInterval
               \/ timer'[g] >= timer'[f] + MinInterval
    <3>1. timer'[g] = timer[g] - 1 /\ timer[g] \in Int
      BY <1>4
    <3>2. timer[f] >= timer[g] + MinInterval \/ timer[g] >= timer[f] + MinInterval
      BY <1>7
    <3>3. QED
      BY <1>0, <2>1, <3>1, <3>2
  <2>5. QED
    BY <2>2, <2>3, <2>4
<1>10. QED
  BY <1>3, <1>8, <1>9 DEF Spaced, m, r

\* Every step keeps the reservations.
LEMMA ReservationsKept ==
    ASSUME IInv, [Next]_vars
    PROVE  Reservations'
<1>0. TypeOK /\ Reservations /\ QueueIsWaiting
  BY DEF IInv
<1>1. active \in Int /\ pc \in [Fetches -> Stages] /\ active - 1 \in Int
  BY <1>0 DEF TypeOK
<1>2. ASSUME NEW f \in Fetches, Call(f) \/ Resume(f)
      PROVE  Reservations'
  <2>1. pc[f] # "pacing" /\ TryAcquire(f, active, waitQueue, pc) /\ UNCHANGED sinceStart
    BY <1>2 DEF Call, Resume
  <2>2. QED
    BY <1>0, <1>1, <2>1, AskingReserves
<1>3. ASSUME NEW f \in Fetches, BackoffOver(f) \/ RetryAtOnce(f)
      PROVE  Reservations'
  <2> DEFINE q == Shifted(waitQueue)
             p == HeadWoken(waitQueue, pc)
  <2>1. pc[f] # "pacing" /\ TryAcquire(f, active - 1, q, p) /\ UNCHANGED sinceStart
    BY <1>3 DEF BackoffOver, RetryAtOnce, NextAttempt
  <2>2. /\ p \in [Fetches -> Stages]
        /\ \A g \in Fetches : p[g] = pc[g] \/ (pc[g] = "waiting" /\ p[g] = "woken")
    BY <1>0, HeadWokenOnly
  <2> HIDE DEF p, q
  <2>3. \A g \in Fetches : p[g] = "pacing" <=> pc[g] = "pacing"
    BY <2>2
  <2>4. QED
    BY <1>0, <1>1, <2>1, <2>2, <2>3, AskingReserves
<1>4. ASSUME NEW f \in Fetches, RequestOk(f) \/ GiveUp(f)
      PROVE  Reservations'
  <2> DEFINE p == HeadWoken(waitQueue, pc)
  <2>1. /\ pc[f] # "pacing" /\ UNCHANGED <<timer, nextIn, sinceStart>>
        /\ \E outcome \in {"done", "failed"} : pc' = [p EXCEPT ![f] = outcome]
    BY <1>4 DEF RequestOk, GiveUp, Finish
  <2>2. /\ p \in [Fetches -> Stages]
        /\ \A g \in Fetches : p[g] = pc[g] \/ (pc[g] = "waiting" /\ p[g] = "woken")
    BY <1>0, HeadWokenOnly
  <2> HIDE DEF p
  <2>3. \A h : Pacing(h)' = Pacing(h)
    BY <2>1, <2>2 DEF Pacing
  <2>4. QED
    BY <1>0, <2>1, <2>3 DEF Reservations
<1>5. ASSUME NEW f \in Fetches, StartRequest(f)
      PROVE  Reservations'
  BY <1>0, <1>5, StartReserves
<1>6. ASSUME NEW f \in Fetches, NEW tooMany \in BOOLEAN, BackOff(f, tooMany)
      PROVE  Reservations'
  <2>1. /\ pc[f] = "requesting" /\ pc' = [pc EXCEPT ![f] = "backoff"]
        /\ timer' = [timer EXCEPT ![f] = RetryDelay(attempt[f], tooMany)]
        /\ UNCHANGED <<nextIn, sinceStart>>
    BY <1>6 DEF BackOff
  <2>2. \A h : Pacing(h)' = Pacing(h)
    BY <1>1, <2>1 DEF Pacing
  <2>3. \A h : \A g \in Pacing(h) : timer'[g] = timer[g]
    BY <1>0, <2>1 DEF Pacing, TypeOK
  <2>4. QED
    BY <1>0, <2>1, <2>2, <2>3 DEF Reservations
<1>7. ASSUME Tick
      PROVE  Reservations'
  BY <1>0, <1>7, TickReserves
<1>8. CASE UNCHANGED vars
  BY <1>0, <1>8 DEF vars, Reservations, Pacing
<1>9. QED
  BY <1>2, <1>3, <1>4, <1>5, <1>6, <1>7, <1>8 DEF Next, Step, AllFinished

-----------------------------------------------------------------------------
(* Theorems *)

\* Nothing is called yet: no slot is taken, nobody waits, no host has been
\* asked.
THEOREM EngineInitInvariant == Init => IInv
<1> SUFFICES ASSUME Init
             PROVE  IInv
  OBVIOUS
<1>0. pc = [f \in Fetches |-> "idle"] /\ active = 0 /\ waitQueue = <<>>
  BY DEF Init
<1>1. TypeOK
  <2>1. "idle" \in Stages
    BY DEF Stages
  <2>2. 0 \in 0..MaxRetryAttempts /\ 0 \in 0..(AgentCount - 1) /\ MinInterval \in 0..MinInterval
    BY ConstantsTyped
  <2>3. QED
    BY <2>1, <2>2 DEF Init, TypeOK
<1>2. SlotAccounting
  <2>1. Holders = {}
    BY <1>0 DEF Holders, Holding
  <2>2. QED
    BY <1>0, <2>1, FS_EmptySet, ConstantsTyped DEF SlotAccounting
<1>3. NoLostWakeup
  BY <1>0 DEF NoLostWakeup
<1>4. QueueIsWaiting
  BY <1>0 DEF QueueIsWaiting, QueueHolds
<1>5. Reservations
  <2>1. \A h \in Hosts : nextIn[h] = 0 /\ sinceStart[h] = MinInterval /\ Pacing(h) = {}
    BY <1>0 DEF Init, Pacing
  <2>2. QED
    BY <2>1, ConstantsTyped DEF Reservations
<1>6. AttemptsCounted
  BY <1>0 DEF AttemptsCounted
<1>7. QED
  BY <1>1, <1>2, <1>3, <1>4, <1>5, <1>6 DEF IInv

\* Every step of every call, and of the clock, keeps the invariant.
THEOREM EngineStepInvariant == IInv /\ [Next]_vars => IInv'
<1> SUFFICES ASSUME IInv, [Next]_vars
             PROVE  IInv'
  OBVIOUS
<1>1. TypeOK' /\ AttemptsCounted'
  BY TypesKept
<1>2. SlotsOK(active', waitQueue', pc')
  BY SlotsKept
<1>3. SlotAccounting' /\ NoLostWakeup' /\ QueueIsWaiting'
  <2>1. /\ At(pc', Holding) = Holders' /\ At(pc', Roused) = Woken'
    BY DEF At, Holders, Woken, Roused
  <2>2. waitQueue' \in Seq(Fetches) /\ QueueHolds(waitQueue', pc')
    BY <1>1, <1>2 DEF TypeOK, SlotsOK
  <2>3. (\E f \in Fetches : pc'[f] = "waiting") <=> waitQueue' # <<>>
    BY <2>2, QueueNonempty
  <2>4. QED
    BY <1>2, <2>1, <2>3 DEF SlotsOK, SlotAccounting, NoLostWakeup, QueueIsWaiting
<1>4. Reservations'
  BY ReservationsKept
<1>5. QED
  BY <1>1, <1>3, <1>4 DEF IInv

THEOREM EngineInvariance == Spec => []IInv
BY EngineInitInvariant, EngineStepInvariant, PTL DEF Spec

\* The types of the engine's state: every stored agent index is one of the
\* list, every attempt within the limit.
THEOREM EngineTypeCorrect == Spec => []TypeOK
<1>1. IInv => TypeOK
  BY DEF IInv
<1>2. QED
  BY EngineInvariance, <1>1, PTL

\* activeRequests is the number of calls between acquireRequestSlot and their
\* release, and never above maxConcurrentRequests.
THEOREM SlotsAreCounted == Spec => []SlotAccounting
<1>1. IInv => SlotAccounting
  BY DEF IInv
<1>2. QED
  BY EngineInvariance, <1>1, PTL

\* No call is left in waitQueue while a slot is free that no woken call is
\* about to take.
THEOREM NoWakeupIsLost == Spec => []NoLostWakeup
<1>1. IInv => NoLostWakeup
  BY DEF IInv
<1>2. QED
  BY EngineInvariance, <1>1, PTL

\* A call goes from pacing to requesting by starting its own request.
LEMMA OnlyStartRequests ==
    ASSUME IInv, Next, NEW f \in Fetches, pc[f] = "pacing", pc'[f] = "requesting"
    PROVE  StartRequest(f)
<1>0. TypeOK /\ QueueIsWaiting /\ active \in Int /\ active - 1 \in Int
      /\ pc \in [Fetches -> Stages] /\ waitQueue \in Seq(Fetches)
  BY DEF IInv, TypeOK
<1>1. ASSUME NEW g \in Fetches, Call(g) \/ Resume(g)
      PROVE  FALSE
  <2>1. TryAcquire(g, active, waitQueue, pc) /\ pc[g] # "pacing"
    BY <1>1 DEF Call, Resume
  <2>2. pc'[f] = pc[f]
    BY <1>0, <2>1, TryAcquireTyped
  <2>3. QED
    BY <2>2
<1>2. ASSUME NEW g \in Fetches, BackoffOver(g) \/ RetryAtOnce(g)
      PROVE  FALSE
  <2> DEFINE q == Shifted(waitQueue)
             p == HeadWoken(waitQueue, pc)
  <2>1. TryAcquire(g, active - 1, q, p) /\ pc[g] # "pacing"
    BY <1>2 DEF BackoffOver, RetryAtOnce, NextAttempt
  <2>2. q \in Seq(Fetches) /\ p \in [Fetches -> Stages] /\ p[f] = pc[f]
    BY <1>0, HeadWokenOnly
  <2> HIDE DEF p, q
  <2>3. pc'[f] = p[f]
    <3>1. TypeOK /\ active - 1 \in Int
      BY <1>0
    <3>2. \A k \in Fetches \ {g} : pc'[k] = p[k]
      BY <3>1, <2>1, <2>2, TryAcquireTyped
    <3>3. f # g
      BY <2>1
    <3>4. QED
      BY <3>2, <3>3
  <2>4. QED
    BY <2>2, <2>3
<1>3. ASSUME NEW g \in Fetches, RequestOk(g) \/ GiveUp(g)
      PROVE  FALSE
  <2> DEFINE p == HeadWoken(waitQueue, pc)
  <2>1. \E outcome \in {"done", "failed"} : pc' = [p EXCEPT ![g] = outcome]
    BY <1>3 DEF RequestOk, GiveUp, Finish
  <2>2. p \in [Fetches -> Stages] /\ p[f] = pc[f]
    BY <1>0, HeadWokenOnly
  <2> HIDE DEF p
  <2>3. QED
    BY <2>1, <2>2
<1>4. ASSUME NEW g \in Fetches, StartRequest(g)
      PROVE  StartRequest(f)
  BY <1>0, <1>4 DEF StartRequest
<1>5. ASSUME NEW g \in Fetches, NEW tooMany \in BOOLEAN, BackOff(g, tooMany)
      PROVE  FALSE
  BY <1>0, <1>5 DEF BackOff
<1>6. ASSUME Tick \/ UNCHANGED vars
      PROVE  FALSE
  BY <1>6 DEF Tick, vars
<1>7. QED
  BY <1>1, <1>2, <1>3, <1>4, <1>5, <1>6 DEF Next, Step, AllFinished

\* Requests to one host start minRequestIntervalMs apart, less the lateness
\* of a timer, for any number of calls and any mix of attempts.
THEOREM RequestsAreSpaced == Spec => HostSpacing
<1> DEFINE Apart == \A f \in Fetches : pc[f] = "pacing" /\ pc'[f] = "requesting"
                      => sinceStart[HostOf[f]] >= MinInterval - MaxLag
<1>1. IInv /\ [Next]_vars => [Apart]_vars
  <2> SUFFICES ASSUME IInv, Next, NEW f \in Fetches, pc[f] = "pacing", pc'[f] = "requesting"
               PROVE  sinceStart[HostOf[f]] >= MinInterval - MaxLag
    OBVIOUS
  <2>1. timer[f] <= 0
    BY OnlyStartRequests DEF StartRequest
  <2>2. f \in Pacing(HostOf[f]) /\ HostOf[f] \in Hosts
    BY ConstantsTyped DEF Pacing
  <2>3. sinceStart[HostOf[f]] + timer[f] >= MinInterval - MaxLag
    BY <2>2 DEF IInv, Reservations
  <2>4. timer[f] \in Int /\ sinceStart[HostOf[f]] \in 0..MinInterval
    BY <2>2 DEF IInv, TypeOK
  <2>5. QED
    BY <2>1, <2>3, <2>4, ConstantsTyped
<1>2. QED
  BY EngineInvariance, <1>1, PTL DEF Spec, HostSpacing
=============================================================================
