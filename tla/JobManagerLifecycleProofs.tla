---------------------- MODULE JobManagerLifecycleProofs ----------------------
(***************************************************************************)
(* The life of a job-manager process, for any number of lanes, abandoned   *)
(* calls, messages, handlers and connections: what the publisher           *)
(* connection is, and in which order a close takes things down.            *)
(***************************************************************************)
EXTENDS JobManagerLifecycle, TLAPS

\* The initial states satisfy the invariant.
LEMMA InitInvariant == Init => IInv
<1>. SUFFICES ASSUME Init PROVE IInv
  OBVIOUS
<1>. USE DEF Init
<1>1. TypeOK
  <2>1. CallerType
    BY LifecycleAssumption DEF CallerType, Idle
  <2>2. QueueType
    BY LifecycleAssumption DEF QueueType
  <2>3. ProcessType
    BY LifecycleAssumption DEF ProcessType
  <2>4. FlagsType
    BY DEF FlagsType
  <2>. QED
    BY <2>1, <2>2, <2>3, <2>4 DEF TypeOK
<1>2. CallersConnected
  BY DEF CallersConnected, Idle
<1>3. ClosedInOrder
  BY DEF ClosedInOrder, Stopped, Callers
<1>4. SendersShare
  BY DEF SendersShare, Idle
<1>5. Unspoilt
  BY DEF Unspoilt, Undisturbed
<1>. QED
  BY <1>1, <1>2, <1>3, <1>4, <1>5 DEF IInv

\* Every step keeps the types of the callers.
LEMMA CallerTypeStep ==
    ASSUME CallerType, QueueType, [Next]_vars
    PROVE  CallerType'
<1>. USE LifecycleAssumption
<1>1. ASSUME NEW l \in Lanes, Publish(l)
      PROVE  CallerType'
  BY <1>1 DEF Publish, Moves, CallerType, QueueType
<1>2. ASSUME NEW l \in Lanes, PublishTimesOut(l)
      PROVE  CallerType'
  <2>1. CASE Settles(l)
    BY <2>1 DEF Settles, Moves, CallerType, Callers
  <2>2. CASE \E s \in LateSlots :
               caller' = [caller EXCEPT ![s] = caller[l],
                                        ![l] = [at |-> "recording", conn |-> 0]]
    BY <2>2 DEF CallerType, Callers
  <2>. QED
    BY <1>2, <2>1, <2>2 DEF PublishTimesOut
<1>3. ASSUME NEW l \in Lanes, Recorded(l)
      PROVE  CallerType'
  BY <1>3 DEF Recorded, Moves, CallerType, Callers
<1>4. ASSUME NEW c \in Callers, Connects(c)
      PROVE  CallerType'
  BY <1>4 DEF Connects, Moves, CallerType, QueueType
<1>5. ASSUME NEW c \in Callers, OpensChannel(c)
      PROVE  CallerType'
  BY <1>5 DEF OpensChannel, Moves, CallerType
<1>6. ASSUME NEW c \in Callers, OpeningFails(c)
      PROVE  CallerType'
  BY <1>6 DEF OpeningFails, Settles, Moves, CallerType
<1>7. ASSUME NEW c \in Callers, SendEnds(c)
      PROVE  CallerType'
  BY <1>7 DEF SendEnds, Settles, Moves, CallerType
<1>8. ASSUME UNCHANGED caller
      PROVE  CallerType'
  BY <1>8 DEF CallerType
<1>. QED
  BY <1>1, <1>2, <1>3, <1>4, <1>5, <1>6, <1>7, <1>8
     DEF Next, Polls, LaneStep, CallerStep, Consumes, Cleans, Destroys,
         Settled, vars, queueVars, Claimed, BatchEnds, DelayAborted,
         DelayElapses, BrokerCloses, Register, Delivered, HandlerEnds,
         ConsumerLost, CloseWorkerStep, CleanupTick, CleanupEnds, Close,
         HooksResolve, DestroyBegins, ChannelClosed, ConnectionClosed

\* A call that creates a channel does so on a connection that was opened.
LEMMA CreatedAreOpened ==
    ASSUME CallerType, CallersConnected, QueueType, NEW c \in Callers
    PROVE  Created(c) \subseteq 1..opened
BY LifecycleAssumption DEF Created, CallerType, CallersConnected, QueueType

\* Every step keeps the types of the queue.
LEMMA QueueTypeStep ==
    ASSUME CallerType, CallersConnected, QueueType, [Next]_vars
    PROVE  QueueType'
<1>. USE LifecycleAssumption
<1>1. ASSUME NEW l \in Lanes, Publish(l)
      PROVE  QueueType'
  <2>1. \A c \in Callers : Created(c) \subseteq 1..opened
    BY CreatedAreOpened
  <2>. QED
    BY <1>1, <2>1 DEF Publish, QueueType
<1>2. ASSUME NEW l \in Lanes, PublishTimesOut(l)
      PROVE  QueueType'
  <2>1. Created(l) \subseteq 1..opened
    BY CreatedAreOpened DEF Callers
  <2>. QED
    BY <1>2, <2>1 DEF PublishTimesOut, QueueType
<1>3. ASSUME NEW c \in Callers, Connects(c)
      PROVE  QueueType'
  BY <1>3 DEF Connects, QueueType
<1>4. ASSUME NEW c \in Callers, OpensChannel(c)
      PROVE  QueueType'
  BY <1>4 DEF OpensChannel, Moves, Usable, QueueType
<1>5. ASSUME NEW c \in Callers, OpeningFails(c)
      PROVE  QueueType'
  <2>1. Created(c) \subseteq 1..opened
    BY CreatedAreOpened
  <2>. QED
    BY <1>5, <2>1 DEF OpeningFails, QueueType
<1>6. ASSUME NEW k \in conns, BrokerCloses(k)
      PROVE  QueueType'
  BY <1>6 DEF BrokerCloses, QueueType
<1>7. ASSUME DestroyBegins
      PROVE  QueueType'
  BY <1>7 DEF DestroyBegins, ClosesConnection, QueueType
<1>8. ASSUME ChannelClosed
      PROVE  QueueType'
  BY <1>8 DEF ChannelClosed, ClosesConnection, QueueType
<1>9. ASSUME ConnectionClosed
      PROVE  QueueType'
  <2>1. /\ opened' = opened /\ shut' = shut /\ spoilt' = spoilt
        /\ publishChannel' = publishChannel /\ closing' = closing
        /\ conns' \subseteq conns
    BY <1>9 DEF ConnectionClosed
  <2>2. publishConnection' \in {0, publishConnection}
    BY <1>9 DEF ConnectionClosed
  <2>3. 0 \in 0..opened
    BY DEF QueueType
  <2>. QED
    BY <2>1, <2>2, <2>3 DEF QueueType
<1>10. ASSUME UNCHANGED <<conns, opened, shut, publishConnection, publishChannel, closing, spoilt>>
      PROVE  QueueType'
  BY <1>10 DEF QueueType
<1>. QED
  BY <1>1, <1>2, <1>3, <1>4, <1>5, <1>6, <1>7, <1>8, <1>9, <1>10
     DEF Next, Polls, LaneStep, CallerStep, Consumes, Cleans, Destroys,
         Settled, vars, queueVars, Claimed, BatchEnds, DelayAborted,
         DelayElapses, Recorded, SendEnds, Register, Delivered,
         HandlerEnds, ConsumerLost, CloseWorkerStep, CleanupTick,
         CleanupEnds, Close, HooksResolve

\* Every step keeps the types of the rest.
LEMMA ProcessTypeStep ==
    ASSUME QueueType, ProcessType, [Next]_vars
    PROVE  ProcessType'
<1>. USE LifecycleAssumption
<1>1. ASSUME NEW n \in 0..MaxBatch, Claimed(n)
      PROVE  ProcessType'
  BY <1>1 DEF Claimed, AfterTask, ProcessType, restVars
<1>2. ASSUME BatchEnds
      PROVE  ProcessType'
  BY <1>2 DEF BatchEnds, AfterTask, ProcessType, restVars
<1>3. ASSUME DelayAborted
      PROVE  ProcessType'
  BY <1>3 DEF DelayAborted, ProcessType, restVars
<1>4. ASSUME DelayElapses
      PROVE  ProcessType'
  BY <1>4 DEF DelayElapses, ProcessType, restVars
<1>5. ASSUME NEW l \in Lanes, Publish(l)
      PROVE  ProcessType'
  BY <1>5 DEF Publish, ProcessType, restVars
<1>6. ASSUME Register
      PROVE  ProcessType'
  BY <1>6 DEF Register, ProcessType, Ended, pollVars
<1>7. ASSUME Delivered
      PROVE  ProcessType'
  BY <1>7 DEF Delivered, ProcessType, pollVars
<1>8. ASSUME HandlerEnds
      PROVE  ProcessType'
  BY <1>8 DEF HandlerEnds, ProcessType, Ended, pollVars
<1>9. ASSUME ConsumerLost
      PROVE  ProcessType'
  BY <1>9 DEF ConsumerLost, ClosingWorker, ProcessType, Ended, pollVars
<1>10. ASSUME CloseWorkerStep
      PROVE  ProcessType'
  BY <1>10 DEF CloseWorkerStep, ProcessType, pollVars
<1>11. ASSUME CleanupTick
      PROVE  ProcessType'
  BY <1>11 DEF CleanupTick, ProcessType, pollVars
<1>12. ASSUME CleanupEnds
      PROVE  ProcessType'
  BY <1>12 DEF CleanupEnds, ProcessType, Ended, pollVars
<1>13. ASSUME Close
      PROVE  ProcessType'
  BY <1>13 DEF Close, ProcessType, Ended
<1>14. ASSUME HooksResolve
      PROVE  ProcessType'
  BY <1>14 DEF HooksResolve, ProcessType, pollVars, restVars
<1>15. ASSUME DestroyBegins
      PROVE  ProcessType'
  BY <1>15
     DEF DestroyBegins, ClosesConnection, ProcessType, Ended, pollVars,
         restVars
<1>16. ASSUME ChannelClosed
      PROVE  ProcessType'
  BY <1>16
     DEF ChannelClosed, ClosesConnection, ProcessType, Ended, pollVars,
         restVars
<1>17. ASSUME ConnectionClosed
      PROVE  ProcessType'
  BY <1>17 DEF ConnectionClosed, ProcessType, Ended, pollVars, restVars
<1>18. ASSUME UNCHANGED <<phase, loop, todo, cleaning, consumer, handlers>>
      PROVE  ProcessType'
  BY <1>18 DEF ProcessType
<1>. QED
  BY <1>1, <1>2, <1>3, <1>4, <1>5, <1>6, <1>7, <1>8, <1>9, <1>10, <1>11, <1>12,
     <1>13, <1>14, <1>15, <1>16, <1>17, <1>18
     DEF Next, Polls, LaneStep, CallerStep, Consumes, Cleans, Destroys,
         Settled, vars, pollVars, restVars, PublishTimesOut, Recorded,
         Connects, OpensChannel, OpeningFails, SendEnds, BrokerCloses

\* Every step keeps the types of the flags.
LEMMA FlagsTypeStep ==
    ASSUME FlagsType, [Next]_vars
    PROVE  FlagsType'
<1>. USE LifecycleAssumption
<1>1. ASSUME Close
      PROVE  FlagsType'
  BY <1>1 DEF Close, FlagsType
<1>2. ASSUME UNCHANGED <<shutdownRequested, aborted, timer>>
      PROVE  FlagsType'
  BY <1>2 DEF FlagsType
<1>. QED
  BY <1>1, <1>2
     DEF Next, Polls, LaneStep, CallerStep, Consumes, Cleans, Destroys,
         Settled, vars, pollVars, restVars, Claimed, BatchEnds,
         DelayAborted, DelayElapses, Publish, PublishTimesOut, Recorded,
         Connects, OpensChannel, OpeningFails, SendEnds, BrokerCloses,
         Register, Delivered, HandlerEnds, ConsumerLost, CloseWorkerStep,
         CleanupTick, CleanupEnds, HooksResolve, DestroyBegins,
         ChannelClosed, ConnectionClosed

\* Every step keeps the connections of the callers.
LEMMA ConnectedStep ==
    ASSUME CallerType, CallersConnected, QueueType, [Next]_vars
    PROVE  CallersConnected'
<1>. USE LifecycleAssumption
<1>1. ASSUME NEW l \in Lanes, Publish(l)
      PROVE  CallersConnected'
  BY <1>1 DEF Publish, Moves, CallerType, CallersConnected, QueueType
<1>2. ASSUME NEW l \in Lanes, PublishTimesOut(l)
      PROVE  CallersConnected'
  BY <1>2
     DEF PublishTimesOut, Settles, Moves, CallerType, CallersConnected,
         QueueType, Callers
<1>3. ASSUME NEW l \in Lanes, Recorded(l)
      PROVE  CallersConnected'
  BY <1>3 DEF Recorded, Moves, CallersConnected, QueueType
<1>4. ASSUME NEW c \in Callers, Connects(c)
      PROVE  CallersConnected'
  BY <1>4 DEF Connects, Moves, CallerType, CallersConnected, QueueType
<1>5. ASSUME NEW c \in Callers, OpensChannel(c)
      PROVE  CallersConnected'
  BY <1>5 DEF OpensChannel, Moves, CallersConnected
<1>6. ASSUME NEW c \in Callers, OpeningFails(c)
      PROVE  CallersConnected'
  BY <1>6 DEF OpeningFails, Settles, Moves, CallersConnected, QueueType
<1>7. ASSUME NEW c \in Callers, SendEnds(c)
      PROVE  CallersConnected'
  BY <1>7 DEF SendEnds, Settles, Moves, CallersConnected, QueueType
<1>8. ASSUME UNCHANGED <<caller, opened>>
      PROVE  CallersConnected'
  BY <1>8 DEF CallersConnected
<1>. QED
  BY <1>1, <1>2, <1>3, <1>4, <1>5, <1>6, <1>7, <1>8
     DEF Next, Polls, LaneStep, CallerStep, Consumes, Cleans, Destroys,
         Settled, vars, queueVars, Claimed, BatchEnds, DelayAborted,
         DelayElapses, BrokerCloses, Register, Delivered, HandlerEnds,
         ConsumerLost, CloseWorkerStep, CleanupTick, CleanupEnds, Close,
         HooksResolve, DestroyBegins, ChannelClosed, ConnectionClosed

\* Every step keeps the order of the close.
LEMMA OrderStep ==
    ASSUME TypeOK, CallersConnected, ClosedInOrder, [Next]_vars
    PROVE  ClosedInOrder'
<1>. USE LifecycleAssumption
<1>1. ASSUME NEW n \in 0..MaxBatch, Claimed(n)
      PROVE  ClosedInOrder'
  BY <1>1 DEF Claimed, ClosedInOrder, queueVars, restVars
<1>2. ASSUME BatchEnds
      PROVE  ClosedInOrder'
  BY <1>2 DEF BatchEnds, ClosedInOrder, queueVars, restVars
<1>3. ASSUME DelayAborted
      PROVE  ClosedInOrder'
  BY <1>3 DEF DelayAborted, ClosedInOrder, queueVars, restVars
<1>4. ASSUME DelayElapses
      PROVE  ClosedInOrder'
  BY <1>4 DEF DelayElapses, ClosedInOrder, queueVars, restVars
<1>5. ASSUME NEW l \in Lanes, Publish(l)
      PROVE  ClosedInOrder'
  BY <1>5 DEF Publish, ClosedInOrder, restVars
<1>6. ASSUME NEW l \in Lanes, PublishTimesOut(l)
      PROVE  ClosedInOrder'
  BY <1>6 DEF PublishTimesOut, ClosedInOrder, Idle, pollVars, restVars
<1>7. ASSUME NEW l \in Lanes, Recorded(l)
      PROVE  ClosedInOrder'
  BY <1>7 DEF Recorded, ClosedInOrder, Idle, pollVars, restVars
<1>8. ASSUME NEW c \in Callers, Connects(c)
      PROVE  ClosedInOrder'
  BY <1>8 DEF Connects, Moves, ClosedInOrder, Idle, pollVars, restVars
<1>9. ASSUME NEW c \in Callers, OpensChannel(c)
      PROVE  ClosedInOrder'
  BY <1>9 DEF OpensChannel, Moves, ClosedInOrder, Idle, pollVars, restVars
<1>10. ASSUME NEW c \in Callers, OpeningFails(c)
      PROVE  ClosedInOrder'
  BY <1>10
     DEF OpeningFails, Settles, Moves, Opening, ClosedInOrder, Idle, pollVars,
         restVars
<1>11. ASSUME NEW c \in Callers, SendEnds(c)
      PROVE  ClosedInOrder'
  BY <1>11
     DEF SendEnds, Settles, Moves, ClosedInOrder, Idle, pollVars, restVars
<1>12. ASSUME Register
      PROVE  ClosedInOrder'
  BY <1>12 DEF Register, ClosedInOrder, Stopped, pollVars, queueVars
<1>13. ASSUME HandlerEnds
      PROVE  ClosedInOrder'
  BY <1>13 DEF HandlerEnds, ClosedInOrder, Stopped, pollVars, queueVars
<1>14. ASSUME CleanupTick
      PROVE  ClosedInOrder'
  BY <1>14 DEF CleanupTick, ClosedInOrder, pollVars, queueVars
<1>15. ASSUME CleanupEnds
      PROVE  ClosedInOrder'
  BY <1>15 DEF CleanupEnds, ClosedInOrder, Stopped, pollVars, queueVars
<1>16. ASSUME Close
      PROVE  ClosedInOrder'
  BY <1>16 DEF Close, ClosedInOrder, Stopped, queueVars
<1>17. ASSUME HooksResolve
      PROVE  ClosedInOrder'
  BY <1>17
     DEF HooksResolve, StopResolves, ClosedInOrder, pollVars, queueVars,
         restVars
<1>18. ASSUME DestroyBegins
      PROVE  ClosedInOrder'
  BY <1>18 DEF DestroyBegins, ClosedInOrder, Stopped, pollVars, restVars
<1>19. ASSUME ChannelClosed
      PROVE  ClosedInOrder'
  BY <1>19 DEF ChannelClosed, ClosedInOrder, Stopped, pollVars, restVars
<1>20. ASSUME ConnectionClosed
      PROVE  ClosedInOrder'
  BY <1>20 DEF ConnectionClosed, ClosedInOrder, Stopped, pollVars, restVars
<1>21. ASSUME ConsumerLost
      PROVE  ClosedInOrder'
  BY <1>21 DEF ConsumerLost, ClosedInOrder, Stopped, pollVars, queueVars
<1>22. ASSUME UNCHANGED <<phase, loop, caller, shut, closing, timer, cleaning>>
      PROVE  ClosedInOrder'
  BY <1>22 DEF ClosedInOrder
<1>. QED
  BY <1>1, <1>2, <1>3, <1>4, <1>5, <1>6, <1>7, <1>8, <1>9, <1>10, <1>11, <1>12,
     <1>13, <1>14, <1>15, <1>16, <1>17, <1>18, <1>19, <1>20, <1>21, <1>22
     DEF Next, Polls, LaneStep, CallerStep, Consumes, Cleans, Destroys,
         Settled, vars, pollVars, queueVars, restVars, BrokerCloses,
         Delivered, CloseWorkerStep

\* Whoever sends has left a channel in the cache.
LEMMA SharedStep ==
    ASSUME TypeOK, CallersConnected, ClosedInOrder, SendersShare, [Next]_vars
    PROVE  SendersShare'
<1>1. ASSUME NEW l \in Lanes, Publish(l)
      PROVE  SendersShare'
  BY <1>1 DEF Publish, Moves, TypeOK, CallerType, SendersShare, restVars
<1>2. ASSUME NEW l \in Lanes, PublishTimesOut(l)
      PROVE  SendersShare'
  BY <1>2 DEF PublishTimesOut, Settles, Moves, TypeOK, CallerType, SendersShare, Callers, pollVars
<1>3. ASSUME NEW l \in Lanes, Recorded(l)
      PROVE  SendersShare'
  BY <1>3 DEF Recorded, Moves, TypeOK, CallerType, SendersShare, Callers, pollVars
<1>4. ASSUME NEW c \in Callers, Connects(c)
      PROVE  SendersShare'
  BY <1>4 DEF Connects, Moves, TypeOK, CallerType, SendersShare, pollVars
<1>5. ASSUME NEW c \in Callers, OpensChannel(c)
      PROVE  SendersShare'
  BY <1>5 DEF OpensChannel, Usable, Moves, TypeOK, CallerType, CallersConnected, SendersShare, pollVars
<1>6. ASSUME NEW c \in Callers, OpeningFails(c) \/ SendEnds(c)
      PROVE  SendersShare'
  BY <1>6 DEF OpeningFails, SendEnds, Settles, Moves, TypeOK, CallerType, SendersShare, pollVars
<1>7. ASSUME ChannelClosed
      PROVE  SendersShare'
  BY <1>7 DEF ChannelClosed, ClosedInOrder, Stopped, SendersShare, pollVars
<1>8. ASSUME UNCHANGED <<caller, publishChannel>>, loop = "off" => loop' = "off"
      PROVE  SendersShare'
  BY <1>8 DEF SendersShare
<1>. QED
  BY <1>1, <1>2, <1>3, <1>4, <1>5, <1>6, <1>7, <1>8
     DEF Next, Polls, LaneStep, CallerStep, Consumes, Cleans, Destroys,
         Settled, vars, pollVars, queueVars, Claimed, BatchEnds, DelayAborted,
         DelayElapses, BrokerCloses, Register, Delivered, HandlerEnds,
         ConsumerLost, CloseWorkerStep, CleanupTick, CleanupEnds, Close,
         HooksResolve, DestroyBegins, ConnectionClosed

\* What Unspoilt says of one connection.
Sound(k) ==
    /\ k = opened
    /\ publishChannel \in {0, k}
    /\ \A c \in Callers : caller[c].at = "sending" => caller[c].conn = k
    /\ \A c \in Callers : Opening(c) =>
          c \in Lanes /\ caller[c] = [at |-> "creating", conn |-> k]
    /\ publishChannel = k \/ loop = "off" \/ \E l \in Lanes : Opening(l)
    /\ publishConnection = k \/ (publishConnection = 0 /\ k \notin conns)
    /\ phase = "closingConnection" => closing = k
    /\ phase = "closed" => k \notin conns

\* A step of a call leaves the connection sound, or spoils it.
LEMMA CallerKeepsSound ==
    ASSUME TypeOK, CallersConnected, ClosedInOrder, SendersShare, NEW k \in 1..opened, Sound(k),
           k \notin spoilt',
           \/ \E l \in Lanes : Publish(l) \/ PublishTimesOut(l) \/ Recorded(l)
           \/ \E c \in Callers : OpensChannel(c) \/ OpeningFails(c) \/ SendEnds(c)
    PROVE  Sound(k)'
<1>1. ASSUME NEW l \in Lanes, Publish(l)
      PROVE  Sound(k)'
  <2>1. publishChannel # 0
    <3>. SUFFICES ASSUME publishChannel = 0 PROVE FALSE
      OBVIOUS
    <3>1. k # 0 /\ loop = "dispatching"
      BY <1>1 DEF Publish, TypeOK, QueueType
    <3>2. PICK c \in Lanes : Opening(c)
      BY <3>1 DEF Sound
    <3>3. Created(c) = {k} /\ c \in Callers
      BY <3>2 DEF Sound, Created, Callers
    <3>. QED
      BY <1>1, <3>3 DEF Publish
  <2>2. publishChannel = k /\ caller' = [caller EXCEPT ![l] = [at |-> "sending", conn |-> k]]
    BY <1>1, <2>1 DEF Publish, Moves, Sound
  <2>. QED
    BY <1>1, <2>2 DEF Publish, Sound, Opening, TypeOK, CallerType
<1>2. ASSUME NEW l \in Lanes, PublishTimesOut(l)
      PROVE  Sound(k)'
  <2>1. caller[l].at = "sending" /\ caller[l].conn = k
    BY <1>2 DEF PublishTimesOut, Sound, Opening, Created, Callers
  <2>2. publishChannel = k \/ loop = "off"
    BY <2>1 DEF Sound, SendersShare, Callers
  <2>. QED
    BY <1>2, <2>1, <2>2
       DEF PublishTimesOut, Settles, Moves, Sound, Opening, TypeOK, CallerType, Callers, pollVars
<1>3. ASSUME NEW l \in Lanes, Recorded(l)
      PROVE  Sound(k)'
  BY <1>3 DEF Recorded, Moves, Sound, Opening, TypeOK, CallerType, Callers, pollVars
<1>4. ASSUME NEW c \in Callers, OpensChannel(c)
      PROVE  Sound(k)'
  <2>1. caller[c].conn = k
    BY <1>4 DEF OpensChannel, Sound, Opening
  <2>. QED
    BY <1>4, <2>1 DEF OpensChannel, Moves, Sound, Opening, TypeOK, CallerType, pollVars
<1>5. ASSUME NEW c \in Callers, OpeningFails(c)
      PROVE  Sound(k)'
  BY <1>5 DEF OpeningFails, Created, Sound, Opening
<1>6. ASSUME NEW c \in Callers, SendEnds(c)
      PROVE  Sound(k)'
  BY <1>6 DEF SendEnds, Settles, Moves, Sound, Opening, TypeOK, CallerType, Callers, pollVars
<1>. QED
  BY <1>1, <1>2, <1>3, <1>4, <1>5, <1>6

\* A step beside the calls leaves the connection sound.
LEMMA OthersKeepSound ==
    ASSUME TypeOK, ClosedInOrder, NEW k \in 1..opened, Sound(k),
           UNCHANGED <<caller, opened, publishConnection, publishChannel>>,
           conns' \subseteq conns, loop = "off" => loop' = "off",
           phase' = "closingConnection" => phase = phase' /\ closing' = closing,
           phase' = "closed" => phase = phase'
    PROVE  Sound(k)'
BY DEF Sound, Opening

\* The hook of the queue closes the connection that is sound.
LEMMA DestroyKeepsSound ==
    ASSUME TypeOK, ClosedInOrder, NEW k \in 1..opened, Sound(k),
           DestroyBegins \/ ChannelClosed \/ ConnectionClosed
    PROVE  Sound(k)'
<1>1. loop = "off" /\ loop' = "off" /\ UNCHANGED <<caller, opened>>
  BY DEF DestroyBegins, ChannelClosed, ConnectionClosed, ClosedInOrder, Stopped, pollVars
<1>2. k # 0
  BY DEF TypeOK, QueueType
<1>3. CASE DestroyBegins
  BY <1>1, <1>2, <1>3 DEF DestroyBegins, ClosesConnection, Sound, Opening
<1>4. CASE ChannelClosed
  BY <1>1, <1>2, <1>4 DEF ChannelClosed, ClosesConnection, Sound, Opening
<1>5. CASE ConnectionClosed
  BY <1>1, <1>2, <1>5 DEF ConnectionClosed, Sound, Opening
<1>. QED
  BY <1>3, <1>4, <1>5

\* A new connection: no earlier one is undisturbed, and it is sound if nothing
\* disturbs its call.
LEMMA ConnectsKeepsSound ==
    ASSUME TypeOK, CallersConnected, ClosedInOrder, SendersShare, Unspoilt,
           NEW c \in Callers, Connects(c), NEW k \in Undisturbed'
    PROVE  Sound(k)'
<1>. USE LifecycleAssumption
<1>1. caller[c].at = "connecting" /\ Opening(c)
  BY DEF Connects, Opening
<1>2. Undisturbed = {}
  <2>. SUFFICES ASSUME NEW q \in Undisturbed PROVE FALSE
    OBVIOUS
  <2>1. caller[c] = [at |-> "creating", conn |-> q]
    BY <1>1 DEF Unspoilt
  <2>2. caller[c].at = "creating"
    BY <2>1
  <2>. QED
    BY <1>1, <2>2
<1>3. /\ opened \in Nat /\ opened' = opened + 1 /\ publishConnection' = opened + 1
      /\ conns' = conns \cup {opened + 1} /\ loop' = loop /\ phase' = phase
      /\ caller' = [caller EXCEPT ![c] = [at |-> "creating", conn |-> opened + 1]]
      /\ publishChannel' = publishChannel
  BY DEF Connects, Moves, TypeOK, QueueType, pollVars
<1>4. k = opened + 1 /\ ~Disturbed(c)
  BY <1>2, <1>3 DEF Undisturbed, Connects
<1>5. c \in Lanes /\ publishChannel = 0 /\ \A d \in Callers \ {c} : ~Opening(d)
  BY <1>4 DEF Disturbed, Callers
<1>6. loop = "dispatching" /\ phase \notin Stopped
  BY <1>1, <1>5 DEF ClosedInOrder, Idle
<1>7. \A d \in Callers : caller'[d].at = "sending" => FALSE
  BY <1>3, <1>5, <1>6 DEF SendersShare, TypeOK, CallerType
<1>8. \A d \in Callers : Opening(d)' => d = c
  BY <1>3, <1>5 DEF Opening, TypeOK, CallerType
<1>9. caller'[c] = [at |-> "creating", conn |-> k]
  BY <1>3, <1>4 DEF TypeOK, CallerType
<1>10. phase \notin {"closed", "closingConnection"}
  BY <1>6 DEF Stopped
<1>. QED
  BY <1>3, <1>4, <1>5, <1>7, <1>8, <1>9, <1>10 DEF Sound, Opening, Callers

\* Every step keeps the undisturbed connection, or disturbs it.
LEMMA UnspoiltStep ==
    ASSUME TypeOK, CallersConnected, ClosedInOrder, SendersShare, Unspoilt, [Next]_vars
    PROVE  Unspoilt'
<1>. SUFFICES ASSUME NEW k \in Undisturbed' PROVE Sound(k)'
  BY DEF Unspoilt, Sound
<1>1. ASSUME NEW c \in Callers, Connects(c)
      PROVE  Sound(k)'
  BY <1>1, ConnectsKeepsSound
<1>2. ASSUME opened' = opened, spoilt \subseteq spoilt'
      PROVE  k \in 1..opened /\ Sound(k) /\ k \notin spoilt'
  BY <1>2 DEF Unspoilt, Sound, Undisturbed
<1>3. ASSUME \/ \E l \in Lanes : Publish(l) \/ PublishTimesOut(l) \/ Recorded(l)
             \/ \E c \in Callers : OpensChannel(c) \/ OpeningFails(c) \/ SendEnds(c)
      PROVE  Sound(k)'
  <2>1. opened' = opened /\ spoilt \subseteq spoilt'
    BY <1>3 DEF Publish, PublishTimesOut, Recorded, OpensChannel, OpeningFails, SendEnds
  <2>. QED
    BY <1>2, <1>3, <2>1, CallerKeepsSound
<1>4. ASSUME DestroyBegins \/ ChannelClosed \/ ConnectionClosed
      PROVE  Sound(k)'
  <2>1. opened' = opened /\ spoilt \subseteq spoilt'
    BY <1>4 DEF DestroyBegins, ChannelClosed, ConnectionClosed
  <2>. QED
    BY <1>2, <1>4, <2>1, DestroyKeepsSound
<1>5. ASSUME UNCHANGED <<caller, opened, spoilt, publishConnection, publishChannel>>,
             conns' \subseteq conns, loop = "off" => loop' = "off",
             phase' = "closingConnection" => phase = phase' /\ closing' = closing,
             phase' = "closed" => phase = phase'
      PROVE  Sound(k)'
  BY <1>2, <1>5, OthersKeepSound
<1>6. ASSUME \/ \E n \in 0..MaxBatch : Claimed(n)
             \/ BatchEnds \/ DelayAborted \/ DelayElapses
             \/ \E b \in conns : BrokerCloses(b)
      PROVE  Sound(k)'
  BY <1>5, <1>6 DEF Claimed, BatchEnds, DelayAborted, DelayElapses, BrokerCloses,
                    queueVars, pollVars
<1>7. ASSUME Consumes \/ Cleans
      PROVE  Sound(k)'
  BY <1>5, <1>7 DEF Consumes, Cleans, Register, Delivered, HandlerEnds, ConsumerLost,
                    CloseWorkerStep, CleanupTick, CleanupEnds, queueVars, pollVars
<1>8. ASSUME Close \/ HooksResolve \/ Settled \/ UNCHANGED vars
      PROVE  Sound(k)'
  BY <1>5, <1>8 DEF Close, HooksResolve, Settled, vars, queueVars, pollVars
<1>. QED
  BY <1>1, <1>3, <1>4, <1>6, <1>7, <1>8
     DEF Next, Polls, LaneStep, CallerStep, Destroys

\* The inductive invariant of the process.
THEOREM LifecycleInvariance == Spec => []IInv
<1>1. IInv /\ [Next]_vars => IInv'
  BY CallerTypeStep, QueueTypeStep, ProcessTypeStep, FlagsTypeStep,
     ConnectedStep, OrderStep, SharedStep, UnspoiltStep
     DEF IInv, TypeOK
<1>. QED
  BY InitInvariant, <1>1, PTL DEF Spec

\* Type correctness; a cleanup never runs twice at once.
THEOREM LifecycleTypeCorrect == Spec => []TypeOK
<1>1. IInv => TypeOK
  BY DEF IInv
<1>. QED
  BY LifecycleInvariance, <1>1, PTL

\* Once a connection was opened undisturbed, the process opens no other and
\* sends on no other.
THEOREM OneConnectionIsOpened == Spec => []OneConnection
<1>1. IInv => OneConnection
  BY DEF IInv, Unspoilt, OneConnection
<1>. QED
  BY LifecycleInvariance, <1>1, PTL

\* After app.close() nothing is under way, and no connection is left open but
\* those whose opening was disturbed.
THEOREM ClosesCleanly == Spec => []CleanClose
<1>1. IInv => CleanClose
  BY DEF IInv, TypeOK, QueueType, ClosedInOrder, Unspoilt, Undisturbed, CleanClose, Stopped
<1>. QED
  BY LifecycleInvariance, <1>1, PTL

\* No publish that a lane waits for is cut off by the close.
THEOREM NoPublishIsCutOff == Spec => []NoPublishCutOff
<1>1. IInv => NoPublishCutOff
  BY
     DEF IInv, TypeOK, CallerType, QueueType, CallersConnected, ClosedInOrder,
         NoPublishCutOff, Callers, Idle
<1>. QED
  BY LifecycleInvariance, <1>1, PTL

\* After stop() no further batch is claimed.
THEOREM NoBatchIsStartedAfterStop == Spec => NoBatchAfterStop
<1>. DEFINE A == shutdownRequested /\ loop # "claiming" => loop' # "claiming"
<1>1. [Next]_vars => [A]_vars
  <2>. SUFFICES ASSUME [Next]_vars PROVE A
    OBVIOUS
  <2>1. ASSUME NEW n \in 0..MaxBatch, Claimed(n)
        PROVE  A
    BY <2>1 DEF Claimed
  <2>2. ASSUME BatchEnds
        PROVE  A
    BY <2>2 DEF BatchEnds, AfterTask
  <2>3. ASSUME DelayAborted
        PROVE  A
    BY <2>3 DEF DelayAborted
  <2>4. ASSUME DelayElapses
        PROVE  A
    BY <2>4 DEF DelayElapses
  <2>5. ASSUME UNCHANGED loop
        PROVE  A
    BY <2>5
  <2>. QED
    BY <2>1, <2>2, <2>3, <2>4, <2>5
       DEF Next, Polls, LaneStep, CallerStep, Consumes, Cleans, Destroys,
           Settled, vars, pollVars, Publish, PublishTimesOut, Recorded,
           Connects, OpensChannel, OpeningFails, SendEnds, BrokerCloses,
           Register, Delivered, HandlerEnds, ConsumerLost, CloseWorkerStep,
           CleanupTick, CleanupEnds, Close, HooksResolve, DestroyBegins,
           ChannelClosed, ConnectionClosed
<1>. QED
  BY <1>1, PTL DEF Spec, NoBatchAfterStop
=============================================================================
