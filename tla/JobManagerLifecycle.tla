------------------------ MODULE JobManagerLifecycle ------------------------
(***************************************************************************)
(* The life of one job-manager process, from onModuleInit to the end of    *)
(* onModuleDestroy: the PollingWorker and the batch it runs, the publisher *)
(* connection that RabbitMqMessageQueue opens when it is first needed, the *)
(* consumer of the status queue and a cleanup on its timer.                *)
(*                                                                         *)
(* An action is the code between two awaits.  Connections are numbered as  *)
(* they are opened; a connection has at most one channel, and 0 stands for *)
(* null.  Nest runs the hooks of AppModule together and those of the       *)
(* modules it imports, so that of the job queue, after them.               *)
(***************************************************************************)
EXTENDS Naturals, FiniteSets

CONSTANTS Lanes,           \* dispatchConcurrency
          LateSlots,       \* bound: abandoned publishes that run on at once
          MaxBatch,        \* batchSize
          Prefetch,        \* handlers of status messages at once
          MaxConnections   \* bound: publisher connections ever opened

ASSUME LifecycleAssumption ==
    /\ Lanes \cap LateSlots = {}
    /\ MaxBatch \in Nat
    /\ Prefetch \in Nat
    /\ MaxConnections \in Nat

VARIABLES phase,       \* of the process, and of the queue's onModuleDestroy
          \* PollingWorker and processBatch
          loop,        \* where runPollLoop is, or "off"
          shutdownRequested,
          aborted,     \* the AbortController of the delay has been used
          todo,        \* messages of the batch no lane has taken
          \* RabbitMqMessageQueue, the publishing side
          caller,      \* where each call of publish is, and its connection
          conns,       \* publisher connections that are open
          opened,      \* how many were opened so far
          shut,        \* those whose channel has been closed
          publishConnection,
          publishChannel,  \* the connection the cached channel is of
          closing,     \* the connection onModuleDestroy is closing
          spoilt,      \* connections whose opening was disturbed (history)
          \* the rest
          timer,       \* the interval of the cleanup is set
          cleaning,    \* its runs
          consumer,    \* of the status queue
          handlers     \* its running handlers

pollVars  == <<loop, shutdownRequested, aborted, todo>>
queueVars == <<caller, conns, opened, shut, publishConnection, publishChannel,
               closing, spoilt>>
restVars  == <<timer, cleaning, consumer, handlers>>
vars == <<phase, pollVars, queueVars, restVars>>

Callers == Lanes \cup LateSlots

Idle == [at |-> "idle", conn |-> 0]

Ended == {"closed", "failed", "dead"}

\* After onModuleInit of all services, but for the one that is waited for.
Init == /\ phase = "starting"
        /\ loop = "claiming"
        /\ shutdownRequested = FALSE
        /\ aborted = FALSE
        /\ todo = 0
        /\ caller = [c \in Callers |-> Idle]
        /\ conns = {}
        /\ opened = 0
        /\ shut = {}
        /\ publishConnection = 0
        /\ publishChannel = 0
        /\ closing = 0
        /\ spoilt = {}
        /\ timer = TRUE
        /\ cleaning = 1
        /\ consumer = "registering"
        /\ handlers = 0

Alive == phase # "dead"

-----------------------------------------------------------------------------
(* PollingWorker: runTask, the delay, and the batch that is its task *)

\* Mutant: runPollLoop does not look at the flag after the task.
SleepAnyway == "delay"

\* runTask has returned: the loop looks at shutdownRequested before it sleeps.
AfterTask == IF shutdownRequested THEN "off" ELSE "delay"

\* claimBatch found n messages, or none, or failed.
Claimed(n) ==
    /\ Alive /\ loop = "claiming"
    /\ loop' = IF n = 0 THEN AfterTask ELSE "dispatching"
    /\ todo' = n
    /\ UNCHANGED <<phase, shutdownRequested, aborted, queueVars, restVars>>

\* Promise.all over the lanes.
BatchEnds ==
    /\ Alive /\ loop = "dispatching"
    /\ todo = 0
    /\ \A l \in Lanes : caller[l] = Idle
    /\ loop' = AfterTask
    /\ UNCHANGED <<phase, shutdownRequested, aborted, todo, queueVars, restVars>>

\* Mutant: while (true).
PollForEver ==
    /\ Alive /\ loop = "delay"
    /\ loop' = "claiming"
    /\ UNCHANGED <<phase, shutdownRequested, aborted, todo, queueVars, restVars>>

\* The delay is over; while (!shutdownRequested).
DelayElapses ==
    /\ Alive /\ loop = "delay"
    /\ loop' = IF shutdownRequested THEN "off" ELSE "claiming"
    /\ UNCHANGED <<phase, shutdownRequested, aborted, todo, queueVars, restVars>>

\* The delay rejects with an AbortError.
DelayAborted ==
    /\ Alive /\ loop = "delay" /\ aborted
    /\ loop' = "off"
    /\ UNCHANGED <<phase, shutdownRequested, aborted, todo, queueVars, restVars>>

-----------------------------------------------------------------------------
(* RabbitMqMessageQueue.publish, called by the lanes under a timeout *)

Moves(c, at, k) == caller' = [caller EXCEPT ![c] = [at |-> at, conn |-> k]]

\* publish is over, for better or worse: the lane goes on to record it,
\* nobody waits for an abandoned call.
Settles(c) == Moves(c, IF c \in Lanes THEN "recording" ELSE "idle", 0)

Opening(c) == caller[c].at \in {"connecting", "creating"}

\* The connection of a call that still creates its channel, if it is one.
Created(c) == IF caller[c].at = "creating" THEN {caller[c].conn} ELSE {}

Usable(k) == k \in conns \ shut /\ k # closing

\* The next message of the batch: getPublishChannel finds a channel or
\* starts to open one.
Publish(l) ==
    /\ Alive /\ loop = "dispatching"
    /\ caller[l] = Idle
    /\ todo > 0
    /\ todo' = todo - 1
    /\ \/ /\ publishChannel # 0
          /\ Moves(l, "sending", publishChannel)
          /\ UNCHANGED spoilt
       \/ /\ publishChannel = 0
          /\ Moves(l, "connecting", 0)
          /\ spoilt' = spoilt \cup UNION {Created(c) : c \in Callers}
    /\ UNCHANGED <<phase, loop, shutdownRequested, aborted, conns, opened, shut,
                   publishConnection, publishChannel, closing, restVars>>

\* The call is not the only one that opens, or comes after one that has
\* opened, or nobody waits for it any more.
Disturbed(c) == \/ c \in LateSlots
                \/ publishChannel # 0
                \/ \E d \in Callers \ {c} : Opening(d)

\* this.publishConnection = await amqplib.connect(...)
Connects(c) ==
    /\ Alive /\ caller[c].at = "connecting"
    /\ opened < MaxConnections
    /\ opened' = opened + 1
    /\ conns' = conns \cup {opened + 1}
    /\ publishConnection' = opened + 1
    /\ Moves(c, "creating", opened + 1)
    /\ spoilt' = IF Disturbed(c) THEN spoilt \cup {opened + 1} ELSE spoilt
    /\ UNCHANGED <<phase, pollVars, shut, publishChannel, closing, restVars>>

\* Mutant: the channel is returned without being cached.
OpensChannelUncached(c) ==
    /\ Alive /\ caller[c].at = "creating"
    /\ Usable(caller[c].conn)
    /\ Moves(c, "sending", caller[c].conn)
    /\ UNCHANGED <<phase, pollVars, conns, opened, shut, publishConnection,
                   publishChannel, closing, spoilt, restVars>>

\* this.publishChannel = await this.publishConnection.createConfirmChannel()
OpensChannel(c) ==
    /\ Alive /\ caller[c].at = "creating"
    /\ Usable(caller[c].conn)
    /\ publishChannel' = caller[c].conn
    /\ Moves(c, "sending", caller[c].conn)
    /\ UNCHANGED <<phase, pollVars, conns, opened, shut, publishConnection, closing,
                   spoilt, restVars>>

\* ... or one of the two rejects.
OpeningFails(c) ==
    /\ Alive /\ Opening(c)
    /\ spoilt' = spoilt \cup Created(c)
    /\ Settles(c)
    /\ UNCHANGED <<phase, pollVars, conns, opened, shut, publishConnection,
                   publishChannel, closing, restVars>>

\* assertTopology and the confirmed publish: done, or rejected as on a
\* channel that is closed.
SendEnds(c) ==
    /\ Alive /\ caller[c].at = "sending"
    /\ Settles(c)
    /\ UNCHANGED <<phase, pollVars, conns, opened, shut, publishConnection,
                   publishChannel, closing, spoilt, restVars>>

\* timeout() rejects: the lane goes on, and the call too if a slot s is free;
\* otherwise it is one that never gets an answer.
PublishTimesOut(l) ==
    /\ Alive /\ caller[l].at \in {"connecting", "creating", "sending"}
    /\ \/ \E s \in LateSlots :
            /\ caller[s] = Idle
            /\ caller' = [caller EXCEPT ![s] = caller[l],
                                        ![l] = [at |-> "recording", conn |-> 0]]
       \/ Settles(l)
    /\ spoilt' = spoilt \cup Created(l)
    /\ UNCHANGED <<phase, pollVars, conns, opened, shut, publishConnection,
                   publishChannel, closing, restVars>>

\* markJobEnqueuedAndPublished or markFailed has ended or timed out.
Recorded(l) ==
    /\ Alive /\ caller[l].at = "recording"
    /\ Moves(l, "idle", 0)
    /\ UNCHANGED <<phase, pollVars, conns, opened, shut, publishConnection,
                   publishChannel, closing, spoilt, restVars>>

\* The broker closes a publisher connection in good order.
BrokerCloses(k) ==
    /\ Alive /\ k \in conns
    /\ conns' = conns \ {k}
    /\ UNCHANGED <<phase, pollVars, caller, opened, shut, publishConnection,
                   publishChannel, closing, spoilt, restVars>>

-----------------------------------------------------------------------------
(* The consumer of the status queue, and the cleanup *)

\* registerHandler succeeds and the application starts, or bootstrap rejects
\* and the process ends.
Register ==
    /\ phase = "starting"
    /\ \/ phase' = "up" /\ consumer' = "consuming"
       \/ phase' = "dead" /\ UNCHANGED consumer
    /\ UNCHANGED <<pollVars, queueVars, timer, cleaning, handlers>>

Delivered ==
    /\ Alive /\ consumer \in {"consuming", "cancelling"}
    /\ handlers < Prefetch
    /\ handlers' = handlers + 1
    /\ UNCHANGED <<phase, pollVars, queueVars, timer, cleaning, consumer>>

\* handleMessage acknowledges.  On a channel that is closed ack throws, and so
\* does the nack of the catch clause: an unhandled rejection ends the process.
HandlerEnds ==
    /\ Alive /\ handlers > 0
    /\ handlers' = handlers - 1
    /\ phase' = IF consumer \in {"consuming", "cancelling"} THEN phase ELSE "dead"
    /\ UNCHANGED <<pollVars, queueVars, timer, cleaning, consumer>>

ClosingWorker == consumer \in {"cancelling", "closingChannel", "closingConnection"}

\* The broker closes the consumer's connection; nobody registers it again.  A
\* closeWorker that is under way rejects, and so does close.
ConsumerLost ==
    /\ Alive /\ (consumer = "consuming" \/ ClosingWorker)
    /\ consumer' = "lost"
    /\ phase' = IF ClosingWorker THEN "failed" ELSE phase
    /\ UNCHANGED <<pollVars, queueVars, timer, cleaning, handlers>>

\* The steps of closeWorker: cancel, close the channel, close the connection.
CloseWorkerStep ==
    /\ Alive
    /\ \/ consumer = "cancelling" /\ consumer' = "closingChannel"
       \/ consumer = "closingChannel" /\ consumer' = "closingConnection"
       \/ consumer = "closingConnection" /\ consumer' = "closed"
    /\ UNCHANGED <<phase, pollVars, queueVars, timer, cleaning, handlers>>

\* Mutant: cleanupInFlight is not looked at.
CleanupTickUnguarded ==
    /\ Alive /\ timer
    /\ cleaning' = cleaning + 1
    /\ UNCHANGED <<phase, pollVars, queueVars, timer, consumer, handlers>>

\* runCleanupTick, from the interval: nothing if a run is in flight.
CleanupTick ==
    /\ Alive /\ timer
    /\ cleaning = 0
    /\ cleaning' = 1
    /\ UNCHANGED <<phase, pollVars, queueVars, timer, consumer, handlers>>

\* A run ends; if findExpiredJobs or the lock rejects, so does the tick, and
\* nobody handles that.
CleanupEnds ==
    /\ Alive /\ cleaning > 0
    /\ cleaning' = cleaning - 1
    /\ phase' \in {phase, "dead"}
    /\ UNCHANGED <<pollVars, queueVars, timer, consumer, handlers>>

-----------------------------------------------------------------------------
(* app.close() *)

\* The hooks of AppModule up to their first await.  cancel throws on a channel
\* that is lost, and then close rejects while the other hooks run on.
Close ==
    /\ phase = "up"
    /\ phase' = IF consumer = "lost" THEN "failed" ELSE "closing"
    /\ consumer' = IF consumer = "lost" THEN "lost" ELSE "cancelling"
    /\ shutdownRequested' = TRUE
    /\ aborted' = (loop = "delay")
    /\ timer' = FALSE
    /\ UNCHANGED <<loop, todo, queueVars, cleaning, handlers>>

\* Mutant: stop() requests the shutdown and returns.
StopUnawaited == TRUE

\* stop() resolves when the loop and the task it was in have ended.
StopResolves == loop = "off"

HooksResolve ==
    /\ phase = "closing"
    /\ StopResolves
    /\ cleaning = 0
    /\ consumer = "closed"
    /\ phase' = "destroying"
    /\ UNCHANGED <<pollVars, queueVars, restVars>>

\* Mutant: only the channel is closed.
LeavesConnection == phase' = "closed" /\ UNCHANGED closing

\* if (this.publishConnection) await this.publishConnection.close(), which
\* rejects, as for a channel, if the broker was faster.
ClosesConnection ==
    IF publishConnection = 0
      THEN phase' = "closed" /\ UNCHANGED closing
      ELSE IF publishConnection \in conns
        THEN phase' = "closingConnection" /\ closing' = publishConnection
        ELSE phase' = "failed" /\ UNCHANGED closing

\* if (this.publishChannel) await this.publishChannel.close()
DestroyBegins ==
    /\ phase = "destroying"
    /\ \/ /\ publishChannel \in conns
          /\ phase' = "closingChannel"
          /\ shut' = shut \cup {publishChannel}
          /\ closing' = publishChannel
       \/ /\ publishChannel \notin conns \cup {0}
          /\ phase' = "failed"
          /\ UNCHANGED <<shut, closing>>
       \/ publishChannel = 0 /\ ClosesConnection /\ UNCHANGED shut
    /\ UNCHANGED <<pollVars, caller, conns, opened, publishConnection,
                   publishChannel, spoilt, restVars>>

\* publishChannel = null, whatever it is by now, and on to the connection.
ChannelClosed ==
    /\ phase = "closingChannel"
    /\ \/ closing \in conns /\ publishChannel' = 0 /\ ClosesConnection
       \/ closing \notin conns /\ phase' = "failed" /\ UNCHANGED <<publishChannel, closing>>
    /\ UNCHANGED <<pollVars, caller, conns, opened, shut, publishConnection,
                   spoilt, restVars>>

\* publishConnection = null.
ConnectionClosed ==
    /\ phase = "closingConnection"
    /\ conns' = conns \ {closing}
    /\ \/ phase' = "closed" /\ publishConnection' = 0
       \/ closing \notin conns /\ phase' = "failed" /\ UNCHANGED publishConnection
    /\ UNCHANGED <<pollVars, caller, opened, shut, publishChannel, closing, spoilt,
                   restVars>>

-----------------------------------------------------------------------------

\* The process has ended, or waits for nothing but its abandoned calls.
Quiet == phase = "dead" \/ (phase \in Ended /\ loop = "off" /\ cleaning = 0)

Settled == Quiet /\ UNCHANGED vars

CallerStep(c) == Connects(c) \/ OpensChannel(c) \/ OpeningFails(c) \/ SendEnds(c)

LaneStep(l) == Publish(l) \/ PublishTimesOut(l) \/ Recorded(l)

Polls == (\E n \in 0..MaxBatch : Claimed(n)) \/ BatchEnds \/ DelayAborted

Consumes == Register \/ Delivered \/ HandlerEnds \/ ConsumerLost \/ CloseWorkerStep

Cleans == CleanupTick \/ CleanupEnds

Destroys == HooksResolve \/ DestroyBegins \/ ChannelClosed \/ ConnectionClosed

Next ==
    \/ Polls \/ DelayElapses
    \/ \E l \in Lanes : LaneStep(l)
    \/ \E c \in Callers : CallerStep(c)
    \/ \E k \in conns : BrokerCloses(k)
    \/ Consumes
    \/ Cleans
    \/ Close \/ Destroys
    \/ Settled

Spec == Init /\ [][Next]_vars

\* The event loop runs what can run, claimBatch and the cleanup's statements
\* are answered, timeout() ends every call a lane waits for, and the broker
\* answers or drops a connection.  Nothing is assumed of the poll interval, of
\* abandoned calls and of handlers.
Fairness ==
    /\ WF_vars(Polls)
    /\ \A l \in Lanes : WF_vars(LaneStep(l))
    /\ WF_vars(CleanupEnds)
    /\ WF_vars(CloseWorkerStep)
    /\ WF_vars(Destroys)

FairSpec == Spec /\ Fairness

-----------------------------------------------------------------------------
(* Properties *)

CallerType ==
    caller \in [Callers ->
      [at : {"idle", "connecting", "creating", "sending", "recording"},
       conn : 0..MaxConnections]]

QueueType ==
    /\ opened \in 0..MaxConnections
    /\ conns \subseteq 1..opened
    /\ shut \subseteq 1..opened
    /\ {publishConnection, publishChannel, closing} \subseteq 0..opened
    /\ spoilt \subseteq 1..opened

FlagsType ==
    /\ shutdownRequested \in BOOLEAN
    /\ aborted \in BOOLEAN
    /\ timer \in BOOLEAN

ProcessType ==
    /\ phase \in Ended \cup {"starting", "up", "closing", "destroying",
                             "closingChannel", "closingConnection"}
    /\ loop \in {"off", "claiming", "dispatching", "delay"}
    /\ todo \in 0..MaxBatch
    /\ cleaning \in {0, 1}
    /\ consumer \in {"registering", "consuming", "lost", "cancelling",
                     "closingChannel", "closingConnection", "closed"}
    /\ handlers \in 0..Prefetch

\* Every variable has its type; a cleanup never runs twice at once
\* (runCleanupTick's cleanupInFlight).
TypeOK == CallerType /\ QueueType /\ ProcessType /\ FlagsType

\* Connections opened by a call that had nobody beside it and was waited for
\* until it had its channel.
Undisturbed == (1..opened) \ spoilt

\* Once a connection was opened undisturbed, all batches of all lanes share it:
\* whatever else was opened and failed before, none is opened after it, every
\* call that sends does so on it, and the channel in the cache is its own.
OneConnection ==
    \A k \in Undisturbed :
        /\ k = opened
        /\ publishChannel \in {0, k}
        /\ \A c \in Callers : caller[c].at = "sending" => caller[c].conn = k

\* When app.close() has resolved, nothing of the process is under way but
\* abandoned publishes and handlers, and a connection that it has left open is
\* one whose opening was disturbed: others do not suffer from such a mishap.
CleanClose ==
    phase = "closed" =>
        /\ loop = "off" /\ \A l \in Lanes : caller[l] = Idle
        /\ ~timer /\ cleaning = 0
        /\ conns \subseteq spoilt

\* Closing the queue cuts off no publish that its dispatcher still waits for:
\* those were waited for by PollingWorker.stop().
NoPublishCutOff ==
    \A l \in Lanes : caller[l].at = "sending" =>
        caller[l].conn \notin shut \cup {closing}

\* After stop() no further batch is claimed, whether it came during the
\* claim, the dispatch or the delay.
NoBatchAfterStop ==
    [][shutdownRequested /\ loop # "claiming" => loop' # "claiming"]_vars

\* app.close() ends, one way or another, however long the poll interval.
CloseEnds == phase = "closing" ~> phase \in Ended

-----------------------------------------------------------------------------
(* The inductive invariant *)

Stopped == {"destroying", "closingChannel", "closingConnection", "closed"}

\* Whoever opened a channel or sends has a connection.
CallersConnected ==
    \A c \in Callers :
        /\ caller[c].conn <= opened
        /\ caller[c].at \in {"creating", "sending"} => caller[c].conn # 0

\* Lanes work for a batch only, and the queue is closed after the loop, the
\* cleanup and the timer have ended.
ClosedInOrder ==
    /\ \A l \in Lanes : caller[l] # Idle => loop = "dispatching"
    /\ phase \in Stopped \cup {"closing"} => ~timer
    /\ phase \in Stopped => loop = "off" /\ cleaning = 0
    /\ shut # {} \/ closing # 0 => loop = "off"

\* Whoever has sent has left a channel in the cache, until it is closed.
SendersShare == \A c \in Callers :
    caller[c].at = "sending" => publishChannel # 0 \/ loop = "off"

\* An undisturbed connection is the last one; the lane that opened it still
\* creates its channel, or the channel is in the cache, or the queue is closed;
\* and it is the connection that is closed then.
Unspoilt ==
    \A k \in Undisturbed :
        /\ k = opened
        /\ publishChannel \in {0, k}
        /\ \A c \in Callers : caller[c].at = "sending" => caller[c].conn = k
        /\ \A c \in Callers : Opening(c) =>
              c \in Lanes /\ caller[c] = [at |-> "creating", conn |-> k]
        /\ publishChannel = k \/ loop = "off" \/ \E l \in Lanes : Opening(l)
        /\ publishConnection = k \/ (publishConnection = 0 /\ k \notin conns)
        /\ phase = "closingConnection" => closing = k
        /\ phase = "closed" => k \notin conns

IInv == TypeOK /\ CallersConnected /\ ClosedInOrder /\ SendersShare /\ Unspoilt
=============================================================================
