----------------------- MODULE GracefulShutdown_proofs -----------------------
(***************************************************************************)
(* Theorems about module GracefulShutdown, for any operations, threads,    *)
(* configuration, and number of goodbyes and signals.                      *)
(***************************************************************************)
EXTENDS GracefulShutdown, EgressAgentService_proofs

\* The steps of the events stream.
EventsStep == ReceiverConnects \/ CheckerIsLost \/ StreamEnds \/ CheckerReconnects

\* What each step of the shutdown is for the service that is being shut down:
\* one of its own steps, or none.
LEMMA StepOfService == ShutdownNext => [Next]_vars
<1> SUFFICES ASSUME ShutdownNext PROVE Next \/ UNCHANGED vars
  BY DEF vars
<1>1. CASE ServiceStep
  BY <1>1 DEF ServiceStep, Next, StartStop
<1>2. CASE MetricsTimerStep \/ SenderStep
  BY <1>2 DEF MetricsTimerStep, SenderStep, Schedules, Next
<1>3. CASE StartMetricsTimer \/ StartSender
  BY <1>3 DEF StartMetricsTimer, StartSender
<1>4. CASE EventsStep \/ Goodbye \/ SignalArrives \/ HandleSignal
  BY <1>4 DEF EventsStep, ReceiverConnects, CheckerIsLost, StreamEnds, CheckerReconnects,
              Goodbye, SignalArrives, HandleSignal, parts
<1>5. CASE MainEmits \/ HandlerLogs \/ HandlerEmits \/ ProcessEnds
  BY <1>5 DEF MainEmits, HandlerLogs, HandlerEmits, ProcessEnds, parts
<1>6. ASSUME NEW c \in Callers, CleanUp(c) \/ DrainLogs(c)
      PROVE  Next \/ UNCHANGED vars
  <2>1. CASE StopService(c)
    BY <2>1 DEF StopService, Next, StartStop
  <2>2. CASE TakeLock(c) \/ FindLockTaken(c) \/ NotifyShutdown(c) \/ DrainLogs(c)
    BY <2>2 DEF TakeLock, FindLockTaken, NotifyShutdown, DrainLogs, parts
  <2>3. CASE StopMetricsTimer(c) \/ StopEvents(c) \/ StopSender(c) \/ PostLogs(c) \/ Kill(c)
    BY <2>3 DEF StopMetricsTimer, StopEvents, StopSender, PostLogs, Kill, parts
  <2> QED
    BY <1>6, <2>1, <2>2, <2>3 DEF CleanUp
<1> QED
  BY <1>1, <1>2, <1>3, <1>4, <1>5, <1>6 DEF ShutdownNext, EventsStep

LEMMA BoxStepOfService == [ShutdownNext]_allVars => [Next]_vars
  BY StepOfService DEF allVars, parts

\* However it is shut down, the service is the service of EgressAgentService:
\* what holds of every behaviour of it, the bound on the queue among them, holds
\* while a shutdown interrupts it too.
THEOREM ShutdownImplementsService == ShutdownSpec => Spec
<1>1. ShutdownInit => Init
  BY DEF ShutdownInit
<1> QED
  BY <1>1, BoxStepOfService, PTL DEF ShutdownSpec, Spec

-----------------------------------------------------------------------------
\* The metrics timer, in the service, is a periodic task.

\* The timer never sleeps with its event set.
MetricsInv == Metrics!TypeOK /\ (metricsPc = "waiting" => ~stopEvent)

LEMMA MetricsStep ==
  ASSUME MetricsInv
  PROVE  /\ Metrics!Start \/ Metrics!Stop \/ Metrics!Advance \/ Metrics!Return
                => MetricsInv' /\ [Metrics!Periodic!Next]_(Metrics!Periodic!vars)
         /\ UNCHANGED metricsVars
                => MetricsInv' /\ UNCHANGED Metrics!Periodic!vars
<1> USE DEF MetricsInv, Metrics!TypeOK, Metrics!Phase, Metrics!Task, Metrics!Periodic!Next,
            Metrics!Periodic!vars, Metrics!Periodic!Begin, Metrics!Periodic!FallDue,
            Metrics!Periodic!Call, Metrics!Periodic!Return, Metrics!Periodic!Cease,
            Metrics!Periodic!End
<1>1. Metrics!Start => MetricsInv' /\ [Metrics!Periodic!Next]_(Metrics!Periodic!vars)
  BY DEF Metrics!Start
<1>2. Metrics!Stop => MetricsInv' /\ [Metrics!Periodic!Next]_(Metrics!Periodic!vars)
  BY DEF Metrics!Stop
<1>3. Metrics!Advance => MetricsInv' /\ [Metrics!Periodic!Next]_(Metrics!Periodic!vars)
  <2>1. Metrics!CheckStopped \/ Metrics!Wait \/ Metrics!IntervalElapses \/ Metrics!Call
            => MetricsInv'
    BY DEF Metrics!CheckStopped, Metrics!Wait, Metrics!IntervalElapses, Metrics!Call
  <2>2. Metrics!CheckStopped => [Metrics!Periodic!Next]_(Metrics!Periodic!vars)
    BY DEF Metrics!CheckStopped
  <2>3. Metrics!Wait => [Metrics!Periodic!Next]_(Metrics!Periodic!vars)
    BY DEF Metrics!Wait
  <2>4. Metrics!IntervalElapses => [Metrics!Periodic!Next]_(Metrics!Periodic!vars)
    BY DEF Metrics!IntervalElapses
  <2>5. Metrics!Call => [Metrics!Periodic!Next]_(Metrics!Periodic!vars)
    BY DEF Metrics!Call
  <2> QED
    BY <2>1, <2>2, <2>3, <2>4, <2>5 DEF Metrics!Advance
<1>4. Metrics!Return => MetricsInv' /\ [Metrics!Periodic!Next]_(Metrics!Periodic!vars)
  BY DEF Metrics!Return
<1>5. UNCHANGED metricsVars => MetricsInv' /\ UNCHANGED Metrics!Periodic!vars
  BY DEF metricsVars
<1> QED
  BY <1>1, <1>2, <1>3, <1>4, <1>5

LEMMA MetricsMoves ==
  ASSUME [ShutdownNext]_allVars
  PROVE  \/ UNCHANGED metricsVars
         \/ Metrics!Start \/ Metrics!Stop \/ Metrics!Advance \/ Metrics!Return
<1>1. CASE StartMetricsTimer \/ MetricsTimerStep
  BY <1>1 DEF StartMetricsTimer, MetricsTimerStep
<1>2. CASE ServiceStep \/ StartSender \/ SenderStep
  BY <1>2 DEF ServiceStep, StartSender, SenderStep
<1>3. CASE EventsStep \/ Goodbye \/ SignalArrives \/ HandleSignal
  BY <1>3 DEF EventsStep, ReceiverConnects, CheckerIsLost, StreamEnds, CheckerReconnects,
              Goodbye, SignalArrives, HandleSignal, parts
<1>4. CASE MainEmits \/ HandlerLogs \/ HandlerEmits \/ ProcessEnds
  BY <1>4 DEF MainEmits, HandlerLogs, HandlerEmits, ProcessEnds, parts
<1>5. ASSUME NEW c \in Callers, CleanUp(c) \/ DrainLogs(c)
      PROVE  Metrics!Stop \/ UNCHANGED metricsVars
  <2>1. CASE StopMetricsTimer(c)
    BY <2>1 DEF StopMetricsTimer
  <2>2. CASE TakeLock(c) \/ FindLockTaken(c) \/ NotifyShutdown(c) \/ DrainLogs(c)
    BY <2>2 DEF TakeLock, FindLockTaken, NotifyShutdown, DrainLogs, parts
  <2>3. CASE StopService(c) \/ StopEvents(c) \/ StopSender(c) \/ PostLogs(c) \/ Kill(c)
    BY <2>3 DEF StopService, StopEvents, StopSender, PostLogs, Kill, parts
  <2> QED
    BY <1>5, <2>1, <2>2, <2>3 DEF CleanUp
<1>6. CASE UNCHANGED allVars
  BY <1>6 DEF allVars, parts
<1> QED
  BY <1>1, <1>2, <1>3, <1>4, <1>5, <1>6 DEF ShutdownNext, EventsStep

LEMMA MetricsInvStep ==
  MetricsInv /\ [ShutdownNext]_allVars
      => MetricsInv' /\ [Metrics!Periodic!Next]_(Metrics!Periodic!vars)
  BY MetricsMoves, MetricsStep

\* The metrics timer, stopped by whichever thread shuts the service down, calls
\* its handler one call at a time; no call falls due after the stop, and the one
\* that was due when it came, at most, still begins.
THEOREM MetricsArePeriodic == ShutdownSpec => MetricsSpec
<1>1. ShutdownInit => MetricsInv /\ Metrics!Periodic!Init
  BY DEF ShutdownInit, MetricsInv, Metrics!Init, Metrics!TypeOK, Metrics!Phase,
         Metrics!Task, Metrics!Periodic!Init
<1> QED
  BY <1>1, MetricsInvStep, PTL
     DEF ShutdownSpec, MetricsSpec, Metrics!PeriodicSpec, Metrics!Periodic!Spec

-----------------------------------------------------------------------------
\* Types, and the two locks.

LEMMA SenderMoves ==
  ASSUME [ShutdownNext]_allVars
  PROVE  \/ UNCHANGED senderVars
         \/ Sender!Start \/ Sender!Stop \/ Sender!Advance \/ Sender!Return
<1>1. CASE StartSender \/ SenderStep
  BY <1>1 DEF StartSender, SenderStep
<1>2. CASE ServiceStep \/ StartMetricsTimer \/ MetricsTimerStep
  BY <1>2 DEF ServiceStep, StartMetricsTimer, MetricsTimerStep
<1>3. CASE EventsStep \/ Goodbye \/ SignalArrives \/ HandleSignal
  BY <1>3 DEF EventsStep, ReceiverConnects, CheckerIsLost, StreamEnds, CheckerReconnects,
              Goodbye, SignalArrives, HandleSignal, parts
<1>4. CASE MainEmits \/ HandlerLogs \/ HandlerEmits \/ ProcessEnds
  BY <1>4 DEF MainEmits, HandlerLogs, HandlerEmits, ProcessEnds, parts
<1>5. ASSUME NEW c \in Callers, CleanUp(c) \/ DrainLogs(c)
      PROVE  Sender!Stop \/ UNCHANGED senderVars
  <2>1. CASE StopSender(c)
    BY <2>1 DEF StopSender
  <2>2. CASE TakeLock(c) \/ FindLockTaken(c) \/ NotifyShutdown(c) \/ DrainLogs(c)
    BY <2>2 DEF TakeLock, FindLockTaken, NotifyShutdown, DrainLogs, parts
  <2>3. CASE StopService(c) \/ StopMetricsTimer(c) \/ StopEvents(c) \/ PostLogs(c) \/ Kill(c)
    BY <2>3 DEF StopService, StopMetricsTimer, StopEvents, PostLogs, Kill, parts
  <2> QED
    BY <1>5, <2>1, <2>2, <2>3 DEF CleanUp
<1>6. CASE UNCHANGED allVars
  BY <1>6 DEF allVars, parts
<1> QED
  BY <1>1, <1>2, <1>3, <1>4, <1>5, <1>6 DEF ShutdownNext, EventsStep

LEMMA SenderStepType ==
  ASSUME Sender!TypeOK
  PROVE  Sender!Start \/ Sender!Stop \/ Sender!Advance \/ Sender!Return
             \/ UNCHANGED senderVars => Sender!TypeOK'
  BY DEF Sender!TypeOK, Sender!Start, Sender!Stop, Sender!Advance, Sender!Return,
         Sender!CheckRunning, Sender!EnterWait, Sender!IntervalElapses,
         Sender!CheckStopped, Sender!Call, senderVars

LEMMA SenderType == Sender!TypeOK /\ [ShutdownNext]_allVars => Sender!TypeOK'
  BY SenderMoves, SenderStepType

\* The types of what the shutdown adds to the service and its timers.
CallTypeOK == /\ stream \in {"current", "stopped", "restarted", "ended"}
              /\ place \in [Callers -> Places]
              /\ shutdownLock \in Callers \cup {"free"}
              /\ bufferLock \in Callers \cup {"free"}
              /\ {checker, inEmit, pending, gone, cleaned, missed} \subseteq BOOLEAN
              /\ triggers \in 0 .. MaxTriggers
              /\ cleanups \in Nat
              /\ requeued \subseteq Ops

\* Who is in the cleanup owns _shutdown_lock, which is taken once and for all;
\* the receiver thread, which nothing interrupts, is in it until it is complete.
LockInv == /\ shutdownLock = "free" => cleanups = 0
           /\ cleanups <= 1
           /\ \A c \in Callers : place[c] \in Cleanup => shutdownLock = c
           /\ shutdownLock = "goodbye" =>
                  \/ place["goodbye"] \in Cleanup \ {"kill"}
                  \/ place["goodbye"] \in {"kill", "done"} /\ cleaned

\* Who drains the buffer owns its lock.  The main thread owns it too when it is
\* about to leave an emit() that no signal has interrupted.
BufferInv == /\ bufferLock = "goodbye" <=> place["goodbye"] = "draining"
             /\ place["main"] = "draining" => bufferLock = "main"
             /\ place["main"] = "off" /\ inEmit => bufferLock = "main"

CallInv == CallTypeOK /\ LockInv /\ BufferInv

LEMMA OthersKeepCallInv ==
  ASSUME CallInv, UNCHANGED callVars,
         stream' \in {stream, "restarted", "ended"}, checker' \in BOOLEAN
  PROVE  CallInv'
  BY DEF CallInv, CallTypeOK, LockInv, BufferInv, callVars, logVars, ending, historyVars

LEMMA SignalsKeepCallInv ==
  ASSUME CallInv, Goodbye \/ SignalArrives \/ HandleSignal
  PROVE  CallInv'
<1> USE GracefulShutdownAssumption
    DEF CallInv, CallTypeOK, LockInv, BufferInv, Callers, Places, Cleanup, Stops,
        logVars, ending, historyVars, parts, eventsVars
<1>1. CASE Goodbye
  BY <1>1 DEF Goodbye, Triggered
<1>2. CASE SignalArrives
  BY <1>2 DEF SignalArrives, Triggered
<1>3. CASE HandleSignal
  BY <1>3 DEF HandleSignal
<1> QED
  BY <1>1, <1>2, <1>3

LEMMA LoggingKeepsCallInv ==
  ASSUME CallInv, MainEmits \/ HandlerLogs \/ HandlerEmits \/ ProcessEnds
  PROVE  CallInv'
<1> USE DEF CallInv, CallTypeOK, LockInv, BufferInv, Callers, Places, Cleanup, Stops,
            logVars, ending, historyVars, parts, eventsVars
<1>1. CASE MainEmits
  BY <1>1 DEF MainEmits
<1>2. CASE HandlerLogs
  BY <1>2 DEF HandlerLogs
<1>3. CASE HandlerEmits
  BY <1>3 DEF HandlerEmits
<1>4. CASE ProcessEnds
  BY <1>4 DEF ProcessEnds
<1> QED
  BY <1>1, <1>2, <1>3, <1>4

LEMMA CleanupKeepsCallInv ==
  ASSUME CallInv, NEW c \in Callers, CleanUp(c) \/ DrainLogs(c)
  PROVE  CallInv'
<1> USE DEF CallInv, CallTypeOK, LockInv, BufferInv, Callers, Places, Cleanup, Stops,
            logVars, ending, historyVars, parts, eventsVars, Step
<1>1. CASE TakeLock(c)
  BY <1>1 DEF TakeLock, TakeShutdownLock
<1>2. CASE FindLockTaken(c)
  BY <1>2 DEF FindLockTaken, Leave
<1>3. CASE NotifyShutdown(c)
  BY <1>3 DEF NotifyShutdown
<1>4. CASE StopService(c)
  BY <1>4 DEF StopService
<1>5. CASE StopMetricsTimer(c) \/ StopEvents(c)
  BY <1>5 DEF StopMetricsTimer, StopEvents
<1>6. CASE StopSender(c)
  BY <1>6 DEF StopSender
<1>7. CASE DrainLogs(c)
  BY <1>7 DEF DrainLogs, ReleaseBufferLock
<1>8. CASE PostLogs(c)
  BY <1>8 DEF PostLogs
<1>9. CASE Kill(c)
  BY <1>9 DEF Kill, Leave
<1> QED
  BY <1>1, <1>2, <1>3, <1>4, <1>5, <1>6, <1>7, <1>8, <1>9 DEF CleanUp

LEMMA NextCallInv == CallInv /\ [ShutdownNext]_allVars => CallInv'
<1> SUFFICES ASSUME CallInv, [ShutdownNext]_allVars PROVE CallInv'
  OBVIOUS
<1>1. CASE ServiceStep
  BY <1>1, OthersKeepCallInv DEF ServiceStep, eventsVars, CallInv, CallTypeOK
<1>2. CASE StartMetricsTimer \/ StartSender \/ MetricsTimerStep \/ SenderStep
  BY <1>2, OthersKeepCallInv
     DEF StartMetricsTimer, StartSender, MetricsTimerStep, SenderStep, eventsVars, CallInv,
         CallTypeOK
<1>3. CASE EventsStep
  BY <1>3, OthersKeepCallInv
     DEF EventsStep, ReceiverConnects, CheckerIsLost, StreamEnds, CheckerReconnects,
         CallInv, CallTypeOK
<1>4. CASE Goodbye \/ SignalArrives \/ HandleSignal
  BY <1>4, SignalsKeepCallInv
<1>5. CASE MainEmits \/ HandlerLogs \/ HandlerEmits \/ ProcessEnds
  BY <1>5, LoggingKeepsCallInv
<1>6. CASE \E c \in Callers : CleanUp(c) \/ DrainLogs(c)
  BY <1>6, CleanupKeepsCallInv
<1>7. CASE UNCHANGED allVars
  BY <1>7, OthersKeepCallInv DEF allVars, parts, eventsVars, CallInv, CallTypeOK
<1> QED
  BY <1>1, <1>2, <1>3, <1>4, <1>5, <1>6, <1>7 DEF ShutdownNext, EventsStep

LEMMA InitCallInv == ShutdownInit => Sender!TypeOK /\ MetricsInv /\ CallInv
<1> SUFFICES ASSUME ShutdownInit PROVE Sender!TypeOK /\ MetricsInv /\ CallInv
  OBVIOUS
<1> USE DEF ShutdownInit
<1>1. Sender!TypeOK /\ MetricsInv
  BY DEF Sender!Init, Sender!TypeOK, Metrics!Init, Metrics!TypeOK, MetricsInv
<1>2. CallTypeOK
  <2>1. 0 \in 0 .. MaxTriggers
    BY GracefulShutdownAssumption
  <2>2. place \in [Callers -> Places]
    BY DEF Callers, Places
  <2> QED
    BY <2>1, <2>2 DEF CallTypeOK
<1>3. LockInv /\ BufferInv
  BY DEF LockInv, BufferInv, Callers, Cleanup, Stops
<1> QED
  BY <1>1, <1>2, <1>3 DEF CallInv

\* All of it, for the steps of the shutdown.
ShutdownInv == TypeOK /\ Sender!TypeOK /\ MetricsInv /\ CallInv

LEMMA ShutdownInvHolds == ShutdownSpec => []ShutdownInv
<1>1. ShutdownInit => ShutdownInv
  BY InitCallInv, InitTypeOK DEF ShutdownInit, ShutdownInv
<1>2. ShutdownInv /\ [ShutdownNext]_allVars => ShutdownInv'
  BY NextTypeOK, BoxStepOfService, SenderType, MetricsInvStep, NextCallInv DEF ShutdownInv
<1> QED
  BY <1>1, <1>2, PTL DEF ShutdownSpec

\* The state of the service, its timers and its shutdown is well typed, and the
\* receiver thread owns the buffer's lock exactly while it drains the buffer.
THEOREM ShutdownTypeCorrect == ShutdownSpec => []ShutdownTypeOK
<1>1. ShutdownInv => ShutdownTypeOK
  BY DEF ShutdownInv, ShutdownTypeOK, MetricsInv, CallInv, CallTypeOK, BufferInv
<1> QED
  BY <1>1, ShutdownInvHolds, PTL

\* However many goodbyes and signals come, and wherever the signals interrupt
\* the main thread, the cleanup is begun once; and the receiver thread, when it
\* is the one that began it, leaves it only when it is complete.
THEOREM CleanupRunsOnce == ShutdownSpec => []CleanupOnce
<1>1. ShutdownInv => CleanupOnce
  BY DEF ShutdownInv, CleanupOnce, CallInv, LockInv
<1> QED
  BY <1>1, ShutdownInvHolds, PTL

-----------------------------------------------------------------------------
\* The service is down once the cleanup has come past it.

\* The calls of the cleanup that come after the one that stops the poller.
PastPoller == {"stop_metrics", "stop_events", "stop_sender", "drain", "draining", "post",
               "kill"}

StoppedInv == /\ \A c \in Callers : place[c] \in PastPoller => svc = "down"
              /\ cleaned => svc = "down"

LEMMA NextStopped ==
  ASSUME TypeOK, FlagsInv, CallInv, StoppedInv, [ShutdownNext]_allVars
  PROVE  StoppedInv'
<1> USE DEF StoppedInv, PastPoller, CallInv, CallTypeOK, Callers
<1>1. svc = "down" => svc' = "down"
  BY ServiceStaysDown, BoxStepOfService
<1>2. CASE UNCHANGED <<place, cleaned>>
  BY <1>1, <1>2
<1>3. CASE Goodbye \/ HandleSignal \/ HandlerLogs \/ HandlerEmits
  BY <1>1, <1>3 DEF Goodbye, HandleSignal, HandlerLogs, HandlerEmits, historyVars
<1>4. ASSUME NEW c \in Callers, CleanUp(c) \/ DrainLogs(c)
      PROVE  /\ \A d \in Callers : place'[d] \in PastPoller => svc' = "down"
             /\ cleaned' => svc' = "down"
  <2> USE <1>1 DEF Step, historyVars
  <2>1. CASE TakeLock(c) \/ FindLockTaken(c) \/ NotifyShutdown(c) \/ Kill(c)
    BY <2>1 DEF TakeLock, FindLockTaken, NotifyShutdown, Kill
  <2>2. CASE StopService(c)
    BY <2>2 DEF StopService, StopRunner, StopPublisher, StopPoller, Phase
  <2>3. CASE StopMetricsTimer(c) \/ StopEvents(c) \/ StopSender(c)
    BY <2>3 DEF StopMetricsTimer, StopEvents, StopSender
  <2>4. CASE DrainLogs(c) \/ PostLogs(c)
    BY <2>4 DEF DrainLogs, PostLogs
  <2> QED
    BY <1>4, <2>1, <2>2, <2>3, <2>4 DEF CleanUp
<1>5. CASE ServiceStep \/ StartMetricsTimer \/ StartSender \/ MetricsTimerStep \/ SenderStep
  BY <1>2, <1>5 DEF ServiceStep, StartMetricsTimer, StartSender, MetricsTimerStep,
                    SenderStep, callVars, historyVars
<1>6. CASE EventsStep \/ SignalArrives \/ MainEmits \/ ProcessEnds
  BY <1>2, <1>6 DEF EventsStep, ReceiverConnects, CheckerIsLost, StreamEnds,
                    CheckerReconnects, SignalArrives, MainEmits, ProcessEnds, callVars,
                    historyVars
<1>7. CASE UNCHANGED allVars
  BY <1>2, <1>7 DEF allVars, callVars, historyVars
<1> QED
  BY <1>3, <1>4, <1>5, <1>6, <1>7 DEF ShutdownNext, EventsStep

LEMMA StoppedInvHolds == ShutdownSpec => []StoppedInv
<1>1. ShutdownInit => StoppedInv
  BY DEF ShutdownInit, Init, StoppedInv, Callers, PastPoller
<1>2. ShutdownInv /\ FlagsInv /\ StoppedInv /\ [ShutdownNext]_allVars => StoppedInv'
  BY NextStopped DEF ShutdownInv
<1> QED
  BY <1>1, <1>2, ShutdownInvHolds, ShutdownImplementsService, FlagsHold, PTL DEF ShutdownSpec

-----------------------------------------------------------------------------
\* start() has come to its end, and the signal handlers are registered.

HasStarted == /\ svc \notin {"new", "runner_up", "publisher_up"}
              /\ HasMetricsTimer => metricsPc # "new"
              /\ HasSender => senderPc # "new"

LEMMA StartedStays ==
  ASSUME [ShutdownNext]_allVars
  PROVE  /\ metricsPc # "new" => metricsPc' # "new"
         /\ senderPc # "new" => senderPc' # "new"
         /\ svc \notin {"new", "runner_up", "publisher_up"}
                => svc' \notin {"new", "runner_up", "publisher_up"}
<1>1. metricsPc # "new" => metricsPc' # "new"
  BY MetricsMoves DEF Metrics!Start, Metrics!Stop, Metrics!Advance, Metrics!Return,
     Metrics!CheckStopped, Metrics!Wait, Metrics!IntervalElapses, Metrics!Call,
     metricsVars
<1>2. senderPc # "new" => senderPc' # "new"
  BY SenderMoves DEF Sender!Start, Sender!Stop, Sender!Advance, Sender!Return,
     Sender!CheckRunning, Sender!EnterWait, Sender!IntervalElapses, Sender!CheckStopped,
     Sender!Call, senderVars
<1>3. svc \notin {"new", "runner_up", "publisher_up"}
          => svc' \notin {"new", "runner_up", "publisher_up"}
  <2>1. CASE StartStop
    BY <2>1 DEF StartStop, StartRunner, StartPublisher, StartPoller, StopRunner,
       StopPublisher, StopPoller, Phase
  <2>2. CASE Next /\ ~StartStop
    BY <2>2, OnlyStartStopMoves
  <2>3. CASE UNCHANGED vars
    BY <2>3 DEF vars
  <2> QED
    BY <2>1, <2>2, <2>3, BoxStepOfService
<1> QED
  BY <1>1, <1>2, <1>3

LEMMA HasStartedStays == HasStarted /\ [ShutdownNext]_allVars => HasStarted'
  BY StartedStays DEF HasStarted

LEMMA RegisteredIsStarted == Registered => HasStarted
  BY DEF Registered, EventsStarted, HasStarted

-----------------------------------------------------------------------------
\* The process is gone only after the cleanup, or where it is cut short.

\* The cleanup is complete before the signal it ends with, and is not begun again.
KillInv == /\ \A c \in Callers : place[c] = "kill" => cleaned
           /\ \A c \in Callers : place[c] \in Cleanup \ {"kill"} => ~cleaned
           /\ cleaned => shutdownLock # "free"

\* The logs sender, once started, runs until a cleanup stops it; what is left of
\* that cleanup then is the POST of the log.
SenderInv == /\ ~HasSender => senderPc = "new"
             /\ senderPc = "stopped" => ~senderRunning
             /\ senderPc # "new" /\ ~senderRunning /\ ~cleaned =>
                    /\ shutdownLock # "free"
                    /\ shutdownLock = "goodbye" => place["goodbye"] \in Posting

\* Until the cleanup is complete or there are two signals: a signal that waits or
\* was handled is the only one, so that none interrupts its handler; it found the
\* handlers registered; and the main thread has left only if the receiver thread
\* cleans up.
OneSignal ==
    /\ pending \/ place["main"] # "off" => Signals >= 1 /\ HasStarted
    /\ pending => place["main"] = "off"
    /\ place["main"] = "done" => shutdownLock = "goodbye"
    /\ shutdownLock = "main" => place["main"] \in Cleanup \ {"kill"}

EndInv == /\ Signals \in Nat
          /\ gone => cleaned \/ CutShort
          /\ ~cleaned /\ Signals <= 1 => OneSignal

\* Nothing that tells how the process ended changes afterwards.
LEMMA GoneStays ==
  ASSUME gone, CallTypeOK, [ShutdownNext]_allVars
  PROVE  UNCHANGED <<gone, triggers, place["goodbye"], shutdownLock, checker, cleaned>>
<1> USE DEF callVars, parts, eventsVars, ending, historyVars
<1>1. CASE ServiceStep \/ StartMetricsTimer \/ StartSender \/ MetricsTimerStep \/ SenderStep
  BY <1>1 DEF ServiceStep, StartMetricsTimer, StartSender, EventsStarted, MetricsTimerStep,
              SenderStep
<1>2. CASE EventsStep \/ Goodbye \/ SignalArrives \/ HandleSignal
  BY <1>2, GracefulShutdownAssumption
     DEF EventsStep, ReceiverConnects, CheckerIsLost, StreamEnds, CheckerReconnects, Goodbye,
         SignalArrives, HandleSignal, Registered, EventsStarted
<1>3. CASE MainEmits \/ HandlerLogs \/ HandlerEmits \/ ProcessEnds
  BY <1>3 DEF MainEmits, HandlerLogs, HandlerEmits, ProcessEnds, CallTypeOK, Callers
<1>4. ASSUME NEW c \in Callers, CleanUp(c) \/ DrainLogs(c) PROVE FALSE
  BY <1>4 DEF CleanUp, DrainLogs, TakeLock, FindLockTaken, NotifyShutdown, StopService,
              StopMetricsTimer, StopEvents, StopSender, PostLogs, Kill, Step
<1>5. CASE UNCHANGED allVars
  BY <1>5 DEF allVars
<1> QED
  BY <1>1, <1>2, <1>3, <1>4, <1>5 DEF ShutdownNext, EventsStep

LEMMA GoneKeepsCutShort ==
  ASSUME gone, CallTypeOK, cleaned \/ CutShort, [ShutdownNext]_allVars
  PROVE  cleaned' \/ CutShort'
  BY GoneStays DEF CutShort, Signals

LEMMA SignalsKeepEnd ==
  ASSUME CallInv, KillInv, EndInv, Goodbye \/ SignalArrives \/ HandleSignal
  PROVE  KillInv' /\ EndInv'
<1> USE GracefulShutdownAssumption
    DEF CallInv, CallTypeOK, LockInv, KillInv, EndInv, OneSignal, Signals, Callers, Cleanup,
        Stops, logVars, ending, historyVars
<1>1. (HasStarted => HasStarted') /\ (gone => cleaned' \/ CutShort')
  BY HasStartedStays, GoneKeepsCutShort DEF ShutdownNext
<1>2. CASE Goodbye
  BY <1>1, <1>2 DEF Goodbye, Triggered, parts
<1>3. CASE SignalArrives
  <2>1. /\ triggers' = triggers + 1 /\ pending' = TRUE /\ HasStarted'
        /\ UNCHANGED <<parts, place, shutdownLock, gone, cleaned>>
    BY <1>1, <1>3, RegisteredIsStarted DEF SignalArrives, Triggered
  <2>2. Signals' = Signals + 1 /\ Signals \in Nat
    BY <1>3, <2>1 DEF SignalArrives
  <2>3. ~cleaned /\ Signals' <= 1 => place["main"] = "off" /\ Signals = 0
    BY <2>2
  <2> HIDE DEF Signals
  <2> QED
    BY <1>1, <2>1, <2>2, <2>3 DEF parts
<1>4. CASE HandleSignal
  BY <1>1, <1>4 DEF HandleSignal, parts
<1> QED
  BY <1>2, <1>3, <1>4

LEMMA LoggingKeepsEnd ==
  ASSUME CallInv, KillInv, EndInv, MainEmits \/ HandlerLogs \/ HandlerEmits
  PROVE  KillInv' /\ EndInv'
<1> USE GracefulShutdownAssumption
    DEF CallInv, CallTypeOK, LockInv, KillInv, EndInv, OneSignal, Signals, Callers, Cleanup,
        Stops, logVars, ending, historyVars
<1>1. (HasStarted => HasStarted') /\ (gone => cleaned' \/ CutShort')
  BY HasStartedStays, GoneKeepsCutShort DEF ShutdownNext
<1>2. CASE MainEmits
  BY <1>1, <1>2 DEF MainEmits, parts
<1>3. CASE HandlerLogs
  BY <1>1, <1>3 DEF HandlerLogs, parts
<1>4. CASE HandlerEmits
  BY <1>1, <1>4 DEF HandlerEmits, parts
<1> QED
  BY <1>2, <1>3, <1>4

\* With one signal the main thread waits for the logs sender, which has ended only
\* if the cleanup has stopped it, and for the heartbeat checker.
LEMMA EndKeepsEnd ==
  ASSUME CallInv, KillInv, SenderInv, EndInv, ProcessEnds
  PROVE  KillInv' /\ EndInv'
<1>1. cleaned \/ CutShort
  <2> SUFFICES ASSUME ~cleaned, Signals <= 1 PROVE CutShort
    BY DEF EndInv, CutShort
  <2>1. OneSignal
    BY DEF EndInv
  <2>2. CASE place["main"] = "done" /\ (NonDaemonsEnded \/ pending)
    <3>1. shutdownLock = "goodbye" /\ HasStarted /\ NonDaemonsEnded
      BY <2>1, <2>2 DEF OneSignal
    <3>2. HasSender => senderPc = "stopped"
      BY <3>1 DEF HasStarted, NonDaemonsEnded, Sender!Ended
    <3>3. HasSender => place["goodbye"] \in Posting
      BY <3>1, <3>2 DEF SenderInv
    <3> QED
      BY <3>1, <3>3 DEF CutShort, NonDaemonsEnded
  <2>3. CASE pending /\ ~Registered
    BY <2>1, <2>3 DEF OneSignal, HasStarted, Registered, EventsStarted, ProcessEnds
  <2> QED
    BY <2>2, <2>3 DEF ProcessEnds
<1>2. /\ cleaned' \/ CutShort'
      /\ Signals' = Signals /\ (OneSignal => OneSignal') /\ KillInv'
  BY <1>1 DEF ProcessEnds, KillInv, OneSignal, HasStarted, CutShort, Signals, historyVars,
              parts, eventsVars, metricsVars, senderVars, vars
<1> QED
  BY <1>2 DEF ProcessEnds, EndInv, historyVars

LEMMA CleanupKeepsEnd ==
  ASSUME CallInv, KillInv, EndInv, NEW c \in Callers, CleanUp(c) \/ DrainLogs(c)
  PROVE  KillInv' /\ EndInv'
<1> USE GracefulShutdownAssumption
    DEF CallInv, CallTypeOK, LockInv, KillInv, EndInv, OneSignal, Signals, Callers, Cleanup,
        Stops, logVars, ending, historyVars, Step
<1>1. (HasStarted => HasStarted') /\ ~gone
  BY HasStartedStays DEF ShutdownNext, CleanUp, DrainLogs, TakeLock, FindLockTaken,
     NotifyShutdown, StopService, StopMetricsTimer, StopEvents, StopSender, PostLogs, Kill
<1>2. CASE TakeLock(c)
  BY <1>1, <1>2 DEF TakeLock, TakeShutdownLock, parts
<1>3. CASE FindLockTaken(c)
  BY <1>1, <1>3 DEF FindLockTaken, parts
<1>4. CASE NotifyShutdown(c)
  BY <1>1, <1>4 DEF NotifyShutdown, parts
<1>5. CASE StopService(c)
  BY <1>1, <1>5 DEF StopService
<1>6. CASE StopMetricsTimer(c)
  BY <1>1, <1>6 DEF StopMetricsTimer
<1>7. CASE StopEvents(c)
  BY <1>1, <1>7 DEF StopEvents
<1>8. CASE StopSender(c)
  BY <1>1, <1>8 DEF StopSender
<1>9. CASE DrainLogs(c)
  BY <1>1, <1>9 DEF DrainLogs, parts
<1>10. CASE PostLogs(c)
  BY <1>1, <1>10 DEF PostLogs, parts
<1>11. CASE Kill(c)
  BY <1>1, <1>11 DEF Kill, parts
<1> QED
  BY <1>2, <1>3, <1>4, <1>5, <1>6, <1>7, <1>8, <1>9, <1>10, <1>11 DEF CleanUp

LEMMA OthersKeepEnd ==
  ASSUME CallInv, KillInv, EndInv, [ShutdownNext]_allVars, UNCHANGED callVars
  PROVE  KillInv' /\ EndInv'
<1>1. HasStarted => HasStarted'
  BY HasStartedStays
<1>2. gone => cleaned' \/ CutShort'
  BY GoneKeepsCutShort DEF EndInv, CallInv
<1> QED
  BY <1>1, <1>2 DEF KillInv, EndInv, OneSignal, Signals, callVars, ending, historyVars

LEMMA NextEndInv ==
  ASSUME CallInv, KillInv, SenderInv, EndInv, [ShutdownNext]_allVars
  PROVE  KillInv' /\ EndInv'
<1>1. CASE ServiceStep \/ StartMetricsTimer \/ StartSender \/ MetricsTimerStep \/ SenderStep
  BY <1>1, OthersKeepEnd
     DEF ServiceStep, StartMetricsTimer, StartSender, MetricsTimerStep, SenderStep
<1>2. CASE EventsStep
  BY <1>2, OthersKeepEnd
     DEF EventsStep, ReceiverConnects, CheckerIsLost, StreamEnds, CheckerReconnects
<1>3. CASE Goodbye \/ SignalArrives \/ HandleSignal
  BY <1>3, SignalsKeepEnd
<1>4. CASE MainEmits \/ HandlerLogs \/ HandlerEmits
  BY <1>4, LoggingKeepsEnd
<1>5. CASE ProcessEnds
  BY <1>5, EndKeepsEnd
<1>6. CASE \E c \in Callers : CleanUp(c) \/ DrainLogs(c)
  BY <1>6, CleanupKeepsEnd
<1>7. CASE UNCHANGED allVars
  BY <1>7, OthersKeepEnd DEF allVars
<1> QED
  BY <1>1, <1>2, <1>3, <1>4, <1>5, <1>6, <1>7 DEF ShutdownNext, EventsStep

\* The steps of the sender itself.
LEMMA SenderMovesInv ==
  ASSUME SenderInv, UNCHANGED callVars,
         (Sender!Start /\ HasSender) \/ Sender!Advance \/ Sender!Return
  PROVE  SenderInv'
  BY DEF SenderInv, callVars, historyVars, Sender!Start, Sender!Advance, Sender!Return,
         Sender!CheckRunning, Sender!EnterWait, Sender!IntervalElapses, Sender!CheckStopped,
         Sender!Call

LEMMA NextSenderInv ==
  ASSUME CallInv, KillInv, SenderInv, [ShutdownNext]_allVars
  PROVE  SenderInv'
<1> USE DEF CallInv, CallTypeOK, LockInv, KillInv, SenderInv, Callers, Cleanup, Stops,
            Posting, historyVars
<1>1. CASE StartSender \/ SenderStep
  BY <1>1, SenderMovesInv DEF StartSender, SenderStep
<1>2. CASE ServiceStep \/ StartMetricsTimer \/ MetricsTimerStep \/ UNCHANGED allVars
  BY <1>2 DEF ServiceStep, StartMetricsTimer, MetricsTimerStep, allVars, parts, senderVars,
              callVars
<1>3. CASE EventsStep \/ SignalArrives
  BY <1>3 DEF EventsStep, ReceiverConnects, CheckerIsLost, StreamEnds, CheckerReconnects,
              SignalArrives, parts, senderVars, callVars
<1>4. CASE Goodbye \/ HandleSignal
  BY <1>4 DEF Goodbye, HandleSignal, parts, senderVars
<1>5. CASE MainEmits \/ HandlerLogs \/ HandlerEmits \/ ProcessEnds
  BY <1>5 DEF MainEmits, HandlerLogs, HandlerEmits, ProcessEnds, parts, senderVars
<1>6. ASSUME NEW c \in Callers, CleanUp(c) \/ DrainLogs(c) PROVE SenderInv'
  <2> USE DEF Step, senderVars
  <2>1. CASE TakeLock(c) \/ FindLockTaken(c) \/ NotifyShutdown(c) \/ Kill(c)
    BY <2>1 DEF TakeLock, TakeShutdownLock, FindLockTaken, NotifyShutdown, Kill, parts
  <2>2. CASE StopService(c) \/ StopMetricsTimer(c) \/ StopEvents(c)
    BY <2>2 DEF StopService, StopMetricsTimer, StopEvents
  <2>3. CASE StopSender(c)
    BY <2>3 DEF StopSender, Sender!Stop
  <2>4. CASE DrainLogs(c) \/ PostLogs(c)
    BY <2>4 DEF DrainLogs, PostLogs, parts
  <2> QED
    BY <1>6, <2>1, <2>2, <2>3, <2>4 DEF CleanUp
<1> QED
  BY <1>1, <1>2, <1>3, <1>4, <1>5, <1>6 DEF ShutdownNext, EventsStep

\* However many goodbyes and signals come, the process ends only after a complete
\* cleanup, but for the two cases of CutShort: a second signal, and a receiver
\* thread that cleans up without a heartbeat checker, where a logs sender still
\* holds the process back until all but the POST of the log is done.
THEOREM CleanupBeforeTheEnd == ShutdownSpec => []GoneAfterCleanup
<1>1. ShutdownInit => KillInv /\ SenderInv /\ EndInv
  BY GracefulShutdownAssumption
     DEF ShutdownInit, Sender!Init, KillInv, SenderInv, EndInv, OneSignal, Signals, Callers,
         Cleanup, Stops
<1>2. ShutdownInv /\ KillInv /\ SenderInv /\ EndInv /\ [ShutdownNext]_allVars
          => KillInv' /\ SenderInv' /\ EndInv'
  BY NextEndInv, NextSenderInv DEF ShutdownInv
<1>3. EndInv => GoneAfterCleanup
  BY DEF EndInv, GoneAfterCleanup
<1> QED
  BY <1>1, <1>2, <1>3, ShutdownInvHolds, PTL DEF ShutdownSpec

-----------------------------------------------------------------------------
\* What a complete cleanup has stopped stays stopped.

\* The calls of the cleanup that come after the stop of each component.
PastMetrics == PastPoller \ {"stop_metrics"}
PastEvents == PastMetrics \ {"stop_events"}
PastSender == PastEvents \ {"stop_sender"}

\* A cleanup that has come past a component has stopped it, and so has one that
\* is complete.  Only a sender it has missed is started by start() afterwards;
\* and start() has returned before there is a shutdown, unless a goodbye was
\* early.
SenderStopped == /\ senderRunning => missed
                 /\ HasSender /\ senderPc = "new" => missed
                 /\ missed => EarlyGoodbye

PartsInv == /\ senderRunning => HasSender
            /\ missed => EarlyGoodbye
            /\ ~SseEnabled => stream # "current"
            /\ stream = "restarted" => ~ServerSpeaks
            /\ \A c \in Callers :
                   /\ place[c] \in PastMetrics => (HasMetricsTimer => stopEvent)
                   /\ place[c] \in PastEvents => stream # "current"
                   /\ place[c] \in PastSender => SenderStopped
                   /\ place[c] # "off" => HasStarted \/ EarlyGoodbye
            /\ cleaned => /\ HasMetricsTimer => stopEvent
                          /\ stream # "current"
                          /\ SenderStopped
                          /\ \E c \in Callers : place[c] # "off"

LEMMA NextParts ==
  ASSUME CallInv, StoppedInv, PartsInv, [ShutdownNext]_allVars
  PROVE  PartsInv'
<1> USE DEF CallInv, CallTypeOK, PartsInv, Callers, PastPoller, PastMetrics, PastEvents,
            PastSender, SenderStopped, metricsVars, senderVars, eventsVars
<1>1. (HasStarted => HasStarted') /\ (senderPc' = "new" => senderPc = "new")
  BY HasStartedStays, StartedStays
<1>2. CASE ServiceStep \/ UNCHANGED allVars
  BY <1>1, <1>2 DEF ServiceStep, allVars, parts, callVars, historyVars
<1>3. CASE StartMetricsTimer
  <2>1. ~cleaned /\ \A c \in Callers : place[c] \notin PastPoller
    BY <1>3 DEF StartMetricsTimer, StoppedInv
  <2> QED
    BY <1>1, <1>3, <2>1 DEF StartMetricsTimer, callVars, historyVars
<1>4. CASE StartSender
  <2>1. HasSender /\ senderPc = "new" /\ (HasStarted => FALSE)
    BY <1>4 DEF StartSender, Sender!Start, HasStarted
  <2> QED
    BY <1>1, <1>4, <2>1 DEF StartSender, callVars, historyVars
<1>5. CASE MetricsTimerStep
  <2>1. stopEvent' = stopEvent
    BY <1>5 DEF MetricsTimerStep, Metrics!Advance, Metrics!Return, Metrics!CheckStopped,
       Metrics!Wait, Metrics!IntervalElapses, Metrics!Call
  <2> QED
    BY <1>1, <1>5, <2>1 DEF MetricsTimerStep, callVars, historyVars
<1>6. CASE SenderStep
  <2>1. senderRunning' = senderRunning
    BY <1>6 DEF SenderStep, Sender!Advance, Sender!Return, Sender!CheckRunning,
       Sender!EnterWait, Sender!IntervalElapses, Sender!CheckStopped, Sender!Call
  <2> QED
    BY <1>1, <1>6, <2>1 DEF SenderStep, callVars, historyVars
<1>7. CASE EventsStep
  BY <1>1, <1>7, GracefulShutdownAssumption
     DEF EventsStep, ReceiverConnects, CheckerIsLost, StreamEnds, CheckerReconnects,
         callVars, historyVars
<1>8. CASE Goodbye
  <2>1. EarlyGoodbye \/ HasStarted
    BY <1>8, RegisteredIsStarted, GracefulShutdownAssumption DEF Goodbye
  <2> QED
    BY <1>1, <1>8, <2>1 DEF Goodbye, parts
<1>9. CASE HandleSignal
  BY <1>1, <1>9, RegisteredIsStarted DEF HandleSignal, parts, historyVars
<1>10. CASE SignalArrives \/ MainEmits \/ ProcessEnds
  BY <1>1, <1>10 DEF SignalArrives, MainEmits, ProcessEnds, parts, historyVars
<1>11. CASE HandlerLogs \/ HandlerEmits
  BY <1>1, <1>11 DEF HandlerLogs, HandlerEmits, parts, historyVars
<1>12. ASSUME NEW c \in Callers, CleanUp(c) \/ DrainLogs(c) PROVE PartsInv'
  <2> USE <1>1 DEF Step, historyVars
  <2>1. CASE TakeLock(c) \/ FindLockTaken(c) \/ NotifyShutdown(c) \/ Kill(c)
    BY <2>1 DEF TakeLock, FindLockTaken, NotifyShutdown, Kill, parts
  <2>2. CASE StopService(c)
    BY <2>2 DEF StopService
  <2>3. CASE StopMetricsTimer(c)
    BY <2>3 DEF StopMetricsTimer, Metrics!Stop
  <2>4. CASE StopEvents(c)
    BY <2>4 DEF StopEvents
  <2>5. CASE StopSender(c)
    BY <2>5 DEF StopSender, Sender!Stop, HasStarted
  <2>6. CASE DrainLogs(c) \/ PostLogs(c)
    BY <2>6 DEF DrainLogs, PostLogs, parts
  <2> QED
    BY <1>12, <2>1, <2>2, <2>3, <2>4, <2>5, <2>6 DEF CleanUp
<1> QED
  BY <1>2, <1>3, <1>4, <1>5, <1>6, <1>7, <1>8, <1>9, <1>10, <1>11, <1>12
     DEF ShutdownNext, EventsStep

\* A complete cleanup has stopped every component, however many goodbyes and
\* signals come.  The service and the metrics timer stay so; the logs sender may be
\* started afterwards if an early goodbye missed it, and the events client if the
\* server is silent, and in no other case.
THEOREM CleanupStopsAll == ShutdownSpec => []StoppedForGood
<1>1. ShutdownInit => PartsInv
  BY DEF ShutdownInit, Sender!Init, PartsInv, Callers, PastPoller, PastMetrics, PastEvents,
         PastSender
<1>2. ShutdownInv /\ StoppedInv /\ PartsInv /\ [ShutdownNext]_allVars => PartsInv'
  BY NextParts DEF ShutdownInv
<1>3. StoppedInv /\ PartsInv => StoppedForGood
  BY DEF StoppedInv, PartsInv, SenderStopped, StoppedForGood
<1> QED
  BY <1>1, <1>2, <1>3, ShutdownInvHolds, StoppedInvHolds, PTL DEF ShutdownSpec
=============================================================================
