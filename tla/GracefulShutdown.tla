-------------------------- MODULE GracefulShutdown --------------------------
(***************************************************************************)
(* service/base_egress_service.py: how the process ends.  A goodbye event  *)
(* makes the SSE receiver thread call _trigger_graceful_shutdown, and a    *)
(* SIGTERM or SIGINT makes the main thread call it, in a handler that runs *)
(* between two instructions of whatever the main thread was doing, be it   *)
(* the same handler for an earlier signal.  Whoever takes the lock tells   *)
(* the orchestrator, stops every component and sends a SIGTERM; the        *)
(* handler of a signal then leaves by sys.exit(), which unwinds the main   *)
(* thread.  The interpreter waits for the threads that are not daemons,    *)
(* the logs sender and the heartbeat checker if there is one, and the      *)
(* process is gone, whatever the daemon threads were doing.                *)
(*                                                                         *)
(* Of the events stream, which module EventsStream models, only this is    *)
(* kept: whether the client is stopped, and whether a heartbeat checker    *)
(* thread is alive.  A connection starts one; it is lost when a connection *)
(* ends, or, as the run stream_overtaking shows, while one goes on.        *)
(*                                                                         *)
(* The module runs the service of module EgressAgentService, with the two  *)
(* timers in place of its abstract ones.  place[c] of a caller c of        *)
(* _trigger_graceful_shutdown:                                             *)
(*   "off"       not called (the main thread serves requests)              *)
(*   "log"       in the signal handler, about to log                       *)
(*   "emit"      in the log's emit(), about to take the buffer's lock      *)
(*   "acquire"   about to try _shutdown_lock                               *)
(*   "notify"    in notify_shutdown()                                      *)
(*   "stop_..."  about to stop one component                               *)
(*   "drain"     about to take the buffer's lock in drain()                *)
(*   "draining"  holding it                                                *)
(*   "post"      in the POST of the drained log                            *)
(*   "kill"      about to send the signal                                  *)
(*   "done"      the callback has returned; or sys.exit() was called       *)
(***************************************************************************)
EXTENDS EgressAgentService

CONSTANTS HasMetricsTimer,  \* metrics.timer.enabled
          SseEnabled,       \* sse.notifications.enabled
          Gunicorn,         \* the signal goes through gunicorn's master
          MainLogs,         \* the main thread logs while it serves
          ServerSpeaks,     \* the stream ends, or brings events, before the
                            \* heartbeat is overdue, in a cleanup too
          EarlyGoodbye,     \* a goodbye may come while start() runs
          MaxTriggers,      \* bound: goodbyes and signals from outside
          MaxSignals        \* bound: signals among them

Callers == {"main", "goodbye"}

Stops == {"stop_runner", "stop_publisher", "stop_poller", "stop_metrics",
          "stop_events", "stop_sender"}

Cleanup == {"notify"} \cup Stops \cup {"drain", "draining", "post", "kill"}

Places == {"off", "log", "emit", "acquire", "done"} \cup Cleanup

ASSUME GracefulShutdownAssumption ==
    /\ {HasMetricsTimer, SseEnabled, Gunicorn, MainLogs, ServerSpeaks, EarlyGoodbye}
           \subseteq BOOLEAN
    /\ {MaxTriggers, MaxSignals} \subseteq Nat

VARIABLES stopEvent, metricsPc,     \* _metrics_timer
          senderRunning, senderPc,  \* _logs_sender
          stream,        \* receiver loop: "current", "stopped", "restarted", "ended"
          checker,       \* a heartbeat checker thread is alive
          place,         \* of the two callers
          shutdownLock,  \* owner of _shutdown_lock, or "free"
          bufferLock,    \* owner of the lock of the log buffer, or "free"
          inEmit,        \* _reentry.in_emit of the main thread
          pending,       \* a signal awaits the main thread
          gone,          \* the process has ended
          triggers,      \* bound: goodbyes and signals so far
          cleanups,      \* history: how often the cleanup was begun
          cleaned,       \* history: it came to its end
          missed,        \* history: it stopped the logs sender before its start
          requeued       \* orchestrator: operations it queued for another agent

metricsVars == <<stopEvent, metricsPc>>
senderVars == <<senderRunning, senderPc>>
eventsVars == <<stream, checker>>
parts == <<vars, metricsVars, senderVars, eventsVars>>
logVars == <<bufferLock, inEmit>>
ending == <<pending, gone>>
historyVars == <<triggers, cleanups, cleaned, missed, requeued>>
callVars == <<place, shutdownLock, logVars, ending, historyVars>>
allVars == <<parts, callVars>>

Metrics == INSTANCE MetricsTimer WITH pc <- metricsPc
Sender == INSTANCE TimerService WITH running <- senderRunning, pc <- senderPc

ShutdownTypeOK == /\ TypeOK
                  /\ Metrics!TypeOK
                  /\ Sender!TypeOK
                  /\ stream \in {"current", "stopped", "restarted", "ended"}
                  /\ place \in [Callers -> Places]
                  /\ shutdownLock \in Callers \cup {"free"}
                  /\ bufferLock \in Callers \cup {"free"}
                  /\ {checker, inEmit, pending, gone, cleaned, missed} \subseteq BOOLEAN
                  /\ triggers \in 0 .. MaxTriggers
                  /\ cleanups \in Nat
                  /\ requeued \subseteq Ops
                  /\ bufferLock = "goodbye" <=> place["goodbye"] = "draining"

ShutdownInit == /\ Init /\ Metrics!Init /\ Sender!Init
                /\ stream = IF SseEnabled THEN "current" ELSE "ended"
                /\ checker = FALSE
                /\ place = [c \in Callers |-> "off"]
                /\ shutdownLock = "free" /\ bufferLock = "free"
                /\ inEmit = FALSE /\ pending = FALSE /\ gone = FALSE
                /\ triggers = 0 /\ cleanups = 0 /\ requeued = {}
                /\ cleaned = FALSE /\ missed = FALSE

-----------------------------------------------------------------------------
\* The service goes on, with whatever shutdown there is, until the process ends.

ServiceStep == /\ ~gone
               /\ \/ StartRunner \/ StartPublisher \/ StartPoller
                  \/ \E o \in Ops : Enqueue(o)
                  \/ PollerStep
                  \/ NotifyWorkAvailable
                  \/ \E w \in Runner!Workers : RunnerAdvances(w) \/ Execute(w)
                  \/ \E w \in Publisher!Workers :
                         PublisherAdvances(w) \/ Push(w) \/ HandlePiggybacked(w)
               /\ UNCHANGED <<metricsVars, senderVars, eventsVars, callVars>>

HasSender == ~SkipLogs

StartMetricsTimer == /\ ~gone /\ svc = "up" /\ HasMetricsTimer
                     /\ Metrics!Start
                     /\ UNCHANGED <<vars, senderVars, eventsVars, callVars>>

\* start() has come as far as the events client.
EventsStarted == /\ ~gone
                 /\ svc \notin {"new", "runner_up", "publisher_up"}
                 /\ HasMetricsTimer => metricsPc # "new"

StartSender == /\ EventsStarted /\ HasSender
               /\ Sender!Start
               /\ UNCHANGED <<vars, metricsVars, eventsVars, callVars>>

\* start() and register_signal_handlers() have returned.
Registered == EventsStarted /\ (HasSender => senderPc # "new")

\* The handlers _push_metrics and _push_logs schedule an operation.
Schedules(t) == IF t \in Timers /\ fired[t] < MaxTimerFirings
                THEN TimerFires(t)
                ELSE UNCHANGED vars

MetricsTimerStep == /\ ~gone
                    /\ \/ Metrics!Advance /\ UNCHANGED vars
                       \/ Metrics!Return /\ Schedules("push_metrics")
                    /\ UNCHANGED <<senderVars, eventsVars, callVars>>

SenderStep == /\ ~gone
              /\ \/ Sender!Advance /\ UNCHANGED vars
                 \/ Sender!Return /\ Schedules("push_logs")
              /\ UNCHANGED <<metricsVars, eventsVars, callVars>>

-----------------------------------------------------------------------------
\* The events stream.  EventsClient.stop() only clears a loop id.

\* A receiver thread gets its connection, even one that was stopped while it
\* tried to, and starts a heartbeat checker.
ReceiverConnects == /\ EventsStarted
                    /\ stream # "ended" /\ ~checker
                    /\ checker' = TRUE
                    /\ UNCHANGED <<vars, metricsVars, senderVars, stream, callVars>>

\* A connection ends, or a loop that restart() has replaced, on its way to the
\* disconnected handler since, stops the checker of its successor.
CheckerIsLost == /\ ~gone
                 /\ checker
                 /\ checker' = FALSE
                 /\ UNCHANGED <<vars, metricsVars, senderVars, stream, callVars>>

\* The receiver thread takes its next event, or the end of the stream, sees
\* that it was stopped and stops the heartbeat checker.
StreamEnds == /\ ~gone
              /\ stream = "stopped"
              /\ place["goodbye"] \in {"off", "done"}
              /\ stream' = "ended" /\ checker' = FALSE
              /\ UNCHANGED <<vars, metricsVars, senderVars, callVars>>

\* Nothing comes for so long that the checker starts a new receiver.
CheckerReconnects == /\ ~gone
                     /\ ~ServerSpeaks
                     /\ stream = "stopped" /\ checker
                     /\ stream' = "restarted"
                     /\ UNCHANGED <<vars, metricsVars, senderVars, checker, callVars>>

-----------------------------------------------------------------------------
\* What calls for a shutdown.

Triggered == triggers < MaxTriggers /\ triggers' = triggers + 1

\* The signals from outside so far.
Signals == IF place["goodbye"] = "off" THEN triggers ELSE triggers - 1

Goodbye ==
    /\ IF EarlyGoodbye THEN EventsStarted ELSE Registered
    /\ Triggered
    /\ stream = "current" /\ place["goodbye"] = "off"
    /\ place' = [place EXCEPT !["goodbye"] = "acquire"]
    /\ UNCHANGED <<parts, shutdownLock, logVars, ending, cleanups, cleaned, missed, requeued>>

SignalArrives ==
    /\ Registered
    /\ Signals < MaxSignals
    /\ Triggered
    /\ pending' = TRUE
    /\ UNCHANGED <<parts, place, shutdownLock, logVars, gone, cleanups, cleaned, missed,
                   requeued>>

\* The main thread leaves what it was doing, a handler included; the lock of
\* the buffer, if it holds it, stays held.
HandleSignal == /\ Registered /\ pending /\ place["main"] # "done"
                /\ pending' = FALSE
                /\ place' = [place EXCEPT !["main"] = "log"]
                /\ UNCHANGED <<parts, shutdownLock, logVars, gone, historyVars>>

-----------------------------------------------------------------------------
\* The log of the main thread.

MainEmits ==
    /\ MainLogs /\ Registered
    /\ place["main"] = "off"
    /\ \/ ~inEmit /\ bufferLock = "free" /\ inEmit' = TRUE /\ bufferLock' = "main"
       \/ inEmit /\ inEmit' = FALSE /\ bufferLock' = "free"
    /\ UNCHANGED <<parts, place, shutdownLock, ending, historyVars>>

\* The guard against re-entry drops the record of a handler that interrupted
\* an emit(), and of no other.
HandlerLogs ==
    /\ place["main"] = "log"
    /\ inEmit' = TRUE
    /\ place' = [place EXCEPT !["main"] = IF inEmit THEN "acquire" ELSE "emit"]
    /\ UNCHANGED <<parts, shutdownLock, bufferLock, ending, historyVars>>

HandlerEmits == /\ place["main"] = "emit"
                /\ bufferLock = "free"
                /\ inEmit' = FALSE
                /\ place' = [place EXCEPT !["main"] = "acquire"]
                /\ UNCHANGED <<parts, shutdownLock, bufferLock, ending, historyVars>>

-----------------------------------------------------------------------------
\* _trigger_graceful_shutdown, in the order of its calls.

Step(c, from, to) == /\ ~gone
                     /\ place[c] = from
                     /\ place' = [place EXCEPT ![c] = to]

\* sys.exit() unwinds the frames of the main thread, which gives back the lock
\* of the buffer; the callback of the receiver thread just returns.
Leave(c) ==
    IF c = "main"
    THEN /\ bufferLock' = IF bufferLock = "main" THEN "free" ELSE bufferLock
         /\ inEmit' = FALSE
    ELSE UNCHANGED logVars

\* Faulty variant: no lock.
EnterUnlocked(c) == shutdownLock' = c

TakeShutdownLock(c) == shutdownLock = "free" /\ shutdownLock' = c

TakeLock(c) == /\ TakeShutdownLock(c)
               /\ Step(c, "acquire", "notify")
               /\ cleanups' = cleanups + 1
               /\ UNCHANGED <<parts, logVars, ending, triggers, cleaned, missed, requeued>>

FindLockTaken(c) == /\ shutdownLock # "free"
                    /\ Step(c, "acquire", "done")
                    /\ Leave(c)
                    /\ UNCHANGED <<parts, shutdownLock, ending, historyVars>>

\* The orchestrator queues again what it had assigned, if the request arrives;
\* what notify_shutdown raises is logged.
NotifyShutdown(c) ==
    /\ Step(c, "notify", "stop_runner")
    /\ requeued' \in {{}, {o \in Ops : orch[o] = "assigned"}}
    /\ UNCHANGED <<parts, shutdownLock, logVars, ending, triggers, cleanups, cleaned, missed>>

StopService(c) ==
    /\ \/ Step(c, "stop_runner", "stop_publisher") /\ StopRunner
       \/ Step(c, "stop_publisher", "stop_poller") /\ StopPublisher
       \/ Step(c, "stop_poller", "stop_metrics") /\ StopPoller
    /\ UNCHANGED <<metricsVars, senderVars, eventsVars, shutdownLock, logVars, ending,
                   historyVars>>

StopMetricsTimer(c) ==
    /\ Step(c, "stop_metrics", "stop_events")
    /\ IF HasMetricsTimer THEN Metrics!Stop ELSE UNCHANGED metricsVars
    /\ UNCHANGED <<vars, senderVars, eventsVars, shutdownLock, logVars, ending, historyVars>>

StopEvents(c) ==
    /\ Step(c, "stop_events", "stop_sender")
    /\ stream' = IF SseEnabled THEN "stopped" ELSE stream
    /\ UNCHANGED <<checker, vars, metricsVars, senderVars, shutdownLock, logVars, ending,
                   historyVars>>

StopSender(c) ==
    /\ Step(c, "stop_sender", IF HasSender /\ HasLogsService THEN "drain" ELSE "kill")
    /\ IF HasSender THEN Sender!Stop ELSE UNCHANGED senderVars
    /\ missed' = (HasSender /\ senderPc = "new")
    /\ cleaned' = ~(HasSender /\ HasLogsService)
    /\ UNCHANGED <<vars, metricsVars, eventsVars, shutdownLock, logVars, ending, triggers,
                   cleanups, requeued>>

\* Faulty variant: the lock is not given back.
KeepBufferLock == UNCHANGED bufferLock

ReleaseBufferLock == bufferLock' = "free"

\* The lock of the buffer is no re-entrant one.
DrainLogs(c) ==
    /\ \/ Step(c, "drain", "draining") /\ bufferLock = "free" /\ bufferLock' = c
       \/ Step(c, "draining", "post") /\ ReleaseBufferLock
    /\ UNCHANGED <<parts, shutdownLock, inEmit, ending, historyVars>>

\* execute_operation raises nothing: the POST ends, well or not.
PostLogs(c) ==
    /\ Step(c, "post", "kill")
    /\ cleaned' = TRUE
    /\ UNCHANGED <<parts, shutdownLock, logVars, ending, triggers, cleanups, missed, requeued>>

\* A signal of the main thread to itself is handled at once: its handler finds
\* the lock taken and leaves by sys.exit(), as the one it interrupts would.
Kill(c) == /\ Step(c, "kill", "done")
           /\ pending' = (pending \/ c = "goodbye" \/ Gunicorn)
           /\ Leave(c)
           /\ UNCHANGED <<parts, shutdownLock, gone, historyVars>>

CleanUp(c) == \/ TakeLock(c) \/ FindLockTaken(c) \/ NotifyShutdown(c)
              \/ StopService(c) \/ StopMetricsTimer(c) \/ StopEvents(c)
              \/ StopSender(c) \/ PostLogs(c) \/ Kill(c)

-----------------------------------------------------------------------------
\* The main thread has left.  The interpreter waits for the threads that are
\* not daemons, unless another signal breaks off its waiting.

\* Faulty variants: the logs sender is a daemon thread too, or the heartbeat
\* checker is.
CheckerEnded == ~checker
SenderEnded == Sender!Ended

NonDaemonsEnded == Sender!Ended /\ ~checker

\* A signal that nobody has registered a handler for ends the process as well.
ProcessEnds ==
    /\ ~gone
    /\ \/ place["main"] = "done" /\ (NonDaemonsEnded \/ pending)
       \/ pending /\ ~Registered
    /\ gone' = TRUE
    /\ UNCHANGED <<parts, place, shutdownLock, logVars, pending, historyVars>>

ShutdownNext == \/ ServiceStep
                \/ StartMetricsTimer \/ StartSender \/ MetricsTimerStep \/ SenderStep
                \/ ReceiverConnects \/ CheckerIsLost \/ StreamEnds \/ CheckerReconnects
                \/ Goodbye \/ SignalArrives \/ HandleSignal
                \/ MainEmits \/ HandlerLogs \/ HandlerEmits
                \/ \E c \in Callers : CleanUp(c) \/ DrainLogs(c)
                \/ ProcessEnds

ShutdownSpec == ShutdownInit /\ [][ShutdownNext]_allVars

\* A thread that can run is eventually run, and one that waits for a lock that
\* is free again and again gets it.  The requests of the cleanup have timeouts.
\* A server that speaks ends the stream, or sends its next heartbeat.
ShutdownFairness ==
    /\ \A c \in Callers : WF_allVars(CleanUp(c)) /\ SF_allVars(DrainLogs(c))
    /\ WF_allVars(HandleSignal)
    /\ WF_allVars(MainEmits /\ inEmit)
    /\ WF_allVars(HandlerLogs)
    /\ SF_allVars(HandlerEmits)
    /\ WF_allVars(SenderStep)
    /\ ServerSpeaks => WF_allVars(StreamEnds)
    /\ WF_allVars(ProcessEnds)

ShutdownFairSpec == ShutdownSpec /\ ShutdownFairness

-----------------------------------------------------------------------------
\* "Cleanup runs exactly once (guarded by _shutdown_lock)", the half that no
\* interleaving breaks: however goodbyes and signals race and interrupt one
\* another, it is begun once, and the receiver thread, when it is the one that
\* began it, leaves it only when it is complete.
CleanupOnce == /\ cleanups <= 1
               /\ shutdownLock = "goodbye" /\ ~cleaned
                      => place["goodbye"] \in Cleanup \ {"kill"}

\* The metrics timer is a periodic task, though not one that lives to its end.
MetricsSpec == Metrics!PeriodicSpec

\* "All other cleanup is done before exit" (sse_client_receiver.py:60), and the
\* two ways in which it may not be.  A signal that comes while the receiver
\* thread, a daemon, cleans up has the main thread leave at once; what keeps
\* the process alive then is the logs sender, until the cleanup stops it, and
\* the heartbeat checker, if there is one, until that thread has returned.  So
\* a process that ended before its cleanup was complete had two signals, or its
\* receiver thread had lost the checker, and then, where there is a logs sender,
\* all that is missing is the POST of the log.
Posting == {"drain", "draining", "post"}

CutShort == \/ Signals > 1
            \/ /\ shutdownLock = "goodbye" /\ ~checker
               /\ HasSender => place["goodbye"] \in Posting

GoneAfterCleanup == gone => cleaned \/ CutShort

\* "Notify orchestrator, stop all threads": whatever start() and the threads do
\* at the time, a complete cleanup has stopped every component.  Nothing starts
\* the queue processors, the poller and the metrics timer again.  The logs
\* sender runs only if a goodbye came so early that the cleanup stopped it first
\* and start() started it afterwards; and the events client is started again
\* only by a heartbeat checker, which nobody stops, when the server is silent.
StoppedForGood == cleaned => /\ svc = "down"
                             /\ HasMetricsTimer => stopEvent
                             /\ senderRunning => missed /\ EarlyGoodbye
                             /\ stream # "current"
                             /\ stream = "restarted" => ~ServerSpeaks

\* "Notify orchestrator, stop all threads, and terminate the process": once a
\* signal or a goodbye has come the process ends, although no thread that is
\* not a daemon can be made to, and a stop() may be noticed an interval late.
ShutdownTerminates == (triggers > 0) ~> gone

\* "In-flight operations are abandoned -- the orchestrator requeues them via the
\* shutdown notification": this agent does not answer what another one will.
RequeuedIsAbandoned == \A o \in requeued : orch[o] # "answered"
=============================================================================
