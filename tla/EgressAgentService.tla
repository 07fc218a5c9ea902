------------------------- MODULE EgressAgentService -------------------------
(***************************************************************************)
(* service/base_egress_service.py: how an operation travels through the    *)
(* agent.  The poller fetches operations and schedules them in the         *)
(* operations runner; a runner thread executes one and schedules its       *)
(* result in the results publisher; a publisher thread pushes the result,  *)
(* with retries, and the response may carry ("piggyback") the next         *)
(* operation, which goes to the runner without asking for room.  Timers    *)
(* schedule operations of the agent's own (push_metrics, push_logs).       *)
(*                                                                         *)
(* Three components are composed: the poller and two queue processors,     *)
(* each an INSTANCE with variables of its own.  The orchestrator is the    *)
(* environment: `orch` is the state it keeps for each operation.  HTTP     *)
(* requests may fail, and a request may be carried out although its        *)
(* response is lost.                                                       *)
(***************************************************************************)
EXTENDS Integers, Sequences, FiniteSets

CONSTANTS Ops,                \* operations of the orchestrator
          NoOp,               \* no operation
          PathOf,             \* the path of each operation
          Oversize,           \* operations flagged __mcd_size_exceeded__
          Timers,             \* operations the agent's timers schedule
          MaxTimerFirings,    \* bound: how often each timer fires
          SkipLogs,           \* skip_logs of the constructor
          HasLogsService,     \* the constructor was given a logs service
          OpsRunnerThreads,   \* configured thread counts
          PublisherThreads,
          PushTries           \* tries of _push_results_with_retries

\* The paths of the code's mapping that the orchestrator uses, one path that
\* is not in the mapping, and "missing" for an operation with no path or id.
Paths == {"execute", "health", "metrics", "logs", "unsupported", "missing"}

\* What the runner's queue holds: an Operation, and (history) how it came.
OpItems == [op : Ops, via : {"poll", "piggyback"}] \cup [op : Timers, via : {"timer"}]

ASSUME EgressAgentServiceAssumption ==
    /\ NoOp \notin Ops \cup OpItems
    /\ PathOf \in [Ops -> Paths]
    /\ Oversize \subseteq Ops
    /\ Timers \subseteq {"push_metrics", "push_logs"}
    /\ Ops \cap Timers = {}
    /\ MaxTimerFirings \in Nat
    /\ {SkipLogs, HasLogsService} \subseteq BOOLEAN
    /\ SkipLogs => "push_logs" \notin Timers
    /\ {OpsRunnerThreads, PublisherThreads} \subseteq Int
    /\ PushTries \in Nat \ {0}

VARIABLES svc,                                            \* progress of start() and stop()
          opsQueue, opsRunning, opsPc, opsJob,            \* _ops_runner
          resQueue, resRunning, resPc, resJob,            \* _results_publisher
          pollRunning, pollPc, pollOperation,             \* _operations_poller
          tries,    \* attempts made so far by each publisher thread
          carry,    \* the piggybacked operation each publisher thread holds
          orch,     \* the orchestrator's record of each operation
          dropped,  \* history: why the agent let go of an operation unanswered
          fired     \* history: firings of each timer

opsVars == <<opsQueue, opsRunning, opsPc, opsJob>>
resVars == <<resQueue, resRunning, resPc, resJob>>
pollVars == <<pollRunning, pollPc, pollOperation>>
pushVars == <<tries, carry>>
vars == <<svc, opsVars, resVars, pollVars, pushVars, orch, dropped, fired>>

Runner == INSTANCE QueueAsyncProcessor
              WITH ConfiguredThreads <- OpsRunnerThreads, Items <- OpItems,
                   NoItem <- NoOp, Stuck <- {}, queue <- opsQueue,
                   running <- opsRunning, pc <- opsPc, job <- opsJob

Publisher == INSTANCE QueueAsyncProcessor
                 WITH ConfiguredThreads <- PublisherThreads, Items <- Ops,
                      NoItem <- NoOp, Stuck <- {}, queue <- resQueue,
                      running <- resRunning, pc <- resPc, job <- resJob

Poller == INSTANCE OperationsPoller
              WITH running <- pollRunning, pc <- pollPc, operation <- pollOperation

\* The calls of start() and of stop(), in the order in which they are made.
Phases == {"new", "runner_up", "publisher_up", "up",
           "runner_down", "publisher_down", "down"}

Reasons == {"none", "response_lost", "missing_path", "download_failed",
            "poller_stopped", "no_result", "push_failed"}

TypeOK == /\ svc \in Phases
          /\ Runner!TypeOK
          /\ Publisher!TypeOK
          /\ Poller!TypeOK
          /\ tries \in [Publisher!Workers -> 0 .. PushTries - 1]
          /\ carry \in [Publisher!Workers -> Ops \cup {NoOp}]
          /\ orch \in [Ops -> {"absent", "pending", "assigned", "answered"}]
          /\ dropped \in [Ops -> Reasons]
          /\ fired \in [Timers -> 0 .. MaxTimerFirings]

Init == /\ svc = "new"
        /\ Runner!Init
        /\ Publisher!Init
        /\ Poller!Init
        /\ tries = [w \in Publisher!Workers |-> 0]
        /\ carry = [w \in Publisher!Workers |-> NoOp]
        /\ orch = [o \in Ops |-> "absent"]
        /\ dropped = [o \in Ops |-> "none"]
        /\ fired = [t \in Timers |-> 0]

-----------------------------------------------------------------------------
\* start() and stop()

Phase(from, to) == svc = from /\ svc' = to

StartRunner == /\ Phase("new", "runner_up")
               /\ Runner!Start
               /\ UNCHANGED <<resVars, pollVars, pushVars, orch, dropped, fired>>

StartPublisher == /\ Phase("runner_up", "publisher_up")
                  /\ Publisher!Start
                  /\ UNCHANGED <<opsVars, pollVars, pushVars, orch, dropped, fired>>

StartPoller == /\ Phase("publisher_up", "up")
               /\ Poller!Start
               /\ UNCHANGED <<opsVars, resVars, pushVars, orch, dropped, fired>>

StopRunner == /\ Phase("up", "runner_down")
              /\ Runner!Stop
              /\ UNCHANGED <<resVars, pollVars, pushVars, orch, dropped, fired>>

StopPublisher == /\ Phase("runner_down", "publisher_down")
                 /\ Publisher!Stop
                 /\ UNCHANGED <<opsVars, pollVars, pushVars, orch, dropped, fired>>

StopPoller == /\ Phase("publisher_down", "down")
              /\ Poller!Stop
              /\ UNCHANGED <<opsVars, resVars, pushVars, orch, dropped, fired>>

\* The order of the calls is the guard of each: one step per state of svc.
StartStop == \/ StartRunner \/ StartPublisher \/ StartPoller
             \/ StopRunner \/ StopPublisher \/ StopPoller

-----------------------------------------------------------------------------
\* The orchestrator (environment): it queues operations, and assigns one to
\* the agent at most once.

Enqueue(o) == /\ orch[o] = "absent"
              /\ orch' = [orch EXCEPT ![o] = "pending"]
              /\ UNCHANGED <<svc, opsVars, resVars, pollVars, pushVars, dropped, fired>>

Assign(o) == orch[o] = "pending" /\ orch' = [orch EXCEPT ![o] = "assigned"]

Drop(o, reason) == dropped' = [dropped EXCEPT ![o] = reason]

-----------------------------------------------------------------------------
\* The polling thread, with the callbacks the service gives it.

\* Faulty variants: <= for <, and the configured number of threads.
CanAcceptOneMore == Runner!QueueDepth <= Runner!ThreadCount
CanAcceptConfigured == Runner!QueueDepth < OpsRunnerThreads

\* _can_accept_work: there is room while fewer operations are queued than the
\* runner has threads.
CanAcceptWork == Runner!QueueDepth < Runner!ThreadCount

\* _execute_operation, up to _schedule_operation: a flagged operation is first
\* downloaded, which may fail after its retries.
MayFailToDownload(o) == o \in Oversize

\* Faulty variant: an operation overtakes those that wait.
ScheduleFirst(o, via) == /\ opsQueue' = <<[op |-> o, via |-> via]>> \o opsQueue
                         /\ opsPc' = Runner!NotifyAll
                         /\ UNCHANGED <<opsRunning, opsJob>>

ScheduleOperation(o, via) == Runner!Schedule([op |-> o, via |-> via])

PollerOnly == /\ \/ Poller!CheckRunning
                 \/ Poller!CheckBackpressure(CanAcceptWork)
                 \/ Poller!SendHeartbeat
                 \/ Poller!EnterSubmit
                 \/ Poller!RecheckBackpressure(CanAcceptWork)
                 \/ Poller!WaitForWork
                 \/ Poller!PollIntervalReached
              /\ UNCHANGED <<svc, opsVars, resVars, pushVars, orch, dropped, fired>>

PollerFetches(o) == /\ Assign(o)
                    /\ Poller!FetchOperation(o)
                    /\ UNCHANGED <<svc, opsVars, resVars, pushVars, dropped, fired>>

\* 204 (nothing is pending), or an error; in either case None is returned.
PollerFetchesNothing ==
    /\ Poller!FetchNothing
    /\ UNCHANGED <<svc, opsVars, resVars, pushVars, orch, dropped, fired>>

\* The orchestrator assigned an operation, and its response was lost.
PollerLosesResponse(o) ==
    /\ Assign(o)
    /\ Poller!FetchNothing
    /\ Drop(o, "response_lost")
    /\ UNCHANGED <<svc, opsVars, resVars, pushVars, fired>>

PollerDropsOnStop == /\ Poller!DropOnStop
                     /\ Drop(pollOperation, "poller_stopped")
                     /\ UNCHANGED <<svc, opsVars, resVars, pushVars, orch, fired>>

PollerSkips == /\ Poller!SubmitOperation
               /\ PathOf[pollOperation] = "missing"
               /\ Drop(pollOperation, "missing_path")
               /\ UNCHANGED <<svc, opsVars, resVars, pushVars, orch, fired>>

PollerSubmits == /\ Poller!SubmitOperation
                 /\ PathOf[pollOperation] # "missing"
                 /\ ScheduleOperation(pollOperation, "poll")
                 /\ UNCHANGED <<svc, resVars, pushVars, orch, dropped, fired>>

\* download_operation raises, through _execute_operation, in the poller thread.
PollerDies == /\ Poller!SubmitRaises
              /\ PathOf[pollOperation] # "missing"
              /\ MayFailToDownload(pollOperation)
              /\ Drop(pollOperation, "download_failed")
              /\ UNCHANGED <<svc, opsVars, resVars, pushVars, orch, fired>>

PollerStep == \/ PollerOnly
              \/ \E o \in Ops : PollerFetches(o) \/ PollerLosesResponse(o)
              \/ PollerFetchesNothing
              \/ PollerDropsOnStop
              \/ PollerSkips
              \/ PollerSubmits
              \/ PollerDies

\* The work_available handler, called by the events client.
NotifyWorkAvailable ==
    /\ svc \notin {"new", "runner_up", "publisher_up"}
    /\ Poller!NotifyWorkAvailable
    /\ UNCHANGED <<svc, opsVars, resVars, pushVars, orch, dropped, fired>>

-----------------------------------------------------------------------------
\* The timers: _push_metrics and _push_logs.

TimerFires(t) == /\ svc \notin {"new", "runner_up", "publisher_up"}
                 /\ fired[t] < MaxTimerFirings
                 /\ fired' = [fired EXCEPT ![t] = @ + 1]
                 /\ ScheduleOperation(t, "timer")
                 /\ UNCHANGED <<svc, resVars, pollVars, pushVars, orch, dropped>>

-----------------------------------------------------------------------------
\* A thread of the operations runner.

RunnerAdvances(w) == /\ Runner!Advance(w)
                     /\ UNCHANGED <<svc, resVars, pollVars, pushVars, orch, dropped, fired>>

\* _operations_mapping: the paths that have a method.
Mapped == {"execute", "health", "metrics", "push_metrics"}
              \cup (IF SkipLogs THEN {} ELSE {"logs", "push_logs"})

ItemPath(item) == IF item.via = "timer" THEN item.op ELSE PathOf[item.op]

\* _execute_scheduled_operation calls _schedule_push_results once: with the
\* result, with the error the method raised, or with "Unsupported operation
\* path".  The methods of push_metrics and push_logs have no result, and the
\* one of logs returns without one when there is no logs service.
HasResult(path) == \/ path \notin Mapped
                   \/ path \in {"execute", "health", "metrics"}
                   \/ path = "logs" /\ HasLogsService

\* Faulty variant: the result is scheduled on success, and again at the end.
ExecuteAnsweringTwice(w) ==
    /\ Runner!Return(w)
    /\ HasResult(ItemPath(opsJob[w]))
    /\ resQueue' = resQueue \o <<opsJob[w].op, opsJob[w].op>>
    /\ resPc' = Publisher!NotifyAll
    /\ UNCHANGED <<svc, resRunning, resJob, pollVars, pushVars, orch, dropped, fired>>

ExecuteWithResult(w) ==
    /\ Runner!Return(w)
    /\ HasResult(ItemPath(opsJob[w]))
    /\ Publisher!Schedule(opsJob[w].op)
    /\ UNCHANGED <<svc, pollVars, pushVars, orch, dropped, fired>>

ExecuteWithoutResult(w) ==
    /\ Runner!Return(w)
    /\ ~HasResult(ItemPath(opsJob[w]))
    /\ IF opsJob[w].via = "timer" THEN UNCHANGED dropped
                                  ELSE Drop(opsJob[w].op, "no_result")
    /\ UNCHANGED <<svc, resVars, pollVars, pushVars, orch, fired>>

Execute(w) == ExecuteWithResult(w) \/ ExecuteWithoutResult(w)

-----------------------------------------------------------------------------
\* A thread of the results publisher.

PublisherAdvances(w) ==
    /\ Publisher!Advance(w)
    /\ UNCHANGED <<svc, opsVars, pollVars, pushVars, orch, dropped, fired>>

\* The thread is about to send the PUT request of resJob[w].
Pushing(w) == resPc[w] = "handling" /\ carry[w] = NoOp

\* What the orchestrator does with a PUT it carries out: it records the answer
\* and may assign a pending operation, which its response will carry.
Answered(o, next) ==
    orch' = [p \in Ops |-> CASE p = o -> "answered"
                             [] p = next -> "assigned"
                             [] OTHER -> orch[p]]

Piggybacked == {o \in Ops : orch[o] = "pending"} \cup {NoOp}

\* Faulty variant: one try too many.
TryOnceMore(w) ==
    IF tries[w] < PushTries
    THEN /\ tries' = [tries EXCEPT ![w] = @ + 1]
         /\ UNCHANGED resVars
    ELSE /\ tries' = [tries EXCEPT ![w] = 0]
         /\ Publisher!Return(w)

\* A try failed: another one follows, or push_results returns None and the
\* result is forgotten.
TryAgainOrGiveUp(w) ==
    IF tries[w] + 1 < PushTries
    THEN /\ tries' = [tries EXCEPT ![w] = @ + 1]
         /\ UNCHANGED resVars
    ELSE /\ tries' = [tries EXCEPT ![w] = 0]
         /\ Publisher!Return(w)

GivesUp(w) == tries[w] + 1 >= PushTries

\* Faulty variant: an operation whose result cannot be pushed is run again.
PushFailsAndReruns(w) ==
    /\ Pushing(w)
    /\ TryAgainOrGiveUp(w)
    /\ IF GivesUp(w) /\ orch[resJob[w]] # "answered"
       THEN ScheduleOperation(resJob[w], "poll")
       ELSE UNCHANGED opsVars
    /\ UNCHANGED <<svc, pollVars, carry, orch, dropped, fired>>

\* The request is refused, or does not arrive.
PushFails(w) ==
    /\ Pushing(w)
    /\ TryAgainOrGiveUp(w)
    /\ IF GivesUp(w) /\ orch[resJob[w]] # "answered"
       THEN Drop(resJob[w], "push_failed")
       ELSE UNCHANGED dropped
    /\ UNCHANGED <<svc, opsVars, pollVars, carry, orch, fired>>

\* The request is carried out, and its response arrives.
PushSucceeds(w, next) ==
    /\ Pushing(w)
    /\ Answered(resJob[w], next)
    /\ tries' = [tries EXCEPT ![w] = 0]
    /\ IF next = NoOp THEN Publisher!Return(w) /\ UNCHANGED carry
                      ELSE carry' = [carry EXCEPT ![w] = next] /\ UNCHANGED resVars
    /\ UNCHANGED <<svc, opsVars, pollVars, dropped, fired>>

\* The request is carried out, and its response is lost: the agent takes it
\* for a failed try, and an operation the response carried never arrives.
PushResponseLost(w, next) ==
    /\ Pushing(w)
    /\ Answered(resJob[w], next)
    /\ TryAgainOrGiveUp(w)
    /\ IF next = NoOp THEN UNCHANGED dropped ELSE Drop(next, "response_lost")
    /\ UNCHANGED <<svc, opsVars, pollVars, carry, fired>>

Push(w) == \/ PushFails(w)
           \/ \E next \in Piggybacked : PushSucceeds(w, next) \/ PushResponseLost(w, next)

\* _handle_piggybacked_operation, after which the handler returns.  A download
\* that fails raises here too, but _invoke_handler catches it.
PiggybackEnds(w) == /\ resPc[w] = "handling"
                    /\ carry[w] # NoOp
                    /\ carry' = [carry EXCEPT ![w] = NoOp]
                    /\ Publisher!Return(w)

SubmitPiggybacked(w) == /\ PiggybackEnds(w)
                        /\ PathOf[carry[w]] # "missing"
                        /\ ScheduleOperation(carry[w], "piggyback")
                        /\ UNCHANGED <<svc, pollVars, tries, orch, dropped, fired>>

SkipPiggybacked(w) == /\ PiggybackEnds(w)
                      /\ PathOf[carry[w]] = "missing"
                      /\ Drop(carry[w], "missing_path")
                      /\ UNCHANGED <<svc, opsVars, pollVars, tries, orch, fired>>

FailPiggybacked(w) == /\ PiggybackEnds(w)
                      /\ PathOf[carry[w]] # "missing"
                      /\ MayFailToDownload(carry[w])
                      /\ Drop(carry[w], "download_failed")
                      /\ UNCHANGED <<svc, opsVars, pollVars, tries, orch, fired>>

HandlePiggybacked(w) == SubmitPiggybacked(w) \/ SkipPiggybacked(w) \/ FailPiggybacked(w)

-----------------------------------------------------------------------------
Next == \/ StartStop
        \/ \E o \in Ops : Enqueue(o)
        \/ PollerStep
        \/ NotifyWorkAvailable
        \/ \E t \in Timers : TimerFires(t)
        \/ \E w \in Runner!Workers : RunnerAdvances(w) \/ Execute(w)
        \/ \E w \in Publisher!Workers :
               PublisherAdvances(w) \/ Push(w) \/ HandlePiggybacked(w)

Spec == Init /\ [][Next]_vars

\* Every thread that can run is eventually run.  A PUT ends (it has a timeout
\* and a limited number of tries), and so does a wait for work.  The handlers
\* of the operations, and the downloads, are assumed to end.  stop(), once it
\* is called, goes on; start() too.  Requests may fail, but not all of them:
\* a poller that goes on asking is eventually given what is pending.
Fairness == /\ WF_vars(StartRunner \/ StartPublisher \/ StartPoller)
            /\ WF_vars(StopPublisher \/ StopPoller)
            /\ WF_vars(PollerStep)
            /\ SF_vars(\E o \in Ops : PollerFetches(o))
            /\ \A w \in Runner!Workers : WF_vars(RunnerAdvances(w)) /\ WF_vars(Execute(w))
            /\ \A w \in Publisher!Workers : /\ WF_vars(PublisherAdvances(w))
                                            /\ WF_vars(Push(w))
                                            /\ WF_vars(HandlePiggybacked(w))

FairSpec == Spec /\ Fairness

-----------------------------------------------------------------------------
\* Where the agent holds an operation of the orchestrator.

InPoller(o) == pollOperation = o
QueuedAt(o) == {i \in DOMAIN opsQueue : opsQueue[i].op = o}
RunBy(o) == {w \in Runner!Workers : opsJob[w] # NoOp /\ opsJob[w].op = o}
ResultAt(o) == {i \in DOMAIN resQueue : resQueue[i] = o}
PushedBy(o) == {w \in Publisher!Workers : resJob[w] = o}
CarriedBy(o) == {w \in Publisher!Workers : carry[w] = o}

ToRun(o) == (IF InPoller(o) THEN 1 ELSE 0)
                + Cardinality(QueuedAt(o)) + Cardinality(CarriedBy(o))
Running(o) == Cardinality(RunBy(o))
ToPush(o) == Cardinality(ResultAt(o)) + Cardinality(PushedBy(o))

\* Nothing is lost or duplicated inside the agent: an operation it was given
\* is in one hand or one queue, once, until its result is accepted or it is
\* let go for a recorded reason; and the only operation that is still held
\* after its answer was accepted is one whose publisher missed the response.
Accounted ==
    \A o \in Ops :
        LET held == ToRun(o) + Running(o) + ToPush(o)
        IN  CASE orch[o] \in {"absent", "pending"} -> held = 0 /\ dropped[o] = "none"
              [] orch[o] = "assigned" -> held = (IF dropped[o] = "none" THEN 1 ELSE 0)
              [] orch[o] = "answered" -> /\ held <= 1
                                         /\ held = ToPush(o)
                                         /\ dropped[o] = "none"

\* Backpressure bounds what the poller adds: it never has more operations in
\* the runner's queue than the runner has threads, although the room is looked
\* for well before the operation is scheduled, the lock released in between,
\* and publisher threads and timers fill the same queue without looking.
PolledInQueue == {i \in DOMAIN opsQueue : opsQueue[i].via = "poll"}

PolledWithinCapacity == Cardinality(PolledInQueue) <= Runner!ThreadCount

\* However polled, piggybacked and timer operations interleave, and wherever
\* stop() comes, the runner stays a first-in first-out pool: operations are begun
\* in the order in which they were scheduled, each by one thread, and none once
\* the runner is stopped.
RunnerIsPool == Runner!PoolSpec

\* So does the publisher, whose threads may be in their tries, or hold the next
\* operation, when a result is scheduled or stop() comes.
PublisherIsPool == Publisher!PoolSpec

\* "Stop all threads": once stop() has returned the threads at most finish what
\* they have in hand.  Whatever an earlier request still brings, a poller or a
\* publisher thread schedules it in a queue from which nothing is taken any more:
\* no operation is begun that was still queued, and no result is pushed that was.
NothingBegunAfterStop ==
    [][svc = "down" => /\ \A w \in Runner!Workers : opsJob'[w] \in {opsJob[w], NoOp}
                       /\ \A w \in Publisher!Workers : resJob'[w] \in {resJob[w], NoOp}]_vars

\* The life of each operation, as module OperationLifecycle states it: no
\* handover between threads takes it back, so that no retry, and no race of
\* the poller with the piggybacked operations, executes it twice.
Stage(o) == CASE orch[o] = "absent" -> "absent"
              [] orch[o] = "pending" -> "pending"
              [] ToRun(o) > 0 -> "accepted"
              [] Running(o) > 0 -> "executing"
              [] ToPush(o) > 0 -> "executed"
              [] OTHER -> "settled"

Lifecycle == INSTANCE OperationLifecycle WITH stage <- [o \in Ops |-> Stage(o)]

LifecycleSpec == Lifecycle!Spec

-----------------------------------------------------------------------------
Stopping == svc \in {"runner_down", "publisher_down", "down"}

\* While the agent runs, every operation the orchestrator assigns to it is
\* answered, or let go for a recorded reason: backpressure, a full queue or a
\* failing push delay it, no more.
AssignedIsSettled ==
    \A o \in Ops : orch[o] = "assigned"
                       ~> (orch[o] = "answered" \/ dropped[o] # "none" \/ Stopping)

\* While the agent runs, the poller or the response to a result takes every
\* pending operation: "On periodic fallback interval (when idle)", whatever
\* notifications are missed.
PendingIsFetched ==
    \A o \in Ops : (svc = "up" /\ orch[o] = "pending")
                       ~> (orch[o] # "pending" \/ Stopping)

\* Once stop() is called every thread comes to its end, wherever it was: at
\* its flag, asleep, in a request, or with an operation in its hands.
StopEndsThreads ==
    Stopping ~> /\ pollPc = "stopped"
                /\ \A w \in Runner!Workers : opsPc[w] = "stopped"
                /\ \A w \in Publisher!Workers : resPc[w] = "stopped"
=============================================================================
