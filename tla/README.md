# Verification of the egress agent (agent-common)

This directory holds TLA+ models of `src/apollo/egress/agent`, the TLC runs that
check them on small instances, and TLAPS proofs about them for every instance.
Paths below are relative to `src/apollo/egress/agent` unless they start with `src/`.

The agent runs beside a customer's data. It asks a remote *orchestrator* for
operations, executes them in a pool of threads, and pushes each result back. All
its state is in memory; everything interesting is in the interleaving of its
threads, in HTTP requests that fail or whose responses are lost, and in how it
starts and stops.

## Inventory

| Component | State | Operations | Makes it correct |
|---|---|---|---|
| `utils/queue_async_processor.py` `QueueAsyncProcessor` | list `_queue`, flag `_running`, one condition variable, N daemon threads | `start`, `stop`, `schedule`, `queue_depth`; `_run` loop | no lost wakeup; each item to one thread, in order; `stop` reaches every thread |
| `service/operations_runner.py`, `service/results_publisher.py` | two processors with their handlers | `schedule`, `schedule_push_results` | as above |
| `service/operations_poller.py` `OperationsPoller` | flag, condition variable, one daemon thread | `start`, `stop`, `notify_work_available`; fetch, submit, look for room, heartbeat, wait | keeps fetching while it runs; serves notifications; respects the room in the runner |
| `service/base_egress_service.py` `BaseEgressAgentService` | the components, the operation mapping, `_shutdown_lock` | `start`, `stop`, handlers of polled and piggybacked operations, dispatch by path, push of results, timers' operations, shutdown | an operation is executed at most once, is answered or given up for a reason, and is not forgotten; stop ends everything, and nothing queued is begun after it |
| `backend/backend_client.py` `BackendClient` | none (HTTP) | `get_next_operation`, `push_results` (3 tries), `execute_operation` (retry rule), `download_operation`, `send_heartbeat`, `notify_shutdown` | bounded tries; failure reported to the caller or swallowed where meant |
| `events/sse_client_receiver.py`, `heartbeat_checker.py`, `events_client.py` | loop ids, last heartbeat, handlers, one thread per loop | `start`, `stop`, `restart`, event dispatch | one live connection; heartbeat of the live one is watched; nothing after `stop` |
| `service/timer_service.py`, `service/metrics_timer.py` | flag and condition / event, one thread | `start`, `stop`, periodic handler | one call at a time; after a stop at most the call that was due; the thread ends |
| `service/in_process_logs_service.py` | bounded deque, dropped count, lock, re-entry guard | `emit`, `drain`, `peek`, `close` | every record has one place and one fate; what a full buffer evicts is counted once |
| `service/results_processor.py` | none | upload large results | a URL that is delivered leads to the right file, compressed as it says |
| `config/*` | persisted strings | typed reads with defaults | defaults for missing values |
| `service/*login_token_provider.py`, `utils/*` | none | reads of files, URLs, formatting | out of scope |

The components interact by calls and callbacks: the poller calls the service
(`_can_accept_work`, `_handle_polled_operation`), the service schedules in the
runner, a runner thread calls the service's method for the path, which schedules
in the publisher, a publisher thread calls `_push_results`, and the response of
the orchestrator may bring the next operation, which goes to the runner. The SSE
client calls the poller's `notify_work_available` and the service's
`_handle_goodbye`. Timers schedule operations of the agent's own, `push_metrics` and
`push_logs`; the second drains the buffer that the root logger's handler fills from
every thread. A goodbye, on the receiver's thread, and a signal, on the main thread,
call `_trigger_graceful_shutdown`, which stops all of them and ends the process.

`PROJECT.json` lists the hazards of this code, each at its line, with the
properties that cover it.

## Modules

| Module | What it is |
|---|---|
| `WorkPool` | abstract: a FIFO pool without threads or locks |
| `QueueAsyncProcessor` | the monitor of `utils/queue_async_processor.py`; its `PoolFairSpec` states that it implements `WorkPool` |
| `QueueAsyncProcessor_proofs` | theorems about it |
| `OperationsPoller` | the polling thread of `service/operations_poller.py` |
| `OperationLifecycle` | abstract: the stages of one operation |
| `OperationLifecycle_proofs` | theorems: `EgressAgentService` conserves operations and implements `OperationLifecycle`; extends `EgressAgentService_proofs` |
| `EgressAgentService` | the service: two instances of `QueueAsyncProcessor` (`Runner`, `Publisher`), one of `OperationsPoller` (`Poller`), the orchestrator as environment, lossy HTTP, timers, `start` and `stop`; `LifecycleSpec` states that it implements `OperationLifecycle`, `RunnerIsPool` and `PublisherIsPool` that its processors implement `WorkPool` |
| `EgressAgentService_proofs` | theorems about it |
| `EventsStream` | the SSE receiver, the heartbeat checker and the events client of `events/` |
| `EventsStream_proofs` | theorems about it |
| `PeriodicTask` | abstract: what a timer promises |
| `TimerService`, `MetricsTimer` | the timers of `service/timer_service.py` and `service/metrics_timer.py`; `PeriodicFairSpec` and `PeriodicSpec` state that they implement `PeriodicTask` |
| `GracefulShutdown` | extends `EgressAgentService` by the two timers (instances `Metrics` and `Sender`), the event stream's end, signals, the shutdown lock, every call of `stop()`, and the end of the process |
| `GracefulShutdown_proofs` | theorems about it; extends `EgressAgentService_proofs` |
| `LogQueue` | abstract: a bounded queue of records that is emptied in whole batches |
| `LogShipping` | the log's way through the buffer, the sender (an instance of `TimerService`), the runner's threads and the POST, up to the flush of the shutdown; `QueueSpec` states that it implements `LogQueue` |
| `LogShipping_proofs` | theorems about it |
| `ResultsProcessor` | `process_result` and the push of what it returns, in the publisher's threads |
| `ResultsProcessor_proofs` | theorems about it |
| `MC*` | instances for TLC |

### QueueAsyncProcessor

`queue`, `running` are `_queue` and `_running`; `pc[w]` and `job[w]` are the place
and the local variable `to_execute` of thread `w`. Everything between taking the
condition's lock and releasing it is one action, because every access to `_queue`
is made under that lock. The one read outside it, `while self._running`, is an
action of its own (`CheckRunning`). `Condition.wait()` is the state `"waiting"`,
which only `notify_all()` leaves: `Condition` has no spurious wakeups. `start()`
creates the threads in a loop and is one action here: a thread that is created
later behaves as one that is scheduled later. The handler is one step, `Return`;
whether it raised is not visible, since `_invoke_handler` catches and logs.

### OperationsPoller

`pc` is the line the thread is at and `operation` its local variable. What callbacks and
requests return is a parameter (`CheckBackpressure(canAccept)`,
`FetchOperation(o)`, `SubmitRaises`), which the service fixes. `wait(timeout)` is
left by a notification, a stop, or `PollIntervalReached`; nothing remembers a
notification that came outside the wait, as in the code.

### EgressAgentService

The service adds to its components `svc` (how far `start()` or `stop()` has come),
`tries[w]` and `carry[w]` (the local state of publisher thread `w` in
`push_results` and `_handle_piggybacked_operation`), the orchestrator's record
`orch`, and the history variables `dropped` (why the agent let an operation go),
`fired`, and the field `via` of what is queued. An operation is a model value with
a path; a result is the operation it answers, since no property depends on its
contents. Executing an operation and scheduling its result is one step, the
result being scheduled by the last statement of every method. A result whose
operation has `OperationAttributes` goes through `process_result` before the push,
which may raise: that part of `_push_results` is in `ResultsProcessor`, and the
branch for query results (`base_egress_service.py:586`) is not modelled.

Every request has three outcomes: it fails, it is carried out and answered, or it
is carried out and the answer is lost (`PollerLosesResponse`, `PushResponseLost`).
The orchestrator assigns an operation at most once and may piggyback any pending
one; these two facts about it are assumptions. Whether it is idempotent in a
repeated PUT does not matter here: both answers are possible outcomes.

### EventsStream

`current` and `watcher` are the two `_current_loop_id`s, of the receiver and of
the checker; an id is also the name of the thread that runs under it, and is free
again when that thread has ended, as no thread remembers the id of another.
`place` and `cplace` are where the threads are, `client` is `_sse_client`,
`source[r]` the connection thread `r` iterates over. Nothing is locked, so every
read of an id and every use of what was read are separate steps: the look in the
`except` branch (`Fail`), the look in the `finally` clause (`Finally`) and the call
it guards (`CallDisconnectedHandler`), the checker's look (`CheckWatching`) and
the two halves of `restart()` (`RestartStops`, `RestartStarts`).

Time is one flag, `overdue`: `_last_heartbeat` is longer ago than the timeout. It
may become true at any moment, and a heartbeat, `start` and `stop` of the checker
make it false. `Condition.wait(timeout)` may end at any moment, early or not, which
makes `notify_all` invisible; when the heartbeat is not overdue the two tests that
follow in the code (`if not current: break`, and the `while`) only decide whether
the thread ends, and are one. The sleep of `@retry` is part of the place
`"connecting"`, since the function is called again whether the loop is current or
not. An event is a heartbeat or something else, which changes nothing here:
`EgressAgentService` takes `work_available` as possible at any time. A connection
that goes silent stays so; one that is slow is one that is not silent yet.

`overtaken` is a history variable: a loop was replaced while it was between the
look in its `finally` clause and the call.

### TimerService and MetricsTimer

`pc` is the thread's place. The two differ in one thing. `TimerService` tests its
flag, and then takes the condition's lock and waits without a second look: `loop`
and `enter` are two places, and a `stop()` between them notifies nobody. The thread
notices the flag when the interval is over, at the test before the call
(`CheckStopped`). `MetricsTimer` waits on an `Event`, whose `wait()` looks at the flag
under its own lock, and `IntervalElapses` is the moment at which it has timed out.
In both, the last look at the flag and the call of the handler are two steps, with
the place `due` in between: nothing is locked there, so a stop may be followed by
one call. `PeriodicTask` promises just that: a call falls due only while the task
ticks, and what was due when the stop came is called. What a handler raises is
caught by both loops.

### GracefulShutdown

`place[c]` is how far the two callers of `_trigger_graceful_shutdown` have come: the
main thread, in the handler of a signal, and the receiver thread, in the callback
of a goodbye. A signal may be handled between any two steps of the main thread, its
own handler and the cleanup in it included (`HandleSignal` has no condition on
`place["main"]` but that `sys.exit()` was not called yet); the interrupted frames
are unwound by the `sys.exit()` of the inner handler, which gives back the buffer's
lock (a `with` statement) but not `_shutdown_lock` (never released). The actions of
the cleanup come in the order of the code; `StopService` takes the actions
`StopRunner`, `StopPublisher` and `StopPoller` of `EgressAgentService`, so the service goes
on around them until `gone`. `inEmit` is the main thread's `_reentry.in_emit`, and
`bufferLock` the owner of the buffer's lock where one of the two callers is involved;
other threads hold it for a moment only and call nothing while they do.

`os.kill` with the agent's own pid makes the signal pending for the main thread; a
main thread that sends it to itself handles it at once and leaves as it would
anyway. With `Gunicorn` it goes to the parent, which signals back. The interpreter
joins the threads that are not daemons, the sender and the heartbeat checker; a
signal while it joins breaks off. Of `EventsStream` two variables are kept: `stream`,
whether the client is stopped, and `checker`, whether a heartbeat checker's thread is
alive, on which the exit depends. A connection starts one (`ReceiverConnects`); it is
lost at any time (`CheckerIsLost`), because a connection ended or because a replaced
loop stopped it, as `stream_overtaking` shows. `missed` is history: the cleanup
stopped the logs sender before `start()` had started it.

### LogShipping

Records are numbered in the order in which they are emitted, and `Emit` is what
`emit` does under the lock; formatting before it and the guard against re-entry do
not touch the buffer. `batch[t]`, `notice[t]` and `tries[t]` are the local variables
of a thread that pushes: the drained records, the eviction count in the batch's
first entry, and the failed tries. `copies` is what the backend has stored. `fate`
and `noticed` are history: what became of a record, and the counts in the batches
whose call has returned (a notice whose batch was not stored counts too: it left
the agent's count, and the agent does not look at what became of it). `lastDrain`
is history as well: how many records had been emitted when `stop()` drained. `Post` is one try: it is carried out or not, and the answer
comes, or is lost, or is one that is not retried. The stages of `stop()` are those
that concern the log; `CloseService` detaches the handler, after which a thread that
already has it may still append (`Emit`), and others no longer do (`EmitUncaptured`).

### ResultsProcessor

A publisher thread takes a result, and process_result is two steps around the one
that others can see, the write of `responses/{trace_id}`. A result in
`Unserialisable` is one that `json.dumps` does not accept, which shows when its size
is measured, whether it would be uploaded or not. Everything that raises (`Raise`)
ends in `_invoke_handler`'s `except`: the result is lost. A message is what
the orchestrator can read of it: whether it has a payload, the location, and whether
it claims compression. It is reached only through subclasses that pass
`OperationAttributes`, and the storage is theirs: `Files` is external.

## Runs

| Run | Instance | Shows |
|---|---|---|
| `queue_processor` | 2 threads (one may hang), 3 items | type, no lost wakeup, one place per item, a fair FIFO pool, stop reaches all, scheduled items are handled |
| `handover` | 3 operations (one with a result, one oversize and of a path that is not in the mapping, whose result is an error, one the agent skips), a timer, 1 runner and 2 publisher threads, 2 tries | conservation of operations (`Accounted`), their life (`LifecycleSpec`), the poller's share of the queue (`PolledWithinCapacity`), runner and publisher are FIFO pools (`RunnerIsPool`, `PublisherIsPool`) |
| `progress` | 2 operations (one gives no result), configured runner threads 0, 2 publisher threads, 2 tries | pending operations are fetched, assigned ones settled, stop ends all threads, and after it nothing is taken from a queue (`NothingBegunAfterStop`) |
| `oversize_download` | 2 operations, one oversize, 1 + 1 threads | **violated**: a failed download ends the polling thread for good |
| `stream_watch` | 2 loops, 2 checkers, 2 connections | the current loop and checker have their threads; a connection is watched unless a loop was overtaken; replaced loops end; silent connections are replaced |
| `stream_overtaking` | the same | **violated**: a replaced loop stops the checker of the new one |
| `shutdown_races` | a goodbye, even during `start()`, and a signal, or two signals; both timers, gunicorn, a main thread that logs, a silent server, a heartbeat checker that may be lost | types, the cleanup is begun once (`CleanupOnce`), the process ends before it is complete only in the two cases of `CutShort` (`GoneAfterCleanup`), what it stopped is started again only in the two cases of `StoppedForGood`, the metrics timer is a `PeriodicTask` |
| `shutdown_ends` | a goodbye and a signal, no gunicorn, a server that speaks, a heartbeat checker that may be lost | the process ends (`ShutdownTerminates`) |
| `shutdown_requeue` | 1 operation | **violated**: a requeued operation is answered by this agent too |
| `shutdown_locked` | 1 signal, a main thread that logs | **violated**: the cleanup waits for a lock its own thread holds |
| `log_records` | 3 records, buffer of 2, 2 pushers (one may hang) and the shutdown, 2 tries, refusals | types, conservation of records and of eviction counts, what `stop()` may leave in the buffer, order of the buffer, no copy but by a retry, every buffered record is taken, the sender is a `PeriodicTask` with its liveness, the whole is a `LogQueue` |
| `result_delivery` | 6 results: large, large and compressed, large with the trace id of the one before, small, without limit, not serialisable; 2 threads, a failing storage, 2 tries | types, and a delivered URL leads to the file it promises |

Bounds. Two threads are what it takes for two threads to disagree, and a stuck
one leaves one that works; three items fill a queue behind them. In `handover` one
operation is in a publisher's hands while a second is piggybacked to another
publisher and a third polled, which is the most that can meet on one queue of one
runner thread; and two of them have a result, so that two results are in the
publisher's queue, or one is in its second try when the other overtakes it. `MaxTimerFirings` bounds the only unbounded source of items; one
firing already puts more into the queue than the room of its single thread.
`PushTries` is 3 in the code; 2 distinguishes a retry from a failure and from giving
up. In the
`stream_*` runs the loop that is current and the one it replaces meet, and two
checkers are the old and the new; what is safety in `stream_watch` is proved for
any number of loops. Ids are used again, so the number of restarts
has no bound; a step that needs an id waits when all are in use, and the two
liveness properties except that case by name (`LoopsInUse`, `AllInUse`). No run bounds
time, restarts or the number of requests that fail. In the `shutdown_*` runs one
goodbye is all there can be (the thread that brings it does not return to its loop
while the stream is current). `MaxSignals` counts the signals from outside; the
shutdown's own signal comes on top, so that in `shutdown_races`, which allows two,
a handler may be interrupted by another and the cleanup by both. The operations are
left out where a property is about components and the threads that keep the process
alive; what happens to operations after a stop is checked in `progress`, and holds
of every shutdown by `ShutdownImplementsService`. For the same reason the calls of the
timers schedule nothing in `shutdown_races` (`Timers = {}`).
In `result_delivery` the results of two operations meet under one key. Two records fill the buffer of `log_records`, and the third evicts, before a drain
or after it; a batch of each pusher and that of the shutdown meet. Requests beyond
`MaxRequests` are merged with the one that waits, which finds their records.

Fairness. Threads that can run are run (weak fairness of each thread's steps): the
threads are the operating system's and share no lock that one of them can hold for
ever. A handler is assumed to return except in the workers of `Stuck`; HTTP
requests to fetch and to push have timeouts (30 s and 60 s) and a bounded number of
tries, so a push ends. The download of an oversize operation has no timeout in the
code; `progress` has no oversize operation, and in `oversize_download` its
termination is assumed in the agent's favour. Fetching is strongly fair: of
infinitely many requests one gets through. `start()` and `stop()`, once begun, go
on; nothing forces `stop()` to be called. In `EventsStream` a connection that is not
silent brings something in the end, because the server sends heartbeats; time
passes; and fairness of threads is strong only so that the wait for a free id, which
the code does not have, does not starve one of them.

In `GracefulShutdown` the threads run on too; a lock is taken by a thread that waits
for it and finds it free again and again (strong fairness); the requests of the
cleanup have timeouts; and `ServerSpeaks` says that the server ends the stream or
sends its next heartbeat, which is what stops a receiver that was told to stop. In
`LogShipping` the POST of a pusher has no timeout in the code: those in `Hung` get no
fairness. Nothing forces a signal, a goodbye, or the call of `stop()`.

`CHECK_DEADLOCK FALSE` is set in every run: an agent that was stopped, and has
nothing left to do, is an end state.

## What is proved

For every number of threads, operations, timers and tries, from
`QueueAsyncProcessorAssumption` (the configured thread count is an integer; the
"nothing" value is no item) and `EgressAgentServiceAssumption` (the same, and the
kinds of the other constants):

- `TypeCorrect`, `ServiceTypeCorrect`: type correctness. The second reuses the
  lemmas of the first, once for the runner and once for the publisher, through
  `INSTANCE`.
- `WakeupsAreNotLost`: `NoLostWakeup` is inductive with the types.
- `ItemsAreInOnePlace`: `OnePlace` is inductive with the types; `PopShifts` and
  `ScheduleAppends` say what happens to the positions of the queue.
- `ImplementsPool`: every step of the monitor is a step of `WorkPool` or leaves
  its variables alone. `ThreadsInv` (threads start together) is what makes the
  phase of the pool well defined. It, `TypeCorrect` and `WakeupsAreNotLost` are
  proved of `OpenSpec`, in which a client may schedule anything at any time, and
  hold of `Spec`, whose items are not scheduled twice, as `Spec => OpenSpec`.
- `RunnerImplementsPool`, `PublisherImplementsPool`, `AgentLosesNoWakeup`: the same of
  the two processors within the agent. The service is a client of each: its steps
  are steps of their `OpenSpec` (`FlowUsesProcessors`, `NextUsesRunner`,
  `NextUsesPublisher`), because `stop()` finds their threads started (`ProcessorsInv`).
- `NothingBegins`: `NothingBegunAfterStop`. A service that is down has passed
  `StopRunner` and `StopPublisher` (`FlagsInv`), whose flags nothing sets again, and `Pop`
  is the only way to an item.
- `BackpressureHolds`: `PolledWithinCapacity` is not inductive. The strengthening
  `CapacityInv` adds `RoomIsKept`: from the look at the capacity until the
  submission there is room for one more polled operation. Others may only remove
  polled operations (`PolledTail`, by an injection between positions) or add
  operations that were not polled (`PolledAppend`).
- `OperationsAreAccounted`: in every step, each operation makes one of ten *moves*
  (`IsLeftAlone`, `IsEnqueued`, `IsAccepted`, `IsLostOnTheWay`, `IsGivenUp`, `IsStarted`,
  `IsExecuted`, `HasNoResult`, `IsAnswered`, `IsForgotten`), which say how the
  orchestrator's record, `dropped`, and the three counts of its places change:
  waiting for a runner thread or on the way there (`ToRun`), in one (`Running`), and
  on the way to being pushed (`ToPush`). `WhereExcept`, `WhereAppend` and `WhereTail`
  say what a step of a thread or a queue does to such a count. `Accounted` is not
  inductive: a publisher thread must not forget one operation for another, so
  `CarryInv` adds that it holds a piggybacked operation only while its handler runs,
  and after the answer it pushed was recorded.
- `ImplementsLifecycle`: the moves follow the edges of `OperationLifecycle`
  (`MoveStage`).

For every set of loops, checkers and connections, from `EventsStreamAssumption`
("nothing" is none of them):

- `StreamTypeCorrect`: type correctness, with the agreement of the threads' local
  variables with their places.
- `CurrentThreadsStayAlive`: `CurrentThreadsLive` is inductive with the types.
- `ConnectionsStayWatched`: `WatchedUnlessOvertaken` is not inductive, because a
  thread may be about to stop the checker. `WatchInv` adds `DisconnectsOwn` (that
  thread is the current loop itself, or no loop is current) and `NothingYet` (there
  are no threads before `start`).

For every service as above and any number of goodbyes and signals, from the same
assumptions:

- `ShutdownImplementsService`: `ShutdownSpec => Spec`. A step of the shutdown is a step
  of `EgressAgentService` or leaves its variables alone, so `ServiceTypeCorrect`,
  `BackpressureHolds`, `OperationsAreAccounted`, `ImplementsLifecycle` and `NothingBegins`
  hold during a shutdown too, and so do the theorems about its two processors.
- `ShutdownTypeCorrect`: type correctness with the ownership of the buffer's lock
  (`BufferInv`: the main thread holds it only in an `emit()` or a drain that a signal
  may have interrupted).
- `CleanupRunsOnce`: `CleanupOnce` rests on `LockInv`: the lock, once taken, has an
  owner for ever, no caller is in the cleanup unless it took it, and nothing
  interrupts the receiver thread.
- `CleanupStopsAll`: `StoppedForGood`. `StoppedInv` says that a caller past the poller
  has the service down, and `PartsInv`, for every caller that is past the call of
  `stop()` of another part, that the part is stopped. What could start it again comes
  before in `start()`, but for the two cases the property names: a sender that an
  early goodbye stopped is started after it (`missed`), and a checker that hears
  nothing from the server restarts the events client.
- `CleanupBeforeTheEnd`: `GoneAfterCleanup`, whatever the number of signals. As long as
  one at most came from outside (`OneSignal`), a signal that waits or was handled is
  the one there is, so that none interrupts its handler; it came after `start()` had
  finished; and the main thread has left only if the receiver thread has the lock.
  What keeps the process for that thread is the heartbeat checker or the logs
  sender, which runs until the cleanup stops it, when only the last POST is left
  (`SenderInv`). `KillInv` puts the shutdown's own signal after the cleanup. That the
  exceptions of `CutShort` are real is under "Findings".
- `MetricsArePeriodic`: the metrics timer implements the safety of `PeriodicTask`: one
  call at a time, and after the stop at most the one that was due. `MetricsInv` says it
  never sleeps with its event set, which is what `Event.wait()` looking first is for.

For every number of records, pushers and tries, and every size of the buffer, from
`LogShippingAssumption`:

- `ShippingTypeCorrect`, `RecordsAreConserved`, `BufferKeepsNewest`,
  `CopiesComeFromRetries`: the four are consequences of one inductive invariant,
  `ShippingInv`. `RecordsConserved` counts; `PlaceInv` says the same without
  cardinalities, and `BatchInv` adds that only a thread that posts has a batch, and
  that `stop()` has none before it drains, so that a drain overwrites nothing. `LeftInv`
  adds that after that drain the buffer has only what was emitted later.
  `CopiesInv` bounds the copies of a record by the tries of the batch it is in.
  `EvictingAppend` says what the full buffer becomes.
- `EvictionsAreCounted`: `EvictionsCounted` is not inductive. `CountInv` adds that only
  a thread that posts has a notice, and that the counter is 0 while the buffer is
  empty, so that the drain of an empty buffer forgets no count. A sum over the threads
  is the cardinality of a set of pairs (thread, number), which needs no
  induction: `PairsExcept` says what it becomes when one thread's count changes.
- `ImplementsQueue`: `UniformInv` (the records of a batch were stored equally often) makes
  a batch one thing with one fate. A drain takes exactly what waits (`DrainTakes`), an
  eviction displaces the oldest and keeps the rest (`EvictingElements`), and the size of
  the buffer is the number of what waits, as no record is in it twice
  (`BufferedSize`).
- `SenderIsPeriodic`: the sender implements the safety of `PeriodicTask`: a stop that
  its thread sleeps through, or that comes after its last look at the flag, is followed
  by at most one push.

For every number of results and publisher threads, any sizes, limits and trace ids,
from `ResultsProcessorAssumption`:

- `DeliveryTypeCorrect`: type correctness; a thread has a message exactly while it
  pushes it.
- `DeliveredResultsAreReadable`: `DeliveredIsReadable` speaks of the messages the
  orchestrator has. `DeliveryInv` adds what holds before: from the write on, there is a
  file under the key, of the result in hand or of another one with its trace id (`Kept`,
  which no later write undoes), and a message about to be pushed tells the truth
  (`Truthful`). Shared trace ids are included.

Every invariant, action property and safety refinement that a run checks is thus a
theorem. Only model-checked is liveness, which
is beyond the prover: the fairness part of `PoolFairSpec`, `StopEndsThreads`,
`ScheduledIsHandled`, `AssignedIsSettled`, `PendingIsFetched`, `ReplacedLoopsEnd`,
`SilentIsReplaced`, `ShutdownTerminates`, `BufferedIsTaken`, and the liveness of
`SenderSpec`.

## Findings

Four claims of the repository's comments and docs that a run refutes:

1. `oversize_download`, `service/operations_poller.py:117`: nothing catches an exception
   of the operation handler in the polling loop. `_execute_operation` downloads an
   oversize operation there, and `download_operation` raises when the download
   fails, so one failed download ends polling until the agent is restarted.
   Piggybacked operations are the only way in after that. (In a publisher thread
   the same exception is caught.)
2. `stream_overtaking`, `events/sse_client_receiver.py:128`: the test of the `finally`
   clause is meant to keep a replaced loop from stopping the new loop's heartbeat
   checker. It does not when the test comes before the new id is set, in the window that
   `restart()` itself opens by clearing the id first, and the call comes after the new
   loop has connected. The new connection is then not watched.
3. `shutdown_requeue`, `service/base_egress_service.py:311`: the orchestrator is told
   first, and queues the agent's operations again, while a runner or a publisher thread
   that is in one goes on, and this agent still answers an operation that another one
   was to take over.
4. `shutdown_locked`, `service/in_process_logs_service.py:123`: a signal that interrupts
   the main thread inside `emit()` leads to `drain()` on the same thread, which waits for
   the lock that the interrupted `emit()` holds. The guard against re-entry protects the
   log call of the handler, not the drain.

Two more claims hold only in part. The properties say in which part, and the runs
check it:

- `events/sse_client_receiver.py:60` says the receiver may be a daemon thread because "all
  other cleanup is done before exit". `GoneAfterCleanup` excepts two cases (`CutShort`),
  and without either of them TLC finds the property violated. A receiver thread whose
  connection has no heartbeat checker cleans up after a goodbye, a signal makes the
  main thread leave, and nothing that is not a daemon is left for the last POST of
  the log. Or the handler of a second signal finds the lock taken and calls
  `sys.exit()` inside the cleanup it interrupts (`base_egress_service.py:336`).
- `service/base_egress_service.py:270` says that draining before the close "can't strand
  records in a detached buffer". It can: a record emitted between the two, or by a
  thread that had found the handler before `close()`, stays in the buffer, and nothing
  reads it again. `RecordsConserved` says that these are the only ones: what `stop()`
  leaves was emitted after its drain (`Stranded`).

Seen by changing a constant of `shutdown_ends`, for `ShutdownTerminates`:

- `MaxSignals = 2`, `service/base_egress_service.py:336`: the second signal comes before
  the sender is stopped, whose thread is no daemon, and the process does not end.
- `ServerSpeaks = FALSE`, `events/heartbeat_checker.py:36`: `EventsClient.stop()` leaves
  the heartbeat checker, whose thread is no daemon either: with a silent server it
  reconnects, the new connection starts a checker, and the process never ends.
- `EarlyGoodbye = TRUE`, `service/base_egress_service.py:243`: a goodbye that comes before
  `start()` has started the sender stops a sender that is not running; `start()` then
  starts it, and it stays (the case that `StoppedForGood` excepts).

And steps of the models that no listed property forbids:

- `service/operations_poller.py:98`: `notify_work_available` records nothing, and
  `_wait_for_work` looks at nothing. A notification after an empty fetch and before
  the wait is lost, and the poller sleeps for the poll interval.
- `events/events_client.py:59`: `stop()` leaves the checker running, which restarts the
  receiver of a client that was stopped when the connection is silent. (`_stopped` is
  never read.)
- `service/base_egress_service.py:559`: `_flush_logs` ignores the result of
  `execute_operation`, so an outage longer than three tries loses the batch that was
  drained.
- `service/results_processor.py:65`: an error result over the size limit has no
  `__mcd_result__`, so `del` raises after the upload, and the operation is never
  answered.

## Not modelled

- `config/*`: reads of strings with defaults, without state; the values are CONSTANTS.
- `service/*login_token_provider.py`: reads of the environment and of files.
- `utils/utils.py`, `utils/result_utils.py`, `service/metrics_service.py`: formatting of
  health information, URLs and log extras, and abstract classes.
- The reachability test and the headers of `BackendClient`.
- The contents of operations and results, and `schedule_push_query_results`, which
  nothing in the repository calls and which leads to a method that subclasses write.
- `peek` and `get_logs` read the buffer and change nothing. A logs service without
  `drain` is left to subclasses.

Assumptions about the environment: the orchestrator assigns an operation at most
once and queues it again only on a shutdown notification; outside `shutdown_races`
a goodbye comes after `start()` has returned (`EarlyGoodbye`), and the server speaks
(`ServerSpeaks`). Operations that share a trace id share the key of their file:
`DeliveredIsReadable` promises them a file of one of them, not the right one.

## Plan

Done: the modules above, in the order `WorkPool` and `QueueAsyncProcessor`,
`OperationsPoller`, `OperationLifecycle` and `EgressAgentService`, `EventsStream`, the
timers and `PeriodicTask`, `GracefulShutdown`, `LogShipping` and `LogQueue`,
`ResultsProcessor`, and the proofs about each.

Left:

1. `EventsStream` in the place of the variable `stream` of `GracefulShutdown`: the events
   `work_available` and goodbye, and the exit that waits for the real checker.
2. The waiting times of the retry rule of `execute_operation`.
