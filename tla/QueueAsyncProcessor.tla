------------------------- MODULE QueueAsyncProcessor -------------------------
(***************************************************************************)
(* utils/queue_async_processor.py: a list of items, one condition          *)
(* variable, and a fixed number of daemon threads that pop items and call  *)
(* a handler.  OperationsRunner and ResultsPublisher are two of these.     *)
(*                                                                         *)
(* Every access to _queue is made while holding the condition's lock, so a *)
(* critical section is one action here; it ends where the thread releases  *)
(* the lock, that is at `with` block exit or inside Condition.wait().  The *)
(* flag _running is also read without the lock, by the outer `while` of    *)
(* each thread, and that read is an action of its own (CheckRunning).      *)
(*                                                                         *)
(* pc[w] of a worker thread w:                                             *)
(*   "new"       not started                                               *)
(*   "loop"      about to evaluate `while self._running`                   *)
(*   "enter"     about to take the lock and evaluate the inner `while`     *)
(*   "waiting"   inside Condition.wait()                                   *)
(*   "handling"  running the handler on job[w], without the lock           *)
(*   "stopped"   the thread has returned                                   *)
(***************************************************************************)
EXTENDS Integers, Sequences

CONSTANTS ConfiguredThreads,  \* the thread_count the constructor is given
          Items,              \* what may be scheduled
          NoItem,             \* what a worker with nothing to do holds
          Stuck               \* workers whose handler call may never return

ASSUME QueueAsyncProcessorAssumption ==
    /\ ConfiguredThreads \in Int
    /\ NoItem \notin Items

VARIABLES queue,    \* _queue
          running,  \* _running
          pc,       \* control state of each worker thread
          job       \* to_execute of each worker thread

vars == <<queue, running, pc, job>>

\* _thread_count: a configured 0 (or less) still gives one thread.
ThreadCount == IF ConfiguredThreads > 1 THEN ConfiguredThreads ELSE 1

Workers == 1 .. ThreadCount

Control == {"new", "loop", "enter", "waiting", "handling", "stopped"}

TypeOK == /\ queue \in Seq(Items)
          /\ running \in BOOLEAN
          /\ pc \in [Workers -> Control]
          /\ job \in [Workers -> Items \cup {NoItem}]
          /\ \A w \in Workers : job[w] # NoItem <=> pc[w] = "handling"

Init == /\ queue = <<>>
        /\ running = FALSE
        /\ pc = [w \in Workers |-> "new"]
        /\ job = [w \in Workers |-> NoItem]

-----------------------------------------------------------------------------
\* Called by any thread.

\* Condition.notify_all(): every waiting worker goes back for the lock.
NotifyAll == [w \in Workers |-> IF pc[w] = "waiting" THEN "enter" ELSE pc[w]]

Start == /\ \A w \in Workers : pc[w] = "new"
         /\ running' = TRUE
         /\ pc' = [w \in Workers |-> "loop"]
         /\ UNCHANGED <<queue, job>>

\* Faulty variant: notify() for notify_all().
StopNotifyingOne ==
    /\ running' = FALSE
    /\ LET waiting == {w \in Workers : pc[w] = "waiting"}
       IN  \/ waiting = {} /\ pc' = pc
           \/ \E w \in waiting : pc' = [pc EXCEPT ![w] = "enter"]
    /\ UNCHANGED <<queue, job>>

Stop == /\ running' = FALSE
        /\ pc' = NotifyAll
        /\ UNCHANGED <<queue, job>>

\* Faulty variant: the waiting threads are not notified.
ScheduleSilently(o) == /\ queue' = Append(queue, o)
                       /\ UNCHANGED <<pc, running, job>>

Schedule(o) == /\ queue' = Append(queue, o)
               /\ pc' = NotifyAll
               /\ UNCHANGED <<running, job>>

QueueDepth == Len(queue)

-----------------------------------------------------------------------------
\* The worker threads (_run).

CheckRunning(w) == /\ pc[w] = "loop"
                   /\ pc' = [pc EXCEPT ![w] = IF running THEN "enter" ELSE "stopped"]
                   /\ UNCHANGED <<queue, running, job>>

\* Faulty variant: the inner loop is `while not self._queue`.
WaitWhileEmpty(w) == /\ pc[w] = "enter"
                     /\ queue = <<>>
                     /\ pc' = [pc EXCEPT ![w] = "waiting"]
                     /\ UNCHANGED <<queue, running, job>>

Wait(w) == /\ pc[w] = "enter"
           /\ queue = <<>> /\ running
           /\ pc' = [pc EXCEPT ![w] = "waiting"]
           /\ UNCHANGED <<queue, running, job>>

Quit(w) == /\ pc[w] = "enter"
           /\ ~running
           /\ pc' = [pc EXCEPT ![w] = "stopped"]
           /\ UNCHANGED <<queue, running, job>>

\* Faulty variants: queue[0] for queue.pop(0), queue.pop() for queue.pop(0),
\* the slice queue[:1] for its element, and a stopped thread that empties the
\* queue first.
PopKeeping(w) == /\ pc[w] = "enter"
                 /\ queue # <<>> /\ running
                 /\ job' = [job EXCEPT ![w] = Head(queue)]
                 /\ pc' = [pc EXCEPT ![w] = "handling"]
                 /\ UNCHANGED <<queue, running>>

PopNewest(w) == /\ pc[w] = "enter"
                /\ queue # <<>> /\ running
                /\ job' = [job EXCEPT ![w] = queue[Len(queue)]]
                /\ queue' = SubSeq(queue, 1, Len(queue) - 1)
                /\ pc' = [pc EXCEPT ![w] = "handling"]
                /\ UNCHANGED running

PopSlice(w) == /\ pc[w] = "enter"
               /\ queue # <<>> /\ running
               /\ job' = [job EXCEPT ![w] = <<Head(queue)>>]
               /\ queue' = Tail(queue)
               /\ pc' = [pc EXCEPT ![w] = "handling"]
               /\ UNCHANGED running

PopWhileQueued(w) == /\ pc[w] = "enter"
                     /\ queue # <<>>
                     /\ job' = [job EXCEPT ![w] = Head(queue)]
                     /\ queue' = Tail(queue)
                     /\ pc' = [pc EXCEPT ![w] = "handling"]
                     /\ UNCHANGED running

Pop(w) == /\ pc[w] = "enter"
          /\ queue # <<>> /\ running
          /\ job' = [job EXCEPT ![w] = Head(queue)]
          /\ queue' = Tail(queue)
          /\ pc' = [pc EXCEPT ![w] = "handling"]
          /\ UNCHANGED running

\* The handler call ends: _invoke_handler catches and logs what it raises, so
\* a failed call and a successful one leave the thread in the same state.
Return(w) == /\ pc[w] = "handling"
             /\ job' = [job EXCEPT ![w] = NoItem]
             /\ pc' = [pc EXCEPT ![w] = "loop"]
             /\ UNCHANGED <<queue, running>>

Advance(w) == CheckRunning(w) \/ Wait(w) \/ Quit(w) \/ Pop(w)

-----------------------------------------------------------------------------
\* The processor in the hands of any client: whatever is scheduled, whenever.
\* The service stops a processor only after starting it.

Started == \A w \in Workers : pc[w] # "new"

OpenNext == \/ Start
            \/ Started /\ Stop
            \/ \E o \in Items : Schedule(o)
            \/ \E w \in Workers : Advance(w) \/ Return(w)

OpenSpec == Init /\ [][OpenNext]_vars

\* The processor on its own.  Items stand for objects: one that is queued or
\* being handled is not scheduled again, which also bounds the queue by the
\* number of Items.

InProgress(o) == \/ \E i \in DOMAIN queue : queue[i] = o
                 \/ \E w \in Workers : job[w] = o

Next == \/ Start
        \/ Started /\ Stop
        \/ \E o \in Items : ~InProgress(o) /\ Schedule(o)
        \/ \E w \in Workers : Advance(w) \/ Return(w)

Spec == Init /\ [][Next]_vars

\* A thread that can run is eventually run.  That a handler returns is the
\* handler's promise, and the Stuck workers are those that do not keep it.
Fairness == /\ \A w \in Workers : WF_vars(Advance(w))
            /\ \A w \in Workers \ Stuck : WF_vars(Return(w))

FairSpec == Spec /\ Fairness

-----------------------------------------------------------------------------
\* A thread sleeps in Condition.wait() only while there is nothing to execute
\* and nobody has asked it to stop: neither schedule() nor stop() can slip in
\* between a thread's look at the queue and its going to sleep.
NoLostWakeup == \A w \in Workers : pc[w] = "waiting" => queue = <<>> /\ running

\* An item is in one place: no two threads run the handler on it, and none
\* runs it while it is still queued (the pop removes what it returns).
OnePlace ==
    /\ \A v, w \in Workers : job[v] = job[w] /\ job[v] # NoItem => v = w
    /\ \A i \in DOMAIN queue, w \in Workers : queue[i] # job[w]
    /\ \A i, j \in DOMAIN queue : queue[i] = queue[j] => i = j

\* stop() reaches every thread: each one whose handler returns ends, whether
\* it was sleeping, about to sleep, or busy when the flag was cleared.
StopEndsThreads ==
    \A w \in Workers \ Stuck : (Started /\ ~running) ~> (pc[w] = "stopped")

\* While the processor runs, a scheduled item is handed to a thread, unless
\* stop() comes first, even if the handlers of the Stuck threads never return.
ScheduledIsHandled ==
    \A o \in Items :
        (running /\ \E i \in DOMAIN queue : queue[i] = o)
            ~> (~running \/ \E w \in Workers : job[w] = o)

\* The monitor implements the pool of module WorkPool, its fairness included.
Phase == IF ~Started THEN "new" ELSE IF running THEN "open" ELSE "closed"

Pool == INSTANCE WorkPool WITH pending <- queue, active <- job, phase <- Phase

PoolSpec == Pool!Spec
PoolFairSpec == Pool!FairSpec
=============================================================================
