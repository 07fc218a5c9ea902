--------------------- MODULE QueueAsyncProcessor_proofs ---------------------
(***************************************************************************)
(* Theorems about module QueueAsyncProcessor, for any number of threads    *)
(* and any set of items.                                                   *)
(***************************************************************************)
EXTENDS QueueAsyncProcessor, SequenceTheorems, TLAPS

-----------------------------------------------------------------------------
\* A processor has at least one thread, whatever the configuration says.
LEMMA SomeWorker == 1 \in Workers
  BY QueueAsyncProcessorAssumption DEF Workers, ThreadCount

LEMMA NotifyAllType ==
  ASSUME pc \in [Workers -> Control]
  PROVE  NotifyAll \in [Workers -> Control]
  BY DEF NotifyAll, Control

\* Each operation keeps the state well typed.  That a thread holds an item
\* exactly while it handles it is part of its type.
LEMMA StartType == TypeOK /\ Start => TypeOK'
  BY DEF TypeOK, Start, Control

LEMMA StopType == TypeOK /\ Stop => TypeOK'
  BY NotifyAllType DEF TypeOK, Stop, NotifyAll

LEMMA ScheduleType == ASSUME TypeOK, NEW o \in Items, Schedule(o) PROVE TypeOK'
  BY NotifyAllType DEF TypeOK, Schedule, NotifyAll

LEMMA AdvanceType == ASSUME TypeOK, NEW w \in Workers, Advance(w) PROVE TypeOK'
<1>1. CASE CheckRunning(w)
  BY <1>1 DEF TypeOK, CheckRunning, Control
<1>2. CASE Wait(w)
  BY <1>2 DEF TypeOK, Wait, Control
<1>3. CASE Quit(w)
  BY <1>3 DEF TypeOK, Quit, Control
<1>4. CASE Pop(w)
  <2>1. Head(queue) \in Items /\ Tail(queue) \in Seq(Items)
    BY <1>4, HeadTailProperties DEF TypeOK, Pop
  <2> QED
    BY <1>4, <2>1, QueueAsyncProcessorAssumption DEF TypeOK, Pop, Control
<1> QED
  BY <1>1, <1>2, <1>3, <1>4 DEF Advance

LEMMA ReturnType == ASSUME TypeOK, NEW w \in Workers, Return(w) PROVE TypeOK'
  BY QueueAsyncProcessorAssumption DEF TypeOK, Return, Control

LEMMA InitType == Init => TypeOK
  BY EmptySeq DEF Init, TypeOK, Control

LEMMA NextType == TypeOK /\ [OpenNext]_vars => TypeOK'
<1> SUFFICES ASSUME TypeOK, [OpenNext]_vars
             PROVE  TypeOK'
  OBVIOUS
<1>1. CASE UNCHANGED vars
  BY <1>1 DEF TypeOK, vars
<1>2. CASE OpenNext
  BY <1>2, StartType, StopType, ScheduleType, AdvanceType, ReturnType DEF OpenNext
<1> QED
  BY <1>1, <1>2

LEMMA OpenTypeOK == OpenSpec => []TypeOK
  BY InitType, NextType, PTL DEF OpenSpec

\* What a processor does on its own it may do in the hands of a client.
LEMMA SpecIsOpen == Spec => OpenSpec
<1>1. [Next]_vars => [OpenNext]_vars
  BY DEF Next, OpenNext
<1> QED
  BY <1>1, PTL DEF Spec, OpenSpec

\* The variables of the processor always have the values of their types.
THEOREM TypeCorrect == Spec => []TypeOK
  BY OpenTypeOK, SpecIsOpen

-----------------------------------------------------------------------------
\* NoLostWakeup is inductive: what could make a sleeping thread's reason to
\* sleep untrue is schedule() or stop(), and each wakes all of them.
LEMMA NextWakes == TypeOK /\ NoLostWakeup /\ [OpenNext]_vars => NoLostWakeup'
<1> SUFFICES ASSUME TypeOK, NoLostWakeup, [OpenNext]_vars,
                    NEW v \in Workers, pc'[v] = "waiting"
             PROVE  queue' = <<>> /\ running'
  BY DEF NoLostWakeup
<1> USE DEF TypeOK, NoLostWakeup
<1>1. CASE UNCHANGED vars
  BY <1>1 DEF vars
<1>2. CASE Start
  BY <1>2 DEF Start
<1>3. CASE Stop
  BY <1>3 DEF Stop, NotifyAll
<1>4. CASE \E o \in Items : Schedule(o)
  BY <1>4 DEF Schedule, NotifyAll
<1>5. ASSUME NEW w \in Workers, Advance(w) \/ Return(w)
      PROVE  queue' = <<>> /\ running'
  <2>1. CASE CheckRunning(w)
    BY <2>1 DEF CheckRunning
  <2>2. CASE Wait(w)
    BY <2>2 DEF Wait
  <2>3. CASE Quit(w)
    BY <2>3 DEF Quit
  <2>4. CASE Pop(w)
    BY <2>4 DEF Pop
  <2>5. CASE Return(w)
    BY <2>5 DEF Return
  <2> QED
    BY <1>5, <2>1, <2>2, <2>3, <2>4, <2>5 DEF Advance
<1> QED
  BY <1>1, <1>2, <1>3, <1>4, <1>5 DEF OpenNext

LEMMA OpenWakeups == OpenSpec => []NoLostWakeup
<1>1. Init => NoLostWakeup
  BY DEF Init, NoLostWakeup
<1> QED
  BY <1>1, NextWakes, OpenTypeOK, PTL DEF OpenSpec

\* No thread sleeps while there is an item to execute or stop() was called.
THEOREM WakeupsAreNotLost == Spec => []NoLostWakeup
  BY OpenWakeups, SpecIsOpen

-----------------------------------------------------------------------------
\* What a pop does to the positions of the queue.
LEMMA PopShifts ==
  ASSUME TypeOK, NEW w \in Workers, Pop(w)
  PROVE  /\ queue[1] \in Items
         /\ job' = [job EXCEPT ![w] = queue[1]]
         /\ 1 \in DOMAIN queue
         /\ \A i \in DOMAIN queue' : /\ i + 1 \in DOMAIN queue
                                     /\ i + 1 # 1
                                     /\ queue'[i] = queue[i + 1]
<1>1. queue \in Seq(Items) /\ queue # <<>> /\ queue' = Tail(queue)
  BY DEF TypeOK, Pop
<1>2. Head(queue) = queue[1] /\ Len(queue) \in Nat \ {0} /\ DOMAIN queue = 1 .. Len(queue)
  BY <1>1, EmptySeq, LenProperties
<1>3. /\ queue[1] \in Items
      /\ queue' \in Seq(Items)
      /\ Len(queue') = Len(queue) - 1
      /\ \A i \in 1 .. Len(queue') : queue'[i] = queue[i + 1]
  BY <1>1, <1>2, HeadTailProperties
<1>4. DOMAIN queue' = 1 .. Len(queue')
  BY <1>3, LenProperties
<1> QED
  BY <1>2, <1>3, <1>4 DEF Pop

\* What schedule() does to the positions of the queue.
LEMMA ScheduleAppends ==
  ASSUME TypeOK, NEW o \in Items, Schedule(o)
  PROVE  \A i \in DOMAIN queue' : \/ i \in DOMAIN queue /\ queue'[i] = queue[i]
                                  \/ i = Len(queue) + 1 /\ queue'[i] = o
<1>1. queue \in Seq(Items) /\ queue' = Append(queue, o)
  BY DEF TypeOK, Schedule
<1>2. /\ queue' \in Seq(Items)
      /\ Len(queue') = Len(queue) + 1
      /\ \A i \in 1 .. Len(queue) : queue'[i] = queue[i]
      /\ queue'[Len(queue) + 1] = o
  BY <1>1, AppendProperties
<1>3. Len(queue) \in Nat /\ DOMAIN queue = 1 .. Len(queue) /\ DOMAIN queue' = 1 .. Len(queue')
  BY <1>1, <1>2, LenProperties
<1> QED
  BY <1>2, <1>3

LEMMA NextOnePlace == TypeOK /\ OnePlace /\ [Next]_vars => OnePlace'
<1> SUFFICES ASSUME TypeOK, OnePlace, [Next]_vars
             PROVE  OnePlace'
  OBVIOUS
<1> USE QueueAsyncProcessorAssumption
<1>1. CASE UNCHANGED <<queue, job>>
  BY <1>1 DEF OnePlace
<1>2. ASSUME NEW o \in Items, ~InProgress(o), Schedule(o)
      PROVE  OnePlace'
  <2>1. /\ \A i \in DOMAIN queue : queue[i] # o
        /\ \A w \in Workers : job[w] # o
        /\ job' = job
    BY <1>2 DEF InProgress, Schedule
  <2>2. \A i \in DOMAIN queue' : \/ i \in DOMAIN queue /\ queue'[i] = queue[i]
                                 \/ i = Len(queue) + 1 /\ queue'[i] = o
    BY <1>2, ScheduleAppends
  <2> QED
    BY <2>1, <2>2 DEF OnePlace
<1>3. ASSUME NEW w \in Workers, Pop(w)
      PROVE  OnePlace'
  <2>1. /\ queue[1] \in Items
        /\ job' = [job EXCEPT ![w] = queue[1]]
        /\ 1 \in DOMAIN queue
        /\ \A i \in DOMAIN queue' : /\ i + 1 \in DOMAIN queue
                                    /\ i + 1 # 1
                                    /\ queue'[i] = queue[i + 1]
    BY <1>3, PopShifts
  <2>2. \A i, j \in DOMAIN queue' : queue'[i] = queue'[j] => i = j
    <3> SUFFICES ASSUME NEW i \in DOMAIN queue', NEW j \in DOMAIN queue',
                        queue'[i] = queue'[j]
                 PROVE  i = j
      OBVIOUS
    <3>1. i + 1 = j + 1
      BY <2>1 DEF OnePlace
    <3>2. i \in Int /\ j \in Int
      BY AdvanceType, <1>3, LenProperties DEF Advance, TypeOK
    <3> QED
      BY <3>1, <3>2
  <2>3. \A v \in Workers : job'[v] = IF v = w THEN queue[1] ELSE job[v]
    BY <2>1 DEF TypeOK
  <2>4. \A i \in DOMAIN queue', v \in Workers : queue'[i] # job'[v]
    BY <2>1, <2>3 DEF OnePlace
  <2>5. \A u, v \in Workers : job'[u] = job'[v] /\ job'[u] # NoItem => u = v
    BY <2>1, <2>3 DEF OnePlace
  <2> QED
    BY <2>2, <2>4, <2>5 DEF OnePlace
<1>4. ASSUME NEW w \in Workers, Return(w)
      PROVE  OnePlace'
  <2>1. queue' = queue /\ \A v \in Workers : job'[v] = IF v = w THEN NoItem ELSE job[v]
    BY <1>4 DEF Return, TypeOK
  <2>2. \A i \in DOMAIN queue : queue[i] # NoItem
    BY LenProperties, ElementOfSeq DEF TypeOK
  <2> QED
    BY <2>1, <2>2 DEF OnePlace
<1> QED
  BY <1>1, <1>2, <1>3, <1>4
     DEF Next, vars, Start, Stop, Advance, CheckRunning, Wait, Quit

\* No two threads handle the same item, and none handles one that is queued.
THEOREM ItemsAreInOnePlace == Spec => []OnePlace
<1>1. Init => OnePlace
  BY DEF Init, OnePlace
<1> QED
  BY <1>1, NextOnePlace, TypeCorrect, PTL DEF Spec

-----------------------------------------------------------------------------
\* What the mapping to WorkPool rests on: the threads are started together.
ThreadsInv == Started \/ (~running /\ \A w \in Workers : pc[w] = "new")

\* A thread that was started does not become a new one.
LEMMA StartedStays ==
  ASSUME TypeOK, Started, [OpenNext]_vars
  PROVE  Started'
<1> USE DEF TypeOK, Started
<1>1. CASE UNCHANGED vars
  BY <1>1 DEF vars
<1>2. CASE Start
  BY <1>2 DEF Start
<1>3. CASE Stop \/ \E o \in Items : Schedule(o)
  BY <1>3 DEF Stop, Schedule, NotifyAll
<1>4. ASSUME NEW w \in Workers, Advance(w) \/ Return(w)
      PROVE  Started'
  BY <1>4 DEF Advance, CheckRunning, Wait, Quit, Pop, Return
<1> QED
  BY <1>1, <1>2, <1>3, <1>4 DEF OpenNext

LEMMA NextThreads == TypeOK /\ ThreadsInv /\ [OpenNext]_vars => ThreadsInv'
<1> SUFFICES ASSUME TypeOK, ThreadsInv, [OpenNext]_vars
             PROVE  ThreadsInv'
  OBVIOUS
<1> USE QueueAsyncProcessorAssumption DEF TypeOK, ThreadsInv, Started
<1>1. CASE UNCHANGED vars
  BY <1>1 DEF vars
<1>2. CASE Start
  BY <1>2 DEF Start
<1>3. CASE Started /\ Stop
  BY <1>3 DEF Stop, NotifyAll
<1>4. ASSUME NEW o \in Items, Schedule(o)
      PROVE  ThreadsInv'
  BY <1>4 DEF Schedule, NotifyAll
<1>5. ASSUME NEW w \in Workers, Advance(w) \/ Return(w)
      PROVE  ThreadsInv'
  <2>1. CASE CheckRunning(w)
    BY <2>1 DEF CheckRunning
  <2>2. CASE Wait(w)
    BY <2>2 DEF Wait
  <2>3. CASE Quit(w)
    BY <2>3 DEF Quit
  <2>4. CASE Pop(w)
    BY <2>4 DEF Pop
  <2>5. CASE Return(w)
    BY <2>5 DEF Return
  <2> QED
    BY <1>5, <2>1, <2>2, <2>3, <2>4, <2>5 DEF Advance
<1> QED
  BY <1>1, <1>2, <1>3, <1>4, <1>5 DEF OpenNext

LEMMA ThreadsInvHolds == OpenSpec => []ThreadsInv
<1>1. Init => ThreadsInv
  BY DEF Init, ThreadsInv
<1> QED
  BY <1>1, NextThreads, OpenTypeOK, PTL DEF OpenSpec

\* Every step of the processor is a step of the pool, or changes nothing that
\* the pool has.
LEMMA NextPool ==
  TypeOK /\ ThreadsInv /\ [OpenNext]_vars => [Pool!Next]_(Pool!vars)
<1> SUFFICES ASSUME TypeOK, ThreadsInv, [OpenNext]_vars
             PROVE  Pool!Next \/ UNCHANGED <<queue, job, Phase>>
  BY DEF Pool!vars
<1> USE QueueAsyncProcessorAssumption
<1>1. CASE UNCHANGED vars
  BY <1>1 DEF vars, Phase, Started
<1>2. CASE Start
  <2>1. ~Started /\ Started' /\ running'
    BY <1>2, SomeWorker DEF Start, Started
  <2>2. Pool!Open
    BY <1>2, <2>1 DEF Pool!Open, Phase, Start
  <2> QED
    BY <2>2 DEF Pool!Next
<1>3. CASE Started /\ Stop
  <2>1. Started' /\ ~running'
    BY <1>3 DEF Stop, Started, NotifyAll
  <2>2. UNCHANGED <<queue, job>>
    BY <1>3 DEF Stop
  <2>3. CASE running
    BY <1>3, <2>1, <2>2, <2>3 DEF Pool!Next, Pool!Close, Phase
  <2>4. CASE ~running
    BY <1>3, <2>1, <2>2, <2>4 DEF Phase
  <2> QED
    BY <2>3, <2>4
<1>4. ASSUME NEW o \in Items, Schedule(o)
      PROVE  Pool!Next
  <2>1. Started' = Started /\ running' = running
    BY <1>4 DEF Schedule, Started, NotifyAll
  <2>2. Pool!Submit(o)
    BY <1>4, <2>1 DEF Pool!Submit, Phase, Schedule
  <2> QED
    BY <2>2 DEF Pool!Next
<1>5. ASSUME NEW w \in Workers, Advance(w) \/ Return(w)
      PROVE  Pool!Next \/ UNCHANGED <<queue, job, Phase>>
  <2>1. pc[w] # "new"
    BY <1>5 DEF Advance, CheckRunning, Wait, Quit, Pop, Return
  <2>2. Started
    BY <2>1 DEF ThreadsInv
  <2>3. Started' /\ running' = running
    BY <1>5, <2>2 DEF Advance, CheckRunning, Wait, Quit, Pop, Return, Started, TypeOK
  <2>4. UNCHANGED Phase
    BY <2>2, <2>3 DEF Phase
  <2>5. CASE CheckRunning(w) \/ Wait(w) \/ Quit(w)
    BY <2>4, <2>5 DEF CheckRunning, Wait, Quit
  <2>6. CASE Pop(w)
    <3>1. Pool!Take(w)
      BY <2>2, <2>4, <2>6 DEF Pool!Take, Phase, Pop, TypeOK
    <3> QED
      BY <3>1 DEF Pool!Next
  <2>7. CASE Return(w)
    <3>1. Pool!Finish(w)
      BY <2>4, <2>7 DEF Pool!Finish, Return, TypeOK
    <3> QED
      BY <3>1 DEF Pool!Next
  <2> QED
    BY <1>5, <2>5, <2>6, <2>7 DEF Advance
<1> QED
  BY <1>1, <1>2, <1>3, <1>4, <1>5 DEF OpenNext

LEMMA OpenPool == OpenSpec => PoolSpec
<1>1. Init => Pool!Init
  BY SomeWorker DEF Init, Pool!Init, Phase, Started
<1> QED
  BY <1>1, NextPool, OpenTypeOK, ThreadsInvHolds, PTL DEF OpenSpec, PoolSpec, Pool!Spec

\* The monitor implements the safety part of the pool of module WorkPool: first
\* in, first out, each item taken once, none before start() or after stop().
THEOREM ImplementsPool == Spec => PoolSpec
  BY OpenPool, SpecIsOpen

=============================================================================
