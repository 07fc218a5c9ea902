---------------------- MODULE EgressAgentService_proofs ----------------------
(***************************************************************************)
(* Theorems about module EgressAgentService, for any number of operations, *)
(* threads, tries and timers.                                              *)
(***************************************************************************)
EXTENDS EgressAgentService, SequenceTheorems, FiniteSetTheorems, TLAPS

\* The lemmas about the two queue processors.
RunnerFacts == INSTANCE QueueAsyncProcessor_proofs
                   WITH ConfiguredThreads <- OpsRunnerThreads, Items <- OpItems,
                        NoItem <- NoOp, Stuck <- {}, queue <- opsQueue,
                        running <- opsRunning, pc <- opsPc, job <- opsJob

PublisherFacts == INSTANCE QueueAsyncProcessor_proofs
                      WITH ConfiguredThreads <- PublisherThreads, Items <- Ops,
                           NoItem <- NoOp, Stuck <- {}, queue <- resQueue,
                           running <- resRunning, pc <- resPc, job <- resJob

-----------------------------------------------------------------------------
\* Each operation of the runner keeps its state well typed.
LEMMA RunnerType ==
  ASSUME Runner!TypeOK
  PROVE  /\ Runner!Start => Runner!TypeOK'
         /\ Runner!Stop => Runner!TypeOK'
         /\ \A i \in OpItems : Runner!Schedule(i) => Runner!TypeOK'
         /\ \A w \in Runner!Workers :
                Runner!Advance(w) \/ Runner!Return(w) => Runner!TypeOK'
<1> USE EgressAgentServiceAssumption
    DEF Runner!TypeOK, Runner!NotifyAll, Runner!Workers, Runner!ThreadCount, Runner!Control,
        RunnerFacts!TypeOK, RunnerFacts!NotifyAll, RunnerFacts!Workers,
        RunnerFacts!ThreadCount, RunnerFacts!Control
<1>1. Runner!Start => Runner!TypeOK'
  BY RunnerFacts!StartType DEF Runner!Start, RunnerFacts!Start
<1>2. Runner!Stop => Runner!TypeOK'
  BY RunnerFacts!StopType DEF Runner!Stop, RunnerFacts!Stop
<1>3. \A i \in OpItems : Runner!Schedule(i) => Runner!TypeOK'
  BY RunnerFacts!ScheduleType DEF Runner!Schedule, RunnerFacts!Schedule
<1>4. \A w \in Runner!Workers : Runner!Advance(w) => Runner!TypeOK'
  BY RunnerFacts!AdvanceType
     DEF Runner!Advance, Runner!CheckRunning, Runner!Wait, Runner!Quit, Runner!Pop,
         RunnerFacts!Advance, RunnerFacts!CheckRunning, RunnerFacts!Wait,
         RunnerFacts!Quit, RunnerFacts!Pop
<1>5. \A w \in Runner!Workers : Runner!Return(w) => Runner!TypeOK'
  BY RunnerFacts!ReturnType DEF Runner!Return, RunnerFacts!Return
<1> QED
  BY <1>1, <1>2, <1>3, <1>4, <1>5

\* Each operation of the publisher keeps its state well typed.
LEMMA PublisherType ==
  ASSUME Publisher!TypeOK
  PROVE  /\ Publisher!Start => Publisher!TypeOK'
         /\ Publisher!Stop => Publisher!TypeOK'
         /\ \A o \in Ops : Publisher!Schedule(o) => Publisher!TypeOK'
         /\ \A w \in Publisher!Workers :
                Publisher!Advance(w) \/ Publisher!Return(w) => Publisher!TypeOK'
<1> USE EgressAgentServiceAssumption
    DEF Publisher!TypeOK, Publisher!NotifyAll, Publisher!Workers, Publisher!ThreadCount,
        Publisher!Control, PublisherFacts!TypeOK, PublisherFacts!NotifyAll,
        PublisherFacts!Workers, PublisherFacts!ThreadCount, PublisherFacts!Control
<1>1. Publisher!Start => Publisher!TypeOK'
  BY PublisherFacts!StartType DEF Publisher!Start, PublisherFacts!Start
<1>2. Publisher!Stop => Publisher!TypeOK'
  BY PublisherFacts!StopType DEF Publisher!Stop, PublisherFacts!Stop
<1>3. \A o \in Ops : Publisher!Schedule(o) => Publisher!TypeOK'
  BY PublisherFacts!ScheduleType DEF Publisher!Schedule, PublisherFacts!Schedule
<1>4. \A w \in Publisher!Workers : Publisher!Advance(w) => Publisher!TypeOK'
  BY PublisherFacts!AdvanceType
     DEF Publisher!Advance, Publisher!CheckRunning, Publisher!Wait, Publisher!Quit,
         Publisher!Pop, PublisherFacts!Advance, PublisherFacts!CheckRunning,
         PublisherFacts!Wait, PublisherFacts!Quit, PublisherFacts!Pop
<1>5. \A w \in Publisher!Workers : Publisher!Return(w) => Publisher!TypeOK'
  BY PublisherFacts!ReturnType DEF Publisher!Return, PublisherFacts!Return
<1> QED
  BY <1>1, <1>2, <1>3, <1>4, <1>5

\* Each operation of the poller keeps its state well typed.
LEMMA PollerType ==
  ASSUME Poller!TypeOK
  PROVE  /\ Poller!Start => Poller!TypeOK'
         /\ Poller!Stop => Poller!TypeOK'
         /\ Poller!NotifyWorkAvailable => Poller!TypeOK'
         /\ \A o \in Ops : Poller!FetchOperation(o) => Poller!TypeOK'
         /\ Poller!FetchNothing => Poller!TypeOK'
         /\ Poller!DropOnStop => Poller!TypeOK'
         /\ Poller!SubmitOperation => Poller!TypeOK'
         /\ Poller!SubmitRaises => Poller!TypeOK'
<1> USE EgressAgentServiceAssumption DEF Poller!TypeOK, Poller!Goto, Poller!Control
<1>1. /\ Poller!Start => Poller!TypeOK'
      /\ Poller!Stop => Poller!TypeOK'
      /\ Poller!NotifyWorkAvailable => Poller!TypeOK'
  BY DEF Poller!Start, Poller!Stop, Poller!NotifyWorkAvailable, Poller!Woken
<1>2. /\ \A o \in Ops : Poller!FetchOperation(o) => Poller!TypeOK'
      /\ Poller!FetchNothing => Poller!TypeOK'
  BY DEF Poller!FetchOperation, Poller!FetchNothing
<1>3. /\ Poller!DropOnStop => Poller!TypeOK'
      /\ Poller!SubmitOperation => Poller!TypeOK'
      /\ Poller!SubmitRaises => Poller!TypeOK'
  BY DEF Poller!DropOnStop, Poller!SubmitOperation, Poller!SubmitRaises
<1> QED
  BY <1>1, <1>2, <1>3

LEMMA PollerOnlyType == Poller!TypeOK /\ PollerOnly => Poller!TypeOK'
<1> SUFFICES ASSUME Poller!TypeOK, PollerOnly
             PROVE  Poller!TypeOK'
  OBVIOUS
<1> USE DEF Poller!TypeOK, Poller!Goto, Poller!Control
<1>1. CASE Poller!CheckRunning \/ Poller!SendHeartbeat
  BY <1>1 DEF Poller!CheckRunning, Poller!SendHeartbeat
<1>2. CASE \/ Poller!CheckBackpressure(CanAcceptWork)
           \/ Poller!RecheckBackpressure(CanAcceptWork)
  BY <1>2 DEF Poller!CheckBackpressure, Poller!RecheckBackpressure
<1>3. CASE Poller!EnterSubmit
  BY <1>3 DEF Poller!EnterSubmit
<1>4. CASE Poller!WaitForWork \/ Poller!PollIntervalReached
  BY <1>4 DEF Poller!WaitForWork, Poller!PollIntervalReached
<1> QED
  BY <1>1, <1>2, <1>3, <1>4 DEF PollerOnly

\* The types of the state the service keeps outside its three components.
ServiceTypeOK == /\ svc \in Phases
                 /\ tries \in [Publisher!Workers -> 0 .. PushTries - 1]
                 /\ carry \in [Publisher!Workers -> Ops \cup {NoOp}]
                 /\ orch \in [Ops -> {"absent", "pending", "assigned", "answered"}]
                 /\ dropped \in [Ops -> Reasons]
                 /\ fired \in [Timers -> 0 .. MaxTimerFirings]

LEMMA TypeOKParts ==
  TypeOK <=> Runner!TypeOK /\ Publisher!TypeOK /\ Poller!TypeOK /\ ServiceTypeOK
  BY DEF TypeOK, ServiceTypeOK

\* The steps that give a component its next state, and those that leave it.
LEMMA Unchanged ==
  /\ Runner!TypeOK /\ UNCHANGED opsVars => Runner!TypeOK'
  /\ Publisher!TypeOK /\ UNCHANGED resVars => Publisher!TypeOK'
  /\ Poller!TypeOK /\ UNCHANGED pollVars => Poller!TypeOK'
  /\ ServiceTypeOK /\ UNCHANGED <<svc, pushVars, orch, dropped, fired>> => ServiceTypeOK'
  BY DEF opsVars, resVars, pollVars, pushVars, Runner!TypeOK, Publisher!TypeOK,
         Poller!TypeOK, ServiceTypeOK

LEMMA DropType ==
  ASSUME ServiceTypeOK, NEW o, NEW r \in Reasons, Drop(o, r)
  PROVE  dropped' \in [Ops -> Reasons]
  BY DEF ServiceTypeOK, Drop

LEMMA InitTypeOK == Init => TypeOK
<1> SUFFICES ASSUME Init PROVE TypeOK
  OBVIOUS
<1> USE EgressAgentServiceAssumption
<1>1. Runner!TypeOK
  BY EmptySeq DEF Init, Runner!Init, Runner!TypeOK, Runner!Control
<1>2. Publisher!TypeOK
  BY EmptySeq DEF Init, Publisher!Init, Publisher!TypeOK, Publisher!Control
<1>3. Poller!TypeOK
  BY DEF Init, Poller!Init, Poller!TypeOK, Poller!Control
<1>4. ServiceTypeOK
  BY DEF Init, ServiceTypeOK, Phases, Reasons
<1> QED
  BY <1>1, <1>2, <1>3, <1>4, TypeOKParts

-----------------------------------------------------------------------------
\* Each part of the next-state relation keeps every variable well typed.

LEMMA StartStopType == TypeOK /\ StartStop => TypeOK'
<1> SUFFICES ASSUME TypeOK, StartStop
             PROVE  Runner!TypeOK' /\ Publisher!TypeOK' /\ Poller!TypeOK' /\ ServiceTypeOK'
  BY TypeOKParts, PTL
<1>1. Runner!TypeOK /\ Publisher!TypeOK /\ Poller!TypeOK /\ ServiceTypeOK
  BY TypeOKParts
<1>2. /\ UNCHANGED <<pushVars, orch, dropped, fired>>
      /\ svc' \in Phases
  BY DEF StartStop, StartRunner, StartPublisher, StartPoller,
         StopRunner, StopPublisher, StopPoller, Phase, Phases
<1>3. ServiceTypeOK'
  BY <1>1, <1>2 DEF ServiceTypeOK, pushVars
<1>4. CASE StartRunner \/ StopRunner
  BY <1>1, <1>3, <1>4, RunnerType, Unchanged DEF StartRunner, StopRunner
<1>5. CASE StartPublisher \/ StopPublisher
  BY <1>1, <1>3, <1>5, PublisherType, Unchanged DEF StartPublisher, StopPublisher
<1>6. CASE StartPoller \/ StopPoller
  BY <1>1, <1>3, <1>6, PollerType, Unchanged DEF StartPoller, StopPoller
<1> QED
  BY <1>4, <1>5, <1>6 DEF StartStop

\* What is scheduled in the runner is an Operation.
LEMMA ScheduledItem ==
  /\ \A o \in Ops : [op |-> o, via |-> "poll"] \in OpItems
  /\ \A o \in Ops : [op |-> o, via |-> "piggyback"] \in OpItems
  /\ \A t \in Timers : [op |-> t, via |-> "timer"] \in OpItems
  BY DEF OpItems

LEMMA PollerStepType == TypeOK /\ PollerStep => TypeOK'
<1> SUFFICES ASSUME TypeOK, PollerStep
             PROVE  Runner!TypeOK' /\ Publisher!TypeOK' /\ Poller!TypeOK' /\ ServiceTypeOK'
  BY TypeOKParts, PTL
<1>1. Runner!TypeOK /\ Publisher!TypeOK /\ Poller!TypeOK /\ ServiceTypeOK
  BY TypeOKParts
<1> USE <1>1, Unchanged
<1>2. CASE PollerOnly
  BY <1>2, PollerOnlyType DEF PollerOnly
<1>3. ASSUME NEW o \in Ops, PollerFetches(o)
      PROVE  Runner!TypeOK' /\ Publisher!TypeOK' /\ Poller!TypeOK' /\ ServiceTypeOK'
  <2>1. ServiceTypeOK'
    BY <1>3 DEF PollerFetches, Assign, ServiceTypeOK, pushVars
  <2> QED
    BY <1>3, <2>1, PollerType DEF PollerFetches
<1>4. ASSUME NEW o \in Ops, PollerLosesResponse(o)
      PROVE  Runner!TypeOK' /\ Publisher!TypeOK' /\ Poller!TypeOK' /\ ServiceTypeOK'
  <2>1. dropped' \in [Ops -> Reasons]
    BY <1>4, DropType DEF PollerLosesResponse, Reasons
  <2>2. ServiceTypeOK'
    BY <1>4, <2>1 DEF PollerLosesResponse, Assign, ServiceTypeOK, pushVars
  <2> QED
    BY <1>4, <2>2, PollerType DEF PollerLosesResponse
<1>5. CASE PollerFetchesNothing
  BY <1>5, PollerType DEF PollerFetchesNothing
<1>6. CASE PollerDropsOnStop \/ PollerSkips \/ PollerDies
  <2>1. dropped' \in [Ops -> Reasons]
    BY <1>6, DropType DEF PollerDropsOnStop, PollerSkips, PollerDies, Reasons
  <2>2. ServiceTypeOK'
    BY <1>6, <2>1 DEF PollerDropsOnStop, PollerSkips, PollerDies, ServiceTypeOK, pushVars
  <2> QED
    BY <1>6, <2>2, PollerType DEF PollerDropsOnStop, PollerSkips, PollerDies
<1>7. CASE PollerSubmits
  <2>1. pollOperation \in Ops
    BY <1>7 DEF PollerSubmits, Poller!SubmitOperation, Poller!TypeOK, Poller!Goto
  <2>2. Runner!TypeOK'
    BY <1>7, <2>1, ScheduledItem, RunnerType DEF PollerSubmits, ScheduleOperation
  <2>3. ServiceTypeOK'
    BY <1>7 DEF PollerSubmits
  <2> QED
    BY <1>7, <2>2, <2>3, PollerType DEF PollerSubmits
<1> QED
  BY <1>2, <1>3, <1>4, <1>5, <1>6, <1>7 DEF PollerStep

\* Only an operation of the orchestrator has a result: the operations of the
\* timers are mapped to methods that have none.
LEMMA ResultIsOfOps ==
  ASSUME NEW i \in OpItems, HasResult(ItemPath(i))
  PROVE  i.op \in Ops
<1>1. CASE i.via = "timer"
  <2>1. i.op \in Timers /\ ItemPath(i) = i.op
    BY <1>1 DEF OpItems, ItemPath
  <2>2. i.op \in Mapped /\ i.op \notin {"execute", "health", "metrics", "logs"}
    BY <2>1, EgressAgentServiceAssumption DEF Mapped
  <2> QED
    BY <2>1, <2>2 DEF HasResult
<1>2. CASE i.via # "timer"
  BY <1>2 DEF OpItems
<1> QED
  BY <1>1, <1>2

LEMMA RunnerStepType ==
  ASSUME TypeOK, NEW w \in Runner!Workers, RunnerAdvances(w) \/ Execute(w)
  PROVE  TypeOK'
<1> SUFFICES Runner!TypeOK' /\ Publisher!TypeOK' /\ Poller!TypeOK' /\ ServiceTypeOK'
  BY TypeOKParts, PTL
<1>1. Runner!TypeOK /\ Publisher!TypeOK /\ Poller!TypeOK /\ ServiceTypeOK
  BY TypeOKParts
<1>2. Runner!TypeOK'
  BY <1>1, RunnerType
     DEF RunnerAdvances, Execute, ExecuteWithResult, ExecuteWithoutResult
<1> USE <1>1, <1>2, Unchanged
<1>3. CASE RunnerAdvances(w)
  BY <1>3 DEF RunnerAdvances
<1>4. CASE ExecuteWithResult(w)
  <2>1. opsJob[w] \in OpItems
    BY <1>4 DEF Runner!TypeOK, ExecuteWithResult, Runner!Return
  <2>2. opsJob[w].op \in Ops
    BY <1>4, <2>1, ResultIsOfOps DEF ExecuteWithResult
  <2>3. Publisher!TypeOK'
    BY <1>4, <2>2, PublisherType DEF ExecuteWithResult
  <2> QED
    BY <1>4, <2>3 DEF ExecuteWithResult
<1>5. CASE ExecuteWithoutResult(w)
  <2>1. dropped' \in [Ops -> Reasons]
    BY <1>5, DropType DEF ExecuteWithoutResult, Reasons, ServiceTypeOK
  <2>2. ServiceTypeOK'
    BY <1>5, <2>1 DEF ExecuteWithoutResult, ServiceTypeOK, pushVars
  <2> QED
    BY <1>5, <2>2 DEF ExecuteWithoutResult
<1> QED
  BY <1>3, <1>4, <1>5 DEF Execute

LEMMA PushType ==
  ASSUME TypeOK, NEW w \in Publisher!Workers, Push(w)
  PROVE  TypeOK'
<1> SUFFICES Runner!TypeOK' /\ Publisher!TypeOK' /\ Poller!TypeOK' /\ ServiceTypeOK'
  BY TypeOKParts, PTL
<1>1. Runner!TypeOK /\ Publisher!TypeOK /\ Poller!TypeOK /\ ServiceTypeOK
  BY TypeOKParts
<1> USE <1>1, Unchanged, EgressAgentServiceAssumption
<1>2. ASSUME TryAgainOrGiveUp(w)
      PROVE  Publisher!TypeOK' /\ tries' \in [Publisher!Workers -> 0 .. PushTries - 1]
  <2>1. tries \in [Publisher!Workers -> 0 .. PushTries - 1]
    BY DEF ServiceTypeOK
  <2>2. CASE tries[w] + 1 < PushTries
    BY <1>2, <2>1, <2>2 DEF TryAgainOrGiveUp
  <2>3. CASE ~(tries[w] + 1 < PushTries)
    BY <1>2, <2>1, <2>3, PublisherType DEF TryAgainOrGiveUp
  <2> QED
    BY <2>2, <2>3
<1>3. CASE PushFails(w)
  <2>1. dropped' \in [Ops -> Reasons]
    BY <1>3, DropType DEF PushFails, Reasons, ServiceTypeOK
  <2>2. ServiceTypeOK'
    BY <1>2, <1>3, <2>1 DEF PushFails, ServiceTypeOK
  <2> QED
    BY <1>2, <1>3, <2>2 DEF PushFails
<1>4. ASSUME NEW next \in Piggybacked, PushSucceeds(w, next)
      PROVE  Runner!TypeOK' /\ Publisher!TypeOK' /\ Poller!TypeOK' /\ ServiceTypeOK'
  <2>1. Publisher!TypeOK'
    BY <1>4, PublisherType DEF PushSucceeds
  <2>2. orch' \in [Ops -> {"absent", "pending", "assigned", "answered"}]
    BY <1>4 DEF PushSucceeds, Answered, ServiceTypeOK
  <2>3. tries' \in [Publisher!Workers -> 0 .. PushTries - 1]
    BY <1>4 DEF PushSucceeds, ServiceTypeOK
  <2>4. carry' \in [Publisher!Workers -> Ops \cup {NoOp}]
    BY <1>4 DEF PushSucceeds, ServiceTypeOK, Piggybacked
  <2>5. ServiceTypeOK'
    BY <1>4, <2>2, <2>3, <2>4 DEF PushSucceeds, ServiceTypeOK
  <2> QED
    BY <1>4, <2>1, <2>5 DEF PushSucceeds
<1>5. ASSUME NEW next \in Piggybacked, PushResponseLost(w, next)
      PROVE  Runner!TypeOK' /\ Publisher!TypeOK' /\ Poller!TypeOK' /\ ServiceTypeOK'
  <2>1. dropped' \in [Ops -> Reasons]
    BY <1>5, DropType DEF PushResponseLost, Reasons, ServiceTypeOK
  <2>2. orch' \in [Ops -> {"absent", "pending", "assigned", "answered"}]
    BY <1>5 DEF PushResponseLost, Answered, ServiceTypeOK
  <2>3. ServiceTypeOK'
    BY <1>2, <1>5, <2>1, <2>2 DEF PushResponseLost, ServiceTypeOK
  <2> QED
    BY <1>2, <1>5, <2>3 DEF PushResponseLost
<1> QED
  BY <1>3, <1>4, <1>5 DEF Push

LEMMA PiggybackType ==
  ASSUME TypeOK, NEW w \in Publisher!Workers, HandlePiggybacked(w)
  PROVE  TypeOK'
<1> SUFFICES Runner!TypeOK' /\ Publisher!TypeOK' /\ Poller!TypeOK' /\ ServiceTypeOK'
  BY TypeOKParts, PTL
<1>1. Runner!TypeOK /\ Publisher!TypeOK /\ Poller!TypeOK /\ ServiceTypeOK
  BY TypeOKParts
<1> USE <1>1, Unchanged
<1>2. PiggybackEnds(w) /\ UNCHANGED <<svc, pollVars, tries, orch, fired>>
  BY DEF HandlePiggybacked, SubmitPiggybacked, SkipPiggybacked, FailPiggybacked
<1>3. Publisher!TypeOK' /\ Poller!TypeOK'
  BY <1>2, PublisherType DEF PiggybackEnds
<1>4. dropped' \in [Ops -> Reasons]
  BY DropType DEF HandlePiggybacked, SubmitPiggybacked, SkipPiggybacked, FailPiggybacked,
                  Reasons, ServiceTypeOK
<1>5. ServiceTypeOK'
  BY <1>2, <1>4 DEF PiggybackEnds, ServiceTypeOK
<1>6. CASE SubmitPiggybacked(w)
  <2>1. carry[w] \in Ops
    BY <1>2 DEF PiggybackEnds, ServiceTypeOK
  <2>2. Runner!TypeOK'
    BY <1>6, <2>1, ScheduledItem, RunnerType DEF SubmitPiggybacked, ScheduleOperation
  <2> QED
    BY <1>3, <1>5, <2>2
<1>7. CASE SkipPiggybacked(w) \/ FailPiggybacked(w)
  BY <1>3, <1>5, <1>7 DEF SkipPiggybacked, FailPiggybacked
<1> QED
  BY <1>6, <1>7 DEF HandlePiggybacked

\* The remaining steps: of the orchestrator, of the events client, of a timer,
\* and of a publisher thread that has no result to push.
LEMMA OtherStepType ==
  ASSUME TypeOK,
         \/ \E o \in Ops : Enqueue(o)
         \/ NotifyWorkAvailable
         \/ \E t \in Timers : TimerFires(t)
         \/ \E w \in Publisher!Workers : PublisherAdvances(w)
  PROVE  TypeOK'
<1> SUFFICES Runner!TypeOK' /\ Publisher!TypeOK' /\ Poller!TypeOK' /\ ServiceTypeOK'
  BY TypeOKParts, PTL
<1>1. Runner!TypeOK /\ Publisher!TypeOK /\ Poller!TypeOK /\ ServiceTypeOK
  BY TypeOKParts
<1> USE <1>1, Unchanged
<1>2. CASE \E o \in Ops : Enqueue(o)
  <2>1. ServiceTypeOK'
    BY <1>2 DEF Enqueue, ServiceTypeOK, pushVars
  <2> QED
    BY <1>2, <2>1 DEF Enqueue
<1>3. CASE NotifyWorkAvailable
  BY <1>3, PollerType DEF NotifyWorkAvailable
<1>4. ASSUME NEW t \in Timers, TimerFires(t)
      PROVE  Runner!TypeOK' /\ Publisher!TypeOK' /\ Poller!TypeOK' /\ ServiceTypeOK'
  <2>1. ServiceTypeOK'
    BY <1>4, EgressAgentServiceAssumption DEF TimerFires, ServiceTypeOK, pushVars
  <2>2. Runner!TypeOK'
    BY <1>4, ScheduledItem, RunnerType DEF TimerFires, ScheduleOperation
  <2> QED
    BY <1>4, <2>1, <2>2 DEF TimerFires
<1>5. CASE \E w \in Publisher!Workers : PublisherAdvances(w)
  BY <1>5, PublisherType DEF PublisherAdvances
<1> QED
  BY <1>2, <1>3, <1>4, <1>5

LEMMA NextTypeOK == TypeOK /\ [Next]_vars => TypeOK'
<1> SUFFICES ASSUME TypeOK, [Next]_vars
             PROVE  TypeOK'
  OBVIOUS
<1>1. CASE UNCHANGED vars
  <2>1. Runner!TypeOK' /\ Publisher!TypeOK' /\ Poller!TypeOK' /\ ServiceTypeOK'
    BY <1>1, TypeOKParts, Unchanged DEF vars
  <2> QED
    BY <2>1, TypeOKParts, PTL
<1>2. CASE Next
  BY <1>2, StartStopType, PollerStepType, RunnerStepType, PushType, PiggybackType,
     OtherStepType DEF Next
<1> QED
  BY <1>1, <1>2

\* The variables of the service always have the values of their types.
THEOREM ServiceTypeCorrect == Spec => []TypeOK
  BY InitTypeOK, NextTypeOK, PTL DEF Spec

-----------------------------------------------------------------------------
\* The polled operations of a queue, by position.
Polled(q) == {i \in DOMAIN q : q[i].via = "poll"}

LEMMA PolledFinite ==
  ASSUME NEW q \in Seq(OpItems)
  PROVE  /\ IsFiniteSet(Polled(q))
         /\ Cardinality(Polled(q)) \in Nat
         /\ Cardinality(Polled(q)) <= Len(q)
<1>1. Len(q) \in Nat /\ DOMAIN q = 1 .. Len(q)
  BY LenProperties
<1>2. IsFiniteSet(1 .. Len(q)) /\ Cardinality(1 .. Len(q)) = Len(q)
  BY <1>1, FS_Interval
<1>3. Polled(q) \in SUBSET (1 .. Len(q))
  BY <1>1 DEF Polled
<1>4. IsFiniteSet(Polled(q)) /\ Cardinality(Polled(q)) <= Len(q)
  BY <1>2, <1>3, FS_Subset
<1> QED
  BY <1>4, FS_CardinalityType

\* Taking the oldest operation adds no polled one: the positions of the polled
\* operations that remain map one to one to the positions they had.
LEMMA PolledTail ==
  ASSUME NEW q \in Seq(OpItems), q # <<>>
  PROVE  Cardinality(Polled(Tail(q))) <= Cardinality(Polled(q))
<1>1. /\ Tail(q) \in Seq(OpItems)
      /\ Len(Tail(q)) = Len(q) - 1
      /\ \A i \in 1 .. Len(Tail(q)) : Tail(q)[i] = q[i + 1]
  BY HeadTailProperties
<1>2. /\ Len(q) \in Nat
      /\ DOMAIN q = 1 .. Len(q)
      /\ DOMAIN Tail(q) = 1 .. Len(Tail(q))
  BY <1>1, LenProperties
<1> DEFINE shift == [i \in Polled(Tail(q)) |-> i + 1]
<1>3. \A i \in Polled(Tail(q)) : i \in Int /\ i + 1 \in Polled(q)
  BY <1>1, <1>2 DEF Polled
<1>4. shift \in Injection(Polled(Tail(q)), Polled(q))
  BY <1>3 DEF Injection, IsInjective
<1> QED
  BY <1>4, PolledFinite, FS_Injection

\* Scheduling an operation adds one polled operation if it was polled.
LEMMA PolledAppend ==
  ASSUME NEW q \in Seq(OpItems), NEW item \in OpItems
  PROVE  Cardinality(Polled(Append(q, item)))
             = Cardinality(Polled(q)) + (IF item.via = "poll" THEN 1 ELSE 0)
<1> DEFINE r == Append(q, item)
<1>1. /\ r \in Seq(OpItems)
      /\ Len(r) = Len(q) + 1
      /\ \A i \in 1 .. Len(q) : r[i] = q[i]
      /\ r[Len(q) + 1] = item
  BY AppendProperties
<1>2. /\ Len(q) \in Nat
      /\ DOMAIN q = 1 .. Len(q)
      /\ DOMAIN r = 1 .. Len(r)
  BY <1>1, LenProperties
<1>3. CASE item.via = "poll"
  <2>1. Polled(r) = Polled(q) \cup {Len(q) + 1}
    BY <1>1, <1>2, <1>3 DEF Polled
  <2>2. Len(q) + 1 \notin Polled(q)
    BY <1>2 DEF Polled
  <2> QED
    BY <1>3, <2>1, <2>2, PolledFinite, FS_AddElement
<1>4. CASE item.via # "poll"
  <2>1. Polled(r) = Polled(q)
    BY <1>1, <1>2, <1>4 DEF Polled
  <2> QED
    BY <1>4, <2>1, PolledFinite
<1> QED
  BY <1>3, <1>4

-----------------------------------------------------------------------------
\* PolledWithinCapacity is not inductive: it needs that the room the poller
\* looked for is still there when it submits what it fetched since.  It is,
\* because others only take polled operations from the queue.
RoomIsKept == pollPc \in {"fetch", "inner", "submit"}
                  => Cardinality(PolledInQueue) < Runner!ThreadCount

CapacityInv == PolledWithinCapacity /\ RoomIsKept

\* A step that adds no polled operation, and does not bring the poller past
\* the look at the capacity, keeps the invariant.
LEMMA NoMorePolled ==
  ASSUME TypeOK, TypeOK', CapacityInv,
         Cardinality(PolledInQueue') <= Cardinality(PolledInQueue),
         pollPc' \in {"fetch", "inner", "submit"}
             => pollPc \in {"fetch", "inner", "submit"}
  PROVE  CapacityInv'
<1>1. /\ Cardinality(PolledInQueue) \in Nat
      /\ Cardinality(PolledInQueue') \in Nat
  <2>1. opsQueue \in Seq(OpItems) /\ opsQueue' \in Seq(OpItems)
    BY DEF TypeOK, Runner!TypeOK
  <2>2. PolledInQueue = Polled(opsQueue) /\ PolledInQueue' = Polled(opsQueue')
    BY DEF PolledInQueue, Polled
  <2> QED
    BY <2>1, <2>2, PolledFinite
<1>2. Runner!ThreadCount \in Nat
  BY EgressAgentServiceAssumption DEF Runner!ThreadCount
<1> QED
  BY <1>1, <1>2 DEF CapacityInv, PolledWithinCapacity, RoomIsKept

\* What the poller's steps other than a submission do to its control state.
LEMMA PollerControl ==
  ASSUME \/ UNCHANGED pollVars
         \/ Poller!Start
         \/ Poller!Stop
         \/ Poller!NotifyWorkAvailable
         \/ Poller!FetchNothing
         \/ Poller!DropOnStop
         \/ Poller!SubmitOperation
         \/ Poller!SubmitRaises
         \/ \E o \in Ops : Poller!FetchOperation(o)
         \/ PollerOnly /\ pollPc \notin {"gate", "regate"}
  PROVE  pollPc' \in {"fetch", "inner", "submit"}
             => pollPc \in {"fetch", "inner", "submit"}
  BY DEF pollVars, Poller!Start, Poller!Stop, Poller!NotifyWorkAvailable, Poller!Woken,
         Poller!FetchNothing, Poller!DropOnStop, Poller!SubmitOperation,
         Poller!SubmitRaises, Poller!FetchOperation, Poller!Goto, PollerOnly,
         Poller!CheckRunning, Poller!CheckBackpressure, Poller!SendHeartbeat,
         Poller!EnterSubmit, Poller!RecheckBackpressure, Poller!WaitForWork,
         Poller!PollIntervalReached

\* What each step that may touch the runner's queue does to it.
LEMMA RunnerQueueKept ==
  ASSUME \/ UNCHANGED opsVars \/ Runner!Start \/ Runner!Stop
         \/ \E w \in Runner!Workers : Runner!Return(w)
  PROVE  PolledInQueue' = PolledInQueue
  BY DEF opsVars, Runner!Start, Runner!Stop, Runner!Return, PolledInQueue

LEMMA RunnerQueueShrinks ==
  ASSUME TypeOK, NEW w \in Runner!Workers, Runner!Advance(w)
  PROVE  Cardinality(PolledInQueue') <= Cardinality(PolledInQueue)
<1>1. opsQueue \in Seq(OpItems)
  BY DEF TypeOK, Runner!TypeOK
<1>2. CASE opsQueue' = opsQueue
  BY <1>1, <1>2, PolledFinite DEF PolledInQueue, Polled
<1>3. CASE Runner!Pop(w)
  BY <1>1, <1>3, PolledTail DEF Runner!Pop, PolledInQueue, Polled
<1> QED
  BY <1>2, <1>3 DEF Runner!Advance, Runner!CheckRunning, Runner!Wait, Runner!Quit

LEMMA RunnerQueueGrows ==
  ASSUME TypeOK, NEW item \in OpItems, Runner!Schedule(item)
  PROVE  Cardinality(PolledInQueue')
             = Cardinality(PolledInQueue) + (IF item.via = "poll" THEN 1 ELSE 0)
  BY PolledAppend DEF TypeOK, Runner!TypeOK, Runner!Schedule, PolledInQueue, Polled

LEMMA NextCapacity ==
  TypeOK /\ TypeOK' /\ CapacityInv /\ [Next]_vars => CapacityInv'
<1> SUFFICES ASSUME TypeOK, TypeOK', CapacityInv, [Next]_vars
             PROVE  CapacityInv'
  OBVIOUS
<1>1. /\ Cardinality(PolledInQueue) \in Nat
      /\ Cardinality(PolledInQueue) <= Len(opsQueue)
      /\ Len(opsQueue) \in Nat
      /\ Runner!ThreadCount \in Nat
  <2>1. opsQueue \in Seq(OpItems) /\ PolledInQueue = Polled(opsQueue)
    BY DEF TypeOK, Runner!TypeOK, PolledInQueue, Polled
  <2> QED
    BY <2>1, PolledFinite, LenProperties, EgressAgentServiceAssumption
       DEF Runner!ThreadCount
<1>2. CASE UNCHANGED opsVars \/ Runner!Start \/ Runner!Stop
             \/ \E w \in Runner!Workers : Runner!Return(w)
  <2>1. PolledInQueue' = PolledInQueue
    BY <1>2, RunnerQueueKept
  <2>2. CASE pollPc \in {"gate", "regate"} /\ PollerOnly
    <3>1. pollPc' \in {"fetch", "inner", "submit"} => CanAcceptWork
      BY <2>2 DEF PollerOnly, Poller!CheckRunning, Poller!CheckBackpressure,
                  Poller!SendHeartbeat, Poller!EnterSubmit, Poller!RecheckBackpressure,
                  Poller!WaitForWork, Poller!PollIntervalReached, Poller!Goto
    <3>2. CanAcceptWork => Cardinality(PolledInQueue) < Runner!ThreadCount
      BY <1>1 DEF CanAcceptWork, Runner!QueueDepth
    <3> QED
      BY <2>1, <3>1, <3>2 DEF CapacityInv, PolledWithinCapacity, RoomIsKept
  <2>3. CASE ~(pollPc \in {"gate", "regate"} /\ PollerOnly)
    <3>1. pollPc' \in {"fetch", "inner", "submit"}
              => pollPc \in {"fetch", "inner", "submit"}
      <4>1. CASE UNCHANGED pollVars
        BY <4>1, PollerControl
      <4>2. CASE StartStop
        BY <4>2, PollerControl DEF StartStop, StartRunner, StartPublisher, StartPoller,
                                   StopRunner, StopPublisher, StopPoller
      <4>3. CASE PollerStep
        BY <2>3, <4>3, PollerControl
           DEF PollerStep, PollerFetches, PollerLosesResponse, PollerFetchesNothing,
               PollerDropsOnStop, PollerSkips, PollerSubmits, PollerDies, PollerOnly
      <4>4. CASE NotifyWorkAvailable
        BY <4>4, PollerControl DEF NotifyWorkAvailable
      <4> QED
        BY <4>1, <4>2, <4>3, <4>4
           DEF Next, vars, Enqueue, TimerFires, RunnerAdvances, Execute,
               ExecuteWithResult, ExecuteWithoutResult, PublisherAdvances, Push,
               PushFails, PushSucceeds, PushResponseLost, HandlePiggybacked,
               SubmitPiggybacked, SkipPiggybacked, FailPiggybacked
    <3> QED
      BY <1>1, <2>1, <3>1, NoMorePolled
  <2> QED
    BY <2>2, <2>3
<1>3. ASSUME NEW w \in Runner!Workers, RunnerAdvances(w)
      PROVE  CapacityInv'
  <2>1. Cardinality(PolledInQueue') <= Cardinality(PolledInQueue)
    BY <1>3, RunnerQueueShrinks DEF RunnerAdvances
  <2> QED
    BY <1>3, <2>1, PollerControl, NoMorePolled DEF RunnerAdvances
<1>4. CASE PollerSubmits
  <2>1. pollOperation \in Ops /\ pollPc = "submit" /\ pollPc' = "regate"
    BY <1>4 DEF PollerSubmits, Poller!SubmitOperation, Poller!Goto, TypeOK, Poller!TypeOK
  <2>2. [op |-> pollOperation, via |-> "poll"] \in OpItems
    BY <2>1, ScheduledItem
  <2>3. Runner!Schedule([op |-> pollOperation, via |-> "poll"])
    BY <1>4 DEF PollerSubmits, ScheduleOperation
  <2>4. Cardinality(PolledInQueue') = Cardinality(PolledInQueue) + 1
    BY <2>2, <2>3, RunnerQueueGrows
  <2> QED
    BY <1>1, <2>1, <2>4 DEF CapacityInv, PolledWithinCapacity, RoomIsKept
<1>5. ASSUME NEW t \in Timers, TimerFires(t)
      PROVE  CapacityInv'
  <2>1. Cardinality(PolledInQueue') = Cardinality(PolledInQueue) + 0
    BY <1>5, ScheduledItem, RunnerQueueGrows DEF TimerFires, ScheduleOperation
  <2> QED
    BY <1>1, <1>5, <2>1, PollerControl, NoMorePolled DEF TimerFires
<1>6. ASSUME NEW w \in Publisher!Workers, SubmitPiggybacked(w)
      PROVE  CapacityInv'
  <2>1. carry[w] \in Ops
    BY <1>6 DEF SubmitPiggybacked, PiggybackEnds, TypeOK
  <2>2. Cardinality(PolledInQueue') = Cardinality(PolledInQueue) + 0
    BY <1>6, <2>1, ScheduledItem, RunnerQueueGrows DEF SubmitPiggybacked, ScheduleOperation
  <2> QED
    BY <1>1, <1>6, <2>2, PollerControl, NoMorePolled DEF SubmitPiggybacked
<1> QED
  <2>1. \/ UNCHANGED opsVars
        \/ Runner!Start
        \/ Runner!Stop
        \/ \E w \in Runner!Workers : Runner!Return(w) \/ RunnerAdvances(w)
        \/ PollerSubmits
        \/ \E t \in Timers : TimerFires(t)
        \/ \E w \in Publisher!Workers : SubmitPiggybacked(w)
    BY DEF Next, vars, StartStop, StartRunner, StartPublisher, StartPoller, StopRunner,
           StopPublisher, StopPoller, Enqueue, PollerStep, PollerOnly, PollerFetches,
           PollerLosesResponse, PollerFetchesNothing, PollerDropsOnStop, PollerSkips,
           PollerDies, NotifyWorkAvailable, Execute, ExecuteWithResult,
           ExecuteWithoutResult, PublisherAdvances, Push, PushFails, PushSucceeds,
           PushResponseLost, HandlePiggybacked, SkipPiggybacked, FailPiggybacked
  <2> QED
    BY <1>2, <1>3, <1>4, <1>5, <1>6, <2>1

\* The poller never has more operations waiting in the runner's queue than the
\* runner has threads.
THEOREM BackpressureHolds == Spec => []PolledWithinCapacity
<1>1. Init => CapacityInv
  <2> SUFFICES ASSUME Init PROVE CapacityInv
    OBVIOUS
  <2>1. PolledInQueue = {} /\ pollPc = "new"
    BY DEF Init, Runner!Init, Poller!Init, PolledInQueue
  <2>2. Runner!ThreadCount \in Nat
    BY EgressAgentServiceAssumption DEF Runner!ThreadCount
  <2> QED
    BY <2>1, <2>2, FS_EmptySet DEF CapacityInv, PolledWithinCapacity, RoomIsKept
<1>2. CapacityInv => PolledWithinCapacity
  BY DEF CapacityInv
<1> QED
  BY <1>1, <1>2, NextCapacity, ServiceTypeCorrect, PTL DEF Spec

-----------------------------------------------------------------------------
\* The queue processors, in the service.

\* What the flow of operations does with the runner: schedule an Operation, or
\* let one of its threads go on.
UsesRunner == \/ \E i \in OpItems : Runner!Schedule(i)
              \/ \E w \in Runner!Workers : Runner!Advance(w) \/ Runner!Return(w)

UsesPublisher == \/ \E o \in Ops : Publisher!Schedule(o)
                 \/ \E w \in Publisher!Workers : Publisher!Advance(w) \/ Publisher!Return(w)

LEMMA FlowUsesProcessors ==
  ASSUME TypeOK, Next, ~StartStop
  PROVE  /\ svc' = svc
         /\ UsesRunner \/ UNCHANGED opsVars
         /\ UsesPublisher \/ UNCHANGED resVars
<1>1. CASE PollerStep /\ ~PollerSubmits
  BY <1>1 DEF PollerStep, PollerOnly, PollerFetches, PollerLosesResponse,
       PollerFetchesNothing, PollerDropsOnStop, PollerSkips, PollerDies
<1>2. CASE PollerSubmits
  <2>1. pollOperation \in Ops
    BY <1>2 DEF PollerSubmits, Poller!SubmitOperation, TypeOK, Poller!TypeOK, Poller!Goto
  <2>2. UsesRunner
    BY <1>2, <2>1, ScheduledItem DEF PollerSubmits, ScheduleOperation, UsesRunner
  <2> QED
    BY <1>2, <2>2 DEF PollerSubmits
<1>3. CASE NotifyWorkAvailable \/ \E o \in Ops : Enqueue(o)
  BY <1>3 DEF NotifyWorkAvailable, Enqueue
<1>4. ASSUME NEW t \in Timers, TimerFires(t)
      PROVE  svc' = svc /\ UsesRunner /\ UNCHANGED resVars
  BY <1>4, ScheduledItem DEF TimerFires, ScheduleOperation, UsesRunner
<1>5. ASSUME NEW w \in Runner!Workers, RunnerAdvances(w) \/ ExecuteWithoutResult(w)
      PROVE  svc' = svc /\ UsesRunner /\ UNCHANGED resVars
  BY <1>5 DEF RunnerAdvances, ExecuteWithoutResult, UsesRunner
<1>6. ASSUME NEW w \in Runner!Workers, ExecuteWithResult(w)
      PROVE  svc' = svc /\ UsesRunner /\ UsesPublisher
  <2>1. opsJob[w] \in OpItems
    BY <1>6 DEF TypeOK, Runner!TypeOK, ExecuteWithResult, Runner!Return
  <2>2. opsJob[w].op \in Ops
    BY <1>6, <2>1, ResultIsOfOps DEF ExecuteWithResult
  <2> QED
    BY <1>6, <2>2 DEF ExecuteWithResult, UsesRunner, UsesPublisher
<1>7. ASSUME NEW w \in Publisher!Workers, PublisherAdvances(w) \/ Push(w)
      PROVE  svc' = svc /\ UNCHANGED opsVars /\ (UsesPublisher \/ UNCHANGED resVars)
  BY <1>7 DEF PublisherAdvances, Push, PushFails, PushSucceeds, PushResponseLost,
       TryAgainOrGiveUp, UsesPublisher
<1>8. ASSUME NEW w \in Publisher!Workers, HandlePiggybacked(w)
      PROVE  svc' = svc /\ (UsesRunner \/ UNCHANGED opsVars) /\ UsesPublisher
  <2>1. carry[w] \in Ops
    BY <1>8 DEF HandlePiggybacked, SubmitPiggybacked, SkipPiggybacked, FailPiggybacked,
         PiggybackEnds, TypeOK
  <2> QED
    BY <1>8, <2>1, ScheduledItem DEF HandlePiggybacked, SubmitPiggybacked, SkipPiggybacked,
         FailPiggybacked, PiggybackEnds, ScheduleOperation, UsesRunner, UsesPublisher
<1> QED
  BY <1>1, <1>2, <1>3, <1>4, <1>5, <1>6, <1>7, <1>8 DEF Next, Execute

\* stop() finds the threads of both processors started.
ProcessorsInv == /\ svc # "new" => Runner!Started
                 /\ svc \notin {"new", "runner_up"} => Publisher!Started

\* The service is a client of each processor.
LEMMA NextUsesRunner ==
  TypeOK /\ ProcessorsInv /\ [Next]_vars => [Runner!OpenNext]_(Runner!vars)
<1> SUFFICES ASSUME TypeOK, ProcessorsInv, [Next]_vars
             PROVE  Runner!OpenNext \/ UNCHANGED opsVars
  BY DEF Runner!vars, opsVars
<1>1. CASE StartStop
  <2>1. CASE StartRunner
    BY <2>1 DEF StartRunner, Runner!OpenNext
  <2>2. CASE StopRunner
    BY <2>2 DEF StopRunner, Phase, ProcessorsInv, Runner!OpenNext
  <2> QED
    BY <1>1, <2>1, <2>2 DEF StartStop, StartPublisher, StartPoller, StopPublisher, StopPoller
<1>2. CASE Next /\ ~StartStop
  BY <1>2, FlowUsesProcessors DEF UsesRunner, Runner!OpenNext
<1>3. CASE UNCHANGED vars
  BY <1>3 DEF vars
<1> QED
  BY <1>1, <1>2, <1>3

LEMMA NextUsesPublisher ==
  TypeOK /\ ProcessorsInv /\ [Next]_vars => [Publisher!OpenNext]_(Publisher!vars)
<1> SUFFICES ASSUME TypeOK, ProcessorsInv, [Next]_vars
             PROVE  Publisher!OpenNext \/ UNCHANGED resVars
  BY DEF Publisher!vars, resVars
<1>1. CASE StartStop
  <2>1. CASE StartPublisher
    BY <2>1 DEF StartPublisher, Publisher!OpenNext
  <2>2. CASE StopPublisher
    BY <2>2 DEF StopPublisher, Phase, ProcessorsInv, Publisher!OpenNext
  <2> QED
    BY <1>1, <2>1, <2>2 DEF StartStop, StartRunner, StartPoller, StopRunner, StopPoller
<1>2. CASE Next /\ ~StartStop
  BY <1>2, FlowUsesProcessors DEF UsesPublisher, Publisher!OpenNext
<1>3. CASE UNCHANGED vars
  BY <1>3 DEF vars
<1> QED
  BY <1>1, <1>2, <1>3

\* What RunnerFacts calls the runner is what the service calls so.
LEMMA RunnerIsTheSame ==
  /\ Runner!TypeOK <=> RunnerFacts!TypeOK
  /\ Runner!Init <=> RunnerFacts!Init
  /\ Runner!Started <=> RunnerFacts!Started
  /\ Runner!Started' <=> RunnerFacts!Started'
  /\ [Runner!OpenNext]_(Runner!vars) <=> [RunnerFacts!OpenNext]_(RunnerFacts!vars)
  /\ Runner!NoLostWakeup <=> RunnerFacts!NoLostWakeup
  /\ Runner!Pool!Init <=> RunnerFacts!Pool!Init
  /\ [Runner!Pool!Next]_(Runner!Pool!vars) <=> [RunnerFacts!Pool!Next]_(RunnerFacts!Pool!vars)
  BY DEF Runner!ThreadCount, RunnerFacts!ThreadCount, Runner!Workers,
         RunnerFacts!Workers, Runner!Control, RunnerFacts!Control, Runner!TypeOK,
         RunnerFacts!TypeOK, Runner!Init, RunnerFacts!Init, Runner!Started,
         RunnerFacts!Started, Runner!NotifyAll, RunnerFacts!NotifyAll, Runner!Start,
         RunnerFacts!Start, Runner!Stop, RunnerFacts!Stop, Runner!Schedule,
         RunnerFacts!Schedule, Runner!CheckRunning, RunnerFacts!CheckRunning,
         Runner!Wait, RunnerFacts!Wait, Runner!Quit, RunnerFacts!Quit, Runner!Pop,
         RunnerFacts!Pop, Runner!Advance, RunnerFacts!Advance, Runner!Return,
         RunnerFacts!Return, Runner!OpenNext, RunnerFacts!OpenNext, Runner!vars,
         RunnerFacts!vars, Runner!NoLostWakeup, RunnerFacts!NoLostWakeup, Runner!Phase,
         RunnerFacts!Phase, Runner!Pool!Init, RunnerFacts!Pool!Init, Runner!Pool!Next,
         RunnerFacts!Pool!Next, Runner!Pool!vars, RunnerFacts!Pool!vars,
         Runner!Pool!Open, RunnerFacts!Pool!Open, Runner!Pool!Close,
         RunnerFacts!Pool!Close, Runner!Pool!Submit, RunnerFacts!Pool!Submit,
         Runner!Pool!Take, RunnerFacts!Pool!Take, Runner!Pool!Finish,
         RunnerFacts!Pool!Finish

\* What PublisherFacts calls the publisher is what the service calls so.
LEMMA PublisherIsTheSame ==
  /\ Publisher!TypeOK <=> PublisherFacts!TypeOK
  /\ Publisher!Init <=> PublisherFacts!Init
  /\ Publisher!Started <=> PublisherFacts!Started
  /\ Publisher!Started' <=> PublisherFacts!Started'
  /\ [Publisher!OpenNext]_(Publisher!vars) <=> [PublisherFacts!OpenNext]_(PublisherFacts!vars)
  /\ Publisher!NoLostWakeup <=> PublisherFacts!NoLostWakeup
  /\ Publisher!Pool!Init <=> PublisherFacts!Pool!Init
  /\ [Publisher!Pool!Next]_(Publisher!Pool!vars)
         <=> [PublisherFacts!Pool!Next]_(PublisherFacts!Pool!vars)
  BY DEF Publisher!ThreadCount, PublisherFacts!ThreadCount, Publisher!Workers,
         PublisherFacts!Workers, Publisher!Control, PublisherFacts!Control,
         Publisher!TypeOK, PublisherFacts!TypeOK, Publisher!Init, PublisherFacts!Init,
         Publisher!Started, PublisherFacts!Started, Publisher!NotifyAll,
         PublisherFacts!NotifyAll, Publisher!Start, PublisherFacts!Start,
         Publisher!Stop, PublisherFacts!Stop, Publisher!Schedule,
         PublisherFacts!Schedule, Publisher!CheckRunning, PublisherFacts!CheckRunning,
         Publisher!Wait, PublisherFacts!Wait, Publisher!Quit, PublisherFacts!Quit,
         Publisher!Pop, PublisherFacts!Pop, Publisher!Advance, PublisherFacts!Advance,
         Publisher!Return, PublisherFacts!Return, Publisher!OpenNext,
         PublisherFacts!OpenNext, Publisher!vars, PublisherFacts!vars,
         Publisher!NoLostWakeup, PublisherFacts!NoLostWakeup, Publisher!Phase,
         PublisherFacts!Phase, Publisher!Pool!Init, PublisherFacts!Pool!Init,
         Publisher!Pool!Next, PublisherFacts!Pool!Next, Publisher!Pool!vars,
         PublisherFacts!Pool!vars, Publisher!Pool!Open, PublisherFacts!Pool!Open,
         Publisher!Pool!Close, PublisherFacts!Pool!Close, Publisher!Pool!Submit,
         PublisherFacts!Pool!Submit, Publisher!Pool!Take, PublisherFacts!Pool!Take,
         Publisher!Pool!Finish, PublisherFacts!Pool!Finish

\* What the theorems of each processor assume of its constants.
LEMMA ProcessorConstants ==
  /\ OpsRunnerThreads \in Int /\ NoOp \notin OpItems
  /\ PublisherThreads \in Int /\ NoOp \notin Ops
  BY EgressAgentServiceAssumption

LEMMA NextProcessorsInv ==
  ASSUME TypeOK, ProcessorsInv, [Next]_vars
  PROVE  ProcessorsInv'
<1>1. Runner!Started => Runner!Started'
  BY NextUsesRunner, RunnerIsTheSame, ProcessorConstants, RunnerFacts!StartedStays
     DEF TypeOK
<1>2. Publisher!Started => Publisher!Started'
  BY NextUsesPublisher, PublisherIsTheSame, ProcessorConstants, PublisherFacts!StartedStays
     DEF TypeOK
<1>3. CASE StartStop
  <2>1. CASE StartRunner
    BY <2>1 DEF StartRunner, Phase, Runner!Start, Runner!Started, ProcessorsInv
  <2>2. CASE StartPublisher
    BY <1>1, <2>2 DEF StartPublisher, Phase, Publisher!Start, Publisher!Started, ProcessorsInv
  <2>3. CASE ~StartRunner /\ ~StartPublisher
    BY <1>1, <1>2, <1>3, <2>3
       DEF StartStop, StartPoller, StopRunner, StopPublisher, StopPoller, Phase, ProcessorsInv
  <2> QED
    BY <2>1, <2>2, <2>3
<1>4. CASE ~StartStop
  <2>1. svc' = svc
    BY <1>4, FlowUsesProcessors DEF vars
  <2> QED
    BY <1>1, <1>2, <2>1 DEF ProcessorsInv
<1> QED
  BY <1>3, <1>4

LEMMA ProcessorsAreOpen ==
  Spec => RunnerFacts!OpenSpec /\ PublisherFacts!OpenSpec
<1>1. Init => RunnerFacts!Init /\ PublisherFacts!Init /\ ProcessorsInv
  BY RunnerIsTheSame, PublisherIsTheSame DEF Init, ProcessorsInv
<1>2. TypeOK /\ ProcessorsInv /\ [Next]_vars
          => /\ ProcessorsInv'
             /\ [RunnerFacts!OpenNext]_(RunnerFacts!vars)
             /\ [PublisherFacts!OpenNext]_(PublisherFacts!vars)
  BY NextProcessorsInv, NextUsesRunner, NextUsesPublisher, RunnerIsTheSame, PublisherIsTheSame
<1> QED
  BY <1>1, <1>2, ServiceTypeCorrect, PTL
     DEF Spec, RunnerFacts!OpenSpec, PublisherFacts!OpenSpec

\* In the agent, whoever schedules, the runner is a first-in first-out pool, and
\* begins nothing once stop() has reached it.
THEOREM RunnerImplementsPool == Spec => RunnerIsPool
<1>1. Spec => RunnerFacts!PoolSpec
  BY ProcessorsAreOpen, ProcessorConstants, RunnerFacts!OpenPool, PTL
<1>2. RunnerFacts!PoolSpec => Runner!PoolSpec
  BY RunnerIsTheSame, PTL
     DEF Runner!PoolSpec, Runner!Pool!Spec, RunnerFacts!PoolSpec, RunnerFacts!Pool!Spec
<1> QED
  BY <1>1, <1>2 DEF RunnerIsPool

\* The publisher is one too, whatever its threads do between their tries.
THEOREM PublisherImplementsPool == Spec => PublisherIsPool
<1>1. Spec => PublisherFacts!PoolSpec
  BY ProcessorsAreOpen, ProcessorConstants, PublisherFacts!OpenPool, PTL
<1>2. PublisherFacts!PoolSpec => Publisher!PoolSpec
  BY PublisherIsTheSame, PTL
     DEF Publisher!PoolSpec, Publisher!Pool!Spec, PublisherFacts!PoolSpec,
         PublisherFacts!Pool!Spec
<1> QED
  BY <1>1, <1>2 DEF PublisherIsPool

\* In the agent, no thread of the runner or of the publisher sleeps while it has
\* something to do or its processor was stopped.
THEOREM AgentLosesNoWakeup == Spec => [](Runner!NoLostWakeup /\ Publisher!NoLostWakeup)
<1>1. Spec => []RunnerFacts!NoLostWakeup /\ []PublisherFacts!NoLostWakeup
  BY ProcessorsAreOpen, ProcessorConstants, RunnerFacts!OpenWakeups,
     PublisherFacts!OpenWakeups, PTL
<1> QED
  BY <1>1, RunnerIsTheSame, PublisherIsTheSame, PTL

-----------------------------------------------------------------------------
\* No work begins after stop().

\* stop() has cleared the flags of the processors it has come past.
FlagsInv == /\ svc \in {"runner_down", "publisher_down", "down"} => ~opsRunning
            /\ svc \in {"publisher_down", "down"} => ~resRunning

\* Only start() and stop() move the service and set the flags of the processors.
LEMMA OnlyStartStopMoves ==
  ASSUME Next, ~StartStop
  PROVE  UNCHANGED <<svc, opsRunning, resRunning>>
<1> USE DEF opsVars, resVars, pollVars, pushVars
<1>1. CASE PollerStep
  BY <1>1 DEF PollerStep, PollerOnly, PollerFetches, PollerLosesResponse,
       PollerFetchesNothing, PollerDropsOnStop, PollerSkips, PollerSubmits, PollerDies,
       ScheduleOperation, Runner!Schedule
<1>2. CASE NotifyWorkAvailable \/ \E o \in Ops : Enqueue(o)
  BY <1>2 DEF NotifyWorkAvailable, Enqueue
<1>3. CASE \E t \in Timers : TimerFires(t)
  BY <1>3 DEF TimerFires, ScheduleOperation, Runner!Schedule
<1>4. CASE \E w \in Runner!Workers : RunnerAdvances(w)
  BY <1>4 DEF RunnerAdvances, Runner!Advance, Runner!CheckRunning, Runner!Wait,
       Runner!Quit, Runner!Pop
<1>5. CASE \E w \in Runner!Workers : Execute(w)
  BY <1>5 DEF Execute, ExecuteWithResult, ExecuteWithoutResult, Runner!Return,
       Publisher!Schedule
<1>6. CASE \E w \in Publisher!Workers : PublisherAdvances(w)
  BY <1>6 DEF PublisherAdvances, Publisher!Advance, Publisher!CheckRunning,
       Publisher!Wait, Publisher!Quit, Publisher!Pop
<1>7. CASE \E w \in Publisher!Workers : Push(w)
  BY <1>7 DEF Push, PushFails, PushSucceeds, PushResponseLost, TryAgainOrGiveUp,
       Publisher!Return
<1>8. CASE \E w \in Publisher!Workers : HandlePiggybacked(w)
  BY <1>8 DEF HandlePiggybacked, SubmitPiggybacked, SkipPiggybacked, FailPiggybacked,
       PiggybackEnds, Publisher!Return, ScheduleOperation, Runner!Schedule
<1> QED
  BY <1>1, <1>2, <1>3, <1>4, <1>5, <1>6, <1>7, <1>8 DEF Next

\* The service's own steps neither start a queue processor after stop() was
\* called nor go back behind it.
LEMMA ServiceStaysDown ==
  ASSUME TypeOK, FlagsInv, [Next]_vars
  PROVE  FlagsInv' /\ (svc = "down" => svc' = "down")
<1> USE DEF FlagsInv, opsVars, resVars, pollVars, pushVars
<1>1. CASE StartStop
  <2>1. CASE StartRunner \/ StopRunner
    BY <2>1 DEF StartRunner, StopRunner, Phase, Runner!Start, Runner!Stop
  <2>2. CASE StartPublisher \/ StopPublisher
    BY <2>2 DEF StartPublisher, StopPublisher, Phase, Publisher!Start, Publisher!Stop
  <2>3. CASE StartPoller \/ StopPoller
    BY <2>3 DEF StartPoller, StopPoller, Phase
  <2> QED
    BY <1>1, <2>1, <2>2, <2>3 DEF StartStop
<1>2. CASE Next /\ ~StartStop
  BY <1>2, OnlyStartStopMoves
<1>3. CASE UNCHANGED vars
  BY <1>3 DEF vars
<1> QED
  BY <1>1, <1>2, <1>3

\* A step of the service takes work from neither queue once both processors
\* are stopped: a thread at most gives up what it holds.
LEMMA StoppedTakesNothing ==
  ASSUME TypeOK, ~opsRunning, ~resRunning, [Next]_vars
  PROVE  /\ \A w \in Runner!Workers : opsJob'[w] \in {opsJob[w], NoOp}
         /\ \A w \in Publisher!Workers : resJob'[w] \in {resJob[w], NoOp}
<1> USE DEF TypeOK, Runner!TypeOK, Publisher!TypeOK, opsVars, resVars, pollVars, pushVars
<1>1. CASE StartStop
  BY <1>1 DEF StartStop, StartRunner, StartPublisher, StartPoller, StopRunner,
       StopPublisher, StopPoller, Runner!Start, Runner!Stop, Publisher!Start, Publisher!Stop
<1>2. CASE PollerStep
  BY <1>2 DEF PollerStep, PollerOnly, PollerFetches, PollerLosesResponse,
       PollerFetchesNothing, PollerDropsOnStop, PollerSkips, PollerSubmits, PollerDies,
       ScheduleOperation, Runner!Schedule
<1>3. CASE NotifyWorkAvailable \/ \E o \in Ops : Enqueue(o)
  BY <1>3 DEF NotifyWorkAvailable, Enqueue
<1>4. CASE \E t \in Timers : TimerFires(t)
  BY <1>4 DEF TimerFires, ScheduleOperation, Runner!Schedule
<1>5. CASE \E w \in Runner!Workers : RunnerAdvances(w)
  BY <1>5 DEF RunnerAdvances, Runner!Advance, Runner!CheckRunning, Runner!Wait,
       Runner!Quit, Runner!Pop
<1>6. CASE \E w \in Runner!Workers : Execute(w)
  BY <1>6 DEF Execute, ExecuteWithResult, ExecuteWithoutResult, Runner!Return,
       Publisher!Schedule
<1>7. CASE \E w \in Publisher!Workers : PublisherAdvances(w)
  BY <1>7 DEF PublisherAdvances, Publisher!Advance, Publisher!CheckRunning,
       Publisher!Wait, Publisher!Quit, Publisher!Pop
<1>8. CASE \E w \in Publisher!Workers : Push(w)
  BY <1>8 DEF Push, PushFails, PushSucceeds, PushResponseLost, TryAgainOrGiveUp,
       Publisher!Return
<1>9. CASE \E w \in Publisher!Workers : HandlePiggybacked(w)
  BY <1>9 DEF HandlePiggybacked, SubmitPiggybacked, SkipPiggybacked, FailPiggybacked,
       PiggybackEnds, Publisher!Return, ScheduleOperation, Runner!Schedule
<1>10. CASE UNCHANGED vars
  BY <1>10 DEF vars
<1> QED
  BY <1>1, <1>2, <1>3, <1>4, <1>5, <1>6, <1>7, <1>8, <1>9, <1>10 DEF Next

LEMMA FlagsHold == Spec => []FlagsInv
<1>1. Init => FlagsInv
  BY DEF Init, FlagsInv
<1>2. TypeOK /\ FlagsInv /\ [Next]_vars => FlagsInv'
  BY ServiceStaysDown
<1> QED
  BY <1>1, <1>2, ServiceTypeCorrect, PTL DEF Spec

\* Once stop() has returned no thread begins an operation, or the push of a
\* result, that was still queued, however many of them there are.
THEOREM NothingBegins == Spec => NothingBegunAfterStop
<1>1. TypeOK /\ FlagsInv /\ [Next]_vars =>
          [svc = "down" => /\ \A w \in Runner!Workers : opsJob'[w] \in {opsJob[w], NoOp}
                           /\ \A w \in Publisher!Workers : resJob'[w] \in {resJob[w], NoOp}]_vars
  BY StoppedTakesNothing DEF FlagsInv
<1> QED
  BY <1>1, ServiceTypeCorrect, FlagsHold, PTL DEF Spec, NothingBegunAfterStop
=============================================================================
