----------------------- MODULE OperationLifecycle_proofs -----------------------
(***************************************************************************)
(* Theorems about module EgressAgentService: no operation is lost or       *)
(* duplicated inside the agent (Accounted), and the life of an operation   *)
(* is the one of module OperationLifecycle (LifecycleSpec), for any number *)
(* of operations, threads, tries and timers.                               *)
(*                                                                         *)
(* Both follow from one fact: for each operation, every step of the        *)
(* service is one of the ten moves below, which say how the numbers of     *)
(* places it is in change with the orchestrator's record of it.            *)
(***************************************************************************)
EXTENDS EgressAgentService_proofs

-----------------------------------------------------------------------------
\* Counting the places of a value: in a queue, or in the hands of threads.

Bit(b) == IF b THEN 1 ELSE 0

Where(f, S) == {i \in DOMAIN f : f[i] \in S}

LEMMA WhereFinite ==
  ASSUME NEW n \in Nat, NEW f, DOMAIN f = 1 .. n, NEW S
  PROVE  IsFiniteSet(Where(f, S)) /\ Cardinality(Where(f, S)) \in Nat
<1>1. IsFiniteSet(1 .. n)
  BY FS_Interval
<1>2. Where(f, S) \in SUBSET (1 .. n)
  BY DEF Where
<1> QED
  BY <1>1, <1>2, FS_Subset, FS_CardinalityType

\* A thread that exchanges what it holds.
LEMMA WhereExcept ==
  ASSUME NEW n \in Nat, NEW f, NEW g, DOMAIN f = 1 .. n, DOMAIN g = 1 .. n,
         NEW w \in 1 .. n, \A v \in (1 .. n) \ {w} : g[v] = f[v], NEW S
  PROVE  Cardinality(Where(g, S))
             = Cardinality(Where(f, S)) + Bit(g[w] \in S) - Bit(f[w] \in S)
<1> DEFINE rest == Where(f, S) \ {w}
<1>1. IsFiniteSet(Where(f, S)) /\ Cardinality(Where(f, S)) \in Nat
  BY WhereFinite
<1>2. /\ IsFiniteSet(rest)
      /\ Cardinality(rest) \in Int
      /\ Cardinality(rest) = Cardinality(Where(f, S)) - Bit(f[w] \in S)
  <2>1. w \in Where(f, S) <=> f[w] \in S
    BY DEF Where
  <2>2. /\ IsFiniteSet(rest)
        /\ Cardinality(rest) = IF w \in Where(f, S) THEN Cardinality(Where(f, S)) - 1
                                                   ELSE Cardinality(Where(f, S))
    BY <1>1, FS_RemoveElement
  <2> QED
    BY <1>1, <2>1, <2>2 DEF Bit
<1>3. CASE g[w] \in S
  <2>1. Where(g, S) = rest \cup {w}
    BY <1>3 DEF Where
  <2>2. Cardinality(Where(g, S)) = Cardinality(rest) + 1
    BY <1>2, <2>1, FS_AddElement
  <2>3. Bit(g[w] \in S) = 1 /\ Bit(f[w] \in S) \in Int
    BY <1>3 DEF Bit
  <2> HIDE DEF rest
  <2> QED
    BY <1>1, <1>2, <2>2, <2>3
<1>4. CASE g[w] \notin S
  <2>1. Where(g, S) = rest
    BY <1>4 DEF Where
  <2>2. Bit(g[w] \in S) = 0 /\ Bit(f[w] \in S) \in Int
    BY <1>4 DEF Bit
  <2> HIDE DEF rest
  <2> QED
    BY <1>1, <1>2, <2>1, <2>2
<1> QED
  BY <1>3, <1>4

LEMMA WhereAppend ==
  ASSUME NEW T, NEW q \in Seq(T), NEW x \in T, NEW S
  PROVE  Cardinality(Where(Append(q, x), S)) = Cardinality(Where(q, S)) + Bit(x \in S)
<1> DEFINE r == Append(q, x)
<1>1. /\ Len(q) \in Nat
      /\ DOMAIN q = 1 .. Len(q)
      /\ DOMAIN r = 1 .. (Len(q) + 1)
      /\ \A i \in 1 .. Len(q) : r[i] = q[i]
      /\ r[Len(q) + 1] = x
  BY AppendProperties, LenProperties
<1>2. IsFiniteSet(Where(q, S)) /\ Cardinality(Where(q, S)) \in Nat
  BY <1>1, WhereFinite
<1>3. CASE x \in S
  <2>1. Where(r, S) = Where(q, S) \cup {Len(q) + 1}
    BY <1>1, <1>3 DEF Where
  <2>2. Len(q) + 1 \notin Where(q, S)
    BY <1>1 DEF Where
  <2> QED
    BY <1>2, <1>3, <2>1, <2>2, FS_AddElement DEF Bit
<1>4. CASE x \notin S
  <2>1. Where(r, S) = Where(q, S)
    BY <1>1, <1>4 DEF Where
  <2> QED
    BY <1>2, <1>4, <2>1 DEF Bit
<1> QED
  BY <1>3, <1>4

\* The positions in the tail map one to one to those in the queue but the first.
LEMMA WhereTail ==
  ASSUME NEW T, NEW q \in Seq(T), q # <<>>, NEW S
  PROVE  Cardinality(Where(Tail(q), S)) = Cardinality(Where(q, S)) - Bit(Head(q) \in S)
<1> DEFINE rest == Where(q, S) \ {1}
           shift == [i \in Where(Tail(q), S) |-> i + 1]
<1>1. /\ Len(q) \in Nat \ {0}
      /\ DOMAIN q = 1 .. Len(q)
      /\ DOMAIN Tail(q) = 1 .. (Len(q) - 1)
      /\ \A i \in 1 .. (Len(q) - 1) : Tail(q)[i] = q[i + 1]
      /\ Head(q) = q[1]
  BY HeadTailProperties, LenProperties, EmptySeq
<1>2. IsFiniteSet(Where(q, S)) /\ Cardinality(Where(q, S)) \in Nat
  BY <1>1, WhereFinite
<1>3. /\ IsFiniteSet(rest)
      /\ Cardinality(rest) = Cardinality(Where(q, S)) - Bit(Head(q) \in S)
  <2>1. 1 \in Where(q, S) <=> Head(q) \in S
    BY <1>1 DEF Where
  <2>2. /\ IsFiniteSet(rest)
        /\ Cardinality(rest) = IF 1 \in Where(q, S) THEN Cardinality(Where(q, S)) - 1
                                                   ELSE Cardinality(Where(q, S))
    BY <1>2, FS_RemoveElement
  <2> QED
    BY <1>2, <2>1, <2>2 DEF Bit
<1>4. IsFiniteSet(Where(Tail(q), S))
  <2>1. Len(q) - 1 \in Nat
    BY <1>1
  <2> QED
    BY <1>1, <2>1, WhereFinite
<1>5. shift \in Bijection(Where(Tail(q), S), rest)
  <2>1. \A i \in Where(Tail(q), S) : i \in Int /\ i + 1 \in rest
    BY <1>1 DEF Where
  <2>2. \A j \in rest : j - 1 \in Where(Tail(q), S) /\ (j - 1) + 1 = j
    BY <1>1 DEF Where
  <2> QED
    BY <2>1, <2>2 DEF Bijection, Injection, IsInjective, Surjection
<1> QED
  BY <1>3, <1>4, <1>5, FS_Bijection DEF ExistsBijection

-----------------------------------------------------------------------------
\* The places of an operation in the service.

Queued(o) == Cardinality(QueuedAt(o))
Carried(o) == Cardinality(CarriedBy(o))
Resulting(o) == Cardinality(ResultAt(o))
Pushed(o) == Cardinality(PushedBy(o))

\* What the runner is given to execute the operation.
ItemsOf(o) == {item \in OpItems : item.op = o}

LEMMA ThreadCounts ==
  /\ Runner!ThreadCount \in Nat /\ Runner!Workers = 1 .. Runner!ThreadCount
  /\ Publisher!ThreadCount \in Nat /\ Publisher!Workers = 1 .. Publisher!ThreadCount
  BY EgressAgentServiceAssumption
     DEF Runner!ThreadCount, Runner!Workers, Publisher!ThreadCount, Publisher!Workers

Places == \A o \in Ops : /\ QueuedAt(o) = Where(opsQueue, ItemsOf(o))
                         /\ RunBy(o) = Where(opsJob, ItemsOf(o))
                         /\ ResultAt(o) = Where(resQueue, {o})
                         /\ PushedBy(o) = Where(resJob, {o})
                         /\ CarriedBy(o) = Where(carry, {o})

LEMMA PlacesAreWhere == TypeOK => Places
<1> SUFFICES ASSUME TypeOK, NEW o \in Ops
             PROVE  /\ QueuedAt(o) = Where(opsQueue, ItemsOf(o))
                    /\ RunBy(o) = Where(opsJob, ItemsOf(o))
                    /\ ResultAt(o) = Where(resQueue, {o})
                    /\ PushedBy(o) = Where(resJob, {o})
                    /\ CarriedBy(o) = Where(carry, {o})
  BY DEF Places
<1> USE EgressAgentServiceAssumption
<1>1. QueuedAt(o) = Where(opsQueue, ItemsOf(o))
  <2>1. \A i \in DOMAIN opsQueue : opsQueue[i] \in OpItems
    BY LenProperties DEF TypeOK, Runner!TypeOK
  <2> QED
    BY <2>1 DEF QueuedAt, Where, ItemsOf
<1>2. RunBy(o) = Where(opsJob, ItemsOf(o))
  BY DEF RunBy, Where, ItemsOf, TypeOK, Runner!TypeOK
<1>3. ResultAt(o) = Where(resQueue, {o})
  BY DEF ResultAt, Where
<1>4. PushedBy(o) = Where(resJob, {o}) /\ CarriedBy(o) = Where(carry, {o})
  BY DEF PushedBy, CarriedBy, Where, TypeOK, Publisher!TypeOK
<1> QED
  BY <1>1, <1>2, <1>3, <1>4

LEMMA CountsAreNat ==
  ASSUME TypeOK, NEW o \in Ops
  PROVE  /\ Queued(o) \in Nat /\ Running(o) \in Nat
         /\ Resulting(o) \in Nat /\ Pushed(o) \in Nat /\ Carried(o) \in Nat
<1>1. /\ Len(opsQueue) \in Nat /\ DOMAIN opsQueue = 1 .. Len(opsQueue)
      /\ Len(resQueue) \in Nat /\ DOMAIN resQueue = 1 .. Len(resQueue)
  BY LenProperties DEF TypeOK, Runner!TypeOK, Publisher!TypeOK
<1>2. /\ DOMAIN opsJob = 1 .. Runner!ThreadCount
      /\ DOMAIN resJob = 1 .. Publisher!ThreadCount
      /\ DOMAIN carry = 1 .. Publisher!ThreadCount
  BY ThreadCounts DEF TypeOK, Runner!TypeOK, Publisher!TypeOK
<1> QED
  BY <1>1, <1>2, PlacesAreWhere, WhereFinite, ThreadCounts
     DEF Places, Queued, Running, Resulting, Pushed, Carried

\* What the steps of the runner do to the places of an operation.
LEMMA RunnerMoves ==
  ASSUME TypeOK, TypeOK', NEW o \in Ops
  PROVE  /\ UNCHANGED opsVars \/ Runner!Start \/ Runner!Stop
                => Queued(o)' = Queued(o) /\ Running(o)' = Running(o)
         /\ \A item \in OpItems :
                Runner!Schedule(item) => /\ Queued(o)' = Queued(o) + Bit(item.op = o)
                                         /\ Running(o)' = Running(o)
         /\ \A w \in Runner!Workers :
                Runner!Advance(w) =>
                    \/ Queued(o)' = Queued(o) /\ Running(o)' = Running(o)
                    \/ Queued(o)' = Queued(o) - 1 /\ Running(o)' = Running(o) + 1
         /\ \A w \in Runner!Workers :
                Runner!Return(w) => /\ Queued(o)' = Queued(o)
                                    /\ opsJob[w] \in OpItems
                                    /\ Running(o)' = Running(o) - Bit(opsJob[w].op = o)
<1>1. /\ Queued(o) = Cardinality(Where(opsQueue, ItemsOf(o)))
      /\ Running(o) = Cardinality(Where(opsJob, ItemsOf(o)))
      /\ Queued(o)' = Cardinality(Where(opsQueue', ItemsOf(o)))
      /\ Running(o)' = Cardinality(Where(opsJob', ItemsOf(o)))
  <2>1. Places /\ Places'
    BY PlacesAreWhere, PTL
  <2> QED
    BY <2>1 DEF Places, ItemsOf, Queued, Running
<1>2. /\ opsQueue \in Seq(OpItems)
      /\ opsJob \in [1 .. Runner!ThreadCount -> OpItems \cup {NoOp}]
      /\ opsJob' \in [1 .. Runner!ThreadCount -> OpItems \cup {NoOp}]
      /\ NoOp \notin ItemsOf(o)
      /\ Queued(o) \in Nat /\ Running(o) \in Nat
  BY CountsAreNat, ThreadCounts, EgressAgentServiceAssumption
     DEF TypeOK, Runner!TypeOK, ItemsOf
<1>3. \A item \in OpItems : Bit(item \in ItemsOf(o)) = Bit(item.op = o)
  BY DEF ItemsOf, Bit
<1>4. UNCHANGED opsVars \/ Runner!Start \/ Runner!Stop
          => Queued(o)' = Queued(o) /\ Running(o)' = Running(o)
  BY <1>1 DEF opsVars, Runner!Start, Runner!Stop
<1>5. ASSUME NEW item \in OpItems, Runner!Schedule(item)
      PROVE  Queued(o)' = Queued(o) + Bit(item.op = o) /\ Running(o)' = Running(o)
  BY <1>1, <1>2, <1>3, <1>5, WhereAppend DEF Runner!Schedule
<1>6. ASSUME NEW w \in Runner!Workers, Runner!Advance(w)
      PROVE  \/ Queued(o)' = Queued(o) /\ Running(o)' = Running(o)
             \/ Queued(o)' = Queued(o) - 1 /\ Running(o)' = Running(o) + 1
  <2>1. CASE Runner!CheckRunning(w) \/ Runner!Wait(w) \/ Runner!Quit(w)
    BY <1>1, <2>1 DEF Runner!CheckRunning, Runner!Wait, Runner!Quit
  <2>2. CASE Runner!Pop(w)
    <3> DEFINE b == Bit(Head(opsQueue) \in ItemsOf(o))
    <3>1. Queued(o)' = Queued(o) - b
      BY <1>1, <1>2, <2>2, WhereTail DEF Runner!Pop
    <3>2. opsJob[w] = NoOp
      BY <2>2 DEF Runner!Pop, TypeOK, Runner!TypeOK
    <3>3. Running(o)' = Running(o) + b - Bit(NoOp \in ItemsOf(o))
      <4>1. /\ opsJob'[w] = Head(opsQueue) /\ w \in 1 .. Runner!ThreadCount
            /\ \A v \in (1 .. Runner!ThreadCount) \ {w} : opsJob'[v] = opsJob[v]
        BY <1>2, <2>2, ThreadCounts DEF Runner!Pop
      <4> QED
        BY <1>1, <1>2, <3>2, <4>1, ThreadCounts, WhereExcept
    <3>4. Bit(NoOp \in ItemsOf(o)) = 0 /\ b \in {0, 1}
      BY <1>2 DEF Bit
    <3> HIDE DEF b
    <3> QED
      BY <1>2, <3>1, <3>3, <3>4
  <2> QED
    BY <1>6, <2>1, <2>2 DEF Runner!Advance
<1>7. ASSUME NEW w \in Runner!Workers, Runner!Return(w)
      PROVE  /\ Queued(o)' = Queued(o)
             /\ opsJob[w] \in OpItems
             /\ Running(o)' = Running(o) - Bit(opsJob[w].op = o)
  <2>1. opsJob[w] \in OpItems
    BY <1>7 DEF Runner!Return, TypeOK, Runner!TypeOK
  <2>2. Running(o)' = Running(o) + Bit(NoOp \in ItemsOf(o)) - Bit(opsJob[w] \in ItemsOf(o))
    <3>1. /\ opsJob'[w] = NoOp /\ w \in 1 .. Runner!ThreadCount
          /\ \A v \in (1 .. Runner!ThreadCount) \ {w} : opsJob'[v] = opsJob[v]
      BY <1>2, <1>7, ThreadCounts DEF Runner!Return
    <3> QED
      BY <1>1, <1>2, <3>1, ThreadCounts, WhereExcept
  <2>3. Bit(NoOp \in ItemsOf(o)) = 0 /\ Bit(opsJob[w].op = o) \in {0, 1}
    BY <1>2 DEF Bit
  <2>4. Queued(o)' = Queued(o)
    BY <1>1, <1>7 DEF Runner!Return
  <2> QED
    BY <1>2, <1>3, <2>1, <2>2, <2>3, <2>4
<1> QED
  BY <1>4, <1>5, <1>6, <1>7

\* The same of the publisher.
LEMMA PublisherMoves ==
  ASSUME TypeOK, TypeOK', NEW o \in Ops
  PROVE  /\ UNCHANGED resVars \/ Publisher!Start \/ Publisher!Stop
                => Resulting(o)' = Resulting(o) /\ Pushed(o)' = Pushed(o)
         /\ \A p \in Ops :
                Publisher!Schedule(p) => /\ Resulting(o)' = Resulting(o) + Bit(p = o)
                                         /\ Pushed(o)' = Pushed(o)
         /\ \A w \in Publisher!Workers :
                Publisher!Advance(w) =>
                    ToPush(o)' = ToPush(o)
         /\ \A w \in Publisher!Workers :
                Publisher!Return(w) => /\ Resulting(o)' = Resulting(o)
                                       /\ Pushed(o)' = Pushed(o) - Bit(resJob[w] = o)
<1>1. /\ Resulting(o) = Cardinality(Where(resQueue, {o}))
      /\ Pushed(o) = Cardinality(Where(resJob, {o}))
      /\ Resulting(o)' = Cardinality(Where(resQueue', {o}))
      /\ Pushed(o)' = Cardinality(Where(resJob', {o}))
  <2>1. Places /\ Places'
    BY PlacesAreWhere, PTL
  <2> QED
    BY <2>1 DEF Places, ItemsOf, Resulting, Pushed
<1>2. /\ resQueue \in Seq(Ops)
      /\ resJob \in [1 .. Publisher!ThreadCount -> Ops \cup {NoOp}]
      /\ resJob' \in [1 .. Publisher!ThreadCount -> Ops \cup {NoOp}]
      /\ NoOp # o
      /\ Resulting(o) \in Nat /\ Pushed(o) \in Nat
  BY CountsAreNat, ThreadCounts, EgressAgentServiceAssumption DEF TypeOK, Publisher!TypeOK
<1>3. \A p : Bit(p \in {o}) = Bit(p = o) /\ Bit(p = o) \in {0, 1}
  BY DEF Bit
<1>4. UNCHANGED resVars \/ Publisher!Start \/ Publisher!Stop
          => Resulting(o)' = Resulting(o) /\ Pushed(o)' = Pushed(o)
  BY <1>1 DEF resVars, Publisher!Start, Publisher!Stop
<1>5. ASSUME NEW p \in Ops, Publisher!Schedule(p)
      PROVE  Resulting(o)' = Resulting(o) + Bit(p = o) /\ Pushed(o)' = Pushed(o)
  BY <1>1, <1>2, <1>3, <1>5, WhereAppend DEF Publisher!Schedule
<1>6. ASSUME NEW w \in Publisher!Workers, Publisher!Advance(w)
      PROVE  ToPush(o)' = ToPush(o)
  <2>1. ToPush(o) = Resulting(o) + Pushed(o) /\ ToPush(o)' = Resulting(o)' + Pushed(o)'
    BY DEF ToPush, Resulting, Pushed
  <2>2. CASE Publisher!CheckRunning(w) \/ Publisher!Wait(w) \/ Publisher!Quit(w)
    BY <1>1, <2>1, <2>2 DEF Publisher!CheckRunning, Publisher!Wait, Publisher!Quit
  <2>3. CASE Publisher!Pop(w)
    <3>1. Resulting(o)' = Resulting(o) - Bit(Head(resQueue) = o)
      BY <1>1, <1>2, <1>3, <2>3, WhereTail DEF Publisher!Pop
    <3>2. resJob[w] = NoOp
      BY <2>3 DEF Publisher!Pop, TypeOK, Publisher!TypeOK
    <3>3. Pushed(o)' = Pushed(o) + Bit(Head(resQueue) = o) - Bit(NoOp = o)
      <4>1. /\ resJob'[w] = Head(resQueue) /\ w \in 1 .. Publisher!ThreadCount
            /\ \A v \in (1 .. Publisher!ThreadCount) \ {w} : resJob'[v] = resJob[v]
        BY <1>2, <2>3, ThreadCounts DEF Publisher!Pop
      <4> QED
        BY <1>1, <1>2, <1>3, <3>2, <4>1, ThreadCounts, WhereExcept
    <3>4. Bit(NoOp = o) = 0
      BY <1>2 DEF Bit
    <3> QED
      BY <1>2, <1>3, <2>1, <3>1, <3>3, <3>4
  <2> QED
    BY <1>6, <2>2, <2>3 DEF Publisher!Advance
<1>7. ASSUME NEW w \in Publisher!Workers, Publisher!Return(w)
      PROVE  /\ Resulting(o)' = Resulting(o)
             /\ Pushed(o)' = Pushed(o) - Bit(resJob[w] = o)
  <2>1. Pushed(o)' = Pushed(o) + Bit(NoOp = o) - Bit(resJob[w] = o)
    <3>1. /\ resJob'[w] = NoOp /\ w \in 1 .. Publisher!ThreadCount
          /\ \A v \in (1 .. Publisher!ThreadCount) \ {w} : resJob'[v] = resJob[v]
      BY <1>2, <1>7, ThreadCounts DEF Publisher!Return
    <3> QED
      BY <1>1, <1>2, <1>3, <3>1, ThreadCounts, WhereExcept
  <2>2. Bit(NoOp = o) = 0
    BY <1>2 DEF Bit
  <2>3. Resulting(o)' = Resulting(o)
    BY <1>1, <1>7 DEF Publisher!Return
  <2> QED
    BY <1>2, <1>3, <2>1, <2>2, <2>3
<1> QED
  BY <1>4, <1>5, <1>6, <1>7

\* And of a publisher thread that takes or lets go of a piggybacked operation.
LEMMA CarryMoves ==
  ASSUME TypeOK, TypeOK', NEW o \in Ops
  PROVE  /\ UNCHANGED carry => Carried(o)' = Carried(o)
         /\ \A w \in Publisher!Workers, x \in Ops \cup {NoOp} :
                carry' = [carry EXCEPT ![w] = x]
                    => Carried(o)' = Carried(o) + Bit(x = o) - Bit(carry[w] = o)
<1>1. /\ Carried(o) = Cardinality(Where(carry, {o}))
      /\ Carried(o)' = Cardinality(Where(carry', {o}))
  <2>1. Places /\ Places'
    BY PlacesAreWhere, PTL
  <2> QED
    BY <2>1 DEF Places, ItemsOf, Carried
<1>2. /\ carry \in [1 .. Publisher!ThreadCount -> Ops \cup {NoOp}]
      /\ carry' \in [1 .. Publisher!ThreadCount -> Ops \cup {NoOp}]
      /\ Carried(o) \in Nat
  BY CountsAreNat, ThreadCounts DEF TypeOK
<1>3. \A p : Bit(p \in {o}) = Bit(p = o)
  BY DEF Bit
<1>4. ASSUME NEW w \in Publisher!Workers, NEW x \in Ops \cup {NoOp},
             carry' = [carry EXCEPT ![w] = x]
      PROVE  Carried(o)' = Carried(o) + Bit(x = o) - Bit(carry[w] = o)
  <2>1. /\ carry'[w] = x /\ w \in 1 .. Publisher!ThreadCount
        /\ \A v \in (1 .. Publisher!ThreadCount) \ {w} : carry'[v] = carry[v]
    BY <1>2, <1>4, ThreadCounts
  <2> QED
    BY <1>1, <1>2, <1>3, <2>1, ThreadCounts, WhereExcept
<1> QED
  BY <1>1, <1>4

\* The three numbers that the properties speak of.
Totals(o) == /\ ToRun(o) = Bit(pollOperation = o) + Queued(o) + Carried(o)
             /\ ToPush(o) = Resulting(o) + Pushed(o)
             /\ Queued(o) \in Nat /\ Carried(o) \in Nat
             /\ Resulting(o) \in Nat /\ Pushed(o) \in Nat
             /\ Bit(pollOperation = o) \in Nat
             /\ ToRun(o) \in Nat /\ Running(o) \in Nat /\ ToPush(o) \in Nat

AllTotals == \A o \in Ops : Totals(o)

LEMMA TotalsHold == TypeOK => AllTotals
<1> SUFFICES ASSUME TypeOK, NEW o \in Ops
             PROVE  Totals(o)
  BY DEF AllTotals
<1>1. /\ ToRun(o) = Bit(pollOperation = o) + Queued(o) + Carried(o)
      /\ ToPush(o) = Resulting(o) + Pushed(o)
  BY DEF ToRun, ToPush, InPoller, Bit, Queued, Carried, Resulting, Pushed
<1>2. Bit(pollOperation = o) \in Nat
  BY DEF Bit
<1> QED
  BY <1>1, <1>2, CountsAreNat DEF Totals

-----------------------------------------------------------------------------
\* What a step may do to an operation: its places, the orchestrator's record
\* of it, and whether the agent lets go of it.

Shift(o, toRun, running, toPush) == /\ ToRun(o)' = ToRun(o) + toRun
                                    /\ Running(o)' = Running(o) + running
                                    /\ ToPush(o)' = ToPush(o) + toPush

Recorded(o, from, to) == orch[o] = from /\ orch'[o] = to
SameRecord(o) == orch'[o] = orch[o]
Kept(o) == dropped'[o] = dropped[o]
LetGo(o) == dropped'[o] # "none"

IsLeftAlone(o) == Shift(o, 0, 0, 0) /\ SameRecord(o) /\ Kept(o)
IsEnqueued(o) == Shift(o, 0, 0, 0) /\ Recorded(o, "absent", "pending") /\ Kept(o)
IsAccepted(o) == Shift(o, 1, 0, 0) /\ Recorded(o, "pending", "assigned") /\ Kept(o)
IsLostOnTheWay(o) == Shift(o, 0, 0, 0) /\ Recorded(o, "pending", "assigned") /\ LetGo(o)
IsGivenUp(o) == Shift(o, -1, 0, 0) /\ SameRecord(o) /\ LetGo(o)
IsStarted(o) == Shift(o, -1, 1, 0) /\ SameRecord(o) /\ Kept(o)
IsExecuted(o) == Shift(o, 0, -1, 1) /\ SameRecord(o) /\ Kept(o)
HasNoResult(o) == Shift(o, 0, -1, 0) /\ SameRecord(o) /\ LetGo(o)
IsAnswered(o) == /\ ToPush(o) > 0
                 /\ Shift(o, 0, 0, 0) \/ Shift(o, 0, 0, -1)
                 /\ orch'[o] = "answered"
                 /\ Kept(o)
IsForgotten(o) == /\ Shift(o, 0, 0, -1)
                  /\ SameRecord(o)
                  /\ IF orch[o] = "answered" THEN Kept(o) ELSE LetGo(o)

Move(o) == \/ IsLeftAlone(o) \/ IsEnqueued(o) \/ IsAccepted(o) \/ IsLostOnTheWay(o)
           \/ IsGivenUp(o) \/ IsStarted(o) \/ IsExecuted(o) \/ HasNoResult(o)
           \/ IsAnswered(o) \/ IsForgotten(o)

\* Accounted, for one operation.
Held(o) == ToRun(o) + Running(o) + ToPush(o)

AccountOf(o) == /\ orch[o] \in {"absent", "pending"} => Held(o) = 0 /\ dropped[o] = "none"
                /\ orch[o] = "assigned" => Held(o) = Bit(dropped[o] = "none")
                /\ orch[o] = "answered" => /\ Held(o) <= 1
                                           /\ Held(o) = ToPush(o)
                                           /\ dropped[o] = "none"

\* A publisher thread holds a piggybacked operation only after the answer it
\* pushed was recorded, and until its handler returns.
CarryInv == \A w \in Publisher!Workers :
                carry[w] # NoOp => resPc[w] = "handling" /\ orch[resJob[w]] = "answered"

AccountInv == (\A o \in Ops : AccountOf(o)) /\ CarryInv

LEMMA AccountedByOperation ==
  TypeOK => (Accounted <=> \A o \in Ops : AccountOf(o))
<1> SUFFICES ASSUME TypeOK
             PROVE  Accounted <=> \A o \in Ops : AccountOf(o)
  OBVIOUS
<1>1. \A o \in Ops : orch[o] \in {"absent", "pending", "assigned", "answered"}
  BY DEF TypeOK
<1> QED
  BY <1>1 DEF Accounted, AccountOf, Held, Bit

\* An operation that is not assigned is nowhere, and one that is, once.
LEMMA AccountMeans ==
  ASSUME NEW o \in Ops, AccountOf(o), Totals(o)
  PROVE  /\ orch[o] \in {"absent", "pending"}
                => /\ ToRun(o) = 0 /\ Running(o) = 0 /\ ToPush(o) = 0
                   /\ dropped[o] = "none"
         /\ orch[o] = "answered" => ToRun(o) = 0 /\ Running(o) = 0 /\ ToPush(o) <= 1
         /\ orch[o] = "assigned" /\ dropped[o] # "none"
                => ToRun(o) = 0 /\ Running(o) = 0 /\ ToPush(o) = 0
         /\ orch[o] = "assigned" /\ dropped[o] = "none"
                => ToRun(o) + Running(o) + ToPush(o) = 1
<1>1. ToRun(o) \in Nat /\ Running(o) \in Nat /\ ToPush(o) \in Nat
  BY DEF Totals
<1>2. CASE orch[o] \in {"absent", "pending"}
  <2>1. Held(o) = 0 /\ dropped[o] = "none"
    BY <1>2 DEF AccountOf
  <2>2. ToRun(o) = 0 /\ Running(o) = 0 /\ ToPush(o) = 0
    BY <1>1, <2>1 DEF Held
  <2> QED
    BY <1>2, <2>1, <2>2
<1>3. CASE orch[o] = "answered"
  BY <1>1, <1>3 DEF AccountOf, Held
<1>4. CASE orch[o] = "assigned"
  BY <1>1, <1>4 DEF AccountOf, Held, Bit
<1> QED
  BY <1>2, <1>3, <1>4

\* The moves keep the account of an operation.
LEMMA MoveAccount ==
  ASSUME NEW o \in Ops, TypeOK, TypeOK', AccountOf(o), Move(o)
  PROVE  AccountOf(o)'
<1>1. Totals(o) /\ Totals(o)'
  <2>1. AllTotals /\ AllTotals'
    BY TotalsHold, PTL
  <2> QED
    BY <2>1 DEF AllTotals
<1>2. /\ ToRun(o) \in Nat /\ Running(o) \in Nat /\ ToPush(o) \in Nat
      /\ ToRun(o)' \in Nat /\ Running(o)' \in Nat /\ ToPush(o)' \in Nat
  BY <1>1 DEF Totals
<1>3. orch[o] \in {"absent", "pending", "assigned", "answered"}
  BY DEF TypeOK
<1>a. /\ orch[o] \in {"absent", "pending"}
             => /\ ToRun(o) = 0 /\ Running(o) = 0 /\ ToPush(o) = 0
                /\ dropped[o] = "none"
      /\ orch[o] = "answered" => ToRun(o) = 0 /\ Running(o) = 0 /\ ToPush(o) <= 1
      /\ orch[o] = "assigned" /\ dropped[o] # "none"
             => ToRun(o) = 0 /\ Running(o) = 0 /\ ToPush(o) = 0
      /\ orch[o] = "assigned" /\ dropped[o] = "none"
             => ToRun(o) + Running(o) + ToPush(o) = 1
  BY <1>1, AccountMeans
<1> USE <1>2, <1>3, <1>a DEF AccountOf, Held, Bit, Shift, Recorded, SameRecord, Kept, LetGo
<1>4. CASE IsLeftAlone(o)
  BY <1>4 DEF IsLeftAlone
<1>5. CASE IsEnqueued(o) \/ IsAccepted(o) \/ IsLostOnTheWay(o)
  <2>1. /\ ToRun(o) = 0 /\ Running(o) = 0 /\ ToPush(o) = 0
        /\ dropped[o] = "none"
    BY <1>5 DEF IsEnqueued, IsAccepted, IsLostOnTheWay
  <2>2. CASE IsEnqueued(o)
    BY <2>1, <2>2 DEF IsEnqueued
  <2>3. CASE IsAccepted(o)
    BY <2>1, <2>3 DEF IsAccepted
  <2>4. CASE IsLostOnTheWay(o)
    BY <2>1, <2>4 DEF IsLostOnTheWay
  <2> QED
    BY <1>5, <2>2, <2>3, <2>4
<1>6. CASE IsGivenUp(o)
  BY <1>6 DEF IsGivenUp
<1>7. CASE IsStarted(o) \/ IsExecuted(o)
  BY <1>7 DEF IsStarted, IsExecuted
<1>8. CASE HasNoResult(o)
  BY <1>8 DEF HasNoResult
<1>9. CASE IsAnswered(o)
  <2>1. /\ ToRun(o) = 0 /\ Running(o) = 0 /\ ToPush(o) = 1
        /\ dropped[o] = "none"
    BY <1>9 DEF IsAnswered
  <2>2. ToRun(o)' = 0 /\ Running(o)' = 0 /\ ToPush(o)' \in {0, 1}
    BY <1>9, <2>1 DEF IsAnswered
  <2> QED
    BY <1>9, <2>1, <2>2 DEF IsAnswered
<1>10. CASE IsForgotten(o)
  <2>1. ToPush(o) >= 1
    BY <1>10 DEF IsForgotten
  <2>2. CASE orch[o] = "answered"
    BY <1>10, <2>1, <2>2 DEF IsForgotten
  <2>3. CASE orch[o] = "assigned"
    BY <1>10, <2>1, <2>3 DEF IsForgotten
  <2> QED
    BY <2>1, <2>2, <2>3
<1> QED
  BY <1>4, <1>5, <1>6, <1>7, <1>8, <1>9, <1>10 DEF Move

\* The moves follow the edges of the life of an operation.
LEMMA MoveStage ==
  ASSUME NEW o \in Ops, TypeOK, TypeOK', AccountOf(o), Move(o)
  PROVE  /\ Stage(o)' \in Lifecycle!Stages
         /\ Stage(o)' # Stage(o) => <<Stage(o), Stage(o)'>> \in Lifecycle!Edges
<1>1. Totals(o) /\ Totals(o)'
  <2>1. AllTotals /\ AllTotals'
    BY TotalsHold, PTL
  <2> QED
    BY <2>1 DEF AllTotals
<1>2. /\ ToRun(o) \in Nat /\ Running(o) \in Nat /\ ToPush(o) \in Nat
      /\ ToRun(o)' \in Nat /\ Running(o)' \in Nat /\ ToPush(o)' \in Nat
  BY <1>1 DEF Totals
<1>3. orch[o] \in {"absent", "pending", "assigned", "answered"}
  BY DEF TypeOK
<1>a. /\ orch[o] \in {"absent", "pending"}
             => /\ ToRun(o) = 0 /\ Running(o) = 0 /\ ToPush(o) = 0
                /\ dropped[o] = "none"
      /\ orch[o] = "answered" => ToRun(o) = 0 /\ Running(o) = 0 /\ ToPush(o) <= 1
      /\ orch[o] = "assigned" /\ dropped[o] # "none"
             => ToRun(o) = 0 /\ Running(o) = 0 /\ ToPush(o) = 0
      /\ orch[o] = "assigned" /\ dropped[o] = "none"
             => ToRun(o) + Running(o) + ToPush(o) = 1
  BY <1>1, AccountMeans
<1> USE <1>2, <1>3, <1>a DEF Shift, Recorded, SameRecord, Kept, LetGo
<1>4. Stage(o)' \in Lifecycle!Stages
  BY DEF Stage, Lifecycle!Stages
<1>5. CASE IsLeftAlone(o)
  <2>1. Stage(o)' = Stage(o)
    BY <1>5 DEF Stage, IsLeftAlone
  <2> QED
    BY <1>4, <2>1
<1>6. CASE IsEnqueued(o)
  <2>1. Stage(o) = "absent" /\ Stage(o)' = "pending"
    <3>1. ToRun(o) = 0 /\ Running(o) = 0 /\ ToPush(o) = 0
      BY <1>6 DEF IsEnqueued
    <3>2. ToRun(o)' = 0 /\ Running(o)' = 0 /\ ToPush(o)' = 0
      BY <1>6, <3>1 DEF IsEnqueued
    <3> QED
      BY <1>6, <3>1, <3>2 DEF Stage, IsEnqueued
  <2> QED
    BY <1>4, <2>1 DEF Lifecycle!Edges
<1>7. CASE IsAccepted(o)
  <2>1. Stage(o) = "pending" /\ Stage(o)' = "accepted"
    BY <1>7 DEF Stage, IsAccepted
  <2> QED
    BY <1>4, <2>1 DEF Lifecycle!Edges
<1>8. CASE IsLostOnTheWay(o)
  <2>1. Stage(o) = "pending" /\ Stage(o)' = "settled"
    <3>1. ToRun(o) = 0 /\ Running(o) = 0 /\ ToPush(o) = 0
      BY <1>8 DEF IsLostOnTheWay
    <3>2. ToRun(o)' = 0 /\ Running(o)' = 0 /\ ToPush(o)' = 0
      BY <1>8, <3>1 DEF IsLostOnTheWay
    <3> QED
      BY <1>8, <3>1, <3>2 DEF Stage, IsLostOnTheWay
  <2> QED
    BY <1>4, <2>1 DEF Lifecycle!Edges
<1>9. CASE IsGivenUp(o)
  <2>1. Stage(o) = "accepted" /\ Stage(o)' = "settled"
    BY <1>9 DEF Stage, IsGivenUp
  <2> QED
    BY <1>4, <2>1 DEF Lifecycle!Edges
<1>10. CASE IsStarted(o)
  <2>1. Stage(o) = "accepted" /\ Stage(o)' = "executing"
    BY <1>10 DEF Stage, IsStarted
  <2> QED
    BY <1>4, <2>1 DEF Lifecycle!Edges
<1>11. CASE IsExecuted(o)
  <2>1. Stage(o) = "executing" /\ Stage(o)' = "executed"
    BY <1>11 DEF Stage, IsExecuted
  <2> QED
    BY <1>4, <2>1 DEF Lifecycle!Edges
<1>12. CASE HasNoResult(o)
  <2>1. /\ ToRun(o) = 0 /\ Running(o) = 1 /\ ToPush(o) = 0
        /\ orch[o] \notin {"absent", "pending"}
        /\ orch'[o] = orch[o]
    BY <1>12 DEF HasNoResult
  <2>2. ToRun(o)' = 0 /\ Running(o)' = 0 /\ ToPush(o)' = 0
    BY <1>12, <2>1 DEF HasNoResult
  <2>3. Stage(o) = "executing" /\ Stage(o)' = "settled"
    BY <2>1, <2>2 DEF Stage
  <2> QED
    BY <1>4, <2>3 DEF Lifecycle!Edges
<1>13. CASE IsAnswered(o)
  <2>1. Stage(o) = "executed" /\ Stage(o)' \in {"executed", "settled"}
    BY <1>13 DEF Stage, IsAnswered
  <2> QED
    BY <1>4, <2>1 DEF Lifecycle!Edges
<1>14. CASE IsForgotten(o)
  <2>1. /\ ToPush(o) >= 1
        /\ orch[o] \notin {"absent", "pending"}
        /\ orch'[o] = orch[o]
    BY <1>14 DEF IsForgotten
  <2>2. ToRun(o) = 0 /\ Running(o) = 0 /\ ToPush(o) = 1
    BY <2>1
  <2>3. ToRun(o)' = 0 /\ Running(o)' = 0 /\ ToPush(o)' = 0
    BY <1>14, <2>2 DEF IsForgotten
  <2>4. Stage(o) = "executed" /\ Stage(o)' = "settled"
    BY <2>1, <2>2, <2>3 DEF Stage
  <2> QED
    BY <1>4, <2>4 DEF Lifecycle!Edges
<1> QED
  BY <1>5, <1>6, <1>7, <1>8, <1>9, <1>10, <1>11, <1>12, <1>13, <1>14 DEF Move

-----------------------------------------------------------------------------
\* Every step is a move of each operation.  First the parts of a step that
\* leave the operations where they are.

LEMMA BothTotals ==
  ASSUME NEW o \in Ops, TypeOK, TypeOK'
  PROVE  Totals(o) /\ Totals(o)'
<1>1. AllTotals /\ AllTotals'
  BY TotalsHold, PTL
<1> QED
  BY <1>1 DEF AllTotals

LEMMA QuietMove ==
  ASSUME NEW o \in Ops, TypeOK, TypeOK',
         UNCHANGED <<carry, orch, dropped>>,
         pollOperation' = pollOperation,
         UNCHANGED opsVars \/ Runner!Start \/ Runner!Stop
             \/ (\E t \in Timers : ScheduleOperation(t, "timer"))
             \/ (\E w \in Runner!Workers : Runner!Advance(w)),
         UNCHANGED resVars \/ Publisher!Start \/ Publisher!Stop
             \/ (\E w \in Publisher!Workers : Publisher!Advance(w))
  PROVE  Move(o)
<1>1. Totals(o) /\ Totals(o)'
  BY BothTotals
<1>2. ToPush(o)' = ToPush(o)
  BY <1>1, PublisherMoves DEF Totals
<1>3. Carried(o)' = Carried(o)
  BY CarryMoves
<1>4. \/ Queued(o)' = Queued(o) /\ Running(o)' = Running(o)
      \/ Queued(o)' = Queued(o) - 1 /\ Running(o)' = Running(o) + 1
  <2>1. CASE UNCHANGED opsVars \/ Runner!Start \/ Runner!Stop
    BY <2>1, RunnerMoves
  <2>2. ASSUME NEW t \in Timers, ScheduleOperation(t, "timer")
        PROVE  Queued(o)' = Queued(o) /\ Running(o)' = Running(o)
    <3>1. /\ Queued(o)' = Queued(o) + Bit([op |-> t, via |-> "timer"].op = o)
          /\ Running(o)' = Running(o)
      BY <2>2, ScheduledItem, RunnerMoves DEF ScheduleOperation
    <3>2. Bit([op |-> t, via |-> "timer"].op = o) = 0
      BY EgressAgentServiceAssumption DEF Bit
    <3> QED
      BY <1>1, <3>1, <3>2 DEF Totals
  <2>3. CASE \E w \in Runner!Workers : Runner!Advance(w)
    BY <2>3, RunnerMoves
  <2> QED
    BY <2>1, <2>2, <2>3
<1>5. Bit(pollOperation' = o) = Bit(pollOperation = o)
  OBVIOUS
<1>6. SameRecord(o) /\ Kept(o)
  BY DEF SameRecord, Kept
<1>7. CASE Queued(o)' = Queued(o) /\ Running(o)' = Running(o)
  BY <1>1, <1>2, <1>3, <1>5, <1>6, <1>7 DEF Totals, Move, IsLeftAlone, Shift
<1>8. CASE Queued(o)' = Queued(o) - 1 /\ Running(o)' = Running(o) + 1
  BY <1>1, <1>2, <1>3, <1>5, <1>6, <1>8 DEF Totals, Move, IsStarted, Shift
<1> QED
  BY <1>4, <1>7, <1>8

\* A step that leaves the queues and the threads alone.
LEMMA StillCounts ==
  ASSUME NEW o \in Ops, TypeOK, TypeOK', UNCHANGED <<opsVars, resVars, carry>>
  PROVE  /\ ToRun(o)' = ToRun(o) + Bit(pollOperation' = o) - Bit(pollOperation = o)
         /\ Running(o)' = Running(o)
         /\ ToPush(o)' = ToPush(o)
<1>1. Totals(o) /\ Totals(o)'
  BY BothTotals
<1>2. /\ Queued(o)' = Queued(o) /\ Running(o)' = Running(o)
      /\ Resulting(o)' = Resulting(o) /\ Pushed(o)' = Pushed(o)
      /\ Carried(o)' = Carried(o)
  BY RunnerMoves, PublisherMoves, CarryMoves
<1> QED
  BY <1>1, <1>2 DEF Totals

LEMMA EnqueueMove ==
  ASSUME NEW o \in Ops, TypeOK, TypeOK', NEW p \in Ops, Enqueue(p)
  PROVE  Move(o)
<1>1. /\ ToRun(o)' = ToRun(o) /\ Running(o)' = Running(o) /\ ToPush(o)' = ToPush(o)
      /\ ToRun(o) \in Nat /\ Running(o) \in Nat /\ ToPush(o) \in Nat
  BY StillCounts, BothTotals DEF Enqueue, pollVars, pushVars, Totals
<1>2. Shift(o, 0, 0, 0) /\ Kept(o)
  BY <1>1 DEF Shift, Kept, Enqueue
<1>3. CASE p = o
  BY <1>2, <1>3 DEF Move, IsEnqueued, Recorded, Enqueue, TypeOK
<1>4. CASE p # o
  BY <1>2, <1>4 DEF Move, IsLeftAlone, SameRecord, Enqueue, TypeOK
<1> QED
  BY <1>3, <1>4

LEMMA FetchMove ==
  ASSUME NEW o \in Ops, TypeOK, TypeOK', NEW p \in Ops,
         PollerFetches(p) \/ PollerLosesResponse(p)
  PROVE  Move(o)
<1>1. Totals(o)
  BY BothTotals
<1>2. /\ ToRun(o)' = ToRun(o) + Bit(pollOperation' = o) - Bit(pollOperation = o)
      /\ Running(o)' = Running(o)
      /\ ToPush(o)' = ToPush(o)
  BY StillCounts DEF PollerFetches, PollerLosesResponse, pushVars
<1>3. pollOperation = NoOp /\ NoOp # o /\ NoOp # p
  BY EgressAgentServiceAssumption
     DEF PollerFetches, PollerLosesResponse, Poller!FetchOperation, Poller!FetchNothing,
         Poller!Goto, TypeOK, Poller!TypeOK
<1>4. orch[p] = "pending" /\ orch' = [orch EXCEPT ![p] = "assigned"]
  BY DEF PollerFetches, PollerLosesResponse, Assign
<1>5. CASE PollerFetches(p)
  <2>1. pollOperation' = p /\ dropped' = dropped
    BY <1>5 DEF PollerFetches, Poller!FetchOperation
  <2>2. CASE p = o
    <3>1. Bit(pollOperation' = o) = 1 /\ Bit(pollOperation = o) = 0
      BY <1>3, <2>1, <2>2 DEF Bit
    <3>2. Shift(o, 1, 0, 0)
      BY <1>1, <1>2, <3>1 DEF Shift, Totals
    <3> QED
      BY <1>4, <2>1, <2>2, <3>2 DEF Move, IsAccepted, Recorded, Kept, TypeOK
  <2>3. CASE p # o
    <3>1. Bit(pollOperation' = o) = 0 /\ Bit(pollOperation = o) = 0
      BY <1>3, <2>1, <2>3 DEF Bit
    <3>2. Shift(o, 0, 0, 0)
      BY <1>1, <1>2, <3>1 DEF Shift, Totals
    <3> QED
      BY <1>4, <2>1, <2>3, <3>2 DEF Move, IsLeftAlone, SameRecord, Kept, TypeOK
  <2> QED
    BY <2>2, <2>3
<1>6. CASE PollerLosesResponse(p)
  <2>1. /\ pollOperation' = pollOperation
        /\ dropped' = [dropped EXCEPT ![p] = "response_lost"]
    BY <1>6 DEF PollerLosesResponse, Poller!FetchNothing, Drop
  <2>2. Shift(o, 0, 0, 0)
    <3>1. Bit(pollOperation' = o) = 0 /\ Bit(pollOperation = o) = 0
      BY <1>3, <2>1 DEF Bit
    <3> QED
      BY <1>1, <1>2, <3>1 DEF Shift, Totals
  <2>3. CASE p = o
    BY <1>4, <2>1, <2>2, <2>3 DEF Move, IsLostOnTheWay, Recorded, LetGo, TypeOK
  <2>4. CASE p # o
    BY <1>4, <2>1, <2>2, <2>4 DEF Move, IsLeftAlone, SameRecord, Kept, TypeOK
  <2> QED
    BY <2>3, <2>4
<1> QED
  BY <1>5, <1>6

LEMMA PollerGivesUpMove ==
  ASSUME NEW o \in Ops, TypeOK, TypeOK', PollerDropsOnStop \/ PollerSkips \/ PollerDies
  PROVE  Move(o)
<1>1. Totals(o)
  BY BothTotals
<1>2. /\ ToRun(o)' = ToRun(o) + Bit(pollOperation' = o) - Bit(pollOperation = o)
      /\ Running(o)' = Running(o)
      /\ ToPush(o)' = ToPush(o)
  BY StillCounts DEF PollerDropsOnStop, PollerSkips, PollerDies, pushVars
<1>3. pollOperation \in Ops /\ pollOperation' = NoOp /\ NoOp # o
  BY EgressAgentServiceAssumption
     DEF PollerDropsOnStop, PollerSkips, PollerDies, Poller!DropOnStop,
         Poller!SubmitOperation, Poller!SubmitRaises, Poller!Goto, TypeOK, Poller!TypeOK
<1>4. /\ orch' = orch
      /\ \E r \in Reasons \ {"none"} : dropped' = [dropped EXCEPT ![pollOperation] = r]
  BY DEF PollerDropsOnStop, PollerSkips, PollerDies, Drop, Reasons
<1>5. CASE pollOperation = o
  <2>1. Bit(pollOperation' = o) = 0 /\ Bit(pollOperation = o) = 1
    BY <1>3, <1>5 DEF Bit
  <2>2. Shift(o, -1, 0, 0)
    BY <1>1, <1>2, <2>1 DEF Shift, Totals
  <2> QED
    BY <1>4, <1>5, <2>2 DEF Move, IsGivenUp, SameRecord, LetGo, TypeOK
<1>6. CASE pollOperation # o
  <2>1. Bit(pollOperation' = o) = 0 /\ Bit(pollOperation = o) = 0
    BY <1>3, <1>6 DEF Bit
  <2>2. Shift(o, 0, 0, 0)
    BY <1>1, <1>2, <2>1 DEF Shift, Totals
  <2> QED
    BY <1>3, <1>4, <1>6, <2>2 DEF Move, IsLeftAlone, SameRecord, Kept, TypeOK
<1> QED
  BY <1>5, <1>6

LEMMA PollerSubmitsMove ==
  ASSUME NEW o \in Ops, TypeOK, TypeOK', PollerSubmits
  PROVE  Move(o)
<1> DEFINE item == [op |-> pollOperation, via |-> "poll"]
<1>1. Totals(o) /\ Totals(o)'
  BY BothTotals
<1>2. pollOperation \in Ops /\ pollOperation' = NoOp /\ NoOp # o
  BY EgressAgentServiceAssumption
     DEF PollerSubmits, Poller!SubmitOperation, Poller!Goto, TypeOK, Poller!TypeOK
<1>3. item \in OpItems /\ item.op = pollOperation
  BY <1>2, ScheduledItem
<1>4. Queued(o)' = Queued(o) + Bit(pollOperation = o) /\ Running(o)' = Running(o)
  <2>1. Runner!Schedule(item)
    BY DEF PollerSubmits, ScheduleOperation
  <2>2. Queued(o)' = Queued(o) + Bit(item.op = o) /\ Running(o)' = Running(o)
    BY <1>3, <2>1, RunnerMoves
  <2> QED
    BY <1>3, <2>2
<1>5. /\ Resulting(o)' = Resulting(o) /\ Pushed(o)' = Pushed(o)
      /\ Carried(o)' = Carried(o)
  BY PublisherMoves, CarryMoves DEF PollerSubmits, pushVars
<1>6. Bit(pollOperation' = o) = 0
  BY <1>2 DEF Bit
<1>7. Shift(o, 0, 0, 0)
  BY <1>1, <1>4, <1>5, <1>6 DEF Shift, Totals
<1> QED
  BY <1>7 DEF PollerSubmits, Move, IsLeftAlone, SameRecord, Kept

LEMMA ExecuteMove ==
  ASSUME NEW o \in Ops, TypeOK, TypeOK', AccountOf(o), NEW w \in Runner!Workers, Execute(w)
  PROVE  Move(o)
<1> DEFINE b == Bit(opsJob[w].op = o)
<1>1. Totals(o) /\ Totals(o)'
  BY BothTotals
<1>2. /\ Queued(o)' = Queued(o)
      /\ opsJob[w] \in OpItems
      /\ Running(o)' = Running(o) - b
  BY RunnerMoves DEF Execute, ExecuteWithResult, ExecuteWithoutResult
<1>3. /\ Carried(o)' = Carried(o)
      /\ pollOperation' = pollOperation
      /\ orch' = orch
  BY CarryMoves DEF Execute, ExecuteWithResult, ExecuteWithoutResult, pushVars, pollVars
<1>4. ToRun(o)' = ToRun(o)
  BY <1>1, <1>2, <1>3 DEF Totals
<1>5. CASE ExecuteWithResult(w)
  <2>1. opsJob[w].op \in Ops
    BY <1>2, <1>5, ResultIsOfOps DEF ExecuteWithResult
  <2>2. Resulting(o)' = Resulting(o) + b /\ Pushed(o)' = Pushed(o)
    BY <1>5, <2>1, PublisherMoves DEF ExecuteWithResult
  <2>3. dropped' = dropped
    BY <1>5 DEF ExecuteWithResult
  <2>4. CASE opsJob[w].op = o
    <3>1. b = 1
      BY <2>4 DEF Bit
    <3>2. Shift(o, 0, -1, 1)
      BY <1>1, <1>2, <1>4, <2>2, <3>1 DEF Shift, Totals
    <3> QED
      BY <1>3, <2>3, <3>2 DEF Move, IsExecuted, SameRecord, Kept
  <2>5. CASE opsJob[w].op # o
    <3>1. b = 0
      BY <2>5 DEF Bit
    <3>2. Shift(o, 0, 0, 0)
      BY <1>1, <1>2, <1>4, <2>2, <3>1 DEF Shift, Totals
    <3> QED
      BY <1>3, <2>3, <3>2 DEF Move, IsLeftAlone, SameRecord, Kept
  <2> QED
    BY <2>4, <2>5
<1>6. CASE ExecuteWithoutResult(w)
  <2>1. Resulting(o)' = Resulting(o) /\ Pushed(o)' = Pushed(o)
    BY <1>6, PublisherMoves DEF ExecuteWithoutResult
  <2>2. CASE opsJob[w].op = o
    <3>1. b = 1
      BY <2>2 DEF Bit
    <3>2. Shift(o, 0, -1, 0)
      BY <1>1, <1>2, <1>4, <2>1, <3>1 DEF Shift, Totals
    <3>3. opsJob[w].via # "timer"
      BY <1>2, <2>2, EgressAgentServiceAssumption DEF OpItems
    <3>4. LetGo(o)
      BY <1>6, <2>2, <3>3 DEF ExecuteWithoutResult, Drop, LetGo, TypeOK
    <3> QED
      BY <1>3, <3>2, <3>4 DEF Move, HasNoResult, SameRecord
  <2>3. CASE opsJob[w].op # o
    <3>1. b = 0
      BY <2>3 DEF Bit
    <3>2. Shift(o, 0, 0, 0)
      BY <1>1, <1>2, <1>4, <2>1, <3>1 DEF Shift, Totals
    <3>3. Kept(o)
      BY <1>6, <2>3 DEF ExecuteWithoutResult, Drop, Kept, TypeOK
    <3> QED
      BY <1>3, <3>2, <3>3 DEF Move, IsLeftAlone, SameRecord
  <2> QED
    BY <2>2, <2>3
<1> QED
  BY <1>5, <1>6 DEF Execute

\* A publisher thread that holds the result of an operation is one of its places.
LEMMA HolderCounts ==
  ASSUME NEW o \in Ops, TypeOK, NEW w \in Publisher!Workers
  PROVE  /\ resJob[w] = o => Pushed(o) >= 1
         /\ carry[w] = o => Carried(o) >= 1
<1>1. /\ DOMAIN resJob = 1 .. Publisher!ThreadCount
      /\ DOMAIN carry = 1 .. Publisher!ThreadCount
  BY ThreadCounts DEF TypeOK, Publisher!TypeOK
<1>2. IsFiniteSet(PushedBy(o)) /\ IsFiniteSet(CarriedBy(o))
  <2>1. PushedBy(o) = Where(resJob, {o}) /\ CarriedBy(o) = Where(carry, {o})
    BY PlacesAreWhere DEF Places
  <2> QED
    BY <1>1, <2>1, WhereFinite, ThreadCounts
<1>3. Pushed(o) \in Nat /\ Carried(o) \in Nat
  BY CountsAreNat
<1>4. ASSUME resJob[w] = o PROVE Pushed(o) >= 1
  <2>1. PushedBy(o) # {}
    BY <1>4 DEF PushedBy
  <2>2. Pushed(o) # 0
    BY <1>2, <2>1, FS_EmptySet DEF Pushed
  <2> QED
    BY <1>3, <2>2
<1>5. ASSUME carry[w] = o PROVE Carried(o) >= 1
  <2>1. CarriedBy(o) # {}
    BY <1>5 DEF CarriedBy
  <2>2. Carried(o) # 0
    BY <1>2, <2>1, FS_EmptySet DEF Carried
  <2> QED
    BY <1>3, <2>2
<1> QED
  BY <1>4, <1>5

\* What the end of a try does to the places of an operation.
LEMMA TryCounts ==
  ASSUME NEW o \in Ops, TypeOK, TypeOK', NEW w \in Publisher!Workers, TryAgainOrGiveUp(w)
  PROVE  /\ GivesUp(w) => ToPush(o)' = ToPush(o) - Bit(resJob[w] = o)
         /\ ~GivesUp(w) => ToPush(o)' = ToPush(o)
<1>1. Totals(o) /\ Totals(o)'
  BY BothTotals
<1>2. tries[w] + 1 < PushTries <=> ~GivesUp(w)
  BY EgressAgentServiceAssumption DEF GivesUp, TypeOK
<1>3. CASE GivesUp(w)
  <2>1. Resulting(o)' = Resulting(o) /\ Pushed(o)' = Pushed(o) - Bit(resJob[w] = o)
    BY <1>2, <1>3, PublisherMoves DEF TryAgainOrGiveUp
  <2>2. Bit(resJob[w] = o) \in {0, 1}
    BY DEF Bit
  <2> QED
    BY <1>1, <1>3, <2>1, <2>2 DEF Totals
<1>4. CASE ~GivesUp(w)
  <2>1. Resulting(o)' = Resulting(o) /\ Pushed(o)' = Pushed(o)
    BY <1>2, <1>4, PublisherMoves DEF TryAgainOrGiveUp
  <2> QED
    BY <1>1, <1>4, <2>1 DEF Totals
<1> QED
  BY <1>3, <1>4

\* Runner and poller have no part in a push.
LEMMA PushLeavesRest ==
  ASSUME NEW o \in Ops, TypeOK, TypeOK', UNCHANGED <<opsVars, pollVars>>
  PROVE  /\ ToRun(o)' = ToRun(o) + Carried(o)' - Carried(o)
         /\ Running(o)' = Running(o)
<1>1. Totals(o) /\ Totals(o)'
  BY BothTotals
<1>2. Queued(o)' = Queued(o) /\ Running(o)' = Running(o)
  BY RunnerMoves
<1>3. pollOperation' = pollOperation
  BY DEF pollVars
<1> QED
  BY <1>1, <1>2, <1>3 DEF Totals

LEMMA PushFailsMove ==
  ASSUME NEW o \in Ops, TypeOK, TypeOK', AccountOf(o),
         NEW w \in Publisher!Workers, PushFails(w)
  PROVE  Move(o)
<1>1. Totals(o) /\ Totals(o)'
  BY BothTotals
<1>2. ToRun(o)' = ToRun(o) /\ Running(o)' = Running(o) /\ orch' = orch
  BY <1>1, PushLeavesRest, CarryMoves DEF PushFails, Totals
<1>3. TryAgainOrGiveUp(w)
  BY DEF PushFails
<1>4. CASE GivesUp(w) /\ resJob[w] = o
  <2>1. Bit(resJob[w] = o) = 1
    BY <1>4 DEF Bit
  <2>2. Shift(o, 0, 0, -1)
    BY <1>1, <1>2, <1>3, <1>4, <2>1, TryCounts DEF Shift, Totals
  <2>3. IF orch[o] = "answered" THEN Kept(o) ELSE LetGo(o)
    BY <1>4 DEF PushFails, Drop, Kept, LetGo, TypeOK
  <2> QED
    BY <1>2, <2>2, <2>3 DEF Move, IsForgotten, SameRecord
<1>5. CASE ~(GivesUp(w) /\ resJob[w] = o)
  <2>1. Shift(o, 0, 0, 0)
    <3>1. CASE ~GivesUp(w)
      BY <1>1, <1>2, <1>3, <3>1, TryCounts DEF Shift, Totals
    <3>2. CASE GivesUp(w) /\ resJob[w] # o
      <4>1. Bit(resJob[w] = o) = 0
        BY <3>2 DEF Bit
      <4> QED
        BY <1>1, <1>2, <1>3, <3>2, <4>1, TryCounts DEF Shift, Totals
    <3> QED
      BY <1>5, <3>1, <3>2
  <2>2. Kept(o)
    BY <1>5 DEF PushFails, Drop, Kept, TypeOK
  <2> QED
    BY <1>2, <2>1, <2>2 DEF Move, IsLeftAlone, SameRecord
<1> QED
  BY <1>4, <1>5

\* The PUT of a result is carried out: what the thread pushes was assigned, and
\* what the response carries was pending.
LEMMA PushedAndCarried ==
  ASSUME NEW o \in Ops, TypeOK, AccountOf(o), NEW w \in Publisher!Workers,
         resJob[w] = o
  PROVE  ToPush(o) > 0 /\ orch[o] \in {"assigned", "answered"}
<1>1. AllTotals
  BY TotalsHold
<1>2. Totals(o)
  BY <1>1 DEF AllTotals
<1>3. ToPush(o) > 0
  BY <1>2, HolderCounts DEF Totals
<1>4. orch[o] \in {"absent", "pending", "assigned", "answered"}
  BY DEF TypeOK
<1> QED
  BY <1>2, <1>3, <1>4, AccountMeans

LEMMA PushSucceedsMove ==
  ASSUME NEW o \in Ops, TypeOK, TypeOK', AccountOf(o),
         NEW w \in Publisher!Workers, NEW next \in Piggybacked, PushSucceeds(w, next)
  PROVE  Move(o)
<1>1. Totals(o) /\ Totals(o)'
  BY BothTotals
<1>2. /\ Running(o)' = Running(o)
      /\ ToRun(o)' = ToRun(o) + Carried(o)' - Carried(o)
      /\ dropped' = dropped
  BY PushLeavesRest DEF PushSucceeds
<1>3. carry[w] = NoOp /\ NoOp # o
  BY EgressAgentServiceAssumption DEF PushSucceeds, Pushing
<1>4. next = NoOp \/ (next \in Ops /\ orch[next] = "pending")
  BY DEF Piggybacked
<1>5. Carried(o)' = Carried(o) + Bit(next = o)
  <2>1. CASE next = NoOp
    <3>1. Carried(o)' = Carried(o) /\ Bit(next = o) = 0
      BY <1>3, <2>1, CarryMoves DEF PushSucceeds, Bit
    <3> QED
      BY <1>1, <3>1 DEF Totals
  <2>2. CASE next # NoOp
    <3>1. Carried(o)' = Carried(o) + Bit(next = o) - Bit(carry[w] = o)
      BY <1>4, <2>2, CarryMoves DEF PushSucceeds
    <3>2. Bit(carry[w] = o) = 0 /\ Bit(next = o) \in {0, 1}
      BY <1>3 DEF Bit
    <3> QED
      BY <1>1, <3>1, <3>2 DEF Totals
  <2> QED
    BY <2>1, <2>2
<1>6. ToPush(o)' = ToPush(o) - (IF next = NoOp THEN Bit(resJob[w] = o) ELSE 0)
  <2>1. CASE next = NoOp
    <3>1. Resulting(o)' = Resulting(o) /\ Pushed(o)' = Pushed(o) - Bit(resJob[w] = o)
      BY <2>1, PublisherMoves DEF PushSucceeds
    <3>2. Bit(resJob[w] = o) \in {0, 1}
      BY DEF Bit
    <3> QED
      BY <1>1, <2>1, <3>1, <3>2 DEF Totals
  <2>2. CASE next # NoOp
    <3>1. Resulting(o)' = Resulting(o) /\ Pushed(o)' = Pushed(o)
      BY <2>2, PublisherMoves DEF PushSucceeds
    <3> QED
      BY <1>1, <2>2, <3>1 DEF Totals
  <2> QED
    BY <2>1, <2>2
<1>7. Answered(resJob[w], next)
  BY DEF PushSucceeds
<1>8. CASE resJob[w] = o
  <2>1. ToPush(o) > 0 /\ orch[o] \in {"assigned", "answered"}
    BY <1>8, PushedAndCarried
  <2>2. next # o /\ Bit(next = o) = 0 /\ Bit(resJob[w] = o) = 1
    BY <1>3, <1>4, <1>8, <2>1 DEF Bit
  <2>3. Shift(o, 0, 0, 0) \/ Shift(o, 0, 0, -1)
    BY <1>1, <1>2, <1>5, <1>6, <2>2 DEF Shift, Totals
  <2>4. orch'[o] = "answered"
    BY <1>7, <1>8, <2>2 DEF Answered
  <2> QED
    BY <1>2, <2>1, <2>3, <2>4 DEF Move, IsAnswered, Kept
<1>9. CASE resJob[w] # o /\ next = o
  <2>1. Bit(next = o) = 1 /\ next # NoOp
    BY <1>3, <1>9 DEF Bit
  <2>2. Shift(o, 1, 0, 0)
    BY <1>1, <1>2, <1>5, <1>6, <2>1 DEF Shift, Totals
  <2>3. Recorded(o, "pending", "assigned")
    BY <1>4, <1>7, <1>9, <2>1 DEF Answered, Recorded
  <2> QED
    BY <1>2, <2>2, <2>3 DEF Move, IsAccepted, Kept
<1>10. CASE resJob[w] # o /\ next # o
  <2>1. Bit(next = o) = 0 /\ Bit(resJob[w] = o) = 0
    BY <1>10 DEF Bit
  <2>2. Shift(o, 0, 0, 0)
    BY <1>1, <1>2, <1>5, <1>6, <2>1 DEF Shift, Totals
  <2>3. SameRecord(o)
    BY <1>7, <1>10 DEF Answered, SameRecord
  <2> QED
    BY <1>2, <2>2, <2>3 DEF Move, IsLeftAlone, Kept
<1> QED
  BY <1>8, <1>9, <1>10

LEMMA PushResponseLostMove ==
  ASSUME NEW o \in Ops, TypeOK, TypeOK', AccountOf(o),
         NEW w \in Publisher!Workers, NEW next \in Piggybacked, PushResponseLost(w, next)
  PROVE  Move(o)
<1>1. Totals(o) /\ Totals(o)'
  BY BothTotals
<1>2. ToRun(o)' = ToRun(o) /\ Running(o)' = Running(o)
  BY <1>1, PushLeavesRest, CarryMoves DEF PushResponseLost, Totals
<1>3. NoOp # o /\ TryAgainOrGiveUp(w) /\ Answered(resJob[w], next)
  BY EgressAgentServiceAssumption DEF PushResponseLost
<1>4. next = NoOp \/ (next \in Ops /\ orch[next] = "pending")
  BY DEF Piggybacked
<1>5. CASE resJob[w] = o
  <2>1. ToPush(o) > 0 /\ orch[o] \in {"assigned", "answered"}
    BY <1>5, PushedAndCarried
  <2>2. next # o /\ Bit(resJob[w] = o) = 1
    BY <1>3, <1>4, <1>5, <2>1 DEF Bit
  <2>3. Shift(o, 0, 0, 0) \/ Shift(o, 0, 0, -1)
    BY <1>1, <1>2, <1>3, <2>2, TryCounts DEF Shift, Totals
  <2>4. orch'[o] = "answered"
    BY <1>3, <1>5, <2>2 DEF Answered
  <2>5. Kept(o)
    BY <2>2 DEF PushResponseLost, Drop, Kept, TypeOK
  <2> QED
    BY <2>1, <2>3, <2>4, <2>5 DEF Move, IsAnswered
<1>6. CASE resJob[w] # o
  <2>1. Bit(resJob[w] = o) = 0
    BY <1>6 DEF Bit
  <2>2. Shift(o, 0, 0, 0)
    BY <1>1, <1>2, <1>3, <2>1, TryCounts DEF Shift, Totals
  <2>3. CASE next = o
    <3>1. Recorded(o, "pending", "assigned")
      BY <1>3, <1>4, <1>6, <2>3 DEF Answered, Recorded
    <3>2. LetGo(o)
      BY <1>3, <2>3 DEF PushResponseLost, Drop, LetGo, TypeOK
    <3> QED
      BY <2>2, <3>1, <3>2 DEF Move, IsLostOnTheWay
  <2>4. CASE next # o
    <3>1. SameRecord(o)
      BY <1>3, <1>6, <2>4 DEF Answered, SameRecord
    <3>2. Kept(o)
      BY <2>4 DEF PushResponseLost, Drop, Kept, TypeOK
    <3> QED
      BY <2>2, <3>1, <3>2 DEF Move, IsLeftAlone
  <2> QED
    BY <2>3, <2>4
<1> QED
  BY <1>5, <1>6

LEMMA PiggybackMove ==
  ASSUME NEW o \in Ops, TypeOK, TypeOK', AccountOf(o), CarryInv,
         NEW w \in Publisher!Workers, HandlePiggybacked(w)
  PROVE  Move(o)
<1>1. Totals(o) /\ Totals(o)'
  BY BothTotals
<1>2. /\ PiggybackEnds(w)
      /\ orch' = orch /\ pollOperation' = pollOperation
      /\ carry[w] \in Ops /\ NoOp # o
  BY EgressAgentServiceAssumption
     DEF HandlePiggybacked, SubmitPiggybacked, SkipPiggybacked, FailPiggybacked,
         PiggybackEnds, pollVars, TypeOK
<1>3. orch[resJob[w]] = "answered"
  BY <1>2 DEF CarryInv, PiggybackEnds
<1>4. Carried(o)' = Carried(o) - Bit(carry[w] = o)
  <2>1. Carried(o)' = Carried(o) + Bit(NoOp = o) - Bit(carry[w] = o)
    <3>1. carry' = [carry EXCEPT ![w] = NoOp] /\ NoOp \in Ops \cup {NoOp}
      BY <1>2 DEF PiggybackEnds
    <3> QED
      BY <3>1, CarryMoves
  <2>2. Bit(NoOp = o) = 0 /\ Bit(carry[w] = o) \in {0, 1}
    BY <1>2 DEF Bit
  <2> QED
    BY <1>1, <2>1, <2>2 DEF Totals
<1>5. ToPush(o)' = ToPush(o) - Bit(resJob[w] = o)
  <2>1. Resulting(o)' = Resulting(o) /\ Pushed(o)' = Pushed(o) - Bit(resJob[w] = o)
    BY <1>2, PublisherMoves DEF PiggybackEnds
  <2>2. Bit(resJob[w] = o) \in {0, 1}
    BY DEF Bit
  <2> QED
    BY <1>1, <2>1, <2>2 DEF Totals
<1>6. \/ /\ Queued(o)' = Queued(o) + Bit(carry[w] = o) /\ Running(o)' = Running(o)
         /\ dropped' = dropped
      \/ /\ Queued(o)' = Queued(o) /\ Running(o)' = Running(o)
         /\ \E r \in Reasons \ {"none"} : dropped' = [dropped EXCEPT ![carry[w]] = r]
  <2>1. CASE SubmitPiggybacked(w)
    <3> DEFINE item == [op |-> carry[w], via |-> "piggyback"]
    <3>1. item \in OpItems /\ item.op = carry[w]
      BY <1>2, ScheduledItem
    <3>2. Runner!Schedule(item)
      BY <2>1 DEF SubmitPiggybacked, ScheduleOperation
    <3>3. Queued(o)' = Queued(o) + Bit(item.op = o) /\ Running(o)' = Running(o)
      BY <3>1, <3>2, RunnerMoves
    <3> QED
      BY <2>1, <3>1, <3>3 DEF SubmitPiggybacked
  <2>2. CASE SkipPiggybacked(w) \/ FailPiggybacked(w)
    <3>1. Queued(o)' = Queued(o) /\ Running(o)' = Running(o)
      BY <2>2, RunnerMoves DEF SkipPiggybacked, FailPiggybacked
    <3> QED
      BY <2>2, <3>1 DEF SkipPiggybacked, FailPiggybacked, Drop, Reasons
  <2> QED
    BY <2>1, <2>2 DEF HandlePiggybacked
<1>7. CASE resJob[w] = o
  <2>1. ToPush(o) > 0
    BY <1>7, PushedAndCarried
  <2>2. carry[w] # o
    <3>1. ToRun(o) = 0
      BY <1>1, <1>3, <1>7, AccountMeans
    <3> QED
      BY <1>1, <3>1, HolderCounts DEF Totals
  <2>3. Bit(carry[w] = o) = 0 /\ Bit(resJob[w] = o) = 1
    BY <1>7, <2>2 DEF Bit
  <2>4. Shift(o, 0, 0, -1)
    BY <1>1, <1>2, <1>4, <1>5, <1>6, <2>3 DEF Shift, Totals
  <2>5. Kept(o)
    BY <1>2, <1>6, <2>2 DEF Kept, TypeOK
  <2> QED
    BY <1>2, <1>3, <1>7, <2>4, <2>5 DEF Move, IsForgotten, SameRecord
<1>8. CASE resJob[w] # o /\ carry[w] = o
  <2>1. Bit(carry[w] = o) = 1 /\ Bit(resJob[w] = o) = 0
    BY <1>8 DEF Bit
  <2>2. CASE Queued(o)' = Queued(o) + Bit(carry[w] = o) /\ Running(o)' = Running(o)
             /\ dropped' = dropped
    <3>1. Shift(o, 0, 0, 0)
      BY <1>1, <1>2, <1>4, <1>5, <2>1, <2>2 DEF Shift, Totals
    <3> QED
      BY <1>2, <2>2, <3>1 DEF Move, IsLeftAlone, SameRecord, Kept
  <2>3. CASE /\ Queued(o)' = Queued(o) /\ Running(o)' = Running(o)
             /\ \E r \in Reasons \ {"none"} : dropped' = [dropped EXCEPT ![carry[w]] = r]
    <3>1. Shift(o, -1, 0, 0)
      BY <1>1, <1>2, <1>4, <1>5, <2>1, <2>3 DEF Shift, Totals
    <3>2. LetGo(o)
      BY <1>8, <2>3 DEF LetGo, TypeOK
    <3> QED
      BY <1>2, <3>1, <3>2 DEF Move, IsGivenUp, SameRecord
  <2> QED
    BY <1>6, <2>2, <2>3
<1>9. CASE resJob[w] # o /\ carry[w] # o
  <2>1. Bit(carry[w] = o) = 0 /\ Bit(resJob[w] = o) = 0
    BY <1>9 DEF Bit
  <2>2. Shift(o, 0, 0, 0)
    BY <1>1, <1>2, <1>4, <1>5, <1>6, <2>1 DEF Shift, Totals
  <2>3. Kept(o)
    BY <1>2, <1>6, <1>9 DEF Kept, TypeOK
  <2> QED
    BY <1>2, <2>2, <2>3 DEF Move, IsLeftAlone, SameRecord
<1> QED
  BY <1>7, <1>8, <1>9

LEMMA NextMove ==
  ASSUME NEW o \in Ops, TypeOK, TypeOK', AccountOf(o), CarryInv, Next
  PROVE  Move(o)
<1>1. CASE StartStop \/ PollerOnly \/ PollerFetchesNothing \/ NotifyWorkAvailable
  BY <1>1, QuietMove
     DEF StartStop, StartRunner, StartPublisher, StartPoller, StopRunner, StopPublisher,
         StopPoller, PollerOnly, PollerFetchesNothing, NotifyWorkAvailable, pollVars,
         pushVars, Poller!Start, Poller!Stop, Poller!CheckRunning,
         Poller!CheckBackpressure, Poller!SendHeartbeat, Poller!EnterSubmit,
         Poller!RecheckBackpressure, Poller!WaitForWork, Poller!PollIntervalReached,
         Poller!FetchNothing, Poller!NotifyWorkAvailable
<1>2. CASE \/ \E t \in Timers : TimerFires(t)
           \/ \E w \in Runner!Workers : RunnerAdvances(w)
           \/ \E w \in Publisher!Workers : PublisherAdvances(w)
  BY <1>2, QuietMove
     DEF TimerFires, RunnerAdvances, PublisherAdvances, pollVars, pushVars
<1>3. CASE \E p \in Ops : Enqueue(p)
  BY <1>3, EnqueueMove
<1>4. CASE \E p \in Ops : PollerFetches(p) \/ PollerLosesResponse(p)
  BY <1>4, FetchMove
<1>5. CASE PollerDropsOnStop \/ PollerSkips \/ PollerDies
  BY <1>5, PollerGivesUpMove
<1>6. CASE PollerSubmits
  BY <1>6, PollerSubmitsMove
<1>7. CASE \E w \in Runner!Workers : Execute(w)
  BY <1>7, ExecuteMove
<1>8. CASE \E w \in Publisher!Workers : Push(w)
  BY <1>8, PushFailsMove, PushSucceedsMove, PushResponseLostMove DEF Push
<1>9. CASE \E w \in Publisher!Workers : HandlePiggybacked(w)
  BY <1>9, PiggybackMove
<1> QED
  BY <1>1, <1>2, <1>3, <1>4, <1>5, <1>6, <1>7, <1>8, <1>9 DEF Next, PollerStep

-----------------------------------------------------------------------------
\* The piggybacked operation is held until the handler returns.

\* An answer that was recorded stays recorded.
LEMMA AnsweredStays ==
  ASSUME NEW o \in Ops, orch[o] = "answered", Move(o)
  PROVE  orch'[o] = "answered"
  BY DEF Move, IsLeftAlone, IsEnqueued, IsAccepted, IsLostOnTheWay, IsGivenUp, IsStarted,
         IsExecuted, HasNoResult, IsAnswered, IsForgotten, SameRecord, Recorded

\* A step that lets the threads in a handler go on keeps what they hold.
LEMMA HandlersGoOn ==
  ASSUME TypeOK, NEW w \in Publisher!Workers, resPc[w] = "handling",
         \/ UNCHANGED resVars
         \/ Publisher!Start
         \/ Publisher!Stop
         \/ \E p \in Ops : Publisher!Schedule(p)
         \/ \E v \in Publisher!Workers : Publisher!Advance(v)
         \/ \E v \in Publisher!Workers \ {w} : Publisher!Return(v)
  PROVE  resPc'[w] = "handling" /\ resJob'[w] = resJob[w]
<1> USE DEF TypeOK, Publisher!TypeOK
<1>1. CASE UNCHANGED resVars
  BY <1>1 DEF resVars
<1>2. CASE Publisher!Start \/ Publisher!Stop \/ \E p \in Ops : Publisher!Schedule(p)
  BY <1>2 DEF Publisher!Start, Publisher!Stop, Publisher!Schedule, Publisher!NotifyAll
<1>3. ASSUME NEW v \in Publisher!Workers, Publisher!Advance(v)
      PROVE  resPc'[w] = "handling" /\ resJob'[w] = resJob[w]
  BY <1>3 DEF Publisher!Advance, Publisher!CheckRunning, Publisher!Wait, Publisher!Quit,
              Publisher!Pop
<1>4. ASSUME NEW v \in Publisher!Workers \ {w}, Publisher!Return(v)
      PROVE  resPc'[w] = "handling" /\ resJob'[w] = resJob[w]
  BY <1>4 DEF Publisher!Return
<1> QED
  BY <1>1, <1>2, <1>3, <1>4

LEMMA NextCarry ==
  ASSUME TypeOK, TypeOK', AccountInv, Next
  PROVE  CarryInv'
<1> SUFFICES ASSUME NEW w \in Publisher!Workers, carry'[w] # NoOp
             PROVE  resPc'[w] = "handling" /\ orch'[resJob'[w]] = "answered"
  BY DEF CarryInv
\* It is enough that the thread held it before, and its handler goes on.
<1>1. ASSUME carry'[w] = carry[w],
             \/ UNCHANGED resVars
             \/ Publisher!Start
             \/ Publisher!Stop
             \/ \E p \in Ops : Publisher!Schedule(p)
             \/ \E v \in Publisher!Workers : Publisher!Advance(v)
             \/ \E v \in Publisher!Workers \ {w} : Publisher!Return(v)
      PROVE  resPc'[w] = "handling" /\ orch'[resJob'[w]] = "answered"
  <2>1. resPc[w] = "handling" /\ orch[resJob[w]] = "answered"
    BY <1>1 DEF AccountInv, CarryInv
  <2>2. resPc'[w] = "handling" /\ resJob'[w] = resJob[w]
    BY <1>1, <2>1, HandlersGoOn
  <2>3. resJob[w] \in Ops
    BY <2>1 DEF TypeOK, Publisher!TypeOK
  <2>4. Move(resJob[w])
    BY <2>3, NextMove DEF AccountInv
  <2> QED
    BY <2>1, <2>2, <2>3, <2>4, AnsweredStays
<1>2. CASE \/ StartStop \/ PollerStep \/ NotifyWorkAvailable
           \/ \E o \in Ops : Enqueue(o)
           \/ \E t \in Timers : TimerFires(t)
           \/ \E v \in Runner!Workers : RunnerAdvances(v)
           \/ \E v \in Publisher!Workers : PublisherAdvances(v)
  BY <1>1, <1>2
     DEF StartStop, StartRunner, StartPublisher, StartPoller, StopRunner, StopPublisher,
         StopPoller, PollerStep, PollerOnly, PollerFetches, PollerLosesResponse,
         PollerFetchesNothing, PollerDropsOnStop, PollerSkips, PollerSubmits, PollerDies,
         NotifyWorkAvailable, Enqueue, TimerFires, RunnerAdvances, PublisherAdvances,
         pushVars
<1>3. ASSUME NEW v \in Runner!Workers, Execute(v)
      PROVE  resPc'[w] = "handling" /\ orch'[resJob'[w]] = "answered"
  <2>1. opsJob[v] \in OpItems
    BY <1>3 DEF Execute, ExecuteWithResult, ExecuteWithoutResult, Runner!Return, TypeOK,
                Runner!TypeOK
  <2>2. carry' = carry
    BY <1>3 DEF Execute, ExecuteWithResult, ExecuteWithoutResult, pushVars
  <2>3. UNCHANGED resVars \/ \E p \in Ops : Publisher!Schedule(p)
    BY <1>3, <2>1, ResultIsOfOps DEF Execute, ExecuteWithResult, ExecuteWithoutResult
  <2> QED
    BY <1>1, <2>2, <2>3
<1>4. ASSUME NEW v \in Publisher!Workers, PushFails(v)
      PROVE  resPc'[w] = "handling" /\ orch'[resJob'[w]] = "answered"
  <2>1. carry' = carry /\ v # w
    BY <1>4 DEF PushFails, Pushing
  <2>2. UNCHANGED resVars \/ Publisher!Return(v)
    BY <1>4 DEF PushFails, TryAgainOrGiveUp
  <2> QED
    BY <1>1, <2>1, <2>2
<1>5. ASSUME NEW v \in Publisher!Workers, NEW next \in Piggybacked, PushResponseLost(v, next)
      PROVE  resPc'[w] = "handling" /\ orch'[resJob'[w]] = "answered"
  <2>1. carry' = carry /\ v # w
    BY <1>5 DEF PushResponseLost, Pushing
  <2>2. UNCHANGED resVars \/ Publisher!Return(v)
    BY <1>5 DEF PushResponseLost, TryAgainOrGiveUp
  <2> QED
    BY <1>1, <2>1, <2>2
<1>6. ASSUME NEW v \in Publisher!Workers, NEW next \in Piggybacked, PushSucceeds(v, next)
      PROVE  resPc'[w] = "handling" /\ orch'[resJob'[w]] = "answered"
  <2>1. CASE v = w
    <3>1. next # NoOp /\ UNCHANGED resVars
      BY <1>6, <2>1 DEF PushSucceeds, Pushing
    <3>2. resPc[w] = "handling" /\ resJob[w] \in Ops
      BY <1>6, <2>1 DEF PushSucceeds, Pushing, TypeOK, Publisher!TypeOK
    <3>3. next # resJob[w]
      <4>1. AccountOf(resJob[w])
        BY <3>2 DEF AccountInv
      <4>2. orch[resJob[w]] \in {"assigned", "answered"}
        BY <3>2, <4>1, PushedAndCarried
      <4> QED
        BY <3>1, <4>2 DEF Piggybacked
    <3>4. orch'[resJob[w]] = "answered"
      BY <1>6, <2>1, <3>2, <3>3 DEF PushSucceeds, Answered
    <3> QED
      BY <3>1, <3>2, <3>4 DEF resVars
  <2>2. CASE v # w
    <3>1. carry'[w] = carry[w]
      BY <1>6, <2>2 DEF PushSucceeds, TypeOK
    <3>2. UNCHANGED resVars \/ Publisher!Return(v)
      BY <1>6 DEF PushSucceeds
    <3> QED
      BY <1>1, <2>2, <3>1, <3>2
  <2> QED
    BY <2>1, <2>2
<1>7. ASSUME NEW v \in Publisher!Workers, HandlePiggybacked(v)
      PROVE  resPc'[w] = "handling" /\ orch'[resJob'[w]] = "answered"
  <2>1. PiggybackEnds(v)
    BY <1>7 DEF HandlePiggybacked, SubmitPiggybacked, SkipPiggybacked, FailPiggybacked
  <2>2. v # w /\ carry'[w] = carry[w]
    BY <2>1 DEF PiggybackEnds, TypeOK
  <2> QED
    BY <1>1, <2>1, <2>2 DEF PiggybackEnds
<1> QED
  BY <1>2, <1>3, <1>4, <1>5, <1>6, <1>7 DEF Next, Push

LEMMA StutterMove ==
  ASSUME NEW o \in Ops, TypeOK, TypeOK', UNCHANGED vars
  PROVE  Move(o)
  BY QuietMove DEF vars, pollVars, pushVars

LEMMA InitAccount == Init => AccountInv
<1> SUFFICES ASSUME Init
             PROVE  AccountInv
  OBVIOUS
<1>1. ASSUME NEW o \in Ops
      PROVE  AccountOf(o)
  <2>1. o # NoOp
    BY EgressAgentServiceAssumption
  <2>2. /\ QueuedAt(o) = {} /\ RunBy(o) = {} /\ ResultAt(o) = {}
        /\ PushedBy(o) = {} /\ CarriedBy(o) = {} /\ ~InPoller(o)
    BY <2>1 DEF Init, Runner!Init, Publisher!Init, Poller!Init, QueuedAt, RunBy, ResultAt,
                PushedBy, CarriedBy, InPoller
  <2>3. Held(o) = 0
    BY <2>2, FS_EmptySet DEF Held, ToRun, Running, ToPush
  <2> QED
    BY <2>3 DEF Init, AccountOf
<1>2. CarryInv
  BY DEF Init, CarryInv
<1> QED
  BY <1>1, <1>2 DEF AccountInv

LEMMA NextAccount == TypeOK /\ TypeOK' /\ AccountInv /\ [Next]_vars => AccountInv'
<1> SUFFICES ASSUME TypeOK, TypeOK', AccountInv, [Next]_vars
             PROVE  AccountInv'
  OBVIOUS
<1>1. ASSUME NEW o \in Ops
      PROVE  AccountOf(o)'
  <2>1. Move(o)
    BY NextMove, StutterMove DEF AccountInv
  <2> QED
    BY <2>1, MoveAccount DEF AccountInv
<1>2. CarryInv'
  <2>1. CASE UNCHANGED vars
    BY <2>1 DEF vars, resVars, pushVars, AccountInv, CarryInv
  <2> QED
    BY <2>1, NextCarry
<1> QED
  BY <1>1, <1>2 DEF AccountInv

LEMMA AccountInvariant == Spec => [](TypeOK /\ AccountInv)
  BY InitAccount, NextAccount, ServiceTypeCorrect, PTL DEF Spec

\* An operation the agent was given is in one place, once, until its result is
\* accepted or it is let go for a recorded reason.
THEOREM OperationsAreAccounted == Spec => []Accounted
  BY AccountInvariant, AccountedByOperation, PTL DEF AccountInv

\* The life of an operation, seen through its places, is the one of module
\* OperationLifecycle: it is executed at most once, and never taken up again.
THEOREM ImplementsLifecycle == Spec => LifecycleSpec
<1> DEFINE stages == [o \in Ops |-> Stage(o)]
<1>1. Init => Lifecycle!Init
  <2> SUFFICES ASSUME Init
               PROVE  \A o \in Ops : Stage(o) = "absent"
    BY DEF Lifecycle!Init
  <2>1. \A o \in Ops : AccountOf(o) /\ Totals(o) /\ orch[o] = "absent"
    BY InitAccount, InitTypeOK, TotalsHold DEF AccountInv, AllTotals, Init
  <2>2. \A o \in Ops : ToRun(o) = 0 /\ Running(o) = 0 /\ ToPush(o) = 0
    BY <2>1, AccountMeans
  <2> QED
    BY <2>1, <2>2 DEF Stage
<1>2. TypeOK /\ TypeOK' /\ AccountInv /\ [Next]_vars => [Lifecycle!Next]_stages
  <2> SUFFICES ASSUME TypeOK, TypeOK', AccountInv, [Next]_vars
               PROVE  Lifecycle!Next
    OBVIOUS
  <2>1. ASSUME NEW o \in Ops
        PROVE  /\ Stage(o)' \in Lifecycle!Stages
               /\ Stage(o)' # Stage(o) => <<Stage(o), Stage(o)'>> \in Lifecycle!Edges
    <3>1. Move(o) /\ AccountOf(o)
      BY NextMove, StutterMove DEF AccountInv
    <3> QED
      BY <3>1, MoveStage
  <2> QED
    BY <2>1 DEF Lifecycle!Next
<1> QED
  BY <1>1, <1>2, AccountInvariant, PTL DEF Spec, LifecycleSpec, Lifecycle!Spec
=============================================================================
