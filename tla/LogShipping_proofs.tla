------------------------- MODULE LogShipping_proofs -------------------------
(***************************************************************************)
(* Theorems about module LogShipping, for any number of records, any size  *)
(* of the buffer, any threads and any number of tries.                     *)
(***************************************************************************)
EXTENDS LogShipping, FiniteSetTheorems, TLAPS

USE DEF stopVars

\* RecordsConserved, without cardinalities: a record has one place.
PlaceInv ==
    \A r \in Records :
        /\ r > emitted => fate[r] = "none" /\ copies[r] = 0
        /\ InBuffer(r) => fate[r] = "none" /\ copies[r] = 0 /\ HeldBy(r) = {}
        /\ \A t \in HeldBy(r) : fate[r] = "none" /\ HeldBy(r) = {t}
        /\ r <= emitted /\ fate[r] = "none" => InBuffer(r) \/ HeldBy(r) # {}
        /\ copies[r] > 0 => HeldBy(r) # {} \/ fate[r] = "shipped"
        /\ fate[r] = "shipped" => copies[r] > 0

\* Only a thread that posts has a batch, and stop() has none before it drains.
BatchInv == /\ \A t \in Threads : pc[t] # "posting" => batch[t] = <<>>
            /\ stage \in {"up", "runner_down", "sender_down"} => pc[Stopper] = "idle"

\* A record is stored at most once per try.
CopiesInv == \A r \in Records : \A t \in HeldBy(r) : copies[r] <= tries[t]

ShippingInv == TypeOK /\ PlaceInv /\ BatchInv /\ NewestKept /\ CopiesInv

-----------------------------------------------------------------------------
LEMMA InitHolds == Init => ShippingInv
<1> SUFFICES ASSUME Init PROVE ShippingInv
  OBVIOUS
<1> USE LogShippingAssumption DEF Init
<1>1. TypeOK
  <2>1. buffer \in Seq(1 .. emitted) /\ Len(buffer) <= BufferSize
    OBVIOUS
  <2>2. batch \in [Threads -> Seq(1 .. emitted)] /\ tries \in [Threads -> 0 .. Tries - 1]
    OBVIOUS
  <2>3. copies \in [Records -> Nat] /\ fate \in [Records -> Fates]
    BY DEF Fates
  <2>4. emitted \in 0 .. MaxRecords /\ requests \in 0 .. MaxRequests
    OBVIOUS
  <2>6. Sender!TypeOK
    BY DEF Sender!TypeOK, Sender!Init
  <2>5. pc \in [Threads -> {"idle", "flushing", "posting"}] /\ notice \in [Threads -> Nat]
    OBVIOUS
  <2> QED
    BY <2>1, <2>2, <2>3, <2>4, <2>5, <2>6 DEF TypeOK, Stages
<1>2. \A r \in Records : ~InBuffer(r) /\ HeldBy(r) = {}
  BY DEF InBuffer, HeldBy, InBatch
<1>3. PlaceInv /\ CopiesInv
  BY <1>2 DEF PlaceInv, CopiesInv, Records
<1>4. BatchInv /\ NewestKept
  BY DEF BatchInv, NewestKept, Threads
<1> QED
  BY <1>1, <1>3, <1>4 DEF ShippingInv

\* What was emitted so far only grows, and with it the types.
LEMMA SeqGrows ==
  ASSUME NEW n \in Nat, NEW s \in Seq(1 .. n)
  PROVE  s \in Seq(1 .. (n + 1))
  BY 1 .. n \subseteq 1 .. (n + 1)

\* What the full buffer becomes.
LEMMA EvictingAppend ==
  ASSUME NEW n \in Nat, NEW s \in Seq(1 .. n), Len(s) > 0
  PROVE  LET e == Append(Tail(s), n + 1)
         IN  /\ e \in Seq(1 .. (n + 1))
             /\ Len(e) = Len(s)
             /\ \A i \in 1 .. Len(s) : e[i] = IF i = Len(s) THEN n + 1 ELSE s[i + 1]
<1>1. s \in Seq(1 .. (n + 1)) /\ n + 1 \in 1 .. (n + 1)
  BY SeqGrows
<1>2. Tail(s) \in Seq(1 .. (n + 1)) /\ Len(Tail(s)) = Len(s) - 1
  BY <1>1
<1>3. \A i \in 1 .. Len(s) - 1 : Tail(s)[i] = s[i + 1]
  BY <1>1
<1>4. /\ Append(Tail(s), n + 1) \in Seq(1 .. (n + 1))
      /\ Len(Append(Tail(s), n + 1)) = Len(s)
  BY <1>1, <1>2
<1>5. \A i \in 1 .. Len(s) : Append(Tail(s), n + 1)[i] = IF i = Len(s) THEN n + 1 ELSE s[i + 1]
  <2> SUFFICES ASSUME NEW i \in 1 .. Len(s)
               PROVE  Append(Tail(s), n + 1)[i] = IF i = Len(s) THEN n + 1 ELSE s[i + 1]
    OBVIOUS
  <2>1. CASE i = Len(s)
    BY <1>1, <1>2, <2>1
  <2>2. CASE i # Len(s)
    <3>1. i \in 1 .. Len(s) - 1
      BY <1>1, <2>2
    <3>2. Append(Tail(s), n + 1)[i] = Tail(s)[i]
      BY <1>1, <1>2, <3>1
    <3> QED
      BY <1>3, <2>2, <3>1, <3>2
  <2> QED
    BY <2>1, <2>2
<1> QED
  BY <1>4, <1>5

-----------------------------------------------------------------------------
\* The steps that leave the records where they are.

Moves == <<emitted, buffer, batch, tries, copies, fate>>

LEMMA QuietStep ==
  ASSUME ShippingInv, UNCHANGED Moves
  PROVE  PlaceInv' /\ NewestKept' /\ CopiesInv'
<1>1. \A r : InBuffer(r)' = InBuffer(r) /\ HeldBy(r)' = HeldBy(r)
  BY DEF Moves, InBuffer, HeldBy, InBatch
<1> QED
  BY <1>1 DEF ShippingInv, Moves, PlaceInv, NewestKept, CopiesInv

LEMMA SenderKeepsType ==
  ASSUME Sender!TypeOK, Sender!Start \/ Sender!Advance \/ Sender!Return \/ Sender!Stop
  PROVE  Sender!TypeOK'
  BY DEF Sender!TypeOK, Sender!Start, Sender!Advance, Sender!Return, Sender!Stop,
         Sender!CheckRunning, Sender!EnterWait, Sender!IntervalElapses, Sender!CheckStopped,
         Sender!Call

LEMMA TimerSteps ==
  ASSUME ShippingInv, SenderStarts \/ SenderAdvances \/ PushLogs
  PROVE  ShippingInv'
<1>1. TypeOK'
  BY SenderKeepsType, LogShippingAssumption
     DEF ShippingInv, TypeOK, SenderStarts, SenderAdvances, PushLogs, logVars, bufferVars,
         sending, backend, Sender!TypeOK
<1>2. BatchInv'
  BY DEF ShippingInv, BatchInv, SenderStarts, SenderAdvances, PushLogs, logVars, sending
<1> QED
  BY <1>1, <1>2, QuietStep
     DEF ShippingInv, Moves, SenderStarts, SenderAdvances, PushLogs, logVars, bufferVars,
         sending, backend

LEMMA BeginFlushStep ==
  ASSUME ShippingInv, NEW p \in Pushers, BeginFlush(p)
  PROVE  ShippingInv'
<1>1. TypeOK'
  BY LogShippingAssumption
     DEF ShippingInv, TypeOK, BeginFlush, senderVars, bufferVars, backend, Threads, Sender!TypeOK
<1>2. BatchInv'
  BY LogShippingAssumption DEF ShippingInv, TypeOK, BatchInv, BeginFlush, Threads
<1> QED
  BY <1>1, <1>2, QuietStep DEF ShippingInv, Moves, BeginFlush, bufferVars, backend

LEMMA StopSteps ==
  ASSUME ShippingInv, StopRunner \/ StopSender \/ CloseService
  PROVE  ShippingInv'
<1> USE DEF StopRunner, StopSender, CloseService, StopStage, bufferVars, sending, backend
<1>1. TypeOK'
  BY SenderKeepsType DEF ShippingInv, TypeOK, Stages, senderVars, Sender!TypeOK
<1>2. BatchInv'
  BY DEF ShippingInv, BatchInv
<1> QED
  BY <1>1, <1>2, QuietStep DEF ShippingInv, Moves

-----------------------------------------------------------------------------
\* A record is emitted.

LEMMA EmitStep ==
  ASSUME ShippingInv, Emit
  PROVE  ShippingInv'
<1> DEFINE new == emitted + 1
<1>1. /\ new \in Records /\ emitted \in Nat /\ emitted' = new
      /\ buffer \in Seq(1 .. emitted) /\ fate[new] = "none" /\ copies[new] = 0
      /\ fate \in [Records -> Fates]
      /\ \A r \in 1 .. emitted : r \in Records /\ r # new
  BY LogShippingAssumption DEF ShippingInv, TypeOK, PlaceInv, Emit, NextRecord, Records
<1>2. UNCHANGED <<stage, lastDrain, senderRunning, senderPc, requests, pc, batch, notice, tries, copies,
                  noticed>>
  BY DEF Emit, senderVars, sending, backend
<1>3. batch' \in [Threads -> Seq(1 .. new)]
  BY <1>1, <1>2, SeqGrows DEF ShippingInv, TypeOK
<1>4. \A r : HeldBy(r)' = HeldBy(r)
  BY <1>2 DEF HeldBy, InBatch
<1>5. \A r : HeldBy(r) # {} => r \in 1 .. emitted
  BY DEF ShippingInv, TypeOK, HeldBy, InBatch
<1>6. CASE Len(buffer) = BufferSize
  <2>1. /\ buffer' = Append(Tail(buffer), new) /\ droppedCount' = droppedCount + 1
        /\ fate' = [fate EXCEPT ![Head(buffer)] = "evicted"]
    BY <1>6 DEF Emit, AppendToBuffer, CountDropped, EvictOldest
  <2>2. /\ Len(buffer) > 0
        /\ Head(buffer) = buffer[1]
        /\ buffer[1] \in 1 .. emitted
    BY <1>1, <1>6, LogShippingAssumption
  <2>3. /\ buffer' \in Seq(1 .. new) /\ Len(buffer') = Len(buffer)
        /\ \A i \in 1 .. Len(buffer) :
               buffer'[i] = IF i = Len(buffer) THEN new ELSE buffer[i + 1]
    BY <1>1, <2>1, <2>2, EvictingAppend
  <2>4. \A i \in 1 .. Len(buffer) : i # 1 => buffer[i] # buffer[1]
    BY <1>1, <2>2 DEF ShippingInv, NewestKept
  <2>5. \A r \in Records : InBuffer(r)' <=> r = new \/ (InBuffer(r) /\ r # buffer[1])
    <3> SUFFICES ASSUME NEW r \in Records
                 PROVE  InBuffer(r)' <=> r = new \/ (InBuffer(r) /\ r # buffer[1])
      OBVIOUS
    <3>1. DOMAIN buffer' = 1 .. Len(buffer) /\ DOMAIN buffer = 1 .. Len(buffer)
      BY <1>1, <2>3
    <3>2. InBuffer(r)' <=> \E i \in 1 .. Len(buffer) : buffer'[i] = r
      BY <3>1 DEF InBuffer
    <3>3. InBuffer(r) <=> \E i \in 1 .. Len(buffer) : buffer[i] = r
      BY <3>1 DEF InBuffer
    <3>4. buffer'[Len(buffer)] = new
      BY <1>1, <2>2, <2>3
    <3>5. ASSUME NEW i \in 1 .. Len(buffer), buffer'[i] = r, r # new
          PROVE  InBuffer(r) /\ r # buffer[1]
      <4>1. i # Len(buffer) /\ i + 1 \in 1 .. Len(buffer) /\ buffer[i + 1] = r
        BY <1>1, <2>3, <3>5
      <4> QED
        BY <2>4, <3>3, <4>1
    <3>6. ASSUME NEW i \in 1 .. Len(buffer), buffer[i] = r, r # buffer[1]
          PROVE  InBuffer(r)'
      <4>1. i # 1 /\ i - 1 \in 1 .. Len(buffer) /\ i - 1 # Len(buffer)
        BY <1>1, <3>6
      <4>2. buffer'[i - 1] = r
        BY <2>3, <3>6, <4>1
      <4> QED
        BY <3>2, <4>1, <4>2
    <3> QED
      BY <1>1, <2>2, <3>2, <3>3, <3>4, <3>5, <3>6
  <2>6. TypeOK'
    BY <1>1, <1>2, <1>3, <1>6, <2>1, <2>3
       DEF ShippingInv, TypeOK, Fates, Records, Sender!TypeOK
  <2>7. buffer[1] \in Records /\ InBuffer(buffer[1])
    BY <1>1, <2>2 DEF InBuffer
  <2>8. \A r \in Records : fate'[r] = IF r = buffer[1] THEN "evicted" ELSE fate[r]
    BY <1>1, <2>1, <2>2
  <2>9. PlaceInv'
    BY <1>1, <1>2, <1>4, <1>5, <2>2, <2>5, <2>7, <2>8, SMTT(60) DEF ShippingInv, PlaceInv, Records
  <2>10. NewestKept'
    <3>1. ASSUME NEW i \in DOMAIN buffer', NEW j \in DOMAIN buffer', i < j
          PROVE  buffer'[i] < buffer'[j]
      <4>1. i \in 1 .. Len(buffer) /\ j \in 1 .. Len(buffer) /\ i # Len(buffer)
        BY <1>1, <2>3, <3>1
      <4>2. i + 1 \in DOMAIN buffer /\ buffer'[i] = buffer[i + 1] /\ buffer[i + 1] < new
        BY <1>1, <2>3, <4>1
      <4>3. j # Len(buffer) => buffer[i + 1] < buffer[j + 1] /\ buffer'[j] = buffer[j + 1]
        <5> SUFFICES ASSUME j # Len(buffer)
                     PROVE  buffer[i + 1] < buffer[j + 1] /\ buffer'[j] = buffer[j + 1]
          OBVIOUS
        <5>1. j + 1 \in DOMAIN buffer /\ i + 1 < j + 1
          BY <1>1, <3>1, <4>1
        <5>2. buffer'[j] = buffer[j + 1]
          BY <2>3, <4>1
        <5> QED
          BY <4>2, <5>1, <5>2 DEF ShippingInv, NewestKept
      <4> QED
        BY <2>3, <4>1, <4>2, <4>3
    <3>2. ASSUME NEW i \in DOMAIN buffer', NEW r \in Records,
                 HeldBy(r)' # {} \/ fate'[r] \in {"evicted", "shipped", "push_failed"}
          PROVE  r < buffer'[i]
      <4>1. i \in 1 .. Len(buffer)
        BY <1>1, <2>3
      <4>2. r = buffer[1] \/ HeldBy(r) # {} \/ fate[r] \in {"evicted", "shipped", "push_failed"}
        BY <1>4, <2>8, <3>2
      <4>3. r < new
        BY <1>1, <1>5, <2>2, <4>2 DEF ShippingInv, PlaceInv, Records
      <4>4. CASE i = Len(buffer)
        BY <2>3, <4>1, <4>3, <4>4
      <4>5. CASE i # Len(buffer)
        <5>1. i + 1 \in DOMAIN buffer /\ 1 \in DOMAIN buffer /\ buffer'[i] = buffer[i + 1]
          BY <1>1, <2>2, <2>3, <4>1, <4>5
        <5> QED
          BY <1>1, <4>1, <4>2, <5>1 DEF ShippingInv, NewestKept
      <4> QED
        BY <4>4, <4>5
    <3> QED
      BY <3>1, <3>2 DEF NewestKept
  <2> QED
    BY <1>2, <1>4, <2>6, <2>9, <2>10 DEF ShippingInv, BatchInv, CopiesInv
<1>7. CASE Len(buffer) # BufferSize
  <2>1. buffer' = Append(buffer, new) /\ UNCHANGED <<droppedCount, fate>>
    BY <1>7 DEF Emit, AppendToBuffer
  <2>2. /\ buffer' \in Seq(1 .. new) /\ Len(buffer') = Len(buffer) + 1
        /\ \A i \in 1 .. Len(buffer) : buffer'[i] = buffer[i]
        /\ buffer'[Len(buffer) + 1] = new
    BY <1>1, <2>1, SeqGrows
  <2>3. \A r \in Records : InBuffer(r)' <=> r = new \/ InBuffer(r)
    <3>1. DOMAIN buffer' = 1 .. (Len(buffer) + 1) /\ DOMAIN buffer = 1 .. Len(buffer)
      BY <1>1, <2>2
    <3>2. 1 .. (Len(buffer) + 1) = 1 .. Len(buffer) \cup {Len(buffer) + 1}
      BY <1>1
    <3> QED
      BY <2>2, <3>1, <3>2 DEF InBuffer
  <2>4. TypeOK'
    BY <1>1, <1>2, <1>3, <1>7, <2>1, <2>2, LogShippingAssumption
       DEF ShippingInv, TypeOK, Records, Sender!TypeOK
  <2>5. PlaceInv'
    BY <1>1, <1>2, <1>4, <1>5, <2>1, <2>3 DEF ShippingInv, PlaceInv, Records
  <2>6. NewestKept'
    <3>1. \A i \in DOMAIN buffer' : (i \in DOMAIN buffer /\ buffer'[i] = buffer[i])
                                      \/ (i = Len(buffer) + 1 /\ buffer'[i] = new)
      <4>1. DOMAIN buffer' = 1 .. (Len(buffer) + 1) /\ DOMAIN buffer = 1 .. Len(buffer)
        BY <1>1, <2>2
      <4>2. \A i \in DOMAIN buffer' : i \in 1 .. Len(buffer) \/ i = Len(buffer) + 1
        BY <1>1, <4>1
      <4> QED
        BY <2>2, <4>1, <4>2
    <3>2. \A i \in DOMAIN buffer : buffer[i] < new /\ i < Len(buffer) + 1
      BY <1>1
    <3>3. \A r \in Records : HeldBy(r) # {} \/ fate[r] # "none" => r < new
      BY <1>1, <1>5 DEF ShippingInv, PlaceInv, Records
    <3>4. \A i, j \in DOMAIN buffer' : i < j => buffer'[i] < buffer'[j]
      BY <1>1, <3>1, <3>2 DEF ShippingInv, NewestKept
    <3>5. \A i \in DOMAIN buffer', r \in Records :
              HeldBy(r)' # {} \/ fate'[r] \in {"evicted", "shipped", "push_failed"}
                  => r < buffer'[i]
      BY <1>4, <2>1, <3>1, <3>3 DEF ShippingInv, NewestKept
    <3> QED
      BY <3>4, <3>5 DEF NewestKept
  <2> QED
    BY <1>2, <1>4, <2>4, <2>5, <2>6 DEF ShippingInv, BatchInv, CopiesInv
<1> QED
  BY <1>6, <1>7

LEMMA EmitUncapturedStep ==
  ASSUME ShippingInv, EmitUncaptured
  PROVE  ShippingInv'
<1> DEFINE new == emitted + 1
<1>1. /\ new \in Records /\ emitted \in Nat /\ emitted' = new
      /\ buffer \in Seq(1 .. emitted) /\ fate[new] = "none" /\ copies[new] = 0
      /\ fate' = [fate EXCEPT ![new] = "not_captured"] /\ fate \in [Records -> Fates]
  BY LogShippingAssumption
     DEF ShippingInv, TypeOK, PlaceInv, EmitUncaptured, NextRecord, Records
<1>2. UNCHANGED <<stage, lastDrain, senderRunning, senderPc, requests, buffer, droppedCount, pc, batch,
                  notice, tries, copies, noticed>>
  BY DEF EmitUncaptured, senderVars, bufferVars, sending, backend
<1>3. batch' \in [Threads -> Seq(1 .. new)] /\ buffer' \in Seq(1 .. new)
  BY <1>1, <1>2, SeqGrows DEF ShippingInv, TypeOK
<1>4. \A r : HeldBy(r)' = HeldBy(r) /\ InBuffer(r)' = InBuffer(r)
  BY <1>2 DEF HeldBy, InBatch, InBuffer
<1>5. \A r : HeldBy(r) # {} \/ InBuffer(r) => r \in 1 .. emitted
  BY DEF ShippingInv, TypeOK, HeldBy, InBatch, InBuffer
<1>6. TypeOK'
  BY <1>1, <1>2, <1>3 DEF ShippingInv, TypeOK, Fates, Records, Sender!TypeOK
<1>7. PlaceInv'
  BY <1>1, <1>2, <1>4, <1>5 DEF ShippingInv, PlaceInv, Records, Fates
<1>8. NewestKept'
  BY <1>1, <1>2, <1>4, <1>5 DEF ShippingInv, NewestKept
<1> QED
  BY <1>2, <1>4, <1>6, <1>7, <1>8 DEF ShippingInv, BatchInv, CopiesInv

-----------------------------------------------------------------------------
\* The buffer is drained into the batch of a thread that has none.

LEMMA DrainStep ==
  ASSUME ShippingInv, NEW t \in Threads, Drain(t), batch[t] = <<>>,
         UNCHANGED <<senderVars, requests, emitted, backend, fate>>,
         stage' \in Stages,
         t = Stopper => stage' \in {"drained", "closed"},
         lastDrain' \in {lastDrain, emitted},
         t # Stopper => UNCHANGED stage
  PROVE  ShippingInv'
<1>1. /\ batch' = [batch EXCEPT ![t] = buffer] /\ buffer' = <<>>
      /\ notice' = [notice EXCEPT ![t] = droppedCount] /\ droppedCount' = 0
      /\ pc' = [pc EXCEPT ![t] = IF buffer = <<>> THEN "idle" ELSE "posting"]
      /\ UNCHANGED <<senderRunning, senderPc, requests, emitted, tries, copies, noticed, fate>>
  BY DEF Drain, ClearBuffer, senderVars, backend
<1>2. /\ pc \in [Threads -> {"idle", "flushing", "posting"}]
      /\ batch \in [Threads -> Seq(1 .. emitted)] /\ buffer \in Seq(1 .. emitted)
      /\ notice \in [Threads -> Nat] /\ droppedCount \in Nat
      /\ tries \in [Threads -> 0 .. Tries - 1]
  BY DEF ShippingInv, TypeOK
<1>3. \A r : ~InBuffer(r)'
  BY <1>1 DEF InBuffer
<1>4. InBatch(t) = {}
  BY DEF InBatch
<1>5. \A r : \A u \in Threads : r \in InBatch(u)' <=> (u # t /\ r \in InBatch(u)) \/ (u = t /\ InBuffer(r))
  BY <1>1, <1>2 DEF InBatch, InBuffer
<1>6. \A r : HeldBy(r)' = IF InBuffer(r) THEN HeldBy(r) \cup {t} ELSE HeldBy(r)
  BY <1>4, <1>5 DEF HeldBy
<1>7. TypeOK'
  <2>1. buffer' \in Seq(1 .. emitted') /\ Len(buffer') <= BufferSize
    BY <1>1, LogShippingAssumption
  <2> QED
    BY <1>1, <1>2, <2>1 DEF ShippingInv, TypeOK, Sender!TypeOK
<1>8. PlaceInv'
  BY <1>1, <1>3, <1>6 DEF ShippingInv, PlaceInv
<1>9. BatchInv'
  BY <1>1, <1>2 DEF ShippingInv, BatchInv, Threads
<1>10. NewestKept'
  BY <1>1 DEF NewestKept
<1>11. CopiesInv'
  <2> SUFFICES ASSUME NEW r \in Records, NEW u \in HeldBy(r)' PROVE copies'[r] <= tries'[u]
    BY DEF CopiesInv
  <2>1. u \in Threads /\ tries[u] \in Nat /\ copies[r] \in Nat
    BY <1>2, LogShippingAssumption DEF HeldBy, ShippingInv, TypeOK
  <2>2. CASE InBuffer(r)
    BY <1>1, <2>1, <2>2 DEF ShippingInv, PlaceInv
  <2>3. CASE ~InBuffer(r)
    BY <1>1, <1>6, <2>3 DEF ShippingInv, CopiesInv
  <2> QED
    BY <2>2, <2>3
<1> QED
  BY <1>7, <1>8, <1>9, <1>10, <1>11 DEF ShippingInv

LEMMA FlushStep ==
  ASSUME ShippingInv, NEW p \in Pushers, FlushLogs(p)
  PROVE  ShippingInv'
<1>1. p \in Threads /\ p # Stopper /\ batch[p] = <<>>
  BY LogShippingAssumption DEF FlushLogs, Threads, ShippingInv, BatchInv
<1> QED
  BY <1>1, DrainStep DEF FlushLogs, ShippingInv, TypeOK

LEMMA DrainOnStopStep ==
  ASSUME ShippingInv, DrainOnStop
  PROVE  ShippingInv'
<1>1. Stopper \in Threads /\ batch[Stopper] = <<>>
  BY DEF DrainOnStop, StopStage, Threads, ShippingInv, BatchInv
<1> QED
  BY <1>1, DrainStep DEF DrainOnStop, StopStage, Stages

-----------------------------------------------------------------------------
\* A try of a POST: the batch may be stored, and it may be let go.

\* When the batch stays, it has had one more try.
Retried(t) == /\ tries' = [tries EXCEPT ![t] = @ + 1]
              /\ tries[t] + 1 < Tries
              /\ UNCHANGED <<pc, batch, notice, noticed, fate>>

LEMMA PostOutcome ==
  ASSUME ShippingInv, NEW t \in Threads, Post(t)
  PROVE  /\ pc[t] = "posting"
         /\ Store(t) \/ UNCHANGED copies
         /\ EndPost(t) \/ Retried(t)
         /\ UNCHANGED <<stage, lastDrain, senderRunning, senderPc, requests, emitted, buffer, droppedCount>>
<1>1. TriesOf(t) \in Nat /\ TriesOf(t) <= Tries /\ Tries \in Nat /\ tries[t] \in Nat
  BY LogShippingAssumption DEF TriesOf, ShippingInv, TypeOK
<1>2. TryAgainOrGiveUp(t) => EndPost(t) \/ Retried(t)
  <2>1. tries[t] + 1 < TriesOf(t) => tries[t] + 1 < Tries
    BY <1>1
  <2> QED
    BY <2>1 DEF TryAgainOrGiveUp, Retried
<1> QED
  BY <1>2 DEF Post, senderVars, bufferVars

LEMMA PostStep ==
  ASSUME ShippingInv, NEW t \in Threads, Post(t)
  PROVE  ShippingInv'
<1>1. /\ pc[t] = "posting"
      /\ Store(t) \/ UNCHANGED copies
      /\ UNCHANGED <<stage, lastDrain, senderRunning, senderPc, requests, emitted, buffer, droppedCount>>
  BY PostOutcome
<1>2. /\ pc \in [Threads -> {"idle", "flushing", "posting"}]
      /\ batch \in [Threads -> Seq(1 .. emitted)] /\ notice \in [Threads -> Nat]
      /\ tries \in [Threads -> 0 .. Tries - 1] /\ noticed \in Nat
      /\ copies \in [Records -> Nat] /\ fate \in [Records -> Fates] /\ emitted \in Nat
  BY DEF ShippingInv, TypeOK
<1>3. /\ copies' \in [Records -> Nat]
      /\ \A r \in Records : \/ copies'[r] = copies[r]
                            \/ t \in HeldBy(r) /\ copies'[r] = copies[r] + 1
  <2>1. CASE UNCHANGED copies
    BY <1>2, <2>1
  <2>2. CASE Store(t)
    <3>1. copies' = [r \in Records |-> copies[r] + (IF r \in InBatch(t) THEN 1 ELSE 0)]
      BY <2>2 DEF Store
    <3>2. \A r : r \in InBatch(t) <=> t \in HeldBy(r)
      BY DEF HeldBy
    <3> QED
      BY <1>2, <3>1, <3>2
  <2> QED
    BY <1>1, <2>1, <2>2
<1>4. \A r : InBuffer(r)' = InBuffer(r)
  BY <1>1 DEF InBuffer
<1>5. \A r : HeldBy(r) # {} => r \in 1 .. emitted
  BY <1>2 DEF HeldBy, InBatch
<1>6. CASE Retried(t)
  <2>1. \A r : HeldBy(r)' = HeldBy(r)
    BY <1>6 DEF Retried, HeldBy, InBatch
  <2>2. TypeOK'
    BY <1>1, <1>2, <1>3, <1>6, LogShippingAssumption
       DEF ShippingInv, TypeOK, Retried, Sender!TypeOK
  <2>3. PlaceInv'
    <3> SUFFICES ASSUME NEW r \in Records PROVE PlaceInv!(r)'
      BY DEF PlaceInv
    <3>1. PlaceInv!(r)
      BY DEF ShippingInv, PlaceInv
    <3>2. UNCHANGED fate /\ copies[r] \in Nat
      BY <1>2, <1>6 DEF Retried
    <3>3. r > emitted => HeldBy(r) = {}
      <4>1. HeldBy(r) # {} => r \in 1 .. emitted
        BY <1>5
      <4>2. r \in Int /\ (r \in 1 .. emitted => r <= emitted)
        BY <1>2, LogShippingAssumption DEF Records
      <4> QED
        BY <1>2, <4>1, <4>2
    <3>4. InBuffer(r)' = InBuffer(r) /\ HeldBy(r)' = HeldBy(r)
      BY <1>4, <2>1
    <3> QED
      BY <1>1, <1>3, <3>1, <3>2, <3>3, <3>4
  <2>4. NewestKept'
    BY <1>1, <1>6, <2>1 DEF ShippingInv, NewestKept, Retried
  <2>5. CopiesInv'
    <3> SUFFICES ASSUME NEW r \in Records, NEW u \in HeldBy(r) PROVE copies'[r] <= tries'[u]
      BY <2>1 DEF CopiesInv
    <3>1. u \in Threads /\ tries[u] \in Nat /\ copies[r] \in Nat /\ copies[r] <= tries[u]
      BY <1>2, LogShippingAssumption DEF HeldBy, ShippingInv, CopiesInv
    <3>2. CASE u = t
      <4>1. tries'[t] = tries[t] + 1
        BY <1>2, <1>6 DEF Retried
      <4> QED
        BY <1>3, <3>1, <3>2, <4>1
    <3>3. CASE u # t
      <4>1. t \notin HeldBy(r)
        BY <3>3 DEF ShippingInv, PlaceInv
      <4> QED
        BY <1>2, <1>3, <1>6, <3>1, <3>3, <4>1 DEF Retried
    <3> QED
      BY <3>2, <3>3
  <2> QED
    BY <1>1, <1>6, <2>2, <2>3, <2>4, <2>5 DEF ShippingInv, BatchInv, Retried
<1>7. CASE EndPost(t)
  <2>1. /\ pc' = [pc EXCEPT ![t] = "idle"] /\ batch' = [batch EXCEPT ![t] = <<>>]
        /\ notice' = [notice EXCEPT ![t] = 0] /\ tries' = [tries EXCEPT ![t] = 0]
        /\ noticed' = noticed + notice[t]
    BY <1>7 DEF EndPost
  <2>2. /\ fate' \in [Records -> Fates]
        /\ \A r \in Records :
               fate'[r] = IF t \notin HeldBy(r) THEN fate[r]
                          ELSE IF copies'[r] > 0 THEN "shipped" ELSE "push_failed"
    BY <1>2, <1>7 DEF EndPost, HeldBy, Fates
  <2>3. \A r : HeldBy(r)' = HeldBy(r) \ {t}
    BY <1>2, <2>1 DEF HeldBy, InBatch
  <2>4. TypeOK'
    <3>1. batch' \in [Threads -> Seq(1 .. emitted')]
      BY <1>1, <1>2, <2>1
    <3> QED
      BY <1>1, <1>2, <1>3, <2>1, <2>2, <3>1, LogShippingAssumption
         DEF ShippingInv, TypeOK, Sender!TypeOK
  <2>5. PlaceInv'
    <3> SUFFICES ASSUME NEW r \in Records PROVE PlaceInv!(r)'
      BY DEF PlaceInv
    <3> QED
      BY <1>1, <1>2, <1>3, <1>4, <1>5, <2>2, <2>3 DEF ShippingInv, PlaceInv
  <2>6. BatchInv'
    BY <1>1, <1>2, <2>1 DEF ShippingInv, BatchInv
  <2>7. NewestKept'
    BY <1>1, <2>2, <2>3 DEF ShippingInv, NewestKept
  <2>8. CopiesInv'
    BY <1>2, <1>3, <2>1, <2>3 DEF ShippingInv, PlaceInv, CopiesInv, HeldBy
  <2> QED
    BY <2>4, <2>5, <2>6, <2>7, <2>8 DEF ShippingInv
<1> QED
  BY <1>6, <1>7, PostOutcome

-----------------------------------------------------------------------------
LEMMA ShippingInvHolds == Spec => []ShippingInv
<1>1. ShippingInv /\ [Next]_vars => ShippingInv'
  <2> SUFFICES ASSUME ShippingInv, [Next]_vars PROVE ShippingInv'
    OBVIOUS
  <2>1. CASE Emit \/ EmitUncaptured
    BY <2>1, EmitStep, EmitUncapturedStep
  <2>2. CASE SenderStarts \/ SenderAdvances \/ PushLogs
    BY <2>2, TimerSteps
  <2>3. ASSUME NEW p \in Pushers, BeginFlush(p) \/ FlushLogs(p) \/ Post(p) PROVE ShippingInv'
    <3>1. p \in Threads
      BY DEF Threads
    <3> QED
      BY <2>3, <3>1, BeginFlushStep, FlushStep, PostStep
  <2>4. CASE StopRunner \/ StopSender \/ CloseService
    BY <2>4, StopSteps
  <2>5. CASE DrainOnStop \/ PostOnStop
    <3>1. Stopper \in Threads
      BY DEF Threads
    <3> QED
      BY <2>5, <3>1, DrainOnStopStep, PostStep DEF PostOnStop
  <2>6. CASE UNCHANGED vars
    <3>1. TypeOK' /\ BatchInv'
      BY <2>6 DEF vars, senderVars, logVars, bufferVars, sending, backend, ShippingInv, TypeOK,
                  BatchInv, Sender!TypeOK
    <3> QED
      BY <2>6, <3>1, QuietStep
         DEF ShippingInv, Moves, vars, logVars, bufferVars, sending, backend
  <2> QED
    BY <2>1, <2>2, <2>3, <2>4, <2>5, <2>6 DEF Next
<1> QED
  BY <1>1, InitHolds, PTL DEF Spec

\* Type correctness: however the threads interleave, the buffer never exceeds
\* its size and no thread tries more often than the retry rule allows.
THEOREM ShippingTypeCorrect == Spec => []TypeOK
<1>1. ShippingInv => TypeOK
  BY DEF ShippingInv
<1> QED
  BY <1>1, ShippingInvHolds, PTL

\* What stop() has not drained was emitted after it had.
LeftInv == stage \in {"drained", "closed"} => \A i \in DOMAIN buffer : buffer[i] > lastDrain

LEMMA EmitLeft ==
  ASSUME ShippingInv, LeftInv, Emit
  PROVE  LeftInv'
<1> SUFFICES ASSUME stage \in {"drained", "closed"}, NEW i \in DOMAIN buffer'
             PROVE  buffer'[i] > lastDrain
  BY DEF LeftInv, Emit
<1> DEFINE new == emitted + 1
<1>1. /\ emitted \in Nat /\ buffer \in Seq(1 .. emitted)
      /\ lastDrain \in Nat /\ lastDrain < new
  BY DEF ShippingInv, TypeOK
<1>2. CASE Len(buffer) = BufferSize
  <2>1. buffer' = Append(Tail(buffer), new) /\ Len(buffer) > 0
    BY <1>2, LogShippingAssumption DEF Emit, AppendToBuffer, EvictOldest
  <2>2. /\ i \in 1 .. Len(buffer)
        /\ buffer'[i] = IF i = Len(buffer) THEN new ELSE buffer[i + 1]
    BY <1>1, <2>1, EvictingAppend
  <2>3. i # Len(buffer) => i + 1 \in DOMAIN buffer
    BY <1>1, <2>2
  <2> QED
    BY <1>1, <2>2, <2>3 DEF LeftInv
<1>3. CASE Len(buffer) # BufferSize
  <2>1. buffer' = Append(buffer, new)
    BY <1>3 DEF Emit, AppendToBuffer
  <2>2. (i \in DOMAIN buffer /\ buffer'[i] = buffer[i]) \/ buffer'[i] = new
    BY <1>1, <2>1
  <2> QED
    BY <1>1, <2>2 DEF LeftInv
<1> QED
  BY <1>2, <1>3

LEMMA LeftHolds == Spec => []LeftInv
<1>1. Init => LeftInv
  BY DEF Init, LeftInv
<1>2. ShippingInv /\ LeftInv /\ [Next]_vars => LeftInv'
  <2> SUFFICES ASSUME ShippingInv, LeftInv, [Next]_vars PROVE LeftInv'
    OBVIOUS
  <2>1. CASE Emit
    BY <2>1, EmitLeft
  <2>2. CASE EmitUncaptured \/ SenderStarts \/ SenderAdvances \/ PushLogs \/ UNCHANGED vars
    BY <2>2 DEF EmitUncaptured, SenderStarts, SenderAdvances, PushLogs, vars, logVars,
                bufferVars, LeftInv
  <2>3. CASE \E p \in Pushers : BeginFlush(p) \/ FlushLogs(p) \/ Post(p)
    BY <2>3 DEF BeginFlush, FlushLogs, Drain, ClearBuffer, Post, bufferVars, LeftInv
  <2>4. CASE StopRunner \/ StopSender \/ DrainOnStop \/ CloseService \/ PostOnStop
    BY <2>4 DEF StopRunner, StopSender, DrainOnStop, CloseService, PostOnStop, StopStage,
                Drain, ClearBuffer, Post, bufferVars, LeftInv
  <2> QED
    BY <2>1, <2>2, <2>3, <2>4 DEF Next
<1> QED
  BY <1>1, <1>2, ShippingInvHolds, PTL DEF Spec

\* Between emit(), drain() and the POSTs of any number of threads no record is
\* in two places and none is sent by two of them, and what stop() leaves in the
\* buffer was emitted after it had drained it: RecordsConserved always holds.
THEOREM RecordsAreConserved == Spec => []RecordsConserved
<1>1. ShippingInv /\ LeftInv => RecordsConserved
  <2> SUFFICES ASSUME ShippingInv, LeftInv, NEW r \in Records
               PROVE  RecordsConserved!(r)
    BY DEF RecordsConserved
  <2>1. PlaceInv!(r)
    BY DEF ShippingInv, PlaceInv
  <2>2. emitted \in Nat /\ fate[r] \in Fates
    BY DEF ShippingInv, TypeOK
  <2>3. r > emitted => ~InBuffer(r) /\ HeldBy(r) = {}
    BY <2>2 DEF ShippingInv, TypeOK, InBuffer, HeldBy, InBatch, Records
  <2>4. HeldBy(r) # {} => Cardinality(HeldBy(r)) = 1
    BY <2>1, FS_Singleton
  <2>5. HeldBy(r) = {} => Cardinality(HeldBy(r)) = 0
    BY FS_EmptySet
  <2>6. Stranded(r) => r > lastDrain
    BY DEF Stranded, InBuffer, LeftInv
  <2> QED
    BY <2>1, <2>2, <2>3, <2>4, <2>5, <2>6 DEF Fates
<1> QED
  BY <1>1, ShippingInvHolds, LeftHolds, PTL

\* A full buffer gives up its oldest record and never takes one back: what is
\* in it is in order, and newer than all that left it.
THEOREM BufferKeepsNewest == Spec => []NewestKept
<1>1. ShippingInv => NewestKept
  BY DEF ShippingInv
<1> QED
  BY <1>1, ShippingInvHolds, PTL

\* A record that was accepted, the agent knowing it, is never sent again, and
\* each copy beyond the first is owed to a try whose answer was lost.
THEOREM CopiesComeFromRetries == Spec => StoredAgainOnlyByRetry
<1>1. ShippingInv /\ [Next]_vars =>
          [\A r \in Records : copies'[r] > copies[r] =>
              /\ fate[r] = "none"
              /\ \E t \in HeldBy(r) : copies[r] <= tries[t]]_vars
  <2> SUFFICES ASSUME ShippingInv, Next, NEW r \in Records, copies'[r] > copies[r]
               PROVE  fate[r] = "none" /\ \E t \in HeldBy(r) : copies[r] <= tries[t]
    OBVIOUS
  <2>1. copies[r] \in Nat /\ copies \in [Records -> Nat]
    BY DEF ShippingInv, TypeOK
  <2>2. \E t \in Threads : Store(t)
    <3>1. UNCHANGED copies => FALSE
      BY <2>1
    <3>2. \A t \in Threads : Post(t) => Store(t) \/ UNCHANGED copies
      BY DEF Post
    <3>3. CASE Emit \/ EmitUncaptured
      BY <3>1, <3>3 DEF Emit, EmitUncaptured, backend
    <3>4. CASE SenderStarts \/ SenderAdvances \/ PushLogs
      BY <3>1, <3>4 DEF SenderStarts, SenderAdvances, PushLogs, logVars, backend
    <3>5. CASE \E p \in Pushers : BeginFlush(p) \/ FlushLogs(p) \/ Post(p)
      BY <3>1, <3>2, <3>5 DEF BeginFlush, FlushLogs, backend, Threads
    <3>6. CASE StopRunner \/ StopSender \/ DrainOnStop \/ CloseService
      BY <3>1, <3>6 DEF StopRunner, StopSender, DrainOnStop, CloseService, StopStage, backend
    <3>7. CASE PostOnStop
      BY <3>1, <3>2, <3>7 DEF PostOnStop, Threads
    <3> QED
      BY <3>3, <3>4, <3>5, <3>6, <3>7 DEF Next
  <2>3. PICK t \in Threads : Store(t)
    BY <2>2
  <2>4. t \in HeldBy(r)
    BY <2>1, <2>3 DEF Store, HeldBy
  <2> QED
    BY <2>4 DEF ShippingInv, PlaceInv, CopiesInv
<1> QED
  BY <1>1, ShippingInvHolds, PTL DEF Spec, StoredAgainOnlyByRetry

-----------------------------------------------------------------------------
\* The sender is the periodic task of module PeriodicTask: the safety of SenderSpec.
SenderPeriodic == Sender!Periodic!Spec

LEMMA TimerStep ==
  ASSUME Sender!TypeOK
  PROVE  /\ Sender!Start \/ Sender!Stop \/ Sender!Advance \/ Sender!Return
                => [Sender!Periodic!Next]_(Sender!Periodic!vars)
         /\ UNCHANGED senderVars => UNCHANGED Sender!Periodic!vars
<1> USE DEF Sender!TypeOK, Sender!Phase, Sender!Task, Sender!Periodic!Next, Sender!Periodic!vars,
            Sender!Periodic!Begin, Sender!Periodic!FallDue, Sender!Periodic!Call,
            Sender!Periodic!Return, Sender!Periodic!Cease, Sender!Periodic!End
<1>1. Sender!Start => [Sender!Periodic!Next]_(Sender!Periodic!vars)
  BY DEF Sender!Start
<1>2. Sender!Stop => [Sender!Periodic!Next]_(Sender!Periodic!vars)
  BY DEF Sender!Stop
<1>3. Sender!Advance => [Sender!Periodic!Next]_(Sender!Periodic!vars)
  <2>1. Sender!CheckRunning => [Sender!Periodic!Next]_(Sender!Periodic!vars)
    BY DEF Sender!CheckRunning
  <2>2. Sender!EnterWait \/ Sender!IntervalElapses => [Sender!Periodic!Next]_(Sender!Periodic!vars)
    BY DEF Sender!EnterWait, Sender!IntervalElapses
  <2>3. Sender!CheckStopped => [Sender!Periodic!Next]_(Sender!Periodic!vars)
    BY DEF Sender!CheckStopped
  <2>4. Sender!Call => [Sender!Periodic!Next]_(Sender!Periodic!vars)
    BY DEF Sender!Call
  <2> QED
    BY <2>1, <2>2, <2>3, <2>4 DEF Sender!Advance
<1>4. Sender!Return => [Sender!Periodic!Next]_(Sender!Periodic!vars)
  BY DEF Sender!Return
<1>5. UNCHANGED senderVars => UNCHANGED Sender!Periodic!vars
  BY DEF senderVars
<1> QED
  BY <1>1, <1>2, <1>3, <1>4, <1>5

\* A stop() that comes between the timer's look at its flag and its wait, which
\* nothing wakes it from, still begins no further push; one that comes between
\* its last look and the call is followed by that call, and by no other.
THEOREM SenderIsPeriodic == Spec => SenderPeriodic
<1>1. Init => Sender!Periodic!Init
  BY DEF Init, Sender!Init, Sender!Periodic!Init, Sender!Phase, Sender!Task
<1>2. ShippingInv /\ [Next]_vars => [Sender!Periodic!Next]_(Sender!Periodic!vars)
  <2> SUFFICES ASSUME ShippingInv, [Next]_vars
               PROVE  [Sender!Periodic!Next]_(Sender!Periodic!vars)
    OBVIOUS
  <2>1. Sender!TypeOK
    BY DEF ShippingInv, TypeOK
  <2>2. CASE Sender!Start \/ Sender!Stop \/ Sender!Advance \/ Sender!Return
    BY <2>1, <2>2, TimerStep
  <2>3. CASE UNCHANGED senderVars
    BY <2>1, <2>3, TimerStep
  <2>4. CASE Emit \/ EmitUncaptured \/ PostOnStop
    BY <2>3, <2>4 DEF Emit, EmitUncaptured, PostOnStop, Post
  <2>5. CASE SenderStarts \/ SenderAdvances \/ PushLogs \/ StopSender
    BY <2>2, <2>5 DEF SenderStarts, SenderAdvances, PushLogs, StopSender
  <2>6. CASE \E p \in Pushers : BeginFlush(p) \/ FlushLogs(p) \/ Post(p)
    BY <2>3, <2>6 DEF BeginFlush, FlushLogs, Post
  <2>7. CASE StopRunner \/ DrainOnStop \/ CloseService \/ UNCHANGED vars
    BY <2>3, <2>7 DEF StopRunner, DrainOnStop, CloseService, vars
  <2> QED
    BY <2>4, <2>5, <2>6, <2>7 DEF Next
<1> QED
  BY <1>1, <1>2, ShippingInvHolds, PTL DEF Spec, SenderPeriodic, Sender!Periodic!Spec

-----------------------------------------------------------------------------
\* Sums as sets of pairs: f[t] of them for each t.

Pairs(f, S) == UNION {{t} \X (1 .. f[t]) : t \in S}

LEMMA BlockSize ==
  ASSUME NEW t, NEW n \in Nat
  PROVE  IsFiniteSet({t} \X (1 .. n)) /\ Cardinality({t} \X (1 .. n)) = n
<1>1. IsFiniteSet({t}) /\ Cardinality({t}) = 1
  BY FS_Singleton
<1>2. IsFiniteSet(1 .. n) /\ Cardinality(1 .. n) = n
  BY FS_Interval
<1>3. IsFiniteSet({t} \X (1 .. n))
      /\ Cardinality({t} \X (1 .. n)) = Cardinality({t}) * Cardinality(1 .. n)
  BY <1>1, <1>2, FS_Product
<1> QED
  BY <1>1, <1>2, <1>3

LEMMA DisjointSize ==
  ASSUME NEW A, IsFiniteSet(A), NEW B, IsFiniteSet(B), A \cap B = {}
  PROVE  Cardinality(A \cup B) = Cardinality(A) + Cardinality(B)
<1>1. Cardinality(A \cup B) = Cardinality(A) + Cardinality(B) - Cardinality(A \cap B)
  BY FS_Union
<1>2. Cardinality(A \cap B) = 0
  BY FS_EmptySet
<1>3. Cardinality(A) \in Nat /\ Cardinality(B) \in Nat
  BY FS_CardinalityType
<1> QED
  BY <1>1, <1>2, <1>3

LEMMA PairsFinite ==
  ASSUME NEW S, IsFiniteSet(S), NEW f \in [S -> Nat]
  PROVE  IsFiniteSet(Pairs(f, S))
<1> DEFINE B == {{t} \X (1 .. f[t]) : t \in S}
           g == [t \in S |-> {t} \X (1 .. f[t])]
<1>1. g \in Surjection(S, B)
  BY DEF Surjection
<1>2. IsFiniteSet(B)
  BY <1>1, FS_Surjection
<1>3. ASSUME NEW b \in B PROVE IsFiniteSet(b)
  <2>1. PICK t \in S : b = {t} \X (1 .. f[t])
    OBVIOUS
  <2>2. f[t] \in Nat
    OBVIOUS
  <2> QED
    BY <2>1, <2>2, BlockSize
<1> QED
  BY <1>2, <1>3, FS_UNION DEF Pairs

\* One of the summands changes.
LEMMA PairsExcept ==
  ASSUME NEW S, IsFiniteSet(S), NEW f \in [S -> Nat], NEW t \in S,
         NEW g \in [S -> Nat], \A s \in S \ {t} : g[s] = f[s]
  PROVE  Cardinality(Pairs(g, S)) = Cardinality(Pairs(f, S)) - f[t] + g[t]
<1> DEFINE rest == {x \in Pairs(f, S) : x[1] # t}
           old == {t} \X (1 .. f[t])
           new == {t} \X (1 .. g[t])
<1>1. Pairs(f, S) = rest \cup old
  <2>1. \A x \in Pairs(f, S) : x \in rest \cup old
    BY DEF Pairs
  <2>2. old \subseteq Pairs(f, S)
    BY DEF Pairs
  <2> QED
    BY <2>1, <2>2
<1>2. Pairs(g, S) = rest \cup new
  <2>1. ASSUME NEW x \in Pairs(g, S) PROVE x \in rest \cup new
    <3>1. PICK s \in S : x \in {s} \X (1 .. g[s])
      BY DEF Pairs
    <3>2. CASE s = t
      BY <3>1, <3>2
    <3>3. CASE s # t
      BY <3>1, <3>3 DEF Pairs
    <3> QED
      BY <3>2, <3>3
  <2>2. ASSUME NEW x \in rest PROVE x \in Pairs(g, S)
    <3>1. PICK s \in S : x \in {s} \X (1 .. f[s])
      BY DEF Pairs
    <3>2. s # t /\ g[s] = f[s]
      BY <3>1
    <3> QED
      BY <3>1, <3>2 DEF Pairs
  <2>3. new \subseteq Pairs(g, S)
    BY DEF Pairs
  <2> QED
    BY <2>1, <2>2, <2>3
<1>3. IsFiniteSet(rest) /\ Cardinality(rest) \in Nat
  <2>1. IsFiniteSet(Pairs(f, S)) /\ rest \in SUBSET Pairs(f, S)
    BY PairsFinite
  <2> QED
    BY <2>1, FS_Subset, FS_CardinalityType
<1>4. f[t] \in Nat /\ g[t] \in Nat /\ rest \cap old = {} /\ rest \cap new = {}
  OBVIOUS
<1>5. /\ IsFiniteSet(old) /\ Cardinality(old) = f[t]
      /\ IsFiniteSet(new) /\ Cardinality(new) = g[t]
  BY <1>4, BlockSize
<1> HIDE DEF rest, old, new
<1>6. /\ Cardinality(rest \cup old) = Cardinality(rest) + f[t]
      /\ Cardinality(rest \cup new) = Cardinality(rest) + g[t]
  BY <1>3, <1>4, <1>5, DisjointSize
<1> QED
  BY <1>1, <1>2, <1>3, <1>4, <1>6

-----------------------------------------------------------------------------
\* EvictionsCounted is not inductive: a drain overwrites the notice of the
\* thread, which must be empty, and lets the counter go with a batch, so that
\* there must be one.

CountInv == /\ EvictionsCounted
            /\ droppedCount > 0 => buffer # <<>>
            /\ \A t \in Threads : pc[t] # "posting" => notice[t] = 0

LEMMA ThreadsFinite == IsFiniteSet(Threads)
  BY LogShippingAssumption, FS_AddElement DEF Threads

LEMMA EvictedFinite == IsFiniteSet(Evicted) /\ Cardinality(Evicted) \in Nat
<1>1. IsFiniteSet(Records) /\ Evicted \in SUBSET Records
  BY LogShippingAssumption, FS_Interval DEF Records, Evicted
<1> QED
  BY <1>1, FS_Subset, FS_CardinalityType

LEMMA NoticesAreNat == TypeOK => Cardinality(InNotices) \in Nat
<1> SUFFICES ASSUME TypeOK PROVE Cardinality(InNotices) \in Nat
  OBVIOUS
<1>1. notice \in [Threads -> Nat] /\ InNotices = Pairs(notice, Threads)
  BY DEF TypeOK, InNotices, Pairs
<1> QED
  BY <1>1, ThreadsFinite, PairsFinite, FS_CardinalityType

LEMMA NoticeChanges ==
  ASSUME TypeOK, NEW t \in Threads, NEW n \in Nat, notice' = [notice EXCEPT ![t] = n]
  PROVE  Cardinality(InNotices') = Cardinality(InNotices) - notice[t] + n
<1>1. ASSUME NEW f \in [Threads -> Nat], NEW g \in [Threads -> Nat],
             \A s \in Threads \ {t} : g[s] = f[s]
      PROVE  Cardinality(Pairs(g, Threads)) = Cardinality(Pairs(f, Threads)) - f[t] + g[t]
  BY ONLY <1>1, ThreadsFinite, PairsExcept, t \in Threads
<1>2. InNotices = Pairs(notice, Threads) /\ InNotices' = Pairs(notice', Threads)
  BY DEF InNotices, Pairs
<1>3. /\ notice \in [Threads -> Nat] /\ notice' \in [Threads -> Nat]
      /\ \A s \in Threads \ {t} : notice'[s] = notice[s]
      /\ notice'[t] = n
  BY DEF TypeOK
<1> QED
  BY ONLY <1>1, <1>2, <1>3

LEMMA CountInit == Init => CountInv
<1> SUFFICES ASSUME Init PROVE CountInv
  OBVIOUS
<1>1. Evicted = {} /\ InNotices = {}
  BY DEF Init, Evicted, InNotices
<1> QED
  BY <1>1, FS_EmptySet DEF Init, CountInv, EvictionsCounted

LEMMA CountsUntouched ==
  ASSUME CountInv, UNCHANGED <<buffer, droppedCount, notice, noticed>>, Evicted' = Evicted,
         \A t \in Threads : pc[t] = "posting" => pc'[t] = "posting"
  PROVE  CountInv'
<1>1. InNotices' = InNotices
  BY DEF InNotices
<1> QED
  BY <1>1 DEF CountInv, EvictionsCounted

LEMMA EmitCounts ==
  ASSUME ShippingInv, CountInv, Emit
  PROVE  CountInv'
<1>1. /\ UNCHANGED <<pc, notice, noticed>> /\ InNotices' = InNotices
      /\ droppedCount \in Nat /\ noticed \in Nat /\ Cardinality(InNotices) \in Nat
      /\ fate \in [Records -> Fates] /\ buffer \in Seq(1 .. emitted)
      /\ emitted \in Nat /\ 1 .. emitted \subseteq Records
  BY NoticesAreNat, LogShippingAssumption
     DEF Emit, sending, backend, InNotices, ShippingInv, TypeOK, Records
<1>2. CASE Len(buffer) = BufferSize
  <2> DEFINE oldest == Head(buffer)
  <2>1. /\ buffer' = Append(Tail(buffer), emitted + 1) /\ droppedCount' = droppedCount + 1
        /\ fate' = [fate EXCEPT ![oldest] = "evicted"]
    BY <1>2 DEF Emit, AppendToBuffer, CountDropped, EvictOldest
  <2>2. Len(buffer) > 0 /\ 1 \in DOMAIN buffer /\ oldest = buffer[1]
    BY <1>1, <1>2, LogShippingAssumption
  <2>3. oldest \in Records /\ InBuffer(oldest)
    BY <1>1, <2>2 DEF InBuffer
  <2>4. fate[oldest] = "none"
    BY <2>3 DEF ShippingInv, PlaceInv
  <2>5. Evicted' = Evicted \cup {oldest} /\ oldest \notin Evicted
    BY <1>1, <2>1, <2>3, <2>4 DEF Evicted
  <2>6. Cardinality(Evicted') = Cardinality(Evicted) + 1
    BY <2>5, EvictedFinite, FS_AddElement
  <2>7. buffer' # <<>>
    <3>1. Tail(buffer) \in Seq(1 .. emitted)
      BY <1>1, <2>2
    <3> QED
      BY <2>1, <3>1
  <2>8. EvictionsCounted'
    BY <1>1, <2>1, <2>6, EvictedFinite DEF CountInv, EvictionsCounted
  <2> QED
    BY <1>1, <2>7, <2>8 DEF CountInv
<1>3. CASE Len(buffer) # BufferSize
  <2>1. buffer' = Append(buffer, emitted + 1) /\ UNCHANGED <<droppedCount, fate>>
    BY <1>3 DEF Emit, AppendToBuffer
  <2>2. buffer' # <<>>
    BY <1>1, <2>1, SeqGrows
  <2>3. Evicted' = Evicted
    BY <2>1 DEF Evicted
  <2> QED
    BY <1>1, <2>1, <2>2, <2>3 DEF CountInv, EvictionsCounted
<1> QED
  BY <1>2, <1>3

\* The counter becomes the notice of a thread that has none.
LEMMA DrainCounts ==
  ASSUME ShippingInv, CountInv, NEW t \in Threads, Drain(t), pc[t] # "posting",
         UNCHANGED <<noticed, fate>>
  PROVE  CountInv'
<1>1. /\ notice' = [notice EXCEPT ![t] = droppedCount] /\ droppedCount' = 0 /\ buffer' = <<>>
      /\ pc' = [pc EXCEPT ![t] = IF buffer = <<>> THEN "idle" ELSE "posting"]
  BY DEF Drain, ClearBuffer
<1>2. /\ droppedCount \in Nat /\ noticed \in Nat /\ notice \in [Threads -> Nat]
      /\ pc \in [Threads -> {"idle", "flushing", "posting"}]
  BY DEF ShippingInv, TypeOK
<1>3. notice[t] = 0
  BY DEF CountInv
<1>4. Cardinality(InNotices') = Cardinality(InNotices) + droppedCount
      /\ Cardinality(InNotices) \in Nat
  <2>1. TypeOK
    BY DEF ShippingInv
  <2>2. Cardinality(InNotices') = Cardinality(InNotices) - notice[t] + droppedCount
    BY <1>1, <1>2, <2>1, NoticeChanges
  <2> QED
    BY <1>2, <1>3, <2>1, <2>2, NoticesAreNat
<1>5. Evicted' = Evicted
  BY DEF Evicted
<1>6. EvictionsCounted'
  BY <1>1, <1>2, <1>4, <1>5 DEF CountInv, EvictionsCounted
<1>7. ASSUME NEW u \in Threads, pc'[u] # "posting" PROVE notice'[u] = 0
  <2>1. CASE u = t
    BY <1>1, <1>2, <1>7, <2>1 DEF CountInv
  <2>2. CASE u # t
    BY <1>1, <1>2, <1>7, <2>2 DEF CountInv
  <2> QED
    BY <2>1, <2>2
<1> QED
  BY <1>1, <1>6, <1>7 DEF CountInv

\* A notice is finished with the batch it heads.
LEMMA PostCounts ==
  ASSUME ShippingInv, CountInv, NEW t \in Threads, Post(t)
  PROVE  CountInv'
<1>1. UNCHANGED <<buffer, droppedCount>> /\ (EndPost(t) \/ Retried(t))
  BY PostOutcome
<1>2. CASE Retried(t)
  BY <1>1, <1>2, CountsUntouched DEF Retried, Evicted
<1>3. CASE EndPost(t)
  <2>1. /\ pc' = [pc EXCEPT ![t] = "idle"] /\ notice' = [notice EXCEPT ![t] = 0]
        /\ noticed' = noticed + notice[t]
        /\ fate' = [r \in Records |->
                        IF r \notin InBatch(t) THEN fate[r]
                        ELSE IF copies'[r] > 0 THEN "shipped" ELSE "push_failed"]
    BY <1>3 DEF EndPost
  <2>2. /\ droppedCount \in Nat /\ noticed \in Nat /\ notice \in [Threads -> Nat]
        /\ pc \in [Threads -> {"idle", "flushing", "posting"}]
    BY DEF ShippingInv, TypeOK
  <2>3. \A r \in Records : r \in InBatch(t) => fate[r] = "none"
    BY DEF ShippingInv, PlaceInv, HeldBy
  <2>4. Evicted' = Evicted
    BY <2>1, <2>3 DEF Evicted
  <2>5. Cardinality(InNotices') = Cardinality(InNotices) - notice[t]
        /\ Cardinality(InNotices) \in Nat
    <3>1. TypeOK /\ notice[t] \in Nat /\ 0 \in Nat
      BY <2>2 DEF ShippingInv
    <3>2. Cardinality(InNotices') = Cardinality(InNotices) - notice[t] + 0
      BY <2>1, <3>1, NoticeChanges
    <3> QED
      BY <3>1, <3>2, NoticesAreNat
  <2>6. EvictionsCounted'
    BY <1>1, <2>1, <2>2, <2>4, <2>5, EvictedFinite DEF CountInv, EvictionsCounted
  <2> QED
    BY <1>1, <2>1, <2>2, <2>6 DEF CountInv
<1> QED
  BY <1>1, <1>2, <1>3

LEMMA CountStep == ShippingInv /\ CountInv /\ [Next]_vars => CountInv'
<1> SUFFICES ASSUME ShippingInv, CountInv, [Next]_vars PROVE CountInv'
  OBVIOUS
<1>1. CASE Emit
  BY <1>1, EmitCounts
<1>2. CASE EmitUncaptured
  <2>1. /\ UNCHANGED <<buffer, droppedCount, pc, notice, noticed>>
        /\ fate' = [fate EXCEPT ![emitted + 1] = "not_captured"]
    BY <1>2 DEF EmitUncaptured, bufferVars, sending, backend
  <2>2. emitted + 1 \in Records /\ fate[emitted + 1] = "none" /\ fate \in [Records -> Fates]
    BY <1>2, LogShippingAssumption
       DEF EmitUncaptured, NextRecord, ShippingInv, TypeOK, PlaceInv, Records
  <2>3. Evicted' = Evicted
    BY <2>1, <2>2 DEF Evicted
  <2> QED
    BY <2>1, <2>3, CountsUntouched
<1>3. CASE SenderStarts \/ SenderAdvances \/ PushLogs \/ UNCHANGED vars
  BY <1>3, CountsUntouched DEF SenderStarts, SenderAdvances, PushLogs, vars, logVars,
     bufferVars, sending, backend, Evicted
<1>4. CASE StopRunner \/ StopSender \/ CloseService
  BY <1>4, CountsUntouched DEF StopRunner, StopSender, CloseService, StopStage,
     bufferVars, sending, backend, Evicted
<1>5. ASSUME NEW p \in Pushers, BeginFlush(p) \/ FlushLogs(p) \/ Post(p) PROVE CountInv'
  <2>1. p \in Threads
    BY DEF Threads
  <2>2. CASE BeginFlush(p)
    BY <2>1, <2>2, CountsUntouched
       DEF BeginFlush, bufferVars, backend, Evicted, ShippingInv, TypeOK
  <2>3. CASE FlushLogs(p)
    BY <2>1, <2>3, DrainCounts DEF FlushLogs, backend
  <2> QED
    BY <1>5, <2>1, <2>2, <2>3, PostCounts
<1>6. CASE DrainOnStop
  <2>1. Stopper \in Threads /\ pc[Stopper] # "posting"
    BY <1>6 DEF DrainOnStop, StopStage, Threads, ShippingInv, BatchInv
  <2> QED
    BY <1>6, <2>1, DrainCounts DEF DrainOnStop, StopStage, backend
<1>7. CASE PostOnStop
  BY <1>7, PostCounts DEF PostOnStop, Threads
<1> QED
  BY <1>1, <1>2, <1>3, <1>4, <1>5, <1>6, <1>7 DEF Next

\* Every record a full buffer gave up is counted once: in the counter, in the
\* notice at the head of one batch, or in a notice whose POST is over.
THEOREM EvictionsAreCounted == Spec => []EvictionsCounted
<1>1. CountInv => EvictionsCounted
  BY DEF CountInv
<1> QED
  BY <1>1, CountInit, CountStep, ShippingInvHolds, PTL DEF Spec

-----------------------------------------------------------------------------
\* The refinement of LogQueue.

\* The records of a batch were stored equally often.
UniformInv == \A t \in Threads : \A r, s \in InBatch(t) : copies[r] = copies[s]

LEMMA InBatchRecords ==
  ASSUME TypeOK, NEW t \in Threads
  PROVE  InBatch(t) \subseteq Records
  BY LogShippingAssumption DEF TypeOK, InBatch, Records

LEMMA BufferRecords ==
  ASSUME TypeOK
  PROVE  /\ emitted \in Nat /\ buffer \in Seq(1 .. emitted)
         /\ Len(buffer) \in Nat /\ DOMAIN buffer = 1 .. Len(buffer)
         /\ \A i \in DOMAIN buffer : buffer[i] \in Records /\ buffer[i] \in Int
<1>1. emitted \in Nat /\ buffer \in Seq(1 .. emitted) /\ 1 .. emitted \subseteq Records
  BY LogShippingAssumption DEF TypeOK, Records
<1>2. Len(buffer) \in Nat /\ DOMAIN buffer = 1 .. Len(buffer)
  BY <1>1
<1>3. ASSUME NEW i \in DOMAIN buffer PROVE buffer[i] \in 1 .. emitted
  BY <1>1, <1>2
<1> QED
  BY <1>1, <1>2, <1>3

LEMMA OneBatchEach ==
  ASSUME ShippingInv, NEW t \in Threads, NEW u \in Threads, u # t
  PROVE  InBatch(t) \cap InBatch(u) = {}
<1> SUFFICES ASSUME NEW r \in InBatch(t), r \in InBatch(u) PROVE FALSE
  OBVIOUS
<1>1. r \in Records
  BY InBatchRecords DEF ShippingInv
<1> QED
  BY <1>1 DEF ShippingInv, PlaceInv, HeldBy

LEMMA QuietUniform ==
  ASSUME UniformInv, UNCHANGED <<batch, copies>>
  PROVE  UniformInv'
  BY DEF UniformInv, InBatch

LEMMA DrainUniform ==
  ASSUME ShippingInv, UniformInv, NEW t \in Threads, Drain(t), UNCHANGED copies
  PROVE  UniformInv'
<1>1. batch' = [batch EXCEPT ![t] = buffer] /\ batch \in [Threads -> Seq(1 .. emitted)]
  BY DEF Drain, ShippingInv, TypeOK
<1> SUFFICES ASSUME NEW u \in Threads, NEW r \in InBatch(u)', NEW s \in InBatch(u)'
             PROVE  copies[r] = copies[s]
  BY DEF UniformInv
<1>2. CASE u = t
  <2>1. InBuffer(r) /\ InBuffer(s)
    BY <1>1, <1>2 DEF InBatch, InBuffer
  <2>2. r \in Records /\ s \in Records
    BY <2>1, BufferRecords DEF InBuffer, ShippingInv
  <2> QED
    BY <2>1, <2>2 DEF ShippingInv, PlaceInv
<1>3. CASE u # t
  BY <1>1, <1>3 DEF InBatch, UniformInv
<1> QED
  BY <1>2, <1>3

LEMMA PostUniform ==
  ASSUME ShippingInv, UniformInv, NEW t \in Threads, Post(t)
  PROVE  /\ UniformInv'
         /\ \A r, s \in InBatch(t) : copies'[r] = copies'[s]
<1>1. /\ Store(t) \/ UNCHANGED copies
      /\ batch' = batch \/ batch' = [batch EXCEPT ![t] = <<>>]
      /\ batch \in [Threads -> Seq(1 .. emitted)]
  BY PostOutcome DEF EndPost, Retried, ShippingInv, TypeOK
<1>2. ASSUME NEW u \in Threads, NEW r \in InBatch(u), NEW s \in InBatch(u)
      PROVE  copies'[r] = copies'[s]
  <2>1. r \in Records /\ s \in Records /\ copies[r] = copies[s]
    BY InBatchRecords DEF ShippingInv, UniformInv
  <2>2. r \in InBatch(t) <=> s \in InBatch(t)
    BY OneBatchEach
  <2> QED
    BY <1>1, <2>1, <2>2 DEF Store
<1>3. \A u \in Threads : InBatch(u)' \subseteq InBatch(u)
  BY <1>1 DEF InBatch
<1> QED
  BY <1>2, <1>3 DEF UniformInv

LEMMA UniformStep == ShippingInv /\ UniformInv /\ [Next]_vars => UniformInv'
<1> SUFFICES ASSUME ShippingInv, UniformInv, [Next]_vars PROVE UniformInv'
  OBVIOUS
<1>1. CASE Emit \/ EmitUncaptured \/ SenderStarts \/ SenderAdvances \/ PushLogs
           \/ UNCHANGED vars
  BY <1>1, QuietUniform DEF Emit, EmitUncaptured, SenderStarts, SenderAdvances, PushLogs,
     vars, logVars, sending, backend
<1>2. CASE StopRunner \/ StopSender \/ CloseService
  BY <1>2, QuietUniform DEF StopRunner, StopSender, CloseService, StopStage, sending, backend
<1>3. ASSUME NEW p \in Pushers, BeginFlush(p) \/ FlushLogs(p) \/ Post(p) PROVE UniformInv'
  <2>1. p \in Threads
    BY DEF Threads
  <2>2. CASE BeginFlush(p)
    BY <2>2, QuietUniform DEF BeginFlush, backend
  <2>3. CASE FlushLogs(p)
    BY <2>1, <2>3, DrainUniform DEF FlushLogs, backend
  <2> QED
    BY <1>3, <2>1, <2>2, <2>3, PostUniform
<1>4. CASE DrainOnStop \/ PostOnStop
  <2>1. Stopper \in Threads
    BY DEF Threads
  <2> QED
    BY <1>4, <2>1, DrainUniform, PostUniform DEF DrainOnStop, StopStage, PostOnStop, backend
<1> QED
  BY <1>1, <1>2, <1>3, <1>4 DEF Next

\* The buffer as a set: it has as many elements as records, and an append to a
\* full one replaces the oldest.
LEMMA BufferDistinct ==
  ASSUME ShippingInv
  PROVE  \A i, j \in DOMAIN buffer : i # j => buffer[i] # buffer[j]
<1> SUFFICES ASSUME NEW i \in DOMAIN buffer, NEW j \in DOMAIN buffer, i # j
             PROVE  buffer[i] # buffer[j]
  OBVIOUS
<1>1. buffer[i] \in Int /\ buffer[j] \in Int /\ (i < j \/ j < i)
  BY BufferRecords DEF ShippingInv
<1> QED
  BY <1>1 DEF ShippingInv, NewestKept

LEMMA BufferedSize ==
  ASSUME ShippingInv
  PROVE  Cardinality(Buffered) = Len(buffer)
<1>1. /\ Len(buffer) \in Nat /\ DOMAIN buffer = 1 .. Len(buffer)
      /\ \A i \in DOMAIN buffer : buffer[i] \in Int
  BY BufferRecords DEF ShippingInv
<1>2. \A i, j \in DOMAIN buffer : i # j => buffer[i] # buffer[j]
  BY BufferDistinct
<1>3. buffer \in Bijection(1 .. Len(buffer), Buffered)
  <2>1. buffer \in [1 .. Len(buffer) -> Buffered]
    <3>1. buffer = [i \in 1 .. Len(buffer) |-> buffer[i]]
      BY BufferRecords DEF ShippingInv
    <3> QED
      BY <1>1, <3>1 DEF Buffered
  <2> QED
    BY <1>1, <1>2, <2>1 DEF Bijection, Injection, Surjection, IsInjective, Buffered
<1>4. ExistsBijection(1 .. Len(buffer), Buffered)
  BY <1>3 DEF ExistsBijection
<1> QED
  BY <1>1, <1>4, FS_CountingElements

LEMMA ShiftedElements ==
  ASSUME NEW m \in Nat \ {0}, NEW x,
         NEW b, \A i, j \in 1 .. m : i # j => b[i] # b[j],
         NEW c, \A i \in 1 .. m : c[i] = IF i = m THEN x ELSE b[i + 1],
         NEW y
  PROVE  (\E i \in 1 .. m : c[i] = y) <=> y = x \/ (y # b[1] /\ \E i \in 1 .. m : b[i] = y)
<1>1. ASSUME NEW i \in 1 .. m, c[i] = y, y # x PROVE y # b[1] /\ \E j \in 1 .. m : b[j] = y
  <2>1. i + 1 \in 1 .. m /\ 1 \in 1 .. m /\ i + 1 # 1 /\ b[i + 1] = y
    BY <1>1
  <2> QED
    BY <2>1
<1>2. ASSUME NEW i \in 1 .. m, b[i] = y, y # b[1] PROVE \E j \in 1 .. m : c[j] = y
  <2>1. i - 1 \in 1 .. m /\ i - 1 # m /\ (i - 1) + 1 = i
    BY <1>2
  <2>2. c[i - 1] = y
    BY <1>2, <2>1
  <2> QED
    BY <2>1, <2>2
<1>3. m \in 1 .. m /\ c[m] = x
  OBVIOUS
<1> QED
  BY <1>1, <1>2, <1>3

LEMMA EvictingElements ==
  ASSUME ShippingInv, Len(buffer) > 0, buffer' = Append(Tail(buffer), emitted + 1)
  PROVE  Buffered' = (Buffered \ {buffer[1]}) \cup {emitted + 1}
<1>1. /\ buffer \in Seq(1 .. emitted) /\ emitted \in Nat
      /\ Len(buffer) \in Nat /\ DOMAIN buffer = 1 .. Len(buffer)
  BY BufferRecords DEF ShippingInv
<1>2. \A i, j \in 1 .. Len(buffer) : i # j => buffer[i] # buffer[j]
  BY <1>1, BufferDistinct
<1>3. /\ buffer' \in Seq(1 .. (emitted + 1)) /\ Len(buffer') = Len(buffer)
      /\ \A i \in 1 .. Len(buffer) :
             buffer'[i] = IF i = Len(buffer) THEN emitted + 1 ELSE buffer[i + 1]
  BY <1>1, EvictingAppend
<1> DEFINE x == emitted + 1
            n == Len(buffer)
            b == buffer
            c == buffer'
<1>4. DOMAIN buffer' = 1 .. Len(buffer)
  BY ONLY <1>3
<1>5. Len(buffer) \in Nat \ {0}
  BY <1>1
<1>6. ASSUME NEW y
      PROVE  (\E i \in 1 .. Len(buffer) : buffer'[i] = y)
                 <=> \/ y = emitted + 1
                     \/ y # buffer[1] /\ \E i \in 1 .. Len(buffer) : buffer[i] = y
  <2>1. /\ n \in Nat \ {0}
        /\ \A i, j \in 1 .. n : i # j => b[i] # b[j]
        /\ \A i \in 1 .. n : c[i] = IF i = n THEN x ELSE b[i + 1]
    BY <1>2, <1>3, <1>5
  <2>2. (\E i \in 1 .. n : c[i] = y) <=> y = x \/ (y # b[1] /\ \E i \in 1 .. n : b[i] = y)
    <3> HIDE DEF x, n, b, c
    <3> QED
      BY ONLY <2>1, ShiftedElements
  <2> QED
    BY ONLY <2>2
<1>7. ASSUME NEW y
      PROVE  /\ y \in Buffered <=> \E i \in 1 .. Len(buffer) : buffer[i] = y
             /\ y \in Buffered' <=> \E i \in 1 .. Len(buffer) : buffer'[i] = y
  BY ONLY <1>1, <1>4 DEF Buffered
<1> QED
  BY ONLY <1>6, <1>7

-----------------------------------------------------------------------------
\* Each step is a step of the queue, or none.

\* The queue brings the operator along.
LEMMA QueueCardinality ==
  ASSUME NEW S
  PROVE  Queue!Cardinality(S) = Cardinality(S)
  BY DEF Queue!Cardinality, Cardinality

LEMMA EmitIsQueued ==
  ASSUME ShippingInv, Emit
  PROVE  Queue!Next
<1> USE DEF Queue!Next, Queue!Emitted
<1>1. /\ emitted < MaxRecords /\ emitted' = emitted + 1 /\ InFlight' = InFlight
      /\ Queue!Cardinality(Buffered) = Len(buffer)
      /\ Len(buffer) \in Nat /\ Len(buffer) <= BufferSize /\ BufferSize \in Nat \ {0}
  BY BufferedSize, QueueCardinality, LogShippingAssumption
     DEF Emit, NextRecord, sending, InFlight, InBatch, ShippingInv, TypeOK
<1>2. CASE Len(buffer) = BufferSize
  <2>1. /\ buffer' = Append(Tail(buffer), emitted + 1)
        /\ fate' = [fate EXCEPT ![Head(buffer)] = "evicted"]
    BY <1>2 DEF Emit, AppendToBuffer, EvictOldest
  <2>2. /\ 1 \in DOMAIN buffer /\ Head(buffer) = buffer[1]
        /\ \A i \in DOMAIN buffer : i = 1 \/ 1 < i
    BY <1>1, <1>2, BufferRecords DEF ShippingInv
  <2>3. buffer[1] \in Buffered /\ \A s \in Buffered : buffer[1] <= s
    BY <2>2, BufferRecords DEF Buffered, ShippingInv, NewestKept
  <2>4. Buffered' = (Buffered \ {buffer[1]}) \cup {emitted + 1}
    BY <1>1, <1>2, <2>1, EvictingElements
  <2>5. Queue!Displace(buffer[1])
    BY <1>1, <1>2, <2>1, <2>2, <2>3, <2>4 DEF Queue!Displace
  <2> QED
    BY <2>3, <2>5
<1>3. CASE Len(buffer) # BufferSize
  <2>1. buffer' = Append(buffer, emitted + 1) /\ UNCHANGED fate
    BY <1>3 DEF Emit, AppendToBuffer
  <2>2. Buffered' = Buffered \cup {emitted + 1}
    <3>1. /\ Len(buffer') = Len(buffer) + 1 /\ DOMAIN buffer' = 1 .. (Len(buffer) + 1)
          /\ \A i \in 1 .. Len(buffer) : buffer'[i] = buffer[i]
          /\ buffer'[Len(buffer) + 1] = emitted + 1
      BY <2>1, BufferRecords, SeqGrows DEF ShippingInv
    <3>2. DOMAIN buffer = 1 .. Len(buffer) /\ Len(buffer) \in Nat
      BY BufferRecords DEF ShippingInv
    <3>3. \A i : i \in 1 .. (Len(buffer) + 1) <=> i \in 1 .. Len(buffer) \/ i = Len(buffer) + 1
      BY <3>2
    <3> QED
      BY ONLY <3>1, <3>2, <3>3 DEF Buffered
  <2>3. Queue!Accept
    BY <1>1, <1>3, <2>1, <2>2 DEF Queue!Accept
  <2> QED
    BY <2>3
<1> QED
  BY <1>2, <1>3

\* Whoever drains takes what waits, if anything does.
LEMMA DrainTakes ==
  ASSUME ShippingInv, NEW t \in Threads, Drain(t), batch[t] = <<>>, UNCHANGED <<emitted, fate>>
  PROVE  [Queue!Next]_(Queue!vars)
<1>1. /\ batch' = [batch EXCEPT ![t] = buffer] /\ buffer' = <<>>
      /\ batch \in [Threads -> Seq(1 .. emitted)] /\ buffer \in Seq(1 .. emitted)
  BY DEF Drain, ClearBuffer, ShippingInv, TypeOK
<1>2. /\ InBatch(t) = {} /\ InBatch(t)' = Buffered
      /\ \A u \in Threads : u # t => InBatch(u)' = InBatch(u)
  BY <1>1 DEF InBatch, Buffered
<1>3. InFlight' = (InFlight \cup {Buffered}) \ {{}}
  BY ONLY <1>2, t \in Threads DEF InFlight
<1>4. Buffered' = {}
  BY <1>1 DEF Buffered
<1>5. CASE Buffered = {}
  <2>1. InFlight' = InFlight
    BY <1>3, <1>5 DEF InFlight
  <2> QED
    BY <1>4, <1>5, <2>1 DEF Queue!vars
<1>6. CASE Buffered # {}
  <2>1. InFlight' = InFlight \cup {Buffered}
    BY <1>3, <1>6 DEF InFlight
  <2> QED
    BY <1>4, <1>6, <2>1 DEF Queue!Next, Queue!Take
<1> QED
  BY <1>5, <1>6

\* The end of a POST settles its batch; another try changes nothing.
LEMMA PostSettles ==
  ASSUME ShippingInv, UniformInv, NEW t \in Threads, Post(t)
  PROVE  [Queue!Next]_(Queue!vars)
<1>1. UNCHANGED <<emitted, buffer>> /\ (EndPost(t) \/ Retried(t))
  BY PostOutcome
<1>2. UNCHANGED <<emitted, Buffered>>
  BY <1>1 DEF Buffered
<1>3. CASE Retried(t)
  BY <1>2, <1>3 DEF Retried, Queue!vars, InFlight, InBatch
<1>4. CASE EndPost(t)
  <2>1. /\ batch' = [batch EXCEPT ![t] = <<>>] /\ batch \in [Threads -> Seq(1 .. emitted)]
        /\ fate' = [r \in Records |->
                        IF r \notin InBatch(t) THEN fate[r]
                        ELSE IF copies'[r] > 0 THEN "shipped" ELSE "push_failed"]
        /\ fate \in [Records -> Fates]
    BY <1>4 DEF EndPost, ShippingInv, TypeOK
  <2>2. InBatch(t)' = {} /\ \A u \in Threads : u # t => InBatch(u)' = InBatch(u)
    BY <2>1 DEF InBatch
  <2>3. \A u \in Threads : u # t /\ InBatch(u) # {} => InBatch(u) # InBatch(t)
    BY OneBatchEach
  <2>4. InFlight' = InFlight \ {InBatch(t)}
    BY ONLY <2>2, <2>3, t \in Threads DEF InFlight
  <2>5. CASE InBatch(t) = {}
    <3>1. fate' = fate
      BY <2>1, <2>5
    <3>2. InFlight' = InFlight
      BY <2>4, <2>5 DEF InFlight
    <3> QED
      BY <1>2, <3>1, <3>2 DEF Queue!vars
  <2>6. ASSUME NEW b \in InBatch(t) PROVE Queue!Next
    <3> DEFINE f == IF copies'[b] > 0 THEN "shipped" ELSE "push_failed"
    <3>1. \A r \in InBatch(t) : copies'[r] = copies'[b]
      BY PostUniform
    <3>2. fate' = [r \in Records |-> IF r \in InBatch(t) THEN f ELSE fate[r]]
      BY <2>1, <3>1
    <3>3. InBatch(t) \in InFlight
      BY DEF InFlight
    <3>4. Queue!Settle(InBatch(t), f)
      BY <1>2, <2>4, <3>2, <3>3 DEF Queue!Settle, Queue!Records, Records
    <3>5. f \in {"shipped", "push_failed"}
      OBVIOUS
    <3> HIDE DEF f
    <3> QED
      BY <3>3, <3>4, <3>5 DEF Queue!Next
  <2> QED
    BY <2>5, <2>6
<1> QED
  BY <1>1, <1>3, <1>4

LEMMA QueueStep ==
  ASSUME ShippingInv, UniformInv, [Next]_vars
  PROVE  [Queue!Next]_(Queue!vars)
<1> USE DEF Queue!vars
<1>1. CASE Emit
  BY <1>1, EmitIsQueued
<1>2. CASE EmitUncaptured
  <2>1. UNCHANGED <<Buffered, InFlight>>
    BY <1>2 DEF EmitUncaptured, bufferVars, sending, Buffered, InFlight, InBatch
  <2>2. Queue!Ignore
    BY <1>2, <2>1 DEF EmitUncaptured, NextRecord, Queue!Ignore, Queue!Emitted
  <2> QED
    BY <2>2 DEF Queue!Next
<1>3. CASE SenderStarts \/ SenderAdvances \/ PushLogs \/ UNCHANGED vars
  BY <1>3 DEF SenderStarts, SenderAdvances, PushLogs, vars, logVars, bufferVars, sending,
     Buffered, InFlight, InBatch
<1>4. CASE StopRunner \/ StopSender \/ CloseService
  BY <1>4 DEF StopRunner, StopSender, CloseService, StopStage, bufferVars, sending,
     Buffered, InFlight, InBatch
<1>5. ASSUME NEW p \in Pushers, BeginFlush(p) \/ FlushLogs(p) \/ Post(p)
      PROVE  [Queue!Next]_(Queue!vars)
  <2>1. p \in Threads
    BY DEF Threads
  <2>2. CASE BeginFlush(p)
    BY <2>2 DEF BeginFlush, bufferVars, Buffered, InFlight, InBatch
  <2>3. CASE FlushLogs(p)
    <3>1. batch[p] = <<>>
      BY <2>1, <2>3 DEF FlushLogs, ShippingInv, BatchInv
    <3> QED
      BY <2>1, <2>3, <3>1, DrainTakes DEF FlushLogs
  <2> QED
    BY <1>5, <2>1, <2>2, <2>3, PostSettles
<1>6. CASE DrainOnStop
  <2>1. Stopper \in Threads /\ batch[Stopper] = <<>>
    BY <1>6 DEF DrainOnStop, StopStage, Threads, ShippingInv, BatchInv
  <2> QED
    BY <1>6, <2>1, DrainTakes DEF DrainOnStop, StopStage
<1>7. CASE PostOnStop
  BY <1>7, PostSettles DEF PostOnStop, Threads
<1> QED
  BY <1>1, <1>2, <1>3, <1>4, <1>5, <1>6, <1>7 DEF Next

\* The buffer, the threads and the requests together are the bounded queue of
\* LogQueue: what is given up is the oldest of a full buffer, and a batch is all
\* that waited and has one fate.
THEOREM ImplementsQueue == Spec => QueueSpec
<1>1. Init => UniformInv /\ Queue!Init
  BY DEF Init, UniformInv, InBatch, Buffered, InFlight, Queue!Init, Queue!Records, Records
<1>2. ShippingInv /\ UniformInv /\ [Next]_vars
          => UniformInv' /\ [Queue!Next]_(Queue!vars)
  BY UniformStep, QueueStep
<1> QED
  BY <1>1, <1>2, ShippingInvHolds, PTL DEF Spec, QueueSpec, Queue!Spec
=============================================================================
