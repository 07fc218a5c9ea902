---------------------------- MODULE LogShipping ----------------------------
(***************************************************************************)
(* How the agent ships its own log: service/in_process_logs_service.py,    *)
(* the "Logs sender" timer, _flush_logs, _stop_logs_service and the POST   *)
(* of backend/backend_client.py.                                           *)
(*                                                                         *)
(* Any thread emits records into a bounded buffer, which evicts its oldest *)
(* record when it is full and counts what it evicted.  The timer schedules *)
(* push_logs operations; a thread of the operations runner executes one:   *)
(* it drains the buffer, the count becoming a notice at the head of the    *)
(* batch, and sends the batch.  stop() drains once more, detaches the      *)
(* handler from the root logger, and sends what it drained.                *)
(*                                                                         *)
(* Records are numbered in the order in which they are emitted.            *)
(***************************************************************************)
EXTENDS Integers, Sequences, FiniteSets

CONSTANTS MaxRecords,   \* bound: how many records are emitted
          BufferSize,   \* maxlen of the buffer
          Pushers,      \* the threads of the operations runner
          Stopper,      \* the thread that calls stop()
          Hung,         \* pushers whose POST, which has no timeout, may never end
          MaxRequests,  \* bound: push_logs operations queued at one time
          Tries,        \* tries of _execute_operation_with_retries
          MayRefuse     \* the backend may answer a POST with a 4xx

ASSUME LogShippingAssumption ==
    /\ MaxRecords \in Nat
    /\ BufferSize \in Nat \ {0}
    /\ Stopper \notin Pushers
    /\ IsFiniteSet(Pushers)
    /\ MaxRequests \in Nat
    /\ Tries \in Nat \ {0}
    /\ MayRefuse \in BOOLEAN

Records == 1 .. MaxRecords
Threads == Pushers \cup {Stopper}

VARIABLES stage,          \* progress of stop()
          lastDrain,      \* history: how many records were emitted before its drain
          senderRunning, senderPc,  \* _logs_sender
          requests,       \* push_logs operations in the runner's queue
          emitted,        \* how many records have been emitted
          buffer,         \* _buffer
          droppedCount,   \* _dropped_count
          pc,             \* of the threads: "idle", "flushing" or "posting"
          batch,          \* the records each thread is sending
          notice,         \* the count in the notice at the head of the batch
          tries,          \* failed tries of the batch
          copies,         \* the backend: how often it stored each record
          fate,           \* history: what became of each record
          noticed         \* history: sum of the counts in the finished notices

stopVars == <<stage, lastDrain>>
senderVars == <<senderRunning, senderPc>>
bufferVars == <<buffer, droppedCount>>
sending == <<pc, batch, notice, tries>>
backend == <<copies, noticed>>
logVars == <<emitted, bufferVars, sending, backend, fate>>
vars == <<stopVars, senderVars, requests, logVars>>

Sender == INSTANCE TimerService WITH running <- senderRunning, pc <- senderPc

\* stop(), as far as the log is concerned, in the order of its calls.
Stages == {"up", "runner_down", "sender_down", "drained", "closed"}

Fates == {"none", "evicted", "shipped", "push_failed", "not_captured"}

TypeOK == /\ stage \in Stages
          /\ lastDrain \in 0 .. emitted
          /\ Sender!TypeOK
          /\ requests \in 0 .. MaxRequests
          /\ emitted \in 0 .. MaxRecords
          /\ buffer \in Seq(1 .. emitted) /\ Len(buffer) <= BufferSize
          /\ droppedCount \in Nat
          /\ pc \in [Threads -> {"idle", "flushing", "posting"}]
          /\ batch \in [Threads -> Seq(1 .. emitted)]
          /\ notice \in [Threads -> Nat]
          /\ tries \in [Threads -> 0 .. Tries - 1]
          /\ copies \in [Records -> Nat]
          /\ fate \in [Records -> Fates]
          /\ noticed \in Nat

Init == /\ stage = "up"
        /\ lastDrain = 0
        /\ Sender!Init
        /\ requests = 0
        /\ emitted = 0
        /\ buffer = <<>>
        /\ droppedCount = 0
        /\ pc = [t \in Threads |-> "idle"]
        /\ batch = [t \in Threads |-> <<>>]
        /\ notice = [t \in Threads |-> 0]
        /\ tries = [t \in Threads |-> 0]
        /\ copies = [r \in Records |-> 0]
        /\ fate = [r \in Records |-> "none"]
        /\ noticed = 0

-----------------------------------------------------------------------------
\* InProcessLogShippingHandler.emit: what it does under the lock.

NextRecord == emitted < MaxRecords /\ emitted' = emitted + 1

\* Faulty variant: what append() evicts is not counted.
CountNothing == UNCHANGED droppedCount

CountDropped == droppedCount' = droppedCount + 1

\* Faulty variant: the full buffer refuses the newest record.
EvictNewest == /\ UNCHANGED buffer
               /\ fate' = [fate EXCEPT ![emitted + 1] = "evicted"]

EvictOldest == /\ buffer' = Append(Tail(buffer), emitted + 1)
               /\ fate' = [fate EXCEPT ![Head(buffer)] = "evicted"]

\* Faulty variant: a list, which has no bound, for the deque.
AppendToList == /\ buffer' = Append(buffer, emitted + 1)
                /\ UNCHANGED <<droppedCount, fate>>

\* Faulty variant: one place of the buffer stays empty.
AppendEvictingEarly == IF Len(buffer) = BufferSize - 1
                       THEN CountDropped /\ EvictOldest
                       ELSE /\ buffer' = Append(buffer, emitted + 1)
                            /\ UNCHANGED <<droppedCount, fate>>

AppendToBuffer == IF Len(buffer) = BufferSize
                  THEN CountDropped /\ EvictOldest
                  ELSE /\ buffer' = Append(buffer, emitted + 1)
                       /\ UNCHANGED <<droppedCount, fate>>

\* A thread that had found the handler before it was detached may still append
\* a record afterwards, to a buffer nobody will drain.
Emit == /\ NextRecord
        /\ AppendToBuffer
        /\ UNCHANGED <<stopVars, senderVars, requests, sending, backend>>

\* The root logger no longer has the handler.
EmitUncaptured ==
    /\ stage = "closed"
    /\ NextRecord
    /\ fate' = [fate EXCEPT ![emitted + 1] = "not_captured"]
    /\ UNCHANGED <<stopVars, senderVars, requests, bufferVars, sending, backend>>

-----------------------------------------------------------------------------
\* The timer, whose handler _push_logs schedules an operation.

SenderStarts == /\ stage = "up"
                /\ Sender!Start
                /\ UNCHANGED <<stopVars, requests, logVars>>

SenderAdvances == Sender!Advance /\ UNCHANGED <<stopVars, requests, logVars>>

\* A request beyond the bound is not counted: those before it find its records.
PushLogs == /\ Sender!Return
            /\ requests' = IF requests < MaxRequests THEN requests + 1 ELSE requests
            /\ UNCHANGED <<stopVars, logVars>>

-----------------------------------------------------------------------------
\* A thread of the operations runner executes push_logs.

BeginFlush(p) == /\ stage = "up"
                 /\ requests > 0
                 /\ pc[p] = "idle"
                 /\ requests' = requests - 1
                 /\ pc' = [pc EXCEPT ![p] = "flushing"]
                 /\ UNCHANGED <<stopVars, senderVars, emitted, bufferVars, batch, notice,
                                tries, backend, fate>>

\* Faulty variant: the buffer is not cleared.
ClearNothing == UNCHANGED buffer

ClearBuffer == buffer' = <<>>

\* drain(): the notice, if anything was evicted, and all the records.  When
\* there is nothing nothing is sent; a count is never there without a record.
Drain(t) == /\ batch' = [batch EXCEPT ![t] = buffer]
            /\ notice' = [notice EXCEPT ![t] = droppedCount]
            /\ pc' = [pc EXCEPT ![t] = IF buffer = <<>> THEN "idle" ELSE "posting"]
            /\ ClearBuffer
            /\ droppedCount' = 0
            /\ UNCHANGED tries

FlushLogs(p) == /\ pc[p] = "flushing"
                /\ Drain(p)
                /\ UNCHANGED <<stopVars, senderVars, requests, emitted, backend, fate>>

-----------------------------------------------------------------------------
\* execute_operation: one POST, with its retries.

InBatch(t) == {batch[t][i] : i \in DOMAIN batch[t]}

\* The request is carried out: the records are stored once more.
Store(t) == copies' = [r \in Records |-> copies[r] + (IF r \in InBatch(t) THEN 1 ELSE 0)]

\* The call returns; its result is not looked at, and the batch is forgotten.
EndPost(t) == /\ pc' = [pc EXCEPT ![t] = "idle"]
              /\ batch' = [batch EXCEPT ![t] = <<>>]
              /\ notice' = [notice EXCEPT ![t] = 0]
              /\ tries' = [tries EXCEPT ![t] = 0]
              /\ noticed' = noticed + notice[t]
              /\ fate' = [r \in Records |->
                              IF r \notin InBatch(t) THEN fate[r]
                              ELSE IF copies'[r] > 0 THEN "shipped" ELSE "push_failed"]

\* Only the shutdown's POST has skip_retries.
TriesOf(t) == IF t = Stopper THEN 1 ELSE Tries

\* Faulty variant: the tries are not counted.
TryWithoutCounting(t) == UNCHANGED <<sending, noticed, fate>> \/ EndPost(t)

TryAgainOrGiveUp(t) ==
    IF tries[t] + 1 < TriesOf(t)
    THEN /\ tries' = [tries EXCEPT ![t] = @ + 1]
         /\ UNCHANGED <<pc, batch, notice, noticed, fate>>
    ELSE EndPost(t)

\* A try is carried out or not.  If it is, the answer arrives, whatever is in
\* its body, or the connection fails, times out or returns a 5xx.  If it is not,
\* that is for one of these reasons, or for one that is not retried: a 4xx, or
\* an error before the request is sent.
Post(t) == /\ pc[t] = "posting"
           /\ \/ Store(t) /\ (EndPost(t) \/ TryAgainOrGiveUp(t))
              \/ UNCHANGED copies /\ (TryAgainOrGiveUp(t) \/ (MayRefuse /\ EndPost(t)))
           /\ UNCHANGED <<stopVars, senderVars, requests, emitted, bufferVars>>

-----------------------------------------------------------------------------
\* stop() and _stop_logs_service

StopStage(from, to) == /\ stage = from /\ stage' = to
                       /\ UNCHANGED <<requests, emitted, backend, fate>>

StopRunner == /\ StopStage("up", "runner_down")
              /\ UNCHANGED <<lastDrain, senderVars, bufferVars, sending>>

StopSender == /\ StopStage("runner_down", "sender_down")
              /\ Sender!Stop
              /\ UNCHANGED <<lastDrain, bufferVars, sending>>

DrainOnStop == /\ StopStage("sender_down", "drained")
               /\ Drain(Stopper)
               /\ lastDrain' = emitted
               /\ UNCHANGED senderVars

\* close() comes before the POST of what was drained.
CloseService == /\ StopStage("drained", "closed")
                /\ UNCHANGED <<lastDrain, senderVars, bufferVars, sending>>

PostOnStop == stage = "closed" /\ Post(Stopper)

Next == \/ Emit \/ EmitUncaptured
        \/ SenderStarts \/ SenderAdvances \/ PushLogs
        \/ \E p \in Pushers : BeginFlush(p) \/ FlushLogs(p) \/ Post(p)
        \/ StopRunner \/ StopSender \/ DrainOnStop \/ CloseService \/ PostOnStop

Spec == Init /\ [][Next]_vars

\* A thread that can run is eventually run, and the interval of the timer goes
\* by.  The POST of stop() has a timeout; that of a pusher has none, and the
\* Hung pushers are those whose POST may never end.  stop(), once called, goes
\* on to its end; nothing forces the call.
Fairness == /\ WF_vars(SenderStarts) /\ WF_vars(SenderAdvances) /\ WF_vars(PushLogs)
            /\ WF_vars(StopSender \/ DrainOnStop \/ CloseService \/ PostOnStop)
            /\ \A p \in Pushers : WF_vars(BeginFlush(p)) /\ WF_vars(FlushLogs(p))
            /\ \A p \in Pushers \ Hung : WF_vars(Post(p))

FairSpec == Spec /\ Fairness

-----------------------------------------------------------------------------
InBuffer(r) == \E i \in DOMAIN buffer : buffer[i] = r
HeldBy(r) == {t \in Threads : r \in InBatch(t)}

\* stop() has drained the buffer and the record is in it, nor is a pusher there
\* that is about to drain it once more.
Stranded(r) == /\ stage \in {"drained", "closed"}
               /\ InBuffer(r)
               /\ \A p \in Pushers : pc[p] # "flushing"

\* Emitters, pushers and stop() work on the buffer at once, yet no record is in
\* two places or sent by two of them: one that was emitted is in the buffer, or
\* in the batch of one thread, or its fate is known; and the backend has it only
\* if it is in a batch or was shipped.  "Drain into a local list before close
\* ... can't strand records in a detached buffer" (base_egress_service.py:270)
\* is true of all that were emitted before the drain; those that come between
\* it and close(), or later from a thread that had found the handler, stay.
RecordsConserved ==
    \A r \in Records :
        /\ r > emitted => ~InBuffer(r) /\ HeldBy(r) = {} /\ fate[r] = "none"
        /\ r <= emitted => Cardinality(HeldBy(r)) + (IF InBuffer(r) THEN 1 ELSE 0)
                               = (IF fate[r] = "none" THEN 1 ELSE 0)
        /\ copies[r] > 0 => HeldBy(r) # {} \/ fate[r] = "shipped"
        /\ fate[r] = "shipped" => copies[r] > 0
        /\ Stranded(r) => r > lastDrain

Evicted == {r \in Records : fate[r] = "evicted"}

\* The evictions in the notices of the threads' batches, numbered in each.
InNotices == UNION {{t} \X (1 .. notice[t]) : t \in Threads}

\* The eviction count goes with the batch of one thread: however emits, drains
\* and retries interleave, every evicted record is in the counter, or in the
\* notice of one batch, or in one finished notice, once.
EvictionsCounted ==
    Cardinality(Evicted) = droppedCount + Cardinality(InNotices) + noticed

\* What is in the buffer is in the order of emission and newer than all that
\* left it: the record that a full buffer gives up is the oldest, and a slow
\* batch never finds its way back in.
NewestKept == /\ \A i, j \in DOMAIN buffer : i < j => buffer[i] < buffer[j]
              /\ \A i \in DOMAIN buffer, r \in Records :
                     HeldBy(r) # {} \/ fate[r] \in {"evicted", "shipped", "push_failed"}
                         => r < buffer[i]

\* A record the backend has accepted, the agent knowing it, is not sent again;
\* copies come only from responses that were lost, one per try.
StoredAgainOnlyByRetry ==
    [][\A r \in Records : copies'[r] > copies[r] =>
           /\ fate[r] = "none"
           /\ \E t \in HeldBy(r) : copies[r] <= tries[t]]_vars

\* Until the agent stops every record leaves the buffer, although evictions may
\* take it first, and although some pushes never end.
BufferedIsTaken ==
    \A r \in Records : InBuffer(r) ~> (~InBuffer(r) \/ stage # "up")

Buffered == {buffer[i] : i \in DOMAIN buffer}
InFlight == {InBatch(t) : t \in Threads} \ {{}}

\* Log shipping implements the queue of module LogQueue: whichever threads drain
\* and post at the same time, a batch is all that waited, is stored whole or not
\* at all, and nothing is given up while there is room.
Queue == INSTANCE LogQueue
             WITH Capacity <- BufferSize, waiting <- Buffered, batches <- InFlight

QueueSpec == Queue!Spec

\* The timer is the periodic task of module PeriodicTask.
SenderSpec == Sender!PeriodicFairSpec
=============================================================================
