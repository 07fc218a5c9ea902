------------------------ MODULE ResultsProcessor_proofs ------------------------
(***************************************************************************)
(* Theorems about module ResultsProcessor, for any number of operations    *)
(* and publisher threads, any sizes, limits and trace ids.                 *)
(***************************************************************************)
EXTENDS ResultsProcessor, TLAPS

LEMMA InitTypeOK == Init => TypeOK
  BY ResultsProcessorAssumption DEF Init, TypeOK

LEMMA HandlerEndsType ==
  ASSUME TypeOK, NEW w \in Workers, HandlerEnds(w),
         UNCHANGED <<waiting, storage>>, accepted' \in [Ops -> Messages \cup {None}]
  PROVE  TypeOK'
  BY ResultsProcessorAssumption DEF TypeOK, HandlerEnds, GoTo

LEMMA RetryType ==
  ASSUME TypeOK, NEW w \in Workers, GiveUpOrRetry(w),
         UNCHANGED <<waiting, storage>>, accepted' \in [Ops -> Messages \cup {None}]
  PROVE  TypeOK'
<1>1. CASE tries[w] + 1 < PushTries
  <2>1. tries' \in [Workers -> 0 .. PushTries - 1] /\ UNCHANGED <<pc, job, message>>
    BY <1>1, ResultsProcessorAssumption DEF TypeOK, GiveUpOrRetry
  <2> QED
    BY <2>1 DEF TypeOK
<1>2. CASE ~(tries[w] + 1 < PushTries)
  BY <1>2, HandlerEndsType DEF GiveUpOrRetry
<1> QED
  BY <1>1, <1>2

LEMMA NextTypeOK == TypeOK /\ [Next]_vars => TypeOK'
<1> SUFFICES ASSUME TypeOK, [Next]_vars
             PROVE  TypeOK'
  OBVIOUS
<1> USE ResultsProcessorAssumption
<1>1. CASE UNCHANGED vars
  BY <1>1 DEF vars, TypeOK
<1>2. ASSUME NEW w \in Workers, NEW o \in Ops, Take(w, o)
      PROVE  TypeOK'
  BY <1>2 DEF TypeOK, Take, GoTo
<1>3. ASSUME NEW w \in Workers, KeepInline(w)
      PROVE  TypeOK'
  <2> DEFINE m == [payload |-> job[w] \in WithPayload, location |-> None, gzip |-> FALSE]
  <2>1. m \in Messages
    BY DEF Messages
  <2>2. pc[w] = "processing" /\ WillPush(w, m) /\ UNCHANGED <<waiting, job, tries, storage, accepted>>
    BY <1>3 DEF KeepInline, Measured
  <2> HIDE DEF m
  <2> QED
    BY <2>1, <2>2 DEF TypeOK, WillPush, GoTo
<1>4. ASSUME NEW w \in Workers, WriteFile(w)
      PROVE  TypeOK'
  <2>1. job[w] \in Ops
    BY <1>4 DEF TypeOK, WriteFile, Measured
  <2>2. storage' \in [Traces -> Files \cup {None}]
    BY <1>4, <2>1 DEF TypeOK, WriteFile, Measured, Files
  <2> QED
    BY <1>4, <2>2 DEF TypeOK, WriteFile, Measured, GoTo
<1>5. ASSUME NEW w \in Workers, ReplacePayload(w)
      PROVE  TypeOK'
  <2> DEFINE m == [payload |-> FALSE, location |-> TraceOf[job[w]], gzip |-> job[w] \in Compress]
  <2>1. m \in Messages
    BY <1>5 DEF Messages, TypeOK, ReplacePayload
  <2>2. pc[w] = "written" /\ WillPush(w, m) /\ UNCHANGED <<waiting, job, tries, storage, accepted>>
    BY <1>5 DEF ReplacePayload
  <2> HIDE DEF m
  <2> QED
    BY <2>1, <2>2 DEF TypeOK, WillPush, GoTo
<1>6. ASSUME NEW w \in Workers, Raise(w)
      PROVE  TypeOK'
  BY <1>6, HandlerEndsType DEF Raise, TypeOK
<1>7. ASSUME NEW w \in Workers, Push(w)
      PROVE  TypeOK'
  <2>1. message[w] \in Messages
    BY <1>7 DEF TypeOK, Push
  <2>2. accepted' \in [Ops -> Messages \cup {None}]
    BY <1>7, <2>1 DEF TypeOK, Push
  <2> QED
    BY <1>7, <2>2, HandlerEndsType, RetryType DEF Push
<1> QED
  BY <1>1, <1>2, <1>3, <1>4, <1>5, <1>6, <1>7 DEF Next

\* The variables always have the values of their types; in particular a thread
\* has a message exactly while it pushes it, and never tries once too often.
THEOREM DeliveryTypeCorrect == Spec => []TypeOK
  BY InitTypeOK, NextTypeOK, PTL DEF Spec

-----------------------------------------------------------------------------
\* DeliveredIsReadable is not inductive: it needs what holds of a file and of a
\* message before the orchestrator has the message.

FileOf(o) == [op |-> o, gzip |-> o \in Compress]

\* The key of the operation leads to a file, of this operation or of another one
\* that has the same trace id.
Kept(o) == \E p \in Ops : TraceOf[p] = TraceOf[o] /\ storage[TraceOf[o]] = FileOf(p)

\* The message tells the truth about the result of the operation.
Truthful(o, m) == IF m.location = None
                  THEN o \in WithPayload <=> m.payload
                  ELSE m.location = TraceOf[o] /\ m.gzip = (o \in Compress) /\ Kept(o)

DeliveryInv ==
    \A o \in Ops :
        /\ \A w \in Workers : job[w] = o =>
               /\ pc[w] = "written" => Kept(o)
               /\ pc[w] = "pushing" => Truthful(o, message[w])
        /\ accepted[o] # None => Truthful(o, accepted[o])

LEMMA NextDelivery == TypeOK /\ TypeOK' /\ DeliveryInv /\ [Next]_vars => DeliveryInv'
<1> SUFFICES ASSUME TypeOK, TypeOK', DeliveryInv, [Next]_vars,
                    NEW o \in Ops
             PROVE  /\ \A w \in Workers : job'[w] = o =>
                           /\ pc'[w] = "written" => Kept(o)'
                           /\ pc'[w] = "pushing" => Truthful(o, message[w])'
                    /\ accepted'[o] # None => Truthful(o, accepted[o])'
  BY DEF DeliveryInv
<1> USE ResultsProcessorAssumption
<1>1. CASE UNCHANGED vars
  BY <1>1 DEF vars, DeliveryInv, Truthful, Kept
<1>2. ASSUME NEW v \in Workers, NEW p \in Ops, Take(v, p)
      PROVE  /\ \A w \in Workers : job'[w] = o =>
                    /\ pc'[w] = "written" => Kept(o)'
                    /\ pc'[w] = "pushing" => Truthful(o, message[w])'
             /\ accepted'[o] # None => Truthful(o, accepted[o])'
  BY <1>2 DEF Take, GoTo, TypeOK, DeliveryInv, Truthful, Kept
<1>3. ASSUME NEW v \in Workers, KeepInline(v)
      PROVE  /\ \A w \in Workers : job'[w] = o =>
                    /\ pc'[w] = "written" => Kept(o)'
                    /\ pc'[w] = "pushing" => Truthful(o, message[w])'
             /\ accepted'[o] # None => Truthful(o, accepted[o])'
  <2>1. /\ UNCHANGED <<job, storage, accepted>>
        /\ pc' = [pc EXCEPT ![v] = "pushing"]
        /\ message' = [message EXCEPT ![v] = [payload |-> job[v] \in WithPayload,
                                              location |-> None, gzip |-> FALSE]]
    BY <1>3 DEF KeepInline, WillPush, GoTo
  <2>2. job[v] = o => Truthful(o, message[v])'
    <3>1. /\ message'[v].location = None
          /\ message'[v].payload <=> job[v] \in WithPayload
      BY <2>1 DEF TypeOK
    <3> QED
      BY <3>1, Zenon DEF Truthful
  <2> QED
    BY <2>1, <2>2 DEF TypeOK, DeliveryInv, Truthful, Kept
<1>4. ASSUME NEW v \in Workers, WriteFile(v)
      PROVE  /\ \A w \in Workers : job'[w] = o =>
                    /\ pc'[w] = "written" => Kept(o)'
                    /\ pc'[w] = "pushing" => Truthful(o, message[w])'
             /\ accepted'[o] # None => Truthful(o, accepted[o])'
  <2>1. job[v] \in Ops /\ TraceOf[job[v]] \in Traces /\ TraceOf[o] \in Traces
    BY <1>4 DEF WriteFile, Measured, TypeOK
  <2>2. /\ UNCHANGED <<job, message, accepted>>
        /\ pc' = [pc EXCEPT ![v] = "written"]
        /\ storage' = [storage EXCEPT ![TraceOf[job[v]]] = FileOf(job[v])]
    BY <1>4 DEF WriteFile, GoTo, FileOf
  <2>3. job[v] = o => Kept(o)'
    BY <2>1, <2>2 DEF TypeOK, Kept
  <2>4. Kept(o) => Kept(o)'
    <3>1. CASE TraceOf[job[v]] = TraceOf[o]
      BY <2>1, <2>2, <3>1 DEF TypeOK, Kept
    <3>2. CASE TraceOf[job[v]] # TraceOf[o]
      BY <2>1, <2>2, <3>2 DEF TypeOK, Kept
    <3> QED
      BY <3>1, <3>2
  <2> HIDE DEF Kept
  <2> QED
    BY <2>2, <2>3, <2>4 DEF TypeOK, DeliveryInv, Truthful
<1>5. ASSUME NEW v \in Workers, ReplacePayload(v)
      PROVE  /\ \A w \in Workers : job'[w] = o =>
                    /\ pc'[w] = "written" => Kept(o)'
                    /\ pc'[w] = "pushing" => Truthful(o, message[w])'
             /\ accepted'[o] # None => Truthful(o, accepted[o])'
  <2>1. /\ UNCHANGED <<job, storage, accepted>>
        /\ pc[v] = "written"
        /\ pc' = [pc EXCEPT ![v] = "pushing"]
        /\ message' = [message EXCEPT ![v] = [payload |-> FALSE,
                                              location |-> TraceOf[job[v]],
                                              gzip |-> job[v] \in Compress]]
    BY <1>5 DEF ReplacePayload, WillPush, GoTo
  <2>2. job[v] = o => Truthful(o, message[v])'
    BY <2>1 DEF Truthful, Kept, TypeOK, DeliveryInv
  <2> QED
    BY <2>1, <2>2 DEF TypeOK, DeliveryInv, Truthful, Kept
<1>6. ASSUME NEW v \in Workers, Raise(v)
      PROVE  /\ \A w \in Workers : job'[w] = o =>
                    /\ pc'[w] = "written" => Kept(o)'
                    /\ pc'[w] = "pushing" => Truthful(o, message[w])'
             /\ accepted'[o] # None => Truthful(o, accepted[o])'
  BY <1>6 DEF Raise, HandlerEnds, GoTo, TypeOK, DeliveryInv, Truthful, Kept
<1>7. ASSUME NEW v \in Workers, Push(v)
      PROVE  /\ \A w \in Workers : job'[w] = o =>
                    /\ pc'[w] = "written" => Kept(o)'
                    /\ pc'[w] = "pushing" => Truthful(o, message[w])'
             /\ accepted'[o] # None => Truthful(o, accepted[o])'
  <2>1. /\ storage' = storage
        /\ \A w \in Workers : job'[w] = o =>
               job[w] = o /\ pc'[w] = pc[w] /\ message'[w] = message[w]
    BY <1>7 DEF Push, HandlerEnds, GiveUpOrRetry, GoTo, TypeOK
  <2>2. accepted'[o] = accepted[o] \/ (job[v] = o /\ accepted'[o] = message[v])
    BY <1>7 DEF Push, TypeOK
  <2>3. pc[v] = "pushing"
    BY <1>7 DEF Push
  <2> QED
    BY <2>1, <2>2, <2>3 DEF DeliveryInv, Truthful, Kept
<1> QED
  BY <1>1, <1>2, <1>3, <1>4, <1>5, <1>6, <1>7 DEF Next

\* A URL that the orchestrator accepted leads to a file of the operation's trace,
\* whatever the trace ids are; if it is the file of that operation, it is
\* compressed if and only if the message says so.
THEOREM DeliveredResultsAreReadable == Spec => []DeliveredIsReadable
<1>1. Init => DeliveryInv
  BY ResultsProcessorAssumption DEF Init, DeliveryInv
<1>2. TypeOK /\ DeliveryInv => DeliveredIsReadable
  <2> SUFFICES ASSUME TypeOK, DeliveryInv, NEW o \in Ops, accepted[o] # None,
                      accepted[o].location # None
               PROVE  LET file == storage[accepted[o].location]
                      IN  /\ file # None
                          /\ TraceOf[file.op] = TraceOf[o]
                          /\ file.op = o => file.gzip = accepted[o].gzip
    BY DEF DeliveryInv, DeliveredIsReadable, Truthful
  <2>1. accepted[o].location = TraceOf[o] /\ accepted[o].gzip = (o \in Compress) /\ Kept(o)
    BY DEF DeliveryInv, Truthful
  <2>2. PICK p \in Ops : TraceOf[p] = TraceOf[o] /\ storage[TraceOf[o]] = FileOf(p)
    BY <2>1 DEF Kept
  <2>3. FileOf(p) \in Files /\ FileOf(p).op = p /\ FileOf(p).gzip = (p \in Compress)
    BY DEF FileOf, Files
  <2> QED
    BY <2>1, <2>2, <2>3, ResultsProcessorAssumption
<1> QED
  BY <1>1, <1>2, NextDelivery, DeliveryTypeCorrect, PTL DEF Spec
=============================================================================
