-------------------------- MODULE ResultsProcessor --------------------------
(***************************************************************************)
(* service/results_processor.py, and how its results are delivered: a      *)
(* thread of the results publisher takes a result with OperationAttributes *)
(* and process_result looks at its size.  A large one is written to the    *)
(* storage under the operation's trace id and its payload replaced by a    *)
(* URL; then the result is pushed, with retries.  Anything that raises     *)
(* before the push ends the handler, and the result is lost.               *)
(*                                                                         *)
(* pc of a publisher thread: "idle", "processing" (in process_result),     *)
(* "written" (the contents are in the storage) or "pushing".               *)
(***************************************************************************)
EXTENDS Integers

CONSTANTS Ops,           \* operations, each with one result
          Workers,       \* the threads of the results publisher
          Traces,        \* trace ids
          None,          \* no operation, no URL, no file, not accepted
          EnablePreSignedUrls,
          SizeOf,        \* of each result, serialised
          LimitOf,       \* response_size_limit_bytes of each operation
          TraceOf,       \* trace_id of each operation
          Compress,      \* operations with compress_response_file
          WithPayload,   \* operations whose result has the key __mcd_result__
          Unserialisable,  \* operations whose result json.dumps does not accept
          StorageFails,  \* the storage may raise
          PushTries      \* tries of _push_results_with_retries

Files == [op : Ops, gzip : BOOLEAN]
Messages == [payload : BOOLEAN, location : Traces \cup {None}, gzip : BOOLEAN]

ASSUME ResultsProcessorAssumption ==
    /\ None \notin Ops \cup Traces \cup Files \cup Messages
    /\ SizeOf \in [Ops -> Nat] /\ LimitOf \in [Ops -> Int]
    /\ TraceOf \in [Ops -> Traces]
    /\ {EnablePreSignedUrls, StorageFails} \subseteq BOOLEAN
    /\ PushTries \in Nat \ {0}

VARIABLES waiting,   \* results in the publisher's queue
          pc, job,   \* of each thread
          message,   \* the result as each thread will push it
          tries,     \* failed tries of each thread
          storage,   \* the file under each key responses/{trace_id}
          accepted   \* orchestrator: the result it has of each operation

vars == <<waiting, pc, job, message, tries, storage, accepted>>

TypeOK == /\ waiting \subseteq Ops
          /\ pc \in [Workers -> {"idle", "processing", "written", "pushing"}]
          /\ job \in [Workers -> Ops \cup {None}]
          /\ message \in [Workers -> Messages \cup {None}]
          /\ tries \in [Workers -> 0 .. PushTries - 1]
          /\ storage \in [Traces -> Files \cup {None}]
          /\ accepted \in [Ops -> Messages \cup {None}]
          /\ \A w \in Workers : /\ pc[w] = "idle" <=> job[w] = None
                                /\ pc[w] = "pushing" <=> message[w] # None

Init == /\ waiting = Ops
        /\ pc = [w \in Workers |-> "idle"] /\ job = [w \in Workers |-> None]
        /\ message = [w \in Workers |-> None] /\ tries = [w \in Workers |-> 0]
        /\ storage = [t \in Traces |-> None] /\ accepted = [o \in Ops |-> None]

GoTo(w, place) == pc' = [pc EXCEPT ![w] = place]

HandlerEnds(w) == /\ GoTo(w, "idle")
                  /\ job' = [job EXCEPT ![w] = None]
                  /\ message' = [message EXCEPT ![w] = None]
                  /\ tries' = [tries EXCEPT ![w] = 0]

Take(w, o) == /\ pc[w] = "idle" /\ o \in waiting
              /\ waiting' = waiting \ {o}
              /\ GoTo(w, "processing")
              /\ job' = [job EXCEPT ![w] = o]
              /\ UNCHANGED <<message, tries, storage, accepted>>

\* _must_use_pre_signed_url: a limit of 0, or less, is none.
MustUpload(o) == EnablePreSignedUrls /\ 0 < LimitOf[o] /\ LimitOf[o] < SizeOf[o]

\* _calculate_result_size, which serialises the result, has returned.
Measured(w) == pc[w] = "processing" /\ job[w] \notin Unserialisable

\* Faulty variant: the message is not kept.
WillPushNothing(w, m) == GoTo(w, "pushing") /\ UNCHANGED message

WillPush(w, m) == GoTo(w, "pushing") /\ message' = [message EXCEPT ![w] = m]

KeepInline(w) ==
    /\ Measured(w) /\ ~MustUpload(job[w])
    /\ WillPush(w, [payload |-> job[w] \in WithPayload, location |-> None, gzip |-> FALSE])
    /\ UNCHANGED <<waiting, job, tries, storage, accepted>>

WriteFile(w) ==
    /\ Measured(w) /\ MustUpload(job[w])
    /\ storage' = [storage EXCEPT ![TraceOf[job[w]]] =
                       [op |-> job[w], gzip |-> job[w] \in Compress]]
    /\ GoTo(w, "written")
    /\ UNCHANGED <<waiting, job, message, tries, accepted>>

\* Faulty variant: the message always says that the contents are compressed.
ReplaceAlwaysCompressed(w) ==
    /\ pc[w] = "written" /\ job[w] \in WithPayload
    /\ WillPush(w, [payload |-> FALSE, location |-> TraceOf[job[w]], gzip |-> TRUE])
    /\ UNCHANGED <<waiting, job, tries, storage, accepted>>

\* The URL is signed and takes the place of the payload.
ReplacePayload(w) ==
    /\ pc[w] = "written" /\ job[w] \in WithPayload
    /\ WillPush(w, [payload |-> FALSE, location |-> TraceOf[job[w]],
                    gzip |-> job[w] \in Compress])
    /\ UNCHANGED <<waiting, job, tries, storage, accepted>>

\* The serialisation raises, or write() or generate_presigned_url(), or `del` on
\* a result that has no payload: _invoke_handler logs it.
Raise(w) == /\ \/ pc[w] = "processing" /\ job[w] \in Unserialisable
               \/ StorageFails /\ Measured(w) /\ MustUpload(job[w])
               \/ pc[w] = "written" /\ (StorageFails \/ job[w] \notin WithPayload)
            /\ HandlerEnds(w)
            /\ UNCHANGED <<waiting, storage, accepted>>

\* push_results: the PUT is carried out or not, and its response arrives or not.
GiveUpOrRetry(w) == IF tries[w] + 1 < PushTries
                    THEN /\ tries' = [tries EXCEPT ![w] = @ + 1]
                         /\ UNCHANGED <<pc, job, message>>
                    ELSE HandlerEnds(w)

Push(w) == /\ pc[w] = "pushing"
           /\ \/ UNCHANGED accepted /\ GiveUpOrRetry(w)
              \/ /\ accepted' = [accepted EXCEPT ![job[w]] = message[w]]
                 /\ HandlerEnds(w) \/ GiveUpOrRetry(w)
           /\ UNCHANGED <<waiting, storage>>

Next == \E w \in Workers : \/ \E o \in Ops : Take(w, o)
                           \/ KeepInline(w) \/ WriteFile(w) \/ ReplacePayload(w)
                           \/ Raise(w) \/ Push(w)

Spec == Init /\ [][Next]_vars

-----------------------------------------------------------------------------
\* What the orchestrator was told is what it finds: when it has accepted a
\* result with a URL, a file is in the storage already, whatever the publisher
\* threads upload, retry and lose: one of the operation's own trace.  Where no
\* other operation has the trace id it is this operation's, compressed if and
\* only if the message says so.  Where one has, both have the same key: the file
\* may be the other's, with another flag, but never a third's.
DeliveredIsReadable ==
    \A o \in Ops : accepted[o] # None =>
        IF accepted[o].location = None THEN o \in WithPayload <=> accepted[o].payload
        ELSE LET file == storage[accepted[o].location]
             IN  /\ file # None
                 /\ TraceOf[file.op] = TraceOf[o]
                 /\ file.op = o => file.gzip = accepted[o].gzip
=============================================================================
