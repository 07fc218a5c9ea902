---------------------------- MODULE EventsStream ----------------------------
(***************************************************************************)
(* events/: the SSE receiver, the heartbeat checker and the events client. *)
(*                                                                         *)
(* SSEClientReceiver and HeartbeatChecker work alike: start() draws a      *)
(* fresh id, makes it the current one and starts a thread that runs while  *)
(* its own id is current.  Nothing is locked and nothing is joined, so     *)
(* threads of earlier ids go on beside the current one until they look.    *)
(* The receiver starts a checker whenever it connects; a checker that      *)
(* misses the heartbeat restarts the receiver.                             *)
(*                                                                         *)
(* An id stands for the thread that runs under it, and is used again once  *)
(* that thread has ended.  place[r] is where the thread of loop id r is:   *)
(*   "off"            no such thread                                       *)
(*   "top"            about to evaluate `while self._is_current_loop`      *)
(*   "connecting"     getting a token and constructing the SSEClient, or   *)
(*                    asleep in @retry before that                         *)
(*   "opened"         _sse_client is assigned                              *)
(*   "reading"        blocked in the iteration over a connection           *)
(*   "handling"       has found itself current and calls _event_handler    *)
(*   "finally"        about to look at _current_loop_id in the finally     *)
(*   "disconnecting"  has looked, and calls _disconnected_handler          *)
(* and cplace[c] where the thread of checker id c is:                      *)
(*   "off"            no such thread                                       *)
(*   "waiting"        in Condition.wait, or about to be                    *)
(*   "late"           elapsed_time, just computed, exceeds the timeout     *)
(*   "restart"        has found itself current and calls _reconnect        *)
(*   "restarting"     between stop() and _start_receiver_thread()          *)
(***************************************************************************)

CONSTANTS Loops,        \* ids of receiver loops that can run at one time
          Checkers,     \* ids of heartbeat checkers that can run at one time
          Connections,  \* SSEClient objects that can be in use at one time
          None

ASSUME EventsStreamAssumption ==
    None \notin Loops \cup Checkers \cup Connections

VARIABLES
    service,    \* EventsClient: "new", "started" or "stopped"
    current,    \* SSEClientReceiver._current_loop_id
    client,     \* SSEClientReceiver._sse_client, None when no thread is going
                \* to read it before it is assigned again
    place,      \* control state of the receiver threads
    source,     \* the connection each of them iterates over
    raising,    \* the except branch of the thread raised SSEConnectionFailed
    watcher,    \* HeartbeatChecker._current_loop_id
    cplace,     \* control state of the checker threads
    overdue,    \* _last_heartbeat is longer ago than the timeout
    silent,     \* connections on which nothing will be seen any more
    overtaken   \* history: a loop was replaced while it was "disconnecting"

receiver == <<current, client, place, source, raising>>
checker == <<watcher, cplace, overdue>>
env == <<service, silent, overtaken>>
vars == <<receiver, checker, env>>

LoopPlaces == {"off", "top", "connecting", "opened", "reading", "handling",
               "finally", "disconnecting"}
CheckerPlaces == {"off", "waiting", "late", "restart", "restarting"}

\* The thread iterates over a connection.
Live == {"reading", "handling"}

\* The types.  _sse_client is kept while a thread is going to read it, a
\* thread has a source exactly while it iterates over it, and an exception is
\* on its way only through the finally clause.
TypeOK ==
    /\ service \in {"new", "started", "stopped"}
    /\ current \in Loops \cup {None}
    /\ client \in Connections \cup {None}
    /\ place \in [Loops -> LoopPlaces]
    /\ source \in [Loops -> Connections \cup {None}]
    /\ raising \in [Loops -> BOOLEAN]
    /\ watcher \in Checkers \cup {None}
    /\ cplace \in [Checkers -> CheckerPlaces]
    /\ overdue \in BOOLEAN
    /\ silent \subseteq Connections
    /\ overtaken \in BOOLEAN
    /\ client # None <=> \E r \in Loops : place[r] = "opened"
    /\ \A r \in Loops :
          /\ source[r] # None <=> place[r] \in Live
          /\ raising[r] => place[r] \in {"finally", "disconnecting"}

Init == /\ service = "new"
        /\ current = None
        /\ client = None
        /\ place = [r \in Loops |-> "off"]
        /\ source = [r \in Loops |-> None]
        /\ raising = [r \in Loops |-> FALSE]
        /\ watcher = None
        /\ cplace = [c \in Checkers |-> "off"]
        /\ overdue = FALSE
        /\ silent = {}
        /\ overtaken = FALSE

Goto(r, from, to) == place[r] = from /\ place' = [place EXCEPT ![r] = to]
CGoto(c, from, to) == cplace[c] = from /\ cplace' = [cplace EXCEPT ![c] = to]

-----------------------------------------------------------------------------
\* EventsClient.start and stop, called by the service.

StartReceiverThread(r) == Goto(r, "off", "top") /\ current' = r

Start == /\ service = "new"
         /\ service' = "started"
         /\ \E r \in Loops : StartReceiverThread(r)
         /\ UNCHANGED <<client, source, raising, checker, silent, overtaken>>

Stop == /\ service = "started"
        /\ service' = "stopped"
        /\ current' = None
        /\ UNCHANGED <<client, place, source, raising, checker, silent,
                       overtaken>>

-----------------------------------------------------------------------------
\* HeartbeatChecker.start, stop and heartbeat_received, called by receiver
\* threads.  The notify_all of the last two only makes a wait end early, and
\* a wait may end at any time here.

HeartbeatStart == \E c \in Checkers : /\ CGoto(c, "off", "waiting")
                                      /\ watcher' = c
                                      /\ overdue' = FALSE

HeartbeatReceived == overdue' = FALSE /\ UNCHANGED <<watcher, cplace>>

HeartbeatStop == watcher' = None /\ overdue' = FALSE /\ UNCHANGED cplace

-----------------------------------------------------------------------------
\* A receiver thread.

CheckCurrent(r) ==
    /\ Goto(r, "top", IF current = r THEN "connecting" ELSE "off")
    /\ UNCHANGED <<current, client, source, raising, checker, env>>

\* Connections that no thread iterates over: the next one is any of these.
\* (It replaces the one in `client', which nothing reads any more then.)
Unused == {k \in Connections : \A r \in Loops : source[r] # k}

\* Faulty variant: the connection is not stored in self._sse_client.
OpenUnassigned(r) ==
    /\ Goto(r, "connecting", "opened")
    /\ Unused # {}
    /\ UNCHANGED <<current, client, source, raising, checker, env>>

Open(r) == /\ Goto(r, "connecting", "opened")
           /\ Unused # {}
           /\ client' = CHOOSE k \in Unused : TRUE
           /\ silent' = silent \ {client'}
           /\ UNCHANGED <<service, current, source, raising, checker,
                          overtaken>>

\* Calls _connected_handler and enters the for loop.  self._sse_client is read
\* again there: it may be a connection that another loop has opened since.
Iterate(r) == /\ Goto(r, "opened", "reading")
              /\ HeartbeatStart
              /\ source' = [source EXCEPT ![r] = client]
              /\ client' = IF \E s \in Loops : place'[s] = "opened"
                           THEN client ELSE None
              /\ UNCHANGED <<current, raising, env>>

\* The thread leaves the body of the try, raising or not.
Leave(r, from, raises) ==
    /\ Goto(r, from, "finally")
    /\ source' = [source EXCEPT ![r] = None]
    /\ raising' = [raising EXCEPT ![r] = raises]
    /\ UNCHANGED <<current, client, checker, env>>

Speaks(r) == place[r] = "reading" /\ source[r] \notin silent

ReceiveEvent(r) ==
    /\ Speaks(r)
    /\ current = r
    /\ Goto(r, "reading", "handling")
    /\ UNCHANGED <<current, client, source, raising, checker, env>>

\* The for loop ends: at the end of the stream, or, the loop being no longer
\* current, at the next event, which is dropped.
EndIteration(r) == Speaks(r) /\ Leave(r, "reading", FALSE)

\* Faulty variant: the exception is raised again whether the loop is current
\* or not.
FailRaising(r) == \/ Leave(r, "connecting", TRUE)
                  \/ Speaks(r) /\ Leave(r, "reading", TRUE)

\* The token, the connection or the iteration raises.
Fail(r) == \/ Leave(r, "connecting", current = r)
           \/ Speaks(r) /\ Leave(r, "reading", current = r)

\* A heartbeat, or anything else: an event of another kind, one that cannot
\* be parsed, or one whose handler raises.
HandleEvent(r) ==
    /\ Goto(r, "handling", "reading")
    /\ HeartbeatReceived \/ UNCHANGED checker
    /\ UNCHANGED <<current, client, source, raising, env>>

\* Faulty variant: SSEConnectionFailed is not retried and ends the thread.
ResumeOnce(r, from) ==
    /\ Goto(r, from, IF raising[r] THEN "off" ELSE "top")
    /\ raising' = [raising EXCEPT ![r] = FALSE]
    /\ UNCHANGED <<current, client, source, env>>

\* _connect_and_consume_events returns, or raises into @retry, which sleeps
\* and calls it again without looking at whether the loop is current.
Resume(r, from) ==
    /\ Goto(r, from, IF raising[r] THEN "connecting" ELSE "top")
    /\ raising' = [raising EXCEPT ![r] = FALSE]
    /\ UNCHANGED <<current, client, source, env>>

\* Faulty variant: _disconnected_handler is called for replaced loops too.
FinallyAlways(r) ==
    /\ Goto(r, "finally", "disconnecting")
    /\ UNCHANGED <<current, client, source, raising, checker, env>>

\* _disconnected_handler is called unless the loop has been replaced, and a
\* moment later.
Finally(r) ==
    \/ /\ current \in {r, None}
       /\ Goto(r, "finally", "disconnecting")
       /\ UNCHANGED <<current, client, source, raising, checker, env>>
    \/ /\ current \notin {r, None}
       /\ Resume(r, "finally")
       /\ UNCHANGED checker

CallDisconnectedHandler(r) == HeartbeatStop /\ Resume(r, "disconnecting")

LoopStep(r) ==
    \/ CheckCurrent(r) \/ Open(r) \/ Iterate(r) \/ ReceiveEvent(r)
    \/ EndIteration(r) \/ Fail(r) \/ HandleEvent(r) \/ Finally(r)
    \/ CallDisconnectedHandler(r)

-----------------------------------------------------------------------------
\* A heartbeat checker thread.

\* Faulty variant: the thread waits once.
WaitEndsOnce(c) ==
    /\ CGoto(c, "waiting", IF overdue THEN "late" ELSE "off")
    /\ UNCHANGED <<receiver, watcher, overdue, env>>

\* The wait ends, early or not.  Unless the heartbeat is overdue the thread
\* only looks at _current_loop_id, which it may as well do once.
WaitEnds(c) ==
    /\ \/ overdue /\ CGoto(c, "waiting", "late")
       \/ ~overdue /\ watcher # c /\ CGoto(c, "waiting", "off")
    /\ UNCHANGED <<receiver, watcher, overdue, env>>

CheckWatching(c) ==
    /\ CGoto(c, "late", IF watcher = c THEN "restart" ELSE "off")
    /\ UNCHANGED <<receiver, watcher, overdue, env>>

\* _reconnect calls restart(), which is stop() and then
\* _start_receiver_thread().
RestartStops(c) == /\ CGoto(c, "restart", "restarting")
                   /\ current' = None
                   /\ UNCHANGED <<client, place, source, raising, watcher,
                                  overdue, env>>

RestartStarts(c) ==
    /\ CGoto(c, "restarting", "waiting")
    /\ \E r \in Loops : StartReceiverThread(r)
    /\ overtaken' = (overtaken \/ \E s \in Loops : place[s] = "disconnecting")
    /\ UNCHANGED <<service, client, source, raising, watcher, overdue,
                   silent>>

CheckerStep(c) == \/ WaitEnds(c) \/ CheckWatching(c)
                  \/ RestartStops(c) \/ RestartStarts(c)

-----------------------------------------------------------------------------
\* The environment: no heartbeat for the whole timeout, and a peer that has
\* gone without closing the connection.

TimePasses == /\ service # "new"
              /\ ~overdue
              /\ overdue' = TRUE
              /\ UNCHANGED <<receiver, watcher, cplace, env>>

GoSilent(k) == /\ k \notin silent
               /\ \E r \in Loops : source[r] = k
               /\ silent' = silent \cup {k}
               /\ UNCHANGED <<service, receiver, checker, overtaken>>

Next == \/ Start \/ Stop \/ TimePasses
        \/ \E r \in Loops : LoopStep(r)
        \/ \E c \in Checkers : CheckerStep(c)
        \/ \E k \in Connections : GoSilent(k)

\* Threads that can run are run; connecting and sleeping end; a connection
\* that is not silent brings something, the server sending heartbeats; time
\* passes.  Nothing forces a stop.  A step of a thread, once enabled, stays
\* enabled until it is taken, except when it waits for a free id, which is a
\* bound of the model: fairness is strong so that it gets one in its turn.
Fairness == /\ \A r \in Loops : SF_vars(LoopStep(r))
            /\ \A c \in Checkers : SF_vars(CheckerStep(c))
            /\ WF_vars(TimePasses)

Spec == Init /\ [][Next]_vars
FairSpec == Spec /\ Fairness

-----------------------------------------------------------------------------
\* Safety.

\* The current ids belong to threads that run: whatever fails, the current
\* receiver loop and the current checker go on until they are replaced.
CurrentThreadsLive ==
    /\ current # None => place[current] # "off"
    /\ watcher # None => cplace[watcher] # "off"

\* The comment at the finally clause: a loop that was replaced does not stop
\* the heartbeat checker of the new one.  So a connection of the current loop
\* always has a checker that will notice its silence.
ConnectionIsWatched ==
    \A r \in Loops : current = r /\ place[r] \in Live => watcher # None

\* The same, except after a loop was replaced between its look at the current
\* id and its call of the handler: nothing else can stop a checker that a
\* connected loop needs, however connections fail, end and are made again.
WatchedUnlessOvertaken == overtaken \/ ConnectionIsWatched

-----------------------------------------------------------------------------
\* Liveness.

\* The bound of this model is reached: all ids are in use.
LoopsInUse == \A r \in Loops : place[r] # "off"
AllInUse == LoopsInUse /\ \A c \in Checkers : cplace[c] # "off"

\* The thread of a loop that was stopped or replaced ends, unless it reads a
\* connection that has gone silent: it does not connect again for ever.
ReplacedLoopsEnd ==
    \A r \in Loops :
      (place[r] # "off" /\ current # r)
        ~> (place[r] = "off" \/ source[r] \in silent \/ AllInUse)

\* When the connection of the current loop goes silent, a loop that is not on
\* a silent connection becomes current, unless the client is stopped or a
\* checker was lost as above.
OnSilence == \E r \in Loops : current = r /\ source[r] \in silent

SilentIsReplaced ==
    OnSilence ~> (\/ current # None /\ ~OnSilence
                  \/ service = "stopped" \/ overtaken \/ LoopsInUse)
=============================================================================
