------------------------ MODULE EventsStream_proofs -------------------------
(***************************************************************************)
(* Theorems about module EventsStream, for any number of loops, checkers   *)
(* and connections.                                                        *)
(***************************************************************************)
EXTENDS EventsStream, TLAPS

USE DEF env

\* The part of the type invariant that concerns each group of variables.
ReceiverTypes ==
    /\ current \in Loops \cup {None}
    /\ client \in Connections \cup {None}
    /\ place \in [Loops -> LoopPlaces]
    /\ source \in [Loops -> Connections \cup {None}]
    /\ raising \in [Loops -> BOOLEAN]

CheckerTypes ==
    /\ watcher \in Checkers \cup {None}
    /\ cplace \in [Checkers -> CheckerPlaces]
    /\ overdue \in BOOLEAN

OtherTypes ==
    /\ service \in {"new", "started", "stopped"}
    /\ silent \subseteq Connections
    /\ overtaken \in BOOLEAN

ClientKept == client # None <=> \E r \in Loops : place[r] = "opened"

PlacesAgree == \A r \in Loops :
    /\ source[r] # None <=> place[r] \in Live
    /\ raising[r] => place[r] \in {"finally", "disconnecting"}

LEMMA TypeOKParts ==
    TypeOK <=> /\ ReceiverTypes /\ CheckerTypes /\ OtherTypes
               /\ ClientKept /\ PlacesAgree
  BY DEF TypeOK, ReceiverTypes, CheckerTypes, OtherTypes, ClientKept,
         PlacesAgree

-----------------------------------------------------------------------------
\* Each step keeps the state well typed.
LEMMA HeartbeatTypes ==
  ASSUME CheckerTypes, HeartbeatStart \/ HeartbeatReceived \/ HeartbeatStop
  PROVE  CheckerTypes'
  BY DEF CheckerTypes, HeartbeatStart, HeartbeatReceived, HeartbeatStop, CGoto,
         CheckerPlaces

LEMMA LeaveType ==
  ASSUME TypeOK, NEW r \in Loops, NEW from \in {"connecting", "reading"},
         NEW raises \in BOOLEAN, Leave(r, from, raises)
  PROVE  TypeOK'
  BY EventsStreamAssumption
  DEF TypeOK, Leave, Goto, checker, LoopPlaces, Live

LEMMA ResumeType ==
  ASSUME TypeOK, NEW r \in Loops, NEW from \in {"finally", "disconnecting"},
         Resume(r, from), CheckerTypes'
  PROVE  TypeOK'
  BY DEF TypeOK, CheckerTypes, Resume, Goto, LoopPlaces, Live

LEMMA OpenType == ASSUME TypeOK, NEW r \in Loops, Open(r) PROVE TypeOK'
<1>1. client' \in Connections
  BY DEF Open, Unused
<1>2. client' # None
  BY <1>1, EventsStreamAssumption
<1> QED
  BY <1>1, <1>2 DEF TypeOK, Open, Goto, checker, LoopPlaces, Live

LEMMA IterateType == ASSUME TypeOK, NEW r \in Loops, Iterate(r) PROVE TypeOK'
<1>1. client \in Connections /\ client # None
  BY EventsStreamAssumption DEF TypeOK, Iterate, Goto
<1>2. CheckerTypes'
  BY TypeOKParts, HeartbeatTypes DEF Iterate
<1>3. ClientKept'
  BY <1>1 DEF ClientKept, Iterate
<1>4. ReceiverTypes'
  BY <1>1 DEF TypeOK, ReceiverTypes, Iterate, Goto, LoopPlaces
<1>5. PlacesAgree'
  BY <1>1 DEF TypeOK, PlacesAgree, Iterate, Goto, LoopPlaces, Live
<1>6. OtherTypes'
  BY DEF TypeOK, OtherTypes, Iterate
<1> QED
  BY <1>2, <1>3, <1>4, <1>5, <1>6
  DEF TypeOK, ReceiverTypes, CheckerTypes, OtherTypes, ClientKept, PlacesAgree

LEMMA LoopStepType == ASSUME TypeOK, NEW r \in Loops, LoopStep(r) PROVE TypeOK'
<1>1. CASE CheckCurrent(r)
  BY <1>1 DEF TypeOK, CheckCurrent, Goto, checker, LoopPlaces, Live
<1>2. CASE Open(r)
  BY <1>2, OpenType
<1>3. CASE Iterate(r)
  BY <1>3, IterateType
<1>4. CASE ReceiveEvent(r)
  BY <1>4 DEF TypeOK, ReceiveEvent, Goto, checker, LoopPlaces, Live
<1>5. CASE EndIteration(r)
  BY <1>5, LeaveType DEF EndIteration
<1>6. CASE Fail(r)
  BY <1>6, LeaveType DEF Fail
<1>7. CASE HandleEvent(r)
  <2>1. CheckerTypes'
    BY <1>7, TypeOKParts, HeartbeatTypes
    DEF HandleEvent, CheckerTypes, checker
  <2> QED
    BY <1>7, <2>1 DEF TypeOK, CheckerTypes, HandleEvent, Goto, LoopPlaces, Live
<1>8. CASE Finally(r)
  <2>1. CheckerTypes'
    BY <1>8 DEF TypeOK, CheckerTypes, Finally, checker
  <2>2. CASE Resume(r, "finally")
    BY <2>1, <2>2, ResumeType
  <2>3. CASE ~Resume(r, "finally")
    BY <1>8, <2>3 DEF TypeOK, Finally, Goto, checker, LoopPlaces, Live
  <2> QED
    BY <2>2, <2>3
<1>9. CASE CallDisconnectedHandler(r)
  BY <1>9, TypeOKParts, HeartbeatTypes, ResumeType DEF CallDisconnectedHandler
<1> QED
  BY <1>1, <1>2, <1>3, <1>4, <1>5, <1>6, <1>7, <1>8, <1>9 DEF LoopStep

\* What starting a thread under a free id does to the receiver's variables.
LEMMA StartReceiverThreadType ==
  ASSUME TypeOK, NEW r \in Loops, StartReceiverThread(r),
         UNCHANGED <<client, source, raising>>
  PROVE  ReceiverTypes' /\ ClientKept' /\ PlacesAgree'
  BY DEF TypeOK, ReceiverTypes, ClientKept, PlacesAgree, StartReceiverThread,
         Goto, LoopPlaces, Live

LEMMA CheckerStepType ==
  ASSUME TypeOK, NEW c \in Checkers, CheckerStep(c) PROVE TypeOK'
<1>1. CASE WaitEnds(c)
  BY <1>1 DEF TypeOK, WaitEnds, CGoto, receiver, CheckerPlaces
<1>2. CASE CheckWatching(c)
  BY <1>2 DEF TypeOK, CheckWatching, CGoto, receiver, CheckerPlaces
<1>3. CASE RestartStops(c)
  BY <1>3 DEF TypeOK, RestartStops, CGoto, CheckerPlaces
<1>4. CASE RestartStarts(c)
  <2>1. ReceiverTypes' /\ ClientKept' /\ PlacesAgree'
    BY <1>4, StartReceiverThreadType DEF RestartStarts
  <2>2. CheckerTypes' /\ OtherTypes'
    BY <1>4 DEF TypeOK, CheckerTypes, OtherTypes, RestartStarts, CGoto,
                CheckerPlaces
  <2> QED
    BY <2>1, <2>2 DEF TypeOK, ReceiverTypes, CheckerTypes, OtherTypes,
                      ClientKept, PlacesAgree
<1> QED
  BY <1>1, <1>2, <1>3, <1>4 DEF CheckerStep

LEMMA InitType == Init => TypeOK
  BY DEF Init, TypeOK, LoopPlaces, CheckerPlaces, Live

LEMMA NextType == TypeOK /\ [Next]_vars => TypeOK'
<1> SUFFICES ASSUME TypeOK, [Next]_vars
             PROVE  TypeOK'
  OBVIOUS
<1>1. CASE UNCHANGED vars
  BY <1>1 DEF TypeOK, vars, receiver, checker
<1>2. CASE Start
  <2>1. ReceiverTypes' /\ ClientKept' /\ PlacesAgree'
    BY <1>2, StartReceiverThreadType DEF Start
  <2>2. CheckerTypes' /\ OtherTypes'
    BY <1>2 DEF TypeOK, CheckerTypes, OtherTypes, Start, checker
  <2> QED
    BY <2>1, <2>2 DEF TypeOK, ReceiverTypes, CheckerTypes, OtherTypes,
                      ClientKept, PlacesAgree
<1>3. CASE Stop
  BY <1>3 DEF TypeOK, Stop, checker
<1>4. CASE TimePasses
  BY <1>4 DEF TypeOK, TimePasses, receiver
<1>5. CASE \E r \in Loops : LoopStep(r)
  BY <1>5, LoopStepType
<1>6. CASE \E c \in Checkers : CheckerStep(c)
  BY <1>6, CheckerStepType
<1>7. CASE \E k \in Connections : GoSilent(k)
  BY <1>7 DEF TypeOK, GoSilent, receiver, checker
<1> QED
  BY <1>1, <1>2, <1>3, <1>4, <1>5, <1>6, <1>7 DEF Next

\* The variables always have the values of their types, and the local state
\* of a receiver thread agrees with where it is.
THEOREM StreamTypeCorrect == Spec => []TypeOK
  BY InitType, NextType, PTL DEF Spec

-----------------------------------------------------------------------------
\* CurrentThreadsLive is inductive with the types.  A thread ends only where
\* it has found that its id is not the current one, and a loop that an
\* exception leaves raises only into @retry.
LEMMA LoopStepLives ==
  ASSUME TypeOK, CurrentThreadsLive, NEW r \in Loops, LoopStep(r)
  PROVE  CurrentThreadsLive'
<1> USE DEF TypeOK, CurrentThreadsLive
<1>1. UNCHANGED current
  BY DEF LoopStep, CheckCurrent, Open, Iterate, ReceiveEvent, EndIteration,
         Fail, Leave, HandleEvent, Finally, CallDisconnectedHandler, Resume
<1>2. \A s \in Loops : place'[s] = "off" => place[s] = "off" \/ s # current
  BY DEF LoopStep, CheckCurrent, Open, Iterate, ReceiveEvent, EndIteration,
         Fail, Leave, HandleEvent, Finally, CallDisconnectedHandler, Resume,
         Goto
<1>3. watcher' # None => cplace'[watcher'] # "off"
  <2>1. CASE UNCHANGED checker
    BY <2>1 DEF checker
  <2>2. CASE HeartbeatStart \/ HeartbeatReceived \/ HeartbeatStop
    BY <2>2 DEF HeartbeatStart, HeartbeatReceived, HeartbeatStop, CGoto
  <2> QED
    BY <2>1, <2>2
    DEF LoopStep, CheckCurrent, Open, Iterate, ReceiveEvent, EndIteration,
        Fail, Leave, HandleEvent, Finally, CallDisconnectedHandler
<1> QED
  BY <1>1, <1>2, <1>3

LEMMA StartedLoopLives ==
  ASSUME TypeOK, NEW r \in Loops, StartReceiverThread(r)
  PROVE  current' # None => place'[current'] # "off"
  BY DEF TypeOK, StartReceiverThread, Goto

LEMMA CheckerStepLives ==
  ASSUME TypeOK, CurrentThreadsLive, NEW c \in Checkers, CheckerStep(c)
  PROVE  CurrentThreadsLive'
<1> USE DEF TypeOK, CurrentThreadsLive
<1>1. CASE WaitEnds(c)
  BY <1>1 DEF WaitEnds, CGoto, receiver
<1>2. CASE CheckWatching(c)
  BY <1>2 DEF CheckWatching, CGoto, receiver
<1>3. CASE RestartStops(c)
  BY <1>3 DEF RestartStops, CGoto
<1>4. CASE RestartStarts(c)
  BY <1>4, StartedLoopLives DEF RestartStarts, CGoto
<1> QED
  BY <1>1, <1>2, <1>3, <1>4 DEF CheckerStep

LEMMA NextLives ==
  TypeOK /\ CurrentThreadsLive /\ [Next]_vars => CurrentThreadsLive'
<1> SUFFICES ASSUME TypeOK, CurrentThreadsLive, [Next]_vars
             PROVE  CurrentThreadsLive'
  OBVIOUS
<1> USE DEF CurrentThreadsLive
<1>1. CASE UNCHANGED vars
  BY <1>1 DEF vars, receiver, checker
<1>2. CASE Start
  BY <1>2, StartedLoopLives DEF Start, checker
<1>3. CASE Stop
  BY <1>3 DEF Stop, checker
<1>4. CASE TimePasses
  BY <1>4 DEF TimePasses, receiver
<1>5. CASE \E r \in Loops : LoopStep(r)
  BY <1>5, LoopStepLives
<1>6. CASE \E c \in Checkers : CheckerStep(c)
  BY <1>6, CheckerStepLives
<1>7. CASE \E k \in Connections : GoSilent(k)
  BY <1>7 DEF GoSilent, receiver, checker
<1> QED
  BY <1>1, <1>2, <1>3, <1>4, <1>5, <1>6, <1>7 DEF Next

\* The threads of the current receiver loop and of the current heartbeat
\* checker never end: they run until their ids are replaced.
THEOREM CurrentThreadsStayAlive == Spec => []CurrentThreadsLive
<1>1. Init => CurrentThreadsLive
  BY DEF Init, CurrentThreadsLive
<1> QED
  BY <1>1, NextLives, StreamTypeCorrect, PTL DEF Spec

-----------------------------------------------------------------------------
\* WatchedUnlessOvertaken is not inductive: a thread may be about to stop the
\* checker.  Unless a loop was overtaken, that thread is the current loop
\* itself, which then is not connected, or no loop is current.
DisconnectsOwn ==
    \A s \in Loops : place[s] = "disconnecting" => current \in {s, None}

NothingYet == service = "new" => /\ \A s \in Loops : place[s] = "off"
                                 /\ \A c \in Checkers : cplace[c] = "off"

WatchInv == /\ NothingYet
            /\ overtaken \/ (DisconnectsOwn /\ ConnectionIsWatched)

LEMMA LoopStepWatched ==
  ASSUME TypeOK, WatchInv, NEW r \in Loops, LoopStep(r)
  PROVE  WatchInv'
<1> USE DEF TypeOK, WatchInv
<1> DEFINE Kept == UNCHANGED <<service, current, overtaken>>
<1>1. Kept
  BY DEF LoopStep, CheckCurrent, Open, Iterate, ReceiveEvent, EndIteration,
         Fail, Leave, HandleEvent, Finally, CallDisconnectedHandler, Resume
<1>2. place[r] # "off" /\ \A s \in Loops \ {r} : place'[s] = place[s]
  BY DEF LoopStep, CheckCurrent, Open, Iterate, ReceiveEvent, EndIteration,
         Fail, Leave, HandleEvent, Finally, CallDisconnectedHandler, Resume,
         Goto
<1>3. NothingYet'
  BY <1>1, <1>2 DEF NothingYet
<1>4. ASSUME DisconnectsOwn PROVE DisconnectsOwn'
  <2>1. place'[r] = "disconnecting" => current \in {r, None}
    BY DEF LoopStep, CheckCurrent, Open, Iterate, ReceiveEvent, EndIteration,
           Fail, Leave, HandleEvent, Finally, CallDisconnectedHandler, Resume,
           Goto
  <2> QED
    BY <1>1, <1>2, <1>4, <2>1 DEF DisconnectsOwn
<1>5. ASSUME DisconnectsOwn, ConnectionIsWatched PROVE ConnectionIsWatched'
  <2>1. CASE Iterate(r)
    <3>1. watcher' # None
      BY <2>1, EventsStreamAssumption DEF Iterate, HeartbeatStart
    <3> QED
      BY <3>1 DEF ConnectionIsWatched
  <2>2. CASE CallDisconnectedHandler(r)
    <3>1. place[r] = "disconnecting" /\ place'[r] \notin Live
      BY <2>2 DEF CallDisconnectedHandler, Resume, Goto, Live
    <3> QED
      BY <1>1, <1>2, <1>5, <3>1, EventsStreamAssumption
      DEF DisconnectsOwn, ConnectionIsWatched
  <2>3. CASE HandleEvent(r)
    BY <1>5, <2>3
    DEF HandleEvent, HeartbeatReceived, checker, Goto, Live,
        ConnectionIsWatched
  <2>4. CASE ~(Iterate(r) \/ CallDisconnectedHandler(r) \/ HandleEvent(r))
    <3>1. UNCHANGED watcher
      BY <2>4 DEF LoopStep, CheckCurrent, Open, ReceiveEvent, EndIteration,
                  Fail, Leave, Finally, checker
    <3>2. place'[r] \in Live => place[r] \in Live
      BY <2>4 DEF LoopStep, CheckCurrent, Open, ReceiveEvent, EndIteration,
                  Fail, Leave, Finally, Resume, Goto, Live
    <3> QED
      BY <1>1, <1>2, <1>5, <3>1, <3>2 DEF ConnectionIsWatched
  <2> QED
    BY <2>1, <2>2, <2>3, <2>4
<1> QED
  BY <1>1, <1>3, <1>4, <1>5

LEMMA CheckerStepWatched ==
  ASSUME TypeOK, WatchInv, NEW c \in Checkers, CheckerStep(c)
  PROVE  WatchInv'
<1> USE DEF TypeOK, WatchInv, NothingYet, DisconnectsOwn, ConnectionIsWatched
<1>0. service # "new"
  BY DEF CheckerStep, WaitEnds, CheckWatching, RestartStops, RestartStarts,
         CGoto
<1>1. CASE WaitEnds(c) \/ CheckWatching(c)
  BY <1>0, <1>1 DEF WaitEnds, CheckWatching, receiver
<1>2. CASE RestartStops(c)
  BY <1>0, <1>2, EventsStreamAssumption DEF RestartStops
<1>3. CASE RestartStarts(c)
  BY <1>0, <1>3 DEF RestartStarts, StartReceiverThread, Goto, Live
<1> QED
  BY <1>1, <1>2, <1>3 DEF CheckerStep

LEMMA NextWatched == TypeOK /\ WatchInv /\ [Next]_vars => WatchInv'
<1> SUFFICES ASSUME TypeOK, WatchInv, [Next]_vars
             PROVE  WatchInv'
  OBVIOUS
<1> USE DEF WatchInv, NothingYet, DisconnectsOwn, ConnectionIsWatched
<1>1. CASE UNCHANGED vars
  BY <1>1 DEF vars, receiver, checker
<1>2. CASE Start
  BY <1>2 DEF TypeOK, Start, StartReceiverThread, Goto, checker, Live
<1>3. CASE Stop
  BY <1>3, EventsStreamAssumption DEF TypeOK, Stop, checker
<1>4. CASE TimePasses
  BY <1>4 DEF TimePasses, receiver
<1>5. CASE \E r \in Loops : LoopStep(r)
  BY <1>5, LoopStepWatched
<1>6. CASE \E c \in Checkers : CheckerStep(c)
  BY <1>6, CheckerStepWatched
<1>7. CASE \E k \in Connections : GoSilent(k)
  BY <1>7 DEF GoSilent, receiver, checker
<1> QED
  BY <1>1, <1>2, <1>3, <1>4, <1>5, <1>6, <1>7 DEF Next

\* The connection of the current loop has a heartbeat checker, unless some
\* loop was replaced between its look at the current id and its call of the
\* disconnected handler.
THEOREM ConnectionsStayWatched == Spec => []WatchedUnlessOvertaken
<1>1. Init => WatchInv
  BY DEF Init, WatchInv, NothingYet, DisconnectsOwn, ConnectionIsWatched, Live
<1>2. WatchInv => WatchedUnlessOvertaken
  BY DEF WatchInv, WatchedUnlessOvertaken
<1> QED
  BY <1>1, <1>2, NextWatched, StreamTypeCorrect, PTL DEF Spec
=============================================================================
