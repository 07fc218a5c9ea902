---------------------------- MODULE MetricsTimer ----------------------------
(***************************************************************************)
(* service/metrics_timer.py: a daemon thread that waits on an Event for an *)
(* interval and calls a handler, until the event is set.  Event.wait()     *)
(* looks at the flag under its lock before it sleeps, so that a stop() is  *)
(* never missed, unlike in TimerService.  Nothing is looked at between the *)
(* end of the wait and the call, and a stop() that comes then does not     *)
(* prevent the call.                                                       *)
(***************************************************************************)
VARIABLES stopEvent,  \* _stop_event
          pc          \* "new", "loop", "enter", "waiting", "due", "handling", "stopped"

vars == <<stopEvent, pc>>

TypeOK == /\ stopEvent \in BOOLEAN
          /\ pc \in {"new", "loop", "enter", "waiting", "due", "handling", "stopped"}

Init == stopEvent = FALSE /\ pc = "new"

Start == /\ pc = "new"
         /\ stopEvent' = FALSE
         /\ pc' = "loop"

\* Event.set() wakes the thread, which then finds the flag as one that has just
\* come to the wait does.
Stop == /\ stopEvent' = TRUE
        /\ pc' = IF pc = "waiting" THEN "enter" ELSE pc

CheckStopped == /\ pc = "loop"
                /\ pc' = IF stopEvent THEN "stopped" ELSE "enter"
                /\ UNCHANGED stopEvent

\* Faulty variant: a wait that does not look at the flag first.
WaitRegardless == /\ pc = "enter"
                  /\ pc' = "waiting"
                  /\ UNCHANGED stopEvent

Wait == /\ pc = "enter"
        /\ pc' = IF stopEvent THEN "stopped" ELSE "waiting"
        /\ UNCHANGED stopEvent

\* The wait times out and will return False, whatever becomes of the flag.
IntervalElapses == /\ pc = "waiting"
                   /\ pc' = "due"
                   /\ UNCHANGED stopEvent

Call == /\ pc = "due"
        /\ pc' = "handling"
        /\ UNCHANGED stopEvent

Return == /\ pc = "handling"
          /\ pc' = "loop"
          /\ UNCHANGED stopEvent

Advance == CheckStopped \/ Wait \/ IntervalElapses \/ Call

-----------------------------------------------------------------------------
\* The timer implements the periodic task of module PeriodicTask.

Phase == CASE pc = "new" -> "new"
           [] pc = "stopped" -> "ended"
           [] OTHER -> IF stopEvent THEN "stopping" ELSE "ticking"

Task == CASE pc = "due" -> "due"
          [] pc = "handling" -> "calling"
          [] OTHER -> "idle"

Periodic == INSTANCE PeriodicTask WITH phase <- Phase, task <- Task

PeriodicSpec == Periodic!Spec
=============================================================================
