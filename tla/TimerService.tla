---------------------------- MODULE TimerService ----------------------------
(***************************************************************************)
(* service/timer_service.py: a thread that waits on a condition variable   *)
(* for an interval and calls a handler, until the flag _running is         *)
(* cleared.  The flag is not looked at again between the test of `while`   *)
(* and the wait, so a stop() that comes in between is noticed only when    *)
(* the interval is over; and a stop() that comes between the test after    *)
(* the wait and the call does not prevent the call.                        *)
(*                                                                         *)
(* pc of the thread:                                                       *)
(*   "new"       not started                                               *)
(*   "loop"      about to evaluate `while self._running`                   *)
(*   "enter"     about to take the condition's lock and wait               *)
(*   "waiting"   inside Condition.wait()                                   *)
(*   "woken"     about to test the flag after the wait                     *)
(*   "due"       has found the flag set and is about to call the handler   *)
(*   "handling"  in the handler                                            *)
(*   "stopped"   the thread has returned                                   *)
(***************************************************************************)
VARIABLES running,  \* _running
          pc        \* control state of the thread

vars == <<running, pc>>

TypeOK == /\ running \in BOOLEAN
          /\ pc \in {"new", "loop", "enter", "waiting", "woken", "due", "handling",
                    "stopped"}

Init == running = FALSE /\ pc = "new"

Start == /\ pc = "new"
         /\ running' = TRUE
         /\ pc' = "loop"

\* Faulty variant: the waiting thread is not notified, nor the flag cleared.
StopNothing == UNCHANGED vars

Stop == /\ running' = FALSE
        /\ pc' = IF pc = "waiting" THEN "woken" ELSE pc

CheckRunning == /\ pc = "loop"
                /\ pc' = IF running THEN "enter" ELSE "stopped"
                /\ UNCHANGED running

EnterWait == /\ pc = "enter"
             /\ pc' = "waiting"
             /\ UNCHANGED running

IntervalElapses == /\ pc = "waiting"
                   /\ pc' = "woken"
                   /\ UNCHANGED running

\* Faulty variant: no `if not self._running: break` after the wait.
CallAnyway == /\ pc = "woken"
              /\ pc' = "due"
              /\ UNCHANGED running

\* Faulty variant: the flag is tested the wrong way round.
CallWhenStopped == /\ pc = "woken"
                   /\ pc' = IF running THEN "stopped" ELSE "due"
                   /\ UNCHANGED running

\* The flag is tested again, without the lock.
CheckStopped == /\ pc = "woken"
                /\ pc' = IF running THEN "due" ELSE "stopped"
                /\ UNCHANGED running

\* Whatever has become of the flag since.
Call == /\ pc = "due"
        /\ pc' = "handling"
        /\ UNCHANGED running

\* What the handler raises is logged: the thread goes on.
Return == /\ pc = "handling"
          /\ pc' = "loop"
          /\ UNCHANGED running

Advance == CheckRunning \/ EnterWait \/ IntervalElapses \/ CheckStopped \/ Call

Ended == pc \in {"new", "stopped"}

-----------------------------------------------------------------------------
\* The timer implements the periodic task of module PeriodicTask.

Phase == CASE pc = "new" -> "new"
           [] pc = "stopped" -> "ended"
           [] OTHER -> IF running THEN "ticking" ELSE "stopping"

Task == CASE pc = "due" -> "due"
          [] pc = "handling" -> "calling"
          [] OTHER -> "idle"

Periodic == INSTANCE PeriodicTask WITH phase <- Phase, task <- Task

PeriodicFairSpec == Periodic!FairSpec
=============================================================================
