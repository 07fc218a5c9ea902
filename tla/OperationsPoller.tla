-------------------------- MODULE OperationsPoller --------------------------
(***************************************************************************)
(* service/operations_poller.py: one daemon thread that asks the           *)
(* orchestrator for operations and hands each to a callback, until there   *)
(* is nothing to fetch or no room for more, and then waits to be notified  *)
(* or for the poll interval to pass.                                       *)
(*                                                                         *)
(* What the callbacks and the HTTP calls return is a parameter of the      *)
(* action that makes the call, so that a module that composes the poller   *)
(* with the rest of the service can supply it.                             *)
(*                                                                         *)
(* pc of the polling thread:                                               *)
(*   "new"        not started                                              *)
(*   "loop"       about to evaluate the outer `while self._running`        *)
(*   "gate"       about to call _can_accept_work before the first fetch    *)
(*   "heartbeat"  sending a heartbeat, there being no room for work        *)
(*   "fetch"      in _fetch_operation                                      *)
(*   "inner"      about to evaluate `while operation and self._running`    *)
(*   "submit"     in _submit_operation                                     *)
(*   "regate"     about to call _can_accept_work after a submission        *)
(*   "idle"       about to take the lock in _wait_for_work                 *)
(*   "waiting"    inside Condition.wait(timeout=self._poll_interval)       *)
(*   "stopped"    _run_loop has returned                                   *)
(*   "dead"       _run_loop has raised: the thread has ended               *)
(***************************************************************************)

CONSTANTS Ops,   \* operations that may be fetched
          NoOp   \* the thread holds no operation

VARIABLES running,    \* _running
          pc,         \* control state of the thread
          operation   \* the fetched operation the thread holds

vars == <<running, pc, operation>>

Control == {"new", "loop", "gate", "heartbeat", "fetch", "inner", "submit",
            "regate", "idle", "waiting", "stopped", "dead"}

TypeOK == /\ running \in BOOLEAN
          /\ pc \in Control
          /\ operation \in Ops \cup {NoOp}
          /\ operation # NoOp <=> pc \in {"inner", "submit"}

Init == /\ running = FALSE
        /\ pc = "new"
        /\ operation = NoOp

Goto(from, to) == pc = from /\ pc' = to

-----------------------------------------------------------------------------
\* Called by other threads.

Woken == IF pc = "waiting" THEN "loop" ELSE pc

Start == /\ Goto("new", "loop")
         /\ running' = TRUE
         /\ UNCHANGED operation

Stop == /\ running' = FALSE
        /\ pc' = Woken
        /\ UNCHANGED operation

\* notify_all() wakes the thread if it is waiting and leaves no trace otherwise: a
\* notification that comes after a fetch and before the wait is lost.
NotifyWorkAvailable == /\ pc' = Woken
                       /\ UNCHANGED <<running, operation>>

-----------------------------------------------------------------------------
\* The polling thread.

CheckRunning == /\ \/ running /\ Goto("loop", "gate")
                   \/ ~running /\ Goto("loop", "stopped")
                /\ UNCHANGED <<running, operation>>

CheckBackpressure(canAccept) ==
    /\ \/ canAccept /\ Goto("gate", "fetch")
       \/ ~canAccept /\ Goto("gate", "heartbeat")
    /\ UNCHANGED <<running, operation>>

\* A heartbeat that fails is logged: the thread goes on either way.
SendHeartbeat == /\ Goto("heartbeat", "idle")
                 /\ UNCHANGED <<running, operation>>

FetchOperation(o) == /\ Goto("fetch", "inner")
                     /\ operation' = o
                     /\ UNCHANGED running

\* The queue was empty, or the request failed: _fetch_operation returns None.
FetchNothing == /\ Goto("fetch", "idle")
                /\ UNCHANGED <<running, operation>>

\* The inner loop is entered; or the poller was stopped during the fetch, and
\* the operation it just fetched is dropped.
EnterSubmit == /\ running
               /\ Goto("inner", "submit")
               /\ UNCHANGED <<running, operation>>

DropOnStop == /\ ~running
              /\ Goto("inner", "idle")
              /\ operation' = NoOp
              /\ UNCHANGED running

\* The callback took the operation, or it had no path or id and is skipped.
SubmitOperation == /\ Goto("submit", "regate")
                   /\ operation' = NoOp
                   /\ UNCHANGED running

\* The callback raised.  No `try` encloses the call in _run_loop.
SubmitRaises == /\ Goto("submit", "dead")
                /\ operation' = NoOp
                /\ UNCHANGED running

RecheckBackpressure(canAccept) ==
    /\ \/ canAccept /\ Goto("regate", "fetch")
       \/ ~canAccept /\ Goto("regate", "idle")
    /\ UNCHANGED <<running, operation>>

WaitForWork == /\ Goto("idle", "waiting")
               /\ UNCHANGED <<running, operation>>

PollIntervalReached == /\ Goto("waiting", "loop")
                       /\ UNCHANGED <<running, operation>>
=============================================================================
