---------------------------- MODULE PeriodicTask ----------------------------
(***************************************************************************)
(* What a timer of the agent promises to the code that uses it: from its   *)
(* start to its stop it calls a handler again and again, one call at a     *)
(* time.  A call becomes due while the task ticks and begins a moment      *)
(* later, whatever has happened since: a stop may be followed by the one   *)
(* call that was due when it came, and by no other.  Then the task ends.   *)
(***************************************************************************)
VARIABLES phase,  \* "new", "ticking", "stopping" or "ended"
          task    \* "idle", "due" or "calling"

vars == <<phase, task>>

Init == phase = "new" /\ task = "idle"

Begin == /\ phase = "new"
         /\ phase' = "ticking"
         /\ UNCHANGED task

FallDue == /\ phase = "ticking" /\ task = "idle"
           /\ task' = "due"
           /\ UNCHANGED phase

Call == /\ task = "due"
        /\ task' = "calling"
        /\ UNCHANGED phase

Return == /\ task = "calling"
          /\ task' = "idle"
          /\ UNCHANGED phase

Cease == /\ phase = "ticking"
         /\ phase' = "stopping"
         /\ UNCHANGED task

End == /\ phase = "stopping" /\ task = "idle"
       /\ phase' = "ended"
       /\ UNCHANGED task

Next == Begin \/ FallDue \/ Call \/ Return \/ Cease \/ End

Spec == Init /\ [][Next]_vars

FairSpec == /\ Spec
            /\ WF_vars(FallDue) /\ WF_vars(Call) /\ WF_vars(Return) /\ WF_vars(End)
=============================================================================
