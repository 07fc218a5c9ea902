------------------------- MODULE OperationLifecycle -------------------------
(***************************************************************************)
(* What the agent promises about one operation of the orchestrator's       *)
(* queue, with no threads, queues or HTTP calls.  An operation              *)
(*                                                                         *)
(*   "absent"     has not been requested                                   *)
(*   "pending"    is in the orchestrator's queue                           *)
(*   "accepted"   was given to the agent, and has not started              *)
(*   "executing"  is being executed by a thread of the operations runner   *)
(*   "executed"   has a result that the results publisher has not settled  *)
(*   "settled"    is over for the agent: answered, or given up             *)
(*                                                                         *)
(* and never goes back: it is executed at most once, and it is not started *)
(* again once it is settled.  Pushing the result of one operation may      *)
(* bring the next one, so a step may advance more than one operation.      *)
(***************************************************************************)

CONSTANT Ops

VARIABLE stage

Stages == {"absent", "pending", "accepted", "executing", "executed", "settled"}

\* An operation may be lost between the orchestrator and the agent, given up
\* before it starts, or end without a result.
Edges == {<<"absent", "pending">>,
          <<"pending", "accepted">>,   <<"pending", "settled">>,
          <<"accepted", "executing">>, <<"accepted", "settled">>,
          <<"executing", "executed">>, <<"executing", "settled">>,
          <<"executed", "settled">>}

Init == stage = [o \in Ops |-> "absent"]

Next == /\ stage' \in [Ops -> Stages]
        /\ \A o \in Ops : stage'[o] # stage[o] => <<stage[o], stage'[o]>> \in Edges

Spec == Init /\ [][Next]_stage
=============================================================================
