------------------------------ MODULE LogQueue ------------------------------
(***************************************************************************)
(* What log shipping promises to whoever reads the log in the end, with no *)
(* buffer, locks, threads or requests: a bounded queue that is emptied in  *)
(* whole batches.                                                          *)
(*                                                                         *)
(*   - a record waits until it is taken, and while there is room nothing   *)
(*     is given up; beyond that the oldest record makes room for the new;  *)
(*   - whoever takes records takes all that wait, so that what is taken    *)
(*     later is newer;                                                     *)
(*   - the records taken together share one fate, and no record has two:   *)
(*     what is evicted, shipped or failed is never taken up again.         *)
(***************************************************************************)
EXTENDS Integers, FiniteSets

CONSTANTS MaxRecords,  \* how many records are emitted
          Capacity     \* how many can wait

VARIABLES emitted,  \* how many have been emitted
          waiting,  \* the records nobody has taken
          batches,  \* the sets of records that were taken and are on their way
          fate      \* what became of each record

vars == <<emitted, waiting, batches, fate>>

Records == 1 .. MaxRecords

Init == /\ emitted = 0
        /\ waiting = {}
        /\ batches = {}
        /\ fate = [r \in Records |-> "none"]

Emitted == emitted < MaxRecords /\ emitted' = emitted + 1

Accept == /\ Emitted
          /\ Cardinality(waiting) < Capacity
          /\ waiting' = waiting \cup {emitted'}
          /\ UNCHANGED <<batches, fate>>

Displace(r) == /\ Emitted
               /\ Cardinality(waiting) = Capacity
               /\ r \in waiting /\ \A s \in waiting : r <= s
               /\ waiting' = (waiting \ {r}) \cup {emitted'}
               /\ fate' = [fate EXCEPT ![r] = "evicted"]
               /\ UNCHANGED batches

Ignore == /\ Emitted
          /\ fate' = [fate EXCEPT ![emitted'] = "not_captured"]
          /\ UNCHANGED <<waiting, batches>>

Take == /\ waiting # {}
        /\ batches' = batches \cup {waiting}
        /\ waiting' = {}
        /\ UNCHANGED <<emitted, fate>>

Settle(b, f) == /\ b \in batches
                /\ batches' = batches \ {b}
                /\ fate' = [r \in Records |-> IF r \in b THEN f ELSE fate[r]]
                /\ UNCHANGED <<emitted, waiting>>

Next == \/ Accept \/ Ignore \/ Take
        \/ \E r \in waiting : Displace(r)
        \/ \E b \in batches, f \in {"shipped", "push_failed"} : Settle(b, f)

Spec == Init /\ [][Next]_vars
=============================================================================
