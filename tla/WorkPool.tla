------------------------------ MODULE WorkPool ------------------------------
(***************************************************************************)
(* What a QueueAsyncProcessor promises to the code that uses it, with no   *)
(* threads, locks or condition variables: a first-in first-out pool.       *)
(*                                                                         *)
(*   - items are taken in the order in which they were submitted;          *)
(*   - an item is taken by one worker, once, and leaves the queue as the   *)
(*     worker takes it;                                                    *)
(*   - nothing is taken before the pool is opened or after it is closed,   *)
(*     although items may be submitted at any time;                        *)
(*   - an open pool does not leave a free worker beside a waiting item,    *)
(*     even when some other worker never finishes.                         *)
(***************************************************************************)
EXTENDS Sequences

CONSTANTS Workers,  \* the workers of the pool
          Items,    \* what may be submitted
          NoItem,   \* what a free worker holds
          Stuck     \* the workers whose item may never be finished

VARIABLES pending,  \* submitted and not taken, oldest first
          active,   \* the item each worker holds
          phase     \* "new", "open" or "closed"

vars == <<pending, active, phase>>

Init == /\ pending = <<>>
        /\ active = [w \in Workers |-> NoItem]
        /\ phase = "new"

Open == /\ phase = "new"
        /\ phase' = "open"
        /\ UNCHANGED <<pending, active>>

Close == /\ phase = "open"
         /\ phase' = "closed"
         /\ UNCHANGED <<pending, active>>

Submit(o) == /\ pending' = Append(pending, o)
             /\ UNCHANGED <<active, phase>>

Take(w) == /\ phase = "open"
           /\ pending # <<>>
           /\ active[w] = NoItem
           /\ active' = [active EXCEPT ![w] = Head(pending)]
           /\ pending' = Tail(pending)
           /\ UNCHANGED phase

Finish(w) == /\ active[w] # NoItem
             /\ active' = [active EXCEPT ![w] = NoItem]
             /\ UNCHANGED <<pending, phase>>

Next == \/ Open
        \/ Close
        \/ \E o \in Items : Submit(o)
        \/ \E w \in Workers : Take(w) \/ Finish(w)

Spec == Init /\ [][Next]_vars

FairSpec == /\ Spec
            /\ \A w \in Workers : WF_vars(Take(w))
            /\ \A w \in Workers \ Stuck : WF_vars(Finish(w))
=============================================================================
