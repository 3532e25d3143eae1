------------------------------ MODULE VirtqueueAbs ------------------------------
(***************************************************************************)
(* What a virtqueue promises: buffers go from the master to the slave in   *)
(* the order they were offered, stay with the slave until it returns them, *)
(* and come back to the master in the order they were returned. A buffer   *)
(* is in one of those places at a time.                                    *)
(***************************************************************************)
EXTENDS Naturals, Sequences

CONSTANT Bufs

VARIABLES offered, held, returned

absVars == <<offered, held, returned>>

Members(s) == {s[i] : i \in 1..Len(s)}
Idle == Bufs \ (Members(offered) \cup held \cup Members(returned))

Init == offered = <<>> /\ held = {} /\ returned = <<>>

Offer(b) ==
    /\ b \in Idle
    /\ offered' = Append(offered, b)
    /\ UNCHANGED <<held, returned>>

Take ==
    /\ offered # <<>>
    /\ held' = held \cup {Head(offered)}
    /\ offered' = Tail(offered)
    /\ UNCHANGED returned

Return(b) ==
    /\ b \in held
    /\ held' = held \ {b}
    /\ returned' = Append(returned, b)
    /\ UNCHANGED offered

Reclaim ==
    /\ returned # <<>>
    /\ returned' = Tail(returned)
    /\ UNCHANGED <<offered, held>>

Next ==
    \/ \E b \in Bufs : Offer(b) \/ Return(b)
    \/ Take
    \/ Reclaim

Spec == Init /\ [][Next]_absVars
================================================================================
