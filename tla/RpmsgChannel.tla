------------------------------ MODULE RpmsgChannel ------------------------------
(***************************************************************************)
(* What the RPMsg transport promises each core: messages from the peer     *)
(* reach its receive callback in the order they were sent, each one once   *)
(* and as it was sent. cur[c] is the message the callback of c looks at.   *)
(***************************************************************************)
EXTENDS Sequences

CONSTANTS Cores, Payloads, NoMsg

VARIABLES chan, cur

chanVars == <<chan, cur>>

Init ==
    /\ chan = [c \in Cores |-> <<>>]
    /\ cur = [c \in Cores |-> NoMsg]

Post(c, m) ==
    /\ chan' = [chan EXCEPT ![c] = Append(@, m)]
    /\ UNCHANGED cur

Deliver(c) ==
    /\ chan[c] # <<>>
    /\ cur' = [cur EXCEPT ![c] = Head(chan[c])]
    /\ chan' = [chan EXCEPT ![c] = Tail(@)]

Done(c) ==
    /\ cur' = [cur EXCEPT ![c] = NoMsg]
    /\ UNCHANGED chan

Next == \E c \in Cores : Deliver(c) \/ Done(c) \/ \E m \in Payloads : Post(c, m)

Spec == Init /\ [][Next]_chanVars
================================================================================
