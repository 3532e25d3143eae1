----------------------------- MODULE RpmsgEndpoint -----------------------------
(***************************************************************************)
(* RPMsg endpoints of both cores and the name service between them:        *)
(* lib/rpmsg/rpmsg.c, and of lib/rpmsg/rpmsg_virtio.c the dispatch of a    *)
(* received message and the name service callback.                         *)
(*                                                                         *)
(* The transport is the ordered channel of RpmsgChannel, which module      *)
(* RpmsgVirtio implements: chan[c] are the messages on their way to c.     *)
(* What a call does under rdev->lock is one step; what it reads or sends   *)
(* after it released the lock is another one.                              *)
(*                                                                         *)
(* Each core has two contexts, an application thread and the receive       *)
(* callback. An endpoint belongs to one core, and the application does not *)
(* create or destroy it from both contexts at the same time.               *)
(***************************************************************************)
EXTENDS Integers, Sequences, FiniteSets

CONSTANTS
    Epts,        \* struct rpmsg_endpoint objects of both cores
    Home,        \* the core each belongs to
    Name,        \* the service name each is created with, or NoName
    NoName, NoEpt,
    Srcs,        \* the local addresses each may be created with
    Reserved,    \* RPMSG_RESERVED_ADDRESSES
    BmpSize,     \* RPMSG_ADDR_BMP_SIZE
    ChanMax,     \* bound on the messages under way to a core
    DestroyLost, \* may the announcement of a destroyed endpoint fail to be sent?
    UnbindDestroys \* do the applications destroy their endpoint in ns_unbind_cb?

Cores == {"master", "slave"}
Peer(c) == IF c = "master" THEN "slave" ELSE "master"
ADDR_ANY == -1
Dyn == Reserved..(Reserved + BmpSize - 1)

ASSUME EptAssumption ==
    /\ IsFiniteSet(Epts) /\ NoEpt \notin Epts
    /\ Home \in [Epts -> Cores] /\ DOMAIN Name = Epts
ASSUME AddrAssumption ==
    Reserved \in Nat /\ BmpSize \in Nat /\ ChanMax \in Nat
    /\ Srcs \in [Epts -> SUBSET (Nat \cup {ADDR_ANY})]
ASSUME ModeAssumption == DestroyLost \in BOOLEAN /\ UnbindDestroys \in BOOLEAN

Contexts == {"app", "rx"} \X Cores

VARIABLES
    bitmap,       \* rdev->bitmap: addresses given out, per core
    list,         \* rdev->endpoints, in order, without the name service endpoint
    rdev,         \* is ept->rdev set?
    addr, dest,   \* ept->addr, ept->dest_addr
    chan,         \* messages on their way to each core
    op, ept,      \* each context: the call it is in, and on which endpoint
    rx, msg, hit  \* rx_callback of each core: its stage, its message and endpoint

eptVars == <<bitmap, list, rdev, addr, dest>>
opVars == <<op, ept>>
rxVars == <<rx, msg, hit>>
vars == <<eptVars, chan, opVars, rxVars>>

NoMessage == [kind |-> "none"]
NsMsg(kind, name, a) == [kind |-> kind, name |-> name, addr |-> a]
Data(src, dst) == [kind |-> "data", src |-> src, dst |-> dst]

Init ==
    /\ bitmap = [c \in Cores |-> {}]
    /\ list = [c \in Cores |-> <<>>]
    /\ rdev = [e \in Epts |-> FALSE]
    /\ addr = [e \in Epts |-> ADDR_ANY] /\ dest = [e \in Epts |-> ADDR_ANY]
    /\ chan = [c \in Cores |-> <<>>]
    /\ op = [t \in Contexts |-> "idle"] /\ ept = [t \in Contexts |-> NoEpt]
    /\ rx = [c \in Cores |-> "idle"] /\ msg = [c \in Cores |-> NoMessage]
    /\ hit = [c \in Cores |-> NoEpt]

(***************************************************************************)
(* Contexts. The receive context runs application code only inside a       *)
(* callback.                                                               *)
(***************************************************************************)
Callbacks == {"cb", "bind", "unbind"}
MayCall(t) == op[t] = "idle" /\ (t[1] = "rx" => rx[t[2]] \in Callbacks)
Busy(e) == \E t \in Contexts : ept[t] = e

Enter(t, stage, e) == op' = [op EXCEPT ![t] = stage] /\ ept' = [ept EXCEPT ![t] = e]
Leave(t) == Enter(t, "idle", NoEpt)
Stage(t, stage) == op[t] = stage

\* Bound on the traffic: messages under way to the peer of c, with room for
\* the two announcements every service in use may still have to make.
InUse(c) == {e \in Epts : Home[e] = c /\ Name[e] # NoName /\ (rdev[e] \/ Busy(e))}
Room(c, n) == Len(chan[Peer(c)]) + 2 * Cardinality(InUse(c)) + n <= ChanMax

Post(c, m) == chan' = [chan EXCEPT ![Peer(c)] = Append(@, m)]

(***************************************************************************)
(* rpmsg_create_ept.                                                       *)
(***************************************************************************)
\* rpmsg_get_address, rpmsg_is_address_set: the address, ADDR_ANY if there is
\* none. Reserved addresses are taken on trust.
Lowest(S) == CHOOSE a \in S : \A b \in S : a <= b

\* Mutant: one address more than the bitmap has.
AddressFor_OffByOne(c, src) ==
    LET free == (Dyn \cup {Reserved + BmpSize}) \ bitmap[c]
    IN  IF src = ADDR_ANY THEN IF free = {} THEN ADDR_ANY ELSE Lowest(free)
        ELSE IF src >= Reserved THEN IF src \in free THEN src ELSE ADDR_ANY
        ELSE src

\* Mutant: an address the caller chose is not looked up in the bitmap.
AddressFor_NoCheck(c, src) ==
    LET free == Dyn \ bitmap[c]
    IN  IF src = ADDR_ANY THEN IF free = {} THEN ADDR_ANY ELSE Lowest(free)
        ELSE src

AddressFor(c, src) ==
    LET free == Dyn \ bitmap[c]
    IN  IF src = ADDR_ANY THEN IF free = {} THEN ADDR_ANY ELSE Lowest(free)
        ELSE IF src >= Reserved THEN IF src \in free THEN src ELSE ADDR_ANY
        ELSE src

\* In ns_bind_cb the application gives the endpoint of the announced service the
\* announced address as destination.
DestFor(t, e) ==
    IF t[1] = "rx" /\ rx[t[2]] = "bind" /\ Name[e] = msg[t[2]].name
    THEN msg[t[2]].addr ELSE ADDR_ANY

\* Under the lock: take the address, initialise and register the endpoint.
Create(t, e, src) ==
    LET c == t[2]
        a == AddressFor(c, src)
    IN  /\ MayCall(t) /\ Home[e] = c
        /\ ~rdev[e] /\ ~Busy(e)
        /\ Name[e] # NoName => Room(c, 2)
        /\ a # ADDR_ANY
        /\ bitmap' = [bitmap EXCEPT ![c] = @ \cup ({a} \cap Dyn)]
        /\ list' = [list EXCEPT ![c] = Append(@, e)]
        /\ rdev' = [rdev EXCEPT ![e] = TRUE]
        /\ addr' = [addr EXCEPT ![e] = a]
        /\ dest' = [dest EXCEPT ![e] = DestFor(t, e)]
        /\ Enter(t, "announce", e)
        /\ UNCHANGED <<chan, rxVars>>

\* After it: a named endpoint without a destination is announced. The device has
\* the name service (rdev->support_ns), here and for the farewell.
MustAnnounce_Never(e) == FALSE                         \* mutant
MustAnnounce(e) == Name[e] # NoName /\ dest[e] = ADDR_ANY

CreateDone(t) ==
    LET e == ept[t] IN
    /\ Stage(t, "announce")
    /\ IF MustAnnounce(e)
         THEN Post(t[2], NsMsg("create", Name[e], addr[e]))
         ELSE UNCHANGED chan
    /\ Leave(t)
    /\ UNCHANGED <<eptVars, rxVars>>

\* The announcement could not be sent: the endpoint is unregistered again.
CreateFailed(t) ==
    LET e == ept[t] IN
    /\ Stage(t, "announce")
    /\ MustAnnounce(e)
    /\ Enter(t, "unregister", e)
    /\ UNCHANGED <<eptVars, chan, rxVars>>

(***************************************************************************)
(* rpmsg_destroy_ept: say farewell, then unregister. Without ept->rdev it  *)
(* returns at once.                                                        *)
(***************************************************************************)
Destroy(t, e) ==
    /\ MayCall(t) /\ Home[e] = t[2]
    /\ rdev[e] /\ ~Busy(e)
    /\ Enter(t, "farewell", e)
    /\ UNCHANGED <<eptVars, chan, rxVars>>

MustSayFarewell(e) == Name[e] # NoName /\ addr[e] >= Reserved

Farewell(t) ==
    LET e == ept[t] IN
    /\ Stage(t, "farewell")
    /\ \/ MustSayFarewell(e) /\ Post(t[2], NsMsg("destroy", Name[e], addr[e]))
       \/ (MustSayFarewell(e) => DestroyLost) /\ UNCHANGED chan
    /\ Enter(t, "unregister", e)
    /\ UNCHANGED <<eptVars, rxVars>>

\* rpmsg_unregister_endpoint, under the lock.
Released_None(e) == {}                                 \* mutant: not released
Released(e) == {addr[e]} \cap Dyn

\* metal_list_del: the node of e leaves the list.
Unlink(s, e) ==
    LET at == CHOOSE i \in DOMAIN s : s[i] = e
    IN  [i \in 1..(Len(s) - 1) |-> IF i < at THEN s[i] ELSE s[i + 1]]

Unregister(t) ==
    LET e == ept[t]
        c == t[2]
    IN  /\ Stage(t, "unregister")
        /\ bitmap' = [bitmap EXCEPT ![c] = @ \ Released(e)]
        /\ list' = [list EXCEPT ![c] = Unlink(@, e)]
        /\ rdev' = [rdev EXCEPT ![e] = FALSE]
        /\ Leave(t)
        /\ UNCHANGED <<addr, dest, chan, rxVars>>

\* rpmsg_send on an endpoint that is_rpmsg_ept_ready.
SendData(t, e) ==
    /\ MayCall(t) /\ Home[e] = t[2]
    /\ rdev[e] /\ ~Busy(e) /\ dest[e] # ADDR_ANY
    /\ Room(t[2], 1)
    /\ Post(t[2], Data(addr[e], dest[e]))
    /\ UNCHANGED <<eptVars, opVars, rxVars>>

(***************************************************************************)
(* rpmsg_virtio_rx_callback: take the message and look up, under the lock, *)
(* the endpoint it is for; then, without it, use that endpoint.            *)
(***************************************************************************)
\* The first endpoint of the list that has property P, NoEpt if none has.
First(c, P(_)) ==
    LET hits == {i \in DOMAIN list[c] : P(list[c][i])}
    IN  IF hits = {} THEN NoEpt ELSE list[c][Lowest(hits)]

\* rpmsg_get_ept_from_addr.
EptAt(c, a) == First(c, LAMBDA e : addr[e] = a)

RxTake(c) ==
    LET m == Head(chan[c])
        e == IF m.kind = "data" THEN EptAt(c, m.dst) ELSE NoEpt
    IN  /\ rx[c] = "idle" /\ chan[c] # <<>>
        /\ chan' = [chan EXCEPT ![c] = Tail(@)]
        /\ IF m.kind = "data" /\ e = NoEpt
             THEN UNCHANGED rxVars                    \* nobody listens: dropped
             ELSE /\ rx' = [rx EXCEPT ![c] = "found"]
                  /\ msg' = [msg EXCEPT ![c] = m]
                  /\ hit' = [hit EXCEPT ![c] = e]
        /\ UNCHANGED <<eptVars, opVars>>

RxIdle(c) ==
    /\ rx' = [rx EXCEPT ![c] = "idle"]
    /\ msg' = [msg EXCEPT ![c] = NoMessage]
    /\ hit' = [hit EXCEPT ![c] = NoEpt]

RxCall(c, stage) == rx' = [rx EXCEPT ![c] = stage] /\ UNCHANGED <<msg, hit>>

\* The first message binds an endpoint without a destination to its sender;
\* then the endpoint's callback runs.
RxData(c) ==
    /\ rx[c] = "found" /\ msg[c].kind = "data"
    /\ dest' = [dest EXCEPT ![hit[c]] = IF @ = ADDR_ANY THEN msg[c].src ELSE @]
    /\ RxCall(c, "cb")
    /\ UNCHANGED <<bitmap, list, rdev, addr, chan, opVars>>

(***************************************************************************)
(* rpmsg_virtio_ns_callback.                                               *)
(***************************************************************************)
\* rpmsg_get_endpoint(rdev, name, RPMSG_ADDR_ANY, a): bound to a, or unbound.
\* Mutant: only endpoints that are still unbound.
GetEndpoint_Unbound(c, name, a) ==
    First(c, LAMBDA e : Name[e] = name /\ dest[e] = ADDR_ANY)
GetEndpoint(c, name, a) ==
    First(c, LAMBDA e : Name[e] = name /\ dest[e] \in {a, ADDR_ANY})

NsCreate(c) ==
    LET e == GetEndpoint(c, msg[c].name, msg[c].addr) IN
    /\ rx[c] = "found" /\ msg[c].kind = "create"
    /\ IF e = NoEpt
         THEN RxCall(c, "bind") /\ UNCHANGED dest
         ELSE dest' = [dest EXCEPT ![e] = msg[c].addr] /\ RxIdle(c)
    /\ UNCHANGED <<bitmap, list, rdev, addr, chan, opVars>>

\* The callback is called with the name service's endpoint, not with the one that
\* was unbound: nothing to an application that does not look at its argument; for
\* one that does see RpcProxy.
NsDestroy(c) ==
    LET e == GetEndpoint(c, msg[c].name, msg[c].addr) IN
    /\ rx[c] = "found" /\ msg[c].kind = "destroy"
    /\ IF e = NoEpt
         THEN RxIdle(c) /\ UNCHANGED dest
         ELSE /\ dest' = [dest EXCEPT ![e] = ADDR_ANY]
              /\ rx' = [rx EXCEPT ![c] = "unbind"]
              /\ hit' = [hit EXCEPT ![c] = e]
              /\ UNCHANGED msg
    /\ UNCHANGED <<bitmap, list, rdev, addr, chan, opVars>>

\* The callback, whatever it called, returns.
RxReturn(c) ==
    /\ rx[c] \in Callbacks /\ op[<<"rx", c>>] = "idle"
    /\ rx[c] = "unbind" /\ UnbindDestroys => ~rdev[hit[c]]
    /\ RxIdle(c)
    /\ UNCHANGED <<eptVars, chan, opVars>>

Next ==
    \/ \E t \in Contexts, e \in Epts :
         \/ \E src \in Srcs[e] : Create(t, e, src)
         \/ Destroy(t, e)
         \/ SendData(t, e)
    \/ \E t \in Contexts : CreateDone(t) \/ CreateFailed(t) \/ Farewell(t) \/ Unregister(t)
    \/ \E c \in Cores : RxTake(c) \/ RxData(c) \/ NsCreate(c) \/ NsDestroy(c) \/ RxReturn(c)

Spec == Init /\ [][Next]_vars

--------------------------------------------------------------------------------
(***************************************************************************)
(* Correctness.                                                            *)
(***************************************************************************)
\* Every variable stays within its type; dynamic addresses are ones the
\* bitmap has a bit for.
Addrs == Dyn \cup 0..(Reserved - 1) \cup {ADDR_ANY}

TypeOK ==
    /\ bitmap \in [Cores -> SUBSET Dyn]
    /\ list \in [Cores -> Seq(Epts)]
    /\ rdev \in [Epts -> BOOLEAN]
    /\ addr \in [Epts -> Addrs] /\ dest \in [Epts -> Addrs]
    /\ \A c \in Cores : Len(chan[c]) <= ChanMax
    /\ op \in [Contexts -> {"idle", "announce", "farewell", "unregister"}]
    /\ ept \in [Contexts -> Epts \cup {NoEpt}]
    /\ rx \in [Cores -> {"idle", "found"} \cup Callbacks]
    /\ hit \in [Cores -> Epts \cup {NoEpt}]

\* Registered endpoints of a core never share a dynamic address, and the bits
\* set in its bitmap are exactly their addresses: no address leaks when an
\* announcement fails, none is freed while it is in use.
BitmapExact ==
    \A c \in Cores :
      LET live == {e \in Epts : Home[e] = c /\ rdev[e] /\ addr[e] >= Reserved}
      IN  /\ bitmap[c] = {addr[e] : e \in live}
          /\ \A e, f \in live : e # f => addr[e] # addr[f]

\* Nothing is under way and no call is in progress.
Quiescent ==
    /\ \A c \in Cores : chan[c] = <<>> /\ rx[c] = "idle"
    /\ \A t \in Contexts : op[t] = "idle"

\* Registered endpoints of the peer of e's core with the address e is bound to.
Partners(e) == {f \in Epts : Home[f] # Home[e] /\ rdev[f] /\ addr[f] = dest[e]}

\* The addresses an endpoint may get: those it asks for, or, if it asks for any,
\* the first one of the bitmap when no other endpoint of its core can have that.
Rivals(e) == {f \in Epts : f # e /\ Home[f] = Home[e]}
FirstIsOwn(e) == \A f \in Rivals(e) : Srcs[f] \cap {ADDR_ANY, Reserved} = {}
MayGet(e) ==
    (Srcs[e] \ {ADDR_ANY})
    \cup (IF ADDR_ANY \notin Srcs[e] THEN {} ELSE IF FirstIsOwn(e) THEN {Reserved} ELSE Dyn)

\* A core has one endpoint for a service, under dynamic addresses no other
\* endpoint of the core ever gets.
ServicesApart ==
    \A e \in Epts : Name[e] # NoName =>
      /\ MayGet(e) \subseteq Dyn
      /\ \A f \in Rivals(e) : Name[f] # Name[e] /\ MayGet(f) \cap MayGet(e) = {}

\* "called when remote ept is destroyed" (rpmsg.h:64-65): once all messages are
\* delivered no endpoint is left bound to an address nobody has.
UnboundAfterDestroy ==
    Quiescent => \A e \in Epts : rdev[e] /\ dest[e] # ADDR_ANY => Partners(e) # {}

\* Two endpoints of the same service, one on each core, find each other in
\* whatever order they are created, destroyed and created again: once all
\* messages are delivered at least one of them is bound to the other.
ServicesMeet ==
    Quiescent =>
      \A e, f \in Epts :
        /\ Home[e] # Home[f] /\ rdev[e] /\ rdev[f]
        /\ Name[e] = Name[f] /\ Name[e] # NoName
        => f \in Partners(e) \/ e \in Partners(f)
================================================================================
