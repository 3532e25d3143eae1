-------------------------- MODULE RpmsgEndpointProofs --------------------------
(***************************************************************************)
(* Theorems about RpmsgEndpoint, for any endpoints, services, addresses    *)
(* and bitmap size.                                                        *)
(***************************************************************************)
EXTENDS RpmsgEndpoint, FiniteSetTheorems, WellFoundedInduction, TLAPS

\* The lowest clear bit exists whenever one is clear.
LEMMA LowestExists == ASSUME NEW S \in SUBSET Nat, S # {} PROVE Lowest(S) \in S
<1>1. \E x \in S : \A y \in S : ~ (<<y, x>> \in OpToRel(<, Nat))
  BY NatLessThanWellFounded, WFMin
<1>2. PICK x \in S : \A y \in S : ~ (<<y, x>> \in OpToRel(<, Nat))
  BY <1>1
<1>3. \A y \in S : <<y, x>> \in Nat \X Nat /\ <<y, x>>[1] = y /\ <<y, x>>[2] = x
  OBVIOUS
<1>4. ASSUME NEW y \in S PROVE ~ (y < x)
  BY <1>2, <1>3, Zenon DEF OpToRel
<1>5. \A y \in S : x <= y
  BY <1>4
<1> QED BY <1>5 DEF Lowest

\* A call in progress is on a registered endpoint of its own core, and on no
\* endpoint another call is on.
CallsInv ==
    /\ \A t \in Contexts : op[t] = "idle" <=> ept[t] = NoEpt
    /\ \A t \in Contexts : ept[t] \in Epts => rdev[ept[t]] /\ Home[ept[t]] = t[2]
    /\ \A t, u \in Contexts : ept[t] \in Epts /\ ept[t] = ept[u] => t = u

\* The variables BitmapExact depends on are in their types.
AddrTypes ==
    /\ bitmap \in [Cores -> SUBSET Dyn]
    /\ rdev \in [Epts -> BOOLEAN]
    /\ addr \in [Epts -> Addrs]
    /\ op \in [Contexts -> {"idle", "announce", "farewell", "unregister"}]
    /\ ept \in [Contexts -> Epts \cup {NoEpt}]

\* BitmapExact, endpoint by endpoint and bit by bit.
Live(e) == rdev[e] /\ addr[e] >= Reserved
BitsSet == \A e \in Epts : Live(e) => addr[e] \in bitmap[Home[e]]
BitsUsed == \A c \in Cores : \A a \in bitmap[c] : \E e \in Epts :
                Home[e] = c /\ Live(e) /\ addr[e] = a
AddrsDiffer == \A e, f \in Epts :
                Live(e) /\ Live(f) /\ Home[e] = Home[f] /\ addr[e] = addr[f] => e = f

EptInv == AddrTypes /\ CallsInv /\ BitsSet /\ BitsUsed /\ AddrsDiffer

\* No endpoint is registered and no bit is set at the start.
LEMMA EptInit == Init => EptInv
<1> SUFFICES ASSUME Init PROVE EptInv
  OBVIOUS
<1> USE DEF Init
<1>1. AddrTypes
  BY AddrAssumption DEF AddrTypes, Addrs
<1>2. CallsInv
  BY EptAssumption DEF CallsInv
<1>3. BitsSet /\ BitsUsed /\ AddrsDiffer
  BY DEF BitsSet, BitsUsed, AddrsDiffer, Live
<1> QED BY <1>1, <1>2, <1>3 DEF EptInv

\* The address a new endpoint gets is a clear bit of the bitmap or a reserved
\* address.
LEMMA AddressIsFree ==
    ASSUME NEW c \in Cores, NEW e \in Epts, NEW src \in Srcs[e], AddressFor(c, src) # ADDR_ANY
    PROVE  AddressFor(c, src) \in (Dyn \ bitmap[c]) \cup 0..(Reserved - 1)
<1> DEFINE free == Dyn \ bitmap[c]
<1>1. free \in SUBSET Nat
  BY AddrAssumption DEF Dyn
<1>2. src \in Nat \cup {ADDR_ANY}
  BY AddrAssumption
<1>3. CASE src = ADDR_ANY
  <2>1. free # {}
    BY <1>3 DEF AddressFor
  <2>2. Lowest(free) \in free
    BY <1>1, <2>1, LowestExists
  <2> QED BY <1>3, <2>1, <2>2 DEF AddressFor
<1>4. CASE src # ADDR_ANY
  BY <1>2, <1>4, AddrAssumption DEF AddressFor
<1> QED BY <1>3, <1>4

\* Creating an endpoint keeps the bitmap exact.
LEMMA CreateKeeps ==
    ASSUME EptInv, NEW t \in Contexts, NEW e \in Epts, NEW src \in Srcs[e], Create(t, e, src)
    PROVE  EptInv'
<1> DEFINE c == t[2]
           a == AddressFor(c, src)
<1> USE DEF EptInv
<1>1. c \in Cores /\ Home[e] = c /\ ~rdev[e] /\ \A u \in Contexts : ept[u] # e
  BY DEF Create, Busy, Contexts
<1>2. a \in (Dyn \ bitmap[c]) \cup 0..(Reserved - 1)
  BY <1>1, AddressIsFree DEF Create
<1> HIDE DEF a
<1>3. /\ bitmap' = [bitmap EXCEPT ![c] = @ \cup ({a} \cap Dyn)]
      /\ rdev' = [rdev EXCEPT ![e] = TRUE]
      /\ addr' = [addr EXCEPT ![e] = a]
      /\ op' = [op EXCEPT ![t] = "announce"]
      /\ ept' = [ept EXCEPT ![t] = e]
      /\ op[t] = "idle"
  BY DEF Create, Enter, a, MayCall
<1>4. AddrTypes'
  BY <1>1, <1>2, <1>3 DEF AddrTypes, Addrs
<1>5. CallsInv'
  BY <1>1, <1>3, EptAssumption DEF AddrTypes, CallsInv
<1>6. \A f \in Epts : /\ f # e => rdev'[f] = rdev[f] /\ addr'[f] = addr[f]
                      /\ rdev'[e] /\ addr'[e] = a
  BY <1>3 DEF AddrTypes
<1>7. \A d \in Cores : bitmap'[d] = IF d = c THEN bitmap[d] \cup ({a} \cap Dyn) ELSE bitmap[d]
  BY <1>1, <1>3 DEF AddrTypes
<1>8. a >= Reserved <=> a \in Dyn
  BY <1>2, AddrAssumption DEF Dyn
<1>9. \A f \in Epts : Live(f)' <=> IF f = e THEN a \in Dyn ELSE Live(f)
  BY <1>6, <1>8 DEF Live
<1>10. BitsSet'
  <2> SUFFICES ASSUME NEW f \in Epts, Live(f)' PROVE addr'[f] \in bitmap'[Home[f]]
    BY DEF BitsSet
  <2>1. CASE f = e
    BY <1>1, <1>6, <1>7, <1>9, <2>1
  <2>2. CASE f # e
    BY <1>6, <1>7, <1>9, <2>2, EptAssumption DEF BitsSet
  <2> QED BY <2>1, <2>2
<1>11. BitsUsed'
  <2> SUFFICES ASSUME NEW d \in Cores, NEW b \in bitmap'[d]
               PROVE  \E f \in Epts : Home[f] = d /\ Live(f)' /\ addr'[f] = b
    BY DEF BitsUsed
  <2>1. CASE b \in bitmap[d]
    <3>1. PICK f \in Epts : Home[f] = d /\ Live(f) /\ addr[f] = b
      BY <2>1 DEF BitsUsed
    <3>2. f # e
      BY <3>1, <1>1 DEF Live
    <3> QED BY <3>1, <3>2, <1>6, <1>9
  <2>2. CASE b \notin bitmap[d]
    <3>1. d = c /\ b = a /\ a \in Dyn
      BY <2>2, <1>7
    <3> QED BY <3>1, <1>1, <1>6, <1>9
  <2> QED BY <2>1, <2>2
<1>12. AddrsDiffer'
  <2>1. a \in Dyn => a \notin bitmap[c]
    BY <1>2, AddrAssumption DEF Dyn
  <2>2. \A f \in Epts : f # e /\ Live(f) /\ Home[f] = c => ~(a \in Dyn /\ addr[f] = a)
    BY <2>1 DEF BitsSet
  <2> QED BY <1>1, <1>6, <1>9, <2>2 DEF AddrsDiffer
<1> QED BY <1>4, <1>5, <1>10, <1>11, <1>12

\* rpmsg_unregister_endpoint releases the endpoint's bit and no other.
LEMMA UnregisterKeeps ==
    ASSUME EptInv, NEW t \in Contexts, Unregister(t)
    PROVE  EptInv'
<1> DEFINE e == ept[t]
           c == t[2]
<1> USE DEF EptInv
<1>1. e \in Epts /\ rdev[e] /\ Home[e] = c /\ c \in Cores
  BY DEF AddrTypes, CallsInv, Unregister, Stage, Contexts
<1>2. \A u \in Contexts : u # t => ept[u] # e
  BY <1>1 DEF CallsInv
<1> HIDE DEF e
<1>3. /\ bitmap' = [bitmap EXCEPT ![c] = @ \ ({addr[e]} \cap Dyn)]
      /\ rdev' = [rdev EXCEPT ![e] = FALSE]
      /\ addr' = addr
      /\ op' = [op EXCEPT ![t] = "idle"]
      /\ ept' = [ept EXCEPT ![t] = NoEpt]
  BY DEF Unregister, Leave, Enter, e, Released
<1>4. AddrTypes'
  BY <1>1, <1>3 DEF AddrTypes
<1>5. CallsInv'
  BY <1>1, <1>2, <1>3, EptAssumption DEF AddrTypes, CallsInv
<1>6. \A f \in Epts : rdev'[f] <=> rdev[f] /\ f # e
  BY <1>3 DEF AddrTypes
<1>7. \A d \in Cores : bitmap'[d] = IF d = c THEN bitmap[d] \ ({addr[e]} \cap Dyn) ELSE bitmap[d]
  BY <1>1, <1>3 DEF AddrTypes
<1>8. \A d \in Cores : bitmap[d] \subseteq Dyn /\ \A a \in Dyn : a >= Reserved
  BY AddrAssumption DEF AddrTypes, Dyn
<1>9. BitsSet'
  BY <1>1, <1>3, <1>6, <1>7, EptAssumption DEF BitsSet, AddrsDiffer, Live
<1>10. BitsUsed'
  BY <1>1, <1>3, <1>6, <1>7, <1>8 DEF BitsUsed, Live
<1>11. AddrsDiffer'
  BY <1>3, <1>6 DEF AddrsDiffer, Live
<1> QED BY <1>4, <1>5, <1>9, <1>10, <1>11

\* The other steps register nothing and leave the bitmap alone.
LEMMA OthersKeep ==
    ASSUME EptInv, UNCHANGED <<bitmap, rdev, addr>>, CallsInv', AddrTypes'
    PROVE  EptInv'
BY DEF EptInv, BitsSet, BitsUsed, AddrsDiffer, Live

\* Every step keeps the invariant.
LEMMA EptStep == EptInv /\ [Next]_vars => EptInv'
<1> SUFFICES ASSUME EptInv, [Next]_vars PROVE EptInv'
  OBVIOUS
<1> USE DEF EptInv
<1>1. ASSUME NEW t \in Contexts, NEW e \in Epts, NEW src \in Srcs[e], Create(t, e, src)
      PROVE  EptInv'
  BY <1>1, CreateKeeps
<1>2. ASSUME NEW t \in Contexts, Unregister(t) PROVE EptInv'
  BY <1>2, UnregisterKeeps
<1>3. ASSUME NEW t \in Contexts, NEW e \in Epts, Destroy(t, e) PROVE EptInv'
  <2>1. /\ UNCHANGED <<bitmap, rdev, addr>>
        /\ op' = [op EXCEPT ![t] = "farewell"] /\ ept' = [ept EXCEPT ![t] = e]
        /\ Home[e] = t[2] /\ rdev[e] /\ \A u \in Contexts : ept[u] # e
    BY <1>3 DEF Destroy, Enter, eptVars, Busy
  <2>2. AddrTypes'
    BY <2>1 DEF AddrTypes
  <2>3. CallsInv'
    BY <2>1, EptAssumption DEF AddrTypes, CallsInv
  <2> QED BY <2>1, <2>2, <2>3, OthersKeep
<1>4. ASSUME NEW t \in Contexts, CreateDone(t) PROVE EptInv'
  <2>1. /\ UNCHANGED <<bitmap, rdev, addr>>
        /\ op' = [op EXCEPT ![t] = "idle"] /\ ept' = [ept EXCEPT ![t] = NoEpt]
    BY <1>4 DEF CreateDone, Leave, Enter, eptVars
  <2>2. AddrTypes'
    BY <2>1 DEF AddrTypes
  <2>3. CallsInv'
    BY <2>1, EptAssumption DEF AddrTypes, CallsInv
  <2> QED BY <2>1, <2>2, <2>3, OthersKeep
<1>5. ASSUME NEW t \in Contexts, CreateFailed(t) \/ Farewell(t) PROVE EptInv'
  <2>1. /\ UNCHANGED <<bitmap, rdev, addr>> /\ op[t] # "idle"
        /\ op' = [op EXCEPT ![t] = "unregister"] /\ ept' = [ept EXCEPT ![t] = ept[t]]
    BY <1>5 DEF CreateFailed, Farewell, Stage, Enter, eptVars
  <2>2. AddrTypes' /\ ept' = ept
    BY <2>1 DEF AddrTypes
  <2>3. CallsInv'
    BY <2>1, <2>2 DEF AddrTypes, CallsInv
  <2> QED BY <2>1, <2>2, <2>3, OthersKeep
<1>6. ASSUME UNCHANGED <<bitmap, rdev, addr, op, ept>> PROVE EptInv'
  BY <1>6 DEF AddrTypes, CallsInv, BitsSet, BitsUsed, AddrsDiffer, Live
<1>7. ASSUME NEW t \in Contexts, NEW e \in Epts, SendData(t, e) PROVE EptInv'
  BY <1>6, <1>7 DEF SendData, eptVars, opVars
<1>8. ASSUME NEW c \in Cores,
             RxTake(c) \/ RxData(c) \/ NsCreate(c) \/ NsDestroy(c) \/ RxReturn(c)
      PROVE  EptInv'
  BY <1>6, <1>8 DEF RxTake, RxData, NsCreate, NsDestroy, RxReturn, eptVars, opVars
<1>9. CASE UNCHANGED vars
  BY <1>6, <1>9 DEF vars, eptVars, opVars
<1> QED BY <1>1, <1>2, <1>3, <1>4, <1>5, <1>7, <1>8, <1>9 DEF Next

\* Bit by bit the invariant is BitmapExact.
LEMMA InvIsExact == EptInv => BitmapExact
<1> SUFFICES ASSUME EptInv, NEW c \in Cores
             PROVE  LET live == {e \in Epts : Home[e] = c /\ rdev[e] /\ addr[e] >= Reserved}
                    IN  /\ bitmap[c] = {addr[e] : e \in live}
                        /\ \A e, f \in live : e # f => addr[e] # addr[f]
  BY DEF BitmapExact
<1> DEFINE live == {e \in Epts : Home[e] = c /\ rdev[e] /\ addr[e] >= Reserved}
<1>1. bitmap[c] \subseteq {addr[e] : e \in live}
  BY DEF EptInv, BitsUsed, Live
<1>2. {addr[e] : e \in live} \subseteq bitmap[c]
  BY DEF EptInv, BitsSet, Live
<1>3. \A e, f \in live : e # f => addr[e] # addr[f]
  BY DEF EptInv, AddrsDiffer, Live
<1> QED BY <1>1, <1>2, <1>3

\* For any endpoints and bitmap size: whatever calls interleave, fail or run
\* from callbacks, rdev->bitmap has exactly the addresses of the registered
\* endpoints, and no two of them share one.
THEOREM AddressesExact == Spec => []BitmapExact
<1>1. Init => EptInv
  BY EptInit
<1>2. EptInv /\ [Next]_vars => EptInv'
  BY EptStep
<1>3. EptInv => BitmapExact
  BY InvIsExact
<1> QED BY <1>1, <1>2, <1>3, PTL DEF Spec

(***************************************************************************)
(* Types. What a message carries becomes a destination address, so the     *)
(* messages under way are typed too.                                       *)
(***************************************************************************)
NsMsgs == [kind : {"create", "destroy"}, name : {Name[e] : e \in Epts}, addr : Addrs]
DataMsgs == [kind : {"data"}, src : Addrs, dst : Addrs]
Msgs == NsMsgs \cup DataMsgs

MsgTypes ==
    /\ list \in [Cores -> Seq(Epts)]
    /\ dest \in [Epts -> Addrs]
    /\ chan \in [Cores -> Seq(Msgs)]
    /\ rx \in [Cores -> {"idle", "found"} \cup Callbacks]
    /\ hit \in [Cores -> Epts \cup {NoEpt}]
    /\ msg \in [Cores -> Msgs \cup {NoMessage}]
    /\ \A c \in Cores : rx[c] = "bind" => msg[c].kind = "create"

\* The kind of a message says which fields it has.
LEMMA MsgFields ==
    ASSUME NEW m \in Msgs \cup {NoMessage}
    PROVE  /\ m.kind \in {"create", "destroy"} => m.addr \in Addrs
           /\ m.kind = "data" => m.src \in Addrs /\ m.dst \in Addrs
BY DEF Msgs, NsMsgs, DataMsgs, NoMessage

\* What is posted is a message.
LEMMA Posted ==
    ASSUME chan \in [Cores -> Seq(Msgs)], NEW c \in Cores, NEW m \in Msgs, Post(c, m)
    PROVE  /\ chan' \in [Cores -> Seq(Msgs)] /\ Peer(c) \in Cores
           /\ Len(chan'[Peer(c)]) = Len(chan[Peer(c)]) + 1
           /\ \A d \in Cores : d # Peer(c) => chan'[d] = chan[d]
<1>1. Peer(c) \in Cores
  BY DEF Peer, Cores
<1>2. chan' = [chan EXCEPT ![Peer(c)] = Append(@, m)]
  BY DEF Post
<1>3. Append(chan[Peer(c)], m) \in Seq(Msgs) /\ Len(Append(chan[Peer(c)], m)) = Len(chan[Peer(c)]) + 1
  BY <1>1
<1> QED BY <1>1, <1>2, <1>3

\* metal_list_del leaves a list of endpoints.
LEMMA UnlinkType == ASSUME NEW s \in Seq(Epts), NEW e PROVE Unlink(s, e) \in Seq(Epts)
<1> DEFINE at == CHOOSE i \in DOMAIN s : s[i] = e
           f == [i \in 1..(Len(s) - 1) |-> IF i < at THEN s[i] ELSE s[i + 1]]
<1>1. \A i \in 1..(Len(s) - 1) : f[i] \in Epts
  <2> TAKE i \in 1..(Len(s) - 1)
  <2>1. i \in 1..Len(s) /\ i + 1 \in 1..Len(s)
    OBVIOUS
  <2>2. s[i] \in Epts /\ s[i + 1] \in Epts
    BY <2>1
  <2> HIDE DEF at
  <2> QED BY <2>2
<1>2. f \in Seq(Epts)
  <2>1. CASE Len(s) = 0
    <3>1. f = <<>>
      BY <2>1
    <3> QED BY <3>1
  <2>2. CASE Len(s) # 0
    <3>1. Len(s) - 1 \in Nat
      BY <2>2
    <3> HIDE DEF at
    <3> QED BY <1>1, <3>1
  <2> QED BY <2>1, <2>2
<1> QED BY <1>2 DEF Unlink

\* The endpoint a lookup finds is one of the list, or there is none.
LEMMA FoundIsEndpoint ==
    ASSUME MsgTypes, NEW c \in Cores
    PROVE  /\ \A a : EptAt(c, a) \in Epts \cup {NoEpt}
           /\ \A n, a : GetEndpoint(c, n, a) \in Epts \cup {NoEpt}
<1>1. list[c] \in Seq(Epts)
  BY DEF MsgTypes
<1>2. ASSUME NEW S \in SUBSET (DOMAIN list[c]), S # {} PROVE list[c][Lowest(S)] \in Epts
  <2>1. S \in SUBSET Nat
    BY <1>1
  <2>2. Lowest(S) \in DOMAIN list[c]
    BY <1>2, <2>1, LowestExists
  <2> QED BY <1>1, <2>2
<1>3. ASSUME NEW a PROVE EptAt(c, a) \in Epts \cup {NoEpt}
  <2> DEFINE S == {i \in DOMAIN list[c] : addr[list[c][i]] = a}
  <2>1. EptAt(c, a) = IF S = {} THEN NoEpt ELSE list[c][Lowest(S)]
    BY DEF EptAt, First
  <2>2. S \in SUBSET (DOMAIN list[c])
    OBVIOUS
  <2> HIDE DEF S
  <2> QED BY <1>2, <2>1, <2>2
<1>4. ASSUME NEW n, NEW a PROVE GetEndpoint(c, n, a) \in Epts \cup {NoEpt}
  <2> DEFINE S == {i \in DOMAIN list[c] :
                     Name[list[c][i]] = n /\ dest[list[c][i]] \in {a, ADDR_ANY}}
  <2>1. GetEndpoint(c, n, a) = IF S = {} THEN NoEpt ELSE list[c][Lowest(S)]
    BY DEF GetEndpoint, First
  <2>2. S \in SUBSET (DOMAIN list[c])
    OBVIOUS
  <2> HIDE DEF S
  <2> QED BY <1>2, <2>1, <2>2
<1> QED BY <1>3, <1>4

\* At the start nothing is under way.
LEMMA MsgInit == Init => MsgTypes
<1> SUFFICES ASSUME Init PROVE MsgTypes
  OBVIOUS
<1>1. ADDR_ANY \in Addrs
  BY DEF Addrs
<1> QED BY <1>1 DEF Init, MsgTypes, Callbacks

\* Every step keeps the messages and what they set in their types.
LEMMA MsgStep == EptInv /\ MsgTypes /\ [Next]_vars => MsgTypes'
<1> SUFFICES ASSUME EptInv, MsgTypes, [Next]_vars PROVE MsgTypes'
  OBVIOUS
<1>a. ADDR_ANY \in Addrs /\ addr \in [Epts -> Addrs]
  BY DEF Addrs, EptInv, AddrTypes
<1>e. ASSUME NEW t \in Contexts, op[t] # "idle" PROVE ept[t] \in Epts /\ t[2] \in Cores
  BY <1>e DEF EptInv, CallsInv, AddrTypes, Contexts
<1> USE DEF MsgTypes
<1>1. ASSUME NEW t \in Contexts, NEW e \in Epts, NEW src \in Srcs[e], Create(t, e, src)
      PROVE  MsgTypes'
  <2>1. t[2] \in Cores
    BY DEF Contexts
  <2>2. /\ list' = [list EXCEPT ![t[2]] = Append(@, e)]
        /\ dest' = [dest EXCEPT ![e] = DestFor(t, e)] /\ UNCHANGED <<chan, rx, msg, hit>>
    BY <1>1 DEF Create, rxVars
  <2>3. DestFor(t, e) \in Addrs
    BY <1>a, <2>1, MsgFields DEF DestFor
  <2>4. list' \in [Cores -> Seq(Epts)]
    BY <2>1, <2>2
  <2>5. dest' \in [Epts -> Addrs]
    BY <2>2, <2>3
  <2> QED BY <2>2, <2>4, <2>5
<1>2. ASSUME NEW t \in Contexts, CreateDone(t) PROVE MsgTypes'
  <2>1. ept[t] \in Epts /\ t[2] \in Cores
    BY <1>2, <1>e DEF CreateDone, Stage
  <2>2. UNCHANGED <<list, dest, rx, msg, hit>>
    BY <1>2 DEF CreateDone, eptVars, rxVars
  <2>3. NsMsg("create", Name[ept[t]], addr[ept[t]]) \in Msgs
    BY <1>a, <2>1 DEF NsMsg, Msgs, NsMsgs
  <2>4. chan' \in [Cores -> Seq(Msgs)]
    BY <1>2, <2>1, <2>3, Posted DEF CreateDone
  <2> QED BY <2>2, <2>4
<1>3. ASSUME NEW t \in Contexts, Farewell(t) PROVE MsgTypes'
  <2>1. ept[t] \in Epts /\ t[2] \in Cores
    BY <1>3, <1>e DEF Farewell, Stage
  <2>2. UNCHANGED <<list, dest, rx, msg, hit>>
    BY <1>3 DEF Farewell, eptVars, rxVars
  <2>3. NsMsg("destroy", Name[ept[t]], addr[ept[t]]) \in Msgs
    BY <1>a, <2>1 DEF NsMsg, Msgs, NsMsgs
  <2>4. chan' \in [Cores -> Seq(Msgs)]
    BY <1>3, <2>1, <2>3, Posted DEF Farewell
  <2> QED BY <2>2, <2>4
<1>4. ASSUME NEW t \in Contexts, NEW e \in Epts, SendData(t, e) PROVE MsgTypes'
  <2>1. t[2] \in Cores
    BY DEF Contexts
  <2>2. UNCHANGED <<list, dest, rx, msg, hit>> /\ Post(t[2], Data(addr[e], dest[e]))
    BY <1>4 DEF SendData, eptVars, rxVars
  <2>3. Data(addr[e], dest[e]) \in Msgs
    BY <1>a DEF Data, Msgs, DataMsgs
  <2>4. chan' \in [Cores -> Seq(Msgs)]
    BY <2>1, <2>2, <2>3, Posted
  <2> QED BY <2>2, <2>4
<1>5. ASSUME NEW t \in Contexts, Unregister(t) PROVE MsgTypes'
  <2>1. t[2] \in Cores
    BY DEF Contexts
  <2>2. /\ list' = [list EXCEPT ![t[2]] = Unlink(@, ept[t])]
        /\ UNCHANGED <<dest, chan, rx, msg, hit>>
    BY <1>5 DEF Unregister, rxVars
  <2>3. Unlink(list[t[2]], ept[t]) \in Seq(Epts)
    BY <2>1, UnlinkType
  <2> QED BY <2>1, <2>2, <2>3
<1>6. ASSUME NEW t \in Contexts, CreateFailed(t) \/ (\E e \in Epts : Destroy(t, e)) PROVE MsgTypes'
  BY <1>6 DEF CreateFailed, Destroy, eptVars, rxVars
<1>7. ASSUME NEW c \in Cores, RxTake(c) PROVE MsgTypes'
  <2> DEFINE m == Head(chan[c])
             e == IF m.kind = "data" THEN EptAt(c, m.dst) ELSE NoEpt
  <2>1. chan[c] \in Seq(Msgs) /\ chan[c] # <<>>
    BY <1>7 DEF RxTake
  <2>2. m \in Msgs /\ Tail(chan[c]) \in Seq(Msgs)
    BY <2>1
  <2>3. e \in Epts \cup {NoEpt}
    BY FoundIsEndpoint
  <2>4. UNCHANGED <<list, dest>> /\ chan' = [chan EXCEPT ![c] = Tail(@)]
    BY <1>7 DEF RxTake, eptVars
  <2>5. chan' \in [Cores -> Seq(Msgs)]
    BY <2>2, <2>4
  <2>6. \/ UNCHANGED <<rx, msg, hit>>
        \/ /\ rx' = [rx EXCEPT ![c] = "found"] /\ msg' = [msg EXCEPT ![c] = m]
           /\ hit' = [hit EXCEPT ![c] = e]
    BY <1>7 DEF RxTake, rxVars
  <2> HIDE DEF m, e
  <2>7. /\ rx' \in [Cores -> {"idle", "found"} \cup Callbacks]
        /\ hit' \in [Cores -> Epts \cup {NoEpt}] /\ msg' \in [Cores -> Msgs \cup {NoMessage}]
    BY <2>2, <2>3, <2>6
  <2>8. \A d \in Cores : rx'[d] = "bind" => msg'[d].kind = "create"
    BY <2>6
  <2> QED BY <2>4, <2>5, <2>7, <2>8
<1>8. ASSUME NEW c \in Cores, RxIdle(c) PROVE
        /\ rx' \in [Cores -> {"idle", "found"} \cup Callbacks]
        /\ hit' \in [Cores -> Epts \cup {NoEpt}] /\ msg' \in [Cores -> Msgs \cup {NoMessage}]
        /\ \A d \in Cores : rx'[d] = "bind" => msg'[d].kind = "create"
  BY <1>8 DEF RxIdle
<1>9. ASSUME NEW c \in Cores, RxReturn(c) PROVE MsgTypes'
  BY <1>8, <1>9 DEF RxReturn, eptVars
<1>10. ASSUME NEW c \in Cores, RxData(c) PROVE MsgTypes'
  <2>1. /\ msg[c].kind = "data" /\ UNCHANGED <<list, chan, msg, hit>>
        /\ rx' = [rx EXCEPT ![c] = "cb"]
        /\ dest' = [dest EXCEPT ![hit[c]] = IF @ = ADDR_ANY THEN msg[c].src ELSE @]
    BY <1>10 DEF RxData, RxCall
  <2>2. msg[c].src \in Addrs
    BY <2>1, MsgFields
  <2>3. dest' \in [Epts -> Addrs]
    BY <2>1, <2>2
  <2>4. rx' \in [Cores -> {"idle", "found"} \cup Callbacks]
    BY <2>1 DEF Callbacks
  <2>5. \A d \in Cores : rx'[d] = "bind" => msg[d].kind = "create"
    BY <2>1
  <2> QED BY <2>1, <2>3, <2>4, <2>5
<1>11. ASSUME NEW c \in Cores, NsCreate(c) PROVE MsgTypes'
  <2> DEFINE e == GetEndpoint(c, msg[c].name, msg[c].addr)
  <2>1. msg[c].kind = "create" /\ UNCHANGED <<list, chan>>
    BY <1>11 DEF NsCreate
  <2>2. msg[c].addr \in Addrs
    BY <2>1, MsgFields
  <2>3. CASE e = NoEpt
    <3>1. UNCHANGED <<dest, msg, hit>> /\ rx' = [rx EXCEPT ![c] = "bind"]
      BY <1>11, <2>3 DEF NsCreate, RxCall
    <3>2. rx' \in [Cores -> {"idle", "found"} \cup Callbacks]
      BY <3>1 DEF Callbacks
    <3>3. \A d \in Cores : rx'[d] = "bind" => msg[d].kind = "create"
      BY <2>1, <3>1
    <3> QED BY <2>1, <3>1, <3>2, <3>3
  <2>4. CASE e # NoEpt
    <3>1. dest' = [dest EXCEPT ![e] = msg[c].addr] /\ RxIdle(c)
      BY <1>11, <2>4 DEF NsCreate
    <3>2. dest' \in [Epts -> Addrs]
      BY <2>2, <3>1
    <3> QED BY <1>8, <2>1, <3>1, <3>2
  <2> QED BY <2>3, <2>4
<1>12. ASSUME NEW c \in Cores, NsDestroy(c) PROVE MsgTypes'
  <2> DEFINE e == GetEndpoint(c, msg[c].name, msg[c].addr)
  <2>1. UNCHANGED <<list, chan>> /\ e \in Epts \cup {NoEpt}
    BY <1>12, FoundIsEndpoint DEF NsDestroy
  <2>2. CASE e = NoEpt
    BY <1>8, <1>12, <2>1, <2>2 DEF NsDestroy
  <2>3. CASE e # NoEpt
    <3>1. /\ dest' = [dest EXCEPT ![e] = ADDR_ANY] /\ rx' = [rx EXCEPT ![c] = "unbind"]
          /\ hit' = [hit EXCEPT ![c] = e] /\ msg' = msg
      BY <1>12, <2>3 DEF NsDestroy
    <3> HIDE DEF e
    <3>2. dest' \in [Epts -> Addrs] /\ hit' \in [Cores -> Epts \cup {NoEpt}]
      BY <1>a, <2>1, <3>1
    <3>3. rx' \in [Cores -> {"idle", "found"} \cup Callbacks]
      BY <3>1 DEF Callbacks
    <3>4. \A d \in Cores : rx'[d] = "bind" => msg[d].kind = "create"
      BY <3>1
    <3> QED BY <2>1, <3>1, <3>2, <3>3, <3>4
  <2> QED BY <2>2, <2>3
<1>13. CASE UNCHANGED vars
  BY <1>13 DEF vars, eptVars, rxVars
<1> QED BY <1>1, <1>2, <1>3, <1>4, <1>5, <1>6, <1>7, <1>9, <1>10, <1>11, <1>12, <1>13 DEF Next

(***************************************************************************)
(* Room in the channel. A service in use may still have to say farewell,   *)
(* and one being created has to be announced before that.                  *)
(***************************************************************************)
Leaving(e) == \E t \in Contexts : ept[t] = e /\ op[t] = "unregister"
Arriving(e) == \E t \in Contexts : ept[t] = e /\ op[t] = "announce"
Service(c, e) == Home[e] = c /\ Name[e] # NoName
ToLeave(c) == {e \in Epts : Service(c, e) /\ rdev[e] /\ ~Leaving(e)}
ToArrive(c) == {e \in Epts : Service(c, e) /\ Arriving(e)}
Owed(c) == Cardinality(ToLeave(c)) + Cardinality(ToArrive(c))

Traffic == \A c \in Cores : Len(chan[Peer(c)]) + Owed(c) <= ChanMax

\* Sets of endpoints are finite; one that loses a member, gains one or keeps
\* within another has the size to match.
LEMMA Sizes ==
    /\ \A S \in SUBSET Epts : IsFiniteSet(S) /\ Cardinality(S) \in Nat
    /\ \A S, T \in SUBSET Epts : S \subseteq T => Cardinality(S) <= Cardinality(T)
    /\ \A S \in SUBSET Epts, e \in Epts :
         /\ Cardinality(S \cup {e}) <= Cardinality(S) + 1
         /\ e \in S => Cardinality(S \ {e}) = Cardinality(S) - 1
<1>1. \A S \in SUBSET Epts : IsFiniteSet(S) /\ Cardinality(S) \in Nat
  BY EptAssumption, FS_Subset, FS_CardinalityType
<1>2. ASSUME NEW S \in SUBSET Epts, NEW T \in SUBSET Epts, S \subseteq T
      PROVE  Cardinality(S) <= Cardinality(T)
  BY <1>1, <1>2, FS_Subset
<1>3. ASSUME NEW S \in SUBSET Epts, NEW e \in Epts PROVE Cardinality(S \cup {e}) <= Cardinality(S) + 1
  BY <1>1, FS_AddElement
<1>4. ASSUME NEW S \in SUBSET Epts, NEW e \in S PROVE Cardinality(S \ {e}) = Cardinality(S) - 1
  BY <1>1, FS_RemoveElement
<1> QED BY <1>1, <1>2, <1>3, <1>4

\* Both counts are within the services in use that Room counts twice.
LEMMA OwedFits ==
    ASSUME EptInv, NEW c \in Cores
    PROVE  /\ Owed(c) \in Nat /\ Owed(c) <= 2 * Cardinality(InUse(c))
           /\ Cardinality(InUse(c)) \in Nat
           /\ Cardinality(ToLeave(c)) \in Nat /\ Cardinality(ToArrive(c)) \in Nat
<1>1. ToLeave(c) \in SUBSET Epts /\ ToArrive(c) \in SUBSET Epts /\ InUse(c) \in SUBSET Epts
  BY DEF ToLeave, ToArrive, InUse
<1>2. ToLeave(c) \subseteq InUse(c)
  BY DEF ToLeave, InUse, Service
<1>3. ToArrive(c) \subseteq InUse(c)
  BY DEF ToArrive, InUse, Service, Arriving, Busy
<1>4. /\ Cardinality(ToLeave(c)) \in Nat /\ Cardinality(ToArrive(c)) \in Nat
      /\ Cardinality(InUse(c)) \in Nat
      /\ Cardinality(ToLeave(c)) <= Cardinality(InUse(c))
      /\ Cardinality(ToArrive(c)) <= Cardinality(InUse(c))
  BY <1>1, <1>2, <1>3, Sizes
<1> QED BY <1>4 DEF Owed

\* A core that owes no more than before.
LEMMA OwesLess ==
    ASSUME EptInv, EptInv', NEW c \in Cores,
           ToLeave(c)' \subseteq ToLeave(c), ToArrive(c)' \subseteq ToArrive(c)
    PROVE  Owed(c)' <= Owed(c) /\ Owed(c)' \in Nat /\ Owed(c) \in Nat
<1>1. /\ ToLeave(c) \in SUBSET Epts /\ ToArrive(c) \in SUBSET Epts
      /\ ToLeave(c)' \in SUBSET Epts /\ ToArrive(c)' \in SUBSET Epts
  BY DEF ToLeave, ToArrive
<1>2. /\ Cardinality(ToLeave(c)) \in Nat /\ Cardinality(ToArrive(c)) \in Nat
      /\ Cardinality(ToLeave(c)') \in Nat /\ Cardinality(ToArrive(c)') \in Nat
      /\ Cardinality(ToLeave(c)') <= Cardinality(ToLeave(c))
      /\ Cardinality(ToArrive(c)') <= Cardinality(ToArrive(c))
  BY <1>1, Sizes
<1> QED BY <1>2 DEF Owed

\* A call that has one message less to send than before.
LEMMA OwesOneLess ==
    ASSUME EptInv, EptInv', NEW c \in Cores, NEW e \in Epts,
           \/ /\ e \in ToLeave(c) /\ ToLeave(c)' \subseteq ToLeave(c) \ {e}
              /\ ToArrive(c)' \subseteq ToArrive(c)
           \/ /\ e \in ToArrive(c) /\ ToArrive(c)' \subseteq ToArrive(c) \ {e}
              /\ ToLeave(c)' \subseteq ToLeave(c)
    PROVE  Owed(c)' + 1 <= Owed(c) /\ Owed(c)' \in Nat /\ Owed(c) \in Nat
<1>1. /\ ToLeave(c) \in SUBSET Epts /\ ToArrive(c) \in SUBSET Epts
      /\ ToLeave(c)' \in SUBSET Epts /\ ToArrive(c)' \in SUBSET Epts
      /\ ToLeave(c) \ {e} \in SUBSET Epts /\ ToArrive(c) \ {e} \in SUBSET Epts
  BY DEF ToLeave, ToArrive
<1>2. /\ Cardinality(ToLeave(c)) \in Nat /\ Cardinality(ToArrive(c)) \in Nat
      /\ Cardinality(ToLeave(c)') \in Nat /\ Cardinality(ToArrive(c)') \in Nat
  BY <1>1, Sizes
<1>3. CASE /\ e \in ToLeave(c) /\ ToLeave(c)' \subseteq ToLeave(c) \ {e}
           /\ ToArrive(c)' \subseteq ToArrive(c)
  <2>1. /\ Cardinality(ToLeave(c)') <= Cardinality(ToLeave(c) \ {e})
        /\ Cardinality(ToArrive(c)') <= Cardinality(ToArrive(c))
        /\ Cardinality(ToLeave(c) \ {e}) = Cardinality(ToLeave(c)) - 1
    BY <1>1, <1>3, Sizes
  <2> QED BY <1>2, <2>1 DEF Owed
<1>4. CASE /\ e \in ToArrive(c) /\ ToArrive(c)' \subseteq ToArrive(c) \ {e}
           /\ ToLeave(c)' \subseteq ToLeave(c)
  <2>1. /\ Cardinality(ToArrive(c)') <= Cardinality(ToArrive(c) \ {e})
        /\ Cardinality(ToLeave(c)') <= Cardinality(ToLeave(c))
        /\ Cardinality(ToArrive(c) \ {e}) = Cardinality(ToArrive(c)) - 1
    BY <1>1, <1>4, Sizes
  <2> QED BY <1>2, <2>1 DEF Owed
<1> QED BY <1>3, <1>4

\* At the start nobody owes a message.
LEMMA TrafficInit == Init => Traffic
<1> SUFFICES ASSUME Init, NEW c \in Cores PROVE Len(chan[Peer(c)]) + Owed(c) <= ChanMax
  BY DEF Traffic
<1>1. ToLeave(c) = {} /\ ToArrive(c) = {}
  BY DEF Init, ToLeave, ToArrive, Arriving
<1>2. Owed(c) = 0
  BY <1>1, FS_EmptySet DEF Owed
<1>3. Len(chan[Peer(c)]) = 0
  BY DEF Init, Peer, Cores
<1> QED BY <1>2, <1>3, AddrAssumption

\* A step that leaves a core with what it owes, or less, and posts nothing.
LEMMA TrafficQuiet ==
    ASSUME EptInv, EptInv', MsgTypes, MsgTypes', Traffic,
           \A c \in Cores : Len(chan'[c]) <= Len(chan[c]),
           \A c \in Cores : ToLeave(c)' \subseteq ToLeave(c) /\ ToArrive(c)' \subseteq ToArrive(c)
    PROVE  Traffic'
<1> SUFFICES ASSUME NEW c \in Cores PROVE Len(chan'[Peer(c)]) + Owed(c)' <= ChanMax
  BY DEF Traffic
<1>1. Owed(c)' <= Owed(c) /\ Owed(c)' \in Nat /\ Owed(c) \in Nat
  BY OwesLess
<1>2. Peer(c) \in Cores /\ Len(chan[Peer(c)]) \in Nat /\ Len(chan'[Peer(c)]) \in Nat
  BY DEF Peer, Cores, MsgTypes
<1>3. Len(chan[Peer(c)]) + Owed(c) <= ChanMax
  BY DEF Traffic
<1>4. Len(chan'[Peer(c)]) <= Len(chan[Peer(c)])
  BY <1>2
<1> QED BY <1>1, <1>2, <1>3, <1>4, AddrAssumption

\* A step that posts one message for a core that owed it.
LEMMA TrafficPaid ==
    ASSUME EptInv, EptInv', MsgTypes, MsgTypes', Traffic, NEW c \in Cores, NEW e \in Epts,
           NEW m \in Msgs, Post(c, m),
           \A d \in Cores : ToLeave(d)' \subseteq ToLeave(d) /\ ToArrive(d)' \subseteq ToArrive(d),
           \/ e \in ToLeave(c) /\ e \notin ToLeave(c)'
           \/ e \in ToArrive(c) /\ e \notin ToArrive(c)'
    PROVE  Traffic'
<1> SUFFICES ASSUME NEW d \in Cores PROVE Len(chan'[Peer(d)]) + Owed(d)' <= ChanMax
  BY DEF Traffic
<1>1. Len(chan[Peer(d)]) + Owed(d) <= ChanMax /\ Len(chan[Peer(d)]) \in Nat /\ Peer(d) \in Cores
  BY DEF Traffic, MsgTypes, Peer, Cores
<1>2. CASE d = c
  <2>1. Len(chan'[Peer(d)]) = Len(chan[Peer(d)]) + 1
    BY <1>2, Posted DEF MsgTypes
  <2>2. Owed(d)' + 1 <= Owed(d) /\ Owed(d)' \in Nat /\ Owed(d) \in Nat
    BY <1>2, OwesOneLess
  <2> QED BY <1>1, <2>1, <2>2, AddrAssumption
<1>3. CASE d # c
  <2>1. Peer(d) # Peer(c)
    BY <1>3 DEF Peer, Cores
  <2>2. chan'[Peer(d)] = chan[Peer(d)]
    BY <1>1, <2>1, Posted DEF MsgTypes
  <2>3. Owed(d)' <= Owed(d) /\ Owed(d)' \in Nat /\ Owed(d) \in Nat
    BY OwesLess
  <2> QED BY <1>1, <2>2, <2>3, AddrAssumption
<1> QED BY <1>2, <1>3

\* A call that goes from one stage to the next owes the less.
LEMMA StageOwes ==
    ASSUME EptInv, NEW t \in Contexts, ept[t] \in Epts,
           \A u \in Contexts : u # t => op'[u] = op[u] /\ ept'[u] = ept[u],
           \/ op'[t] = "unregister" /\ ept'[t] = ept[t] /\ rdev' = rdev
           \/ op'[t] = "idle" /\ ept'[t] = NoEpt
              /\ rdev' = IF op[t] = "unregister" THEN [rdev EXCEPT ![ept[t]] = FALSE] ELSE rdev
    PROVE  /\ \A d \in Cores : ToLeave(d)' \subseteq ToLeave(d) /\ ToArrive(d)' \subseteq ToArrive(d)
           /\ \A d \in Cores : ept[t] \notin ToArrive(d)'
           /\ op'[t] = "unregister" => \A d \in Cores : ept[t] \notin ToLeave(d)'
<1>1. \A u \in Contexts : ept[u] = ept[t] => u = t
  BY DEF EptInv, CallsInv
<1>2. \A f \in Epts : Arriving(f)' => Arriving(f) /\ f # ept[t]
  BY <1>1, EptAssumption DEF Arriving
<1>3. ASSUME NEW f \in Epts, rdev'[f], ~Leaving(f)' PROVE rdev[f] /\ ~Leaving(f)
  <2>1. rdev[f] /\ (op[t] = "unregister" /\ op'[t] = "idle" => f # ept[t])
    BY <1>3 DEF EptInv, AddrTypes
  <2>2. ASSUME NEW u \in Contexts, ept[u] = f, op[u] = "unregister" PROVE FALSE
    <3>1. CASE u # t
      BY <1>3, <2>2, <3>1 DEF Leaving
    <3>2. CASE u = t
      BY <1>3, <2>1, <2>2, <3>2 DEF Leaving
    <3> QED BY <3>1, <3>2
  <2> QED BY <2>1, <2>2 DEF Leaving
<1>4. op'[t] = "unregister" => Leaving(ept[t])' \/ ept'[t] # ept[t]
  BY DEF Leaving
<1>5. \A d \in Cores : ToLeave(d)' \subseteq ToLeave(d) /\ ToArrive(d)' \subseteq ToArrive(d)
  BY <1>2, <1>3 DEF ToLeave, ToArrive, Service
<1>6. \A d \in Cores : ept[t] \notin ToArrive(d)'
  BY <1>2 DEF ToArrive
<1>7. ASSUME op'[t] = "unregister" PROVE \A d \in Cores : ept[t] \notin ToLeave(d)'
  <2>1. ept'[t] = ept[t]
    BY <1>7
  <2>2. \A f : f = ept[t] => Leaving(f)'
    BY <1>7, <2>1 DEF Leaving
  <2> QED BY <2>2 DEF ToLeave
<1> QED BY <1>5, <1>6, <1>7

\* A new service comes in only where Room counted both its messages.
LEMMA CreateTraffic ==
    ASSUME EptInv, EptInv', MsgTypes, MsgTypes', Traffic,
           NEW t \in Contexts, NEW e \in Epts, NEW src \in Srcs[e], Create(t, e, src)
    PROVE  Traffic'
<1>1. t[2] \in Cores /\ Home[e] = t[2] /\ op[t] = "idle"
  BY DEF Contexts, Create, MayCall
<1>2. /\ op' = [op EXCEPT ![t] = "announce"] /\ ept' = [ept EXCEPT ![t] = e]
      /\ rdev' = [rdev EXCEPT ![e] = TRUE] /\ chan' = chan
      /\ Name[e] # NoName => Room(t[2], 2)
  BY DEF Create, Enter
<1>3. \A f \in Epts : Arriving(f)' => f = e \/ Arriving(f)
  BY <1>2 DEF Arriving, EptInv, AddrTypes
<1>4. \A f \in Epts : Leaving(f) => Leaving(f)'
  BY <1>1, <1>2 DEF Leaving, EptInv, AddrTypes
<1>5. \A f \in Epts : rdev'[f] => f = e \/ rdev[f]
  BY <1>2 DEF EptInv, AddrTypes
<1>6. \A d \in Cores : ToLeave(d)' \subseteq ToLeave(d) \cup {e} /\ ToArrive(d)' \subseteq ToArrive(d) \cup {e}
  BY <1>3, <1>4, <1>5 DEF ToLeave, ToArrive, Service
<1>7. CASE Name[e] = NoName
  <2>1. \A d \in Cores : e \notin ToLeave(d)' /\ e \notin ToArrive(d)'
    BY <1>7 DEF ToLeave, ToArrive, Service
  <2>2. \A d \in Cores : ToLeave(d)' \subseteq ToLeave(d) /\ ToArrive(d)' \subseteq ToArrive(d)
    BY <1>6, <2>1
  <2>3. \A d \in Cores : Len(chan'[d]) <= Len(chan[d])
    BY <1>2 DEF MsgTypes
  <2> QED BY <2>2, <2>3, TrafficQuiet
<1>8. CASE Name[e] # NoName
  <2> SUFFICES ASSUME NEW d \in Cores PROVE Len(chan'[Peer(d)]) + Owed(d)' <= ChanMax
    BY DEF Traffic
  <2>1. Peer(d) \in Cores /\ Len(chan[Peer(d)]) \in Nat
    BY DEF Peer, Cores, MsgTypes
  <2>2. CASE d = t[2]
    <3>1. Len(chan[Peer(d)]) + 2 * Cardinality(InUse(d)) + 2 <= ChanMax
      BY <1>2, <1>8, <2>2 DEF Room
    <3>2. /\ ToLeave(d) \in SUBSET Epts /\ ToArrive(d) \in SUBSET Epts
          /\ ToLeave(d)' \in SUBSET Epts /\ ToArrive(d)' \in SUBSET Epts
          /\ ToLeave(d) \cup {e} \in SUBSET Epts /\ ToArrive(d) \cup {e} \in SUBSET Epts
      BY DEF ToLeave, ToArrive
    <3>3. /\ Cardinality(ToLeave(d)') <= Cardinality(ToLeave(d) \cup {e})
          /\ Cardinality(ToArrive(d)') <= Cardinality(ToArrive(d) \cup {e})
      BY <1>6, <3>2, Sizes
    <3>4. /\ Cardinality(ToLeave(d) \cup {e}) <= Cardinality(ToLeave(d)) + 1
          /\ Cardinality(ToArrive(d) \cup {e}) <= Cardinality(ToArrive(d)) + 1
      BY <3>2, Sizes
    <3>5. /\ Cardinality(ToLeave(d)) \in Nat /\ Cardinality(ToLeave(d)') \in Nat
          /\ Cardinality(ToArrive(d)) \in Nat /\ Cardinality(ToArrive(d)') \in Nat
          /\ Cardinality(ToLeave(d) \cup {e}) \in Nat /\ Cardinality(ToArrive(d) \cup {e}) \in Nat
      BY <3>2, Sizes
    <3>6. Owed(d)' <= Owed(d) + 2 /\ Owed(d) \in Nat /\ Owed(d)' \in Nat
      BY <3>3, <3>4, <3>5 DEF Owed
    <3>7. Owed(d) <= 2 * Cardinality(InUse(d)) /\ Cardinality(InUse(d)) \in Nat
      BY OwedFits
    <3> QED BY <1>2, <2>1, <3>1, <3>6, <3>7, AddrAssumption
  <2>3. CASE d # t[2]
    <3>1. e \notin ToLeave(d)' /\ e \notin ToArrive(d)'
      BY <1>1, <2>3 DEF ToLeave, ToArrive, Service
    <3>2. ToLeave(d)' \subseteq ToLeave(d) /\ ToArrive(d)' \subseteq ToArrive(d)
      BY <1>6, <3>1
    <3>3. Owed(d)' <= Owed(d) /\ Owed(d)' \in Nat /\ Owed(d) \in Nat
      BY <3>2, OwesLess
    <3>4. Len(chan[Peer(d)]) + Owed(d) <= ChanMax
      BY DEF Traffic
    <3> QED BY <1>2, <2>1, <3>3, <3>4, AddrAssumption
  <2> QED BY <2>2, <2>3
<1> QED BY <1>7, <1>8

\* Data is sent only where there is room besides what the services owe.
LEMMA SendTraffic ==
    ASSUME EptInv, EptInv', MsgTypes, MsgTypes', Traffic,
           NEW t \in Contexts, NEW e \in Epts, SendData(t, e)
    PROVE  Traffic'
<1>1. /\ t[2] \in Cores /\ Room(t[2], 1) /\ Post(t[2], Data(addr[e], dest[e]))
      /\ UNCHANGED <<rdev, op, ept>>
  BY DEF Contexts, SendData, eptVars, opVars
<1>2. Data(addr[e], dest[e]) \in Msgs
  BY DEF Data, Msgs, DataMsgs, EptInv, AddrTypes, MsgTypes
<1>3. \A d \in Cores : ToLeave(d)' = ToLeave(d) /\ ToArrive(d)' = ToArrive(d)
  BY <1>1 DEF ToLeave, ToArrive, Leaving, Arriving, Service
<1> SUFFICES ASSUME NEW d \in Cores PROVE Len(chan'[Peer(d)]) + Owed(d)' <= ChanMax
  BY DEF Traffic
<1>4. Owed(d)' = Owed(d) /\ Owed(d) \in Nat
  BY <1>3, OwedFits DEF Owed
<1>5. /\ Peer(d) \in Cores /\ Len(chan[Peer(d)]) \in Nat
      /\ Len(chan[Peer(d)]) + Owed(d) <= ChanMax
  BY DEF Peer, Cores, MsgTypes, Traffic
<1>6. CASE d = t[2]
  <2>1. Len(chan'[Peer(d)]) = Len(chan[Peer(d)]) + 1
    BY <1>1, <1>2, <1>6, Posted DEF MsgTypes
  <2>2. Len(chan[Peer(d)]) + 2 * Cardinality(InUse(d)) + 1 <= ChanMax
    BY <1>1, <1>6 DEF Room
  <2>3. Owed(d) <= 2 * Cardinality(InUse(d)) /\ Cardinality(InUse(d)) \in Nat
    BY OwedFits
  <2> QED BY <1>4, <1>5, <2>1, <2>2, <2>3, AddrAssumption
<1>7. CASE d # t[2]
  <2>1. Peer(d) # Peer(t[2])
    BY <1>1, <1>7 DEF Peer, Cores
  <2>2. chan'[Peer(d)] = chan[Peer(d)]
    BY <1>1, <1>2, <1>5, <2>1, Posted DEF MsgTypes
  <2> QED BY <1>4, <1>5, <2>2
<1> QED BY <1>6, <1>7

\* Every step leaves room for the messages still owed.
LEMMA TrafficStep ==
    EptInv /\ EptInv' /\ MsgTypes /\ MsgTypes' /\ Traffic /\ [Next]_vars => Traffic'
<1> SUFFICES ASSUME EptInv, EptInv', MsgTypes, MsgTypes', Traffic, [Next]_vars PROVE Traffic'
  OBVIOUS
<1>a. addr \in [Epts -> Addrs] /\ op \in [Contexts -> {"idle", "announce", "farewell", "unregister"}]
      /\ ept \in [Contexts -> Epts \cup {NoEpt}]
  BY DEF EptInv, AddrTypes
<1>e. ASSUME NEW t \in Contexts, op[t] # "idle"
      PROVE  /\ ept[t] \in Epts /\ t[2] \in Cores /\ rdev[ept[t]] /\ Home[ept[t]] = t[2]
             /\ \A u \in Contexts : ept[u] = ept[t] => u = t
  BY <1>e, <1>a DEF EptInv, CallsInv, Contexts
<1>q. ASSUME chan' = chan PROVE \A d \in Cores : Len(chan'[d]) <= Len(chan[d])
  BY <1>q DEF MsgTypes
<1>s. ASSUME UNCHANGED <<rdev, op, ept>>
      PROVE  \A d \in Cores : ToLeave(d)' \subseteq ToLeave(d) /\ ToArrive(d)' \subseteq ToArrive(d)
  BY <1>s DEF ToLeave, ToArrive, Leaving, Arriving, Service
<1>1. ASSUME NEW t \in Contexts, NEW e \in Epts, NEW src \in Srcs[e], Create(t, e, src)
      PROVE  Traffic'
  BY <1>1, CreateTraffic
<1>2. ASSUME NEW t \in Contexts, NEW e \in Epts, SendData(t, e) PROVE Traffic'
  BY <1>2, SendTraffic
<1>3. ASSUME NEW t \in Contexts, NEW e \in Epts, Destroy(t, e) PROVE Traffic'
  <2>1. /\ op[t] = "idle" /\ op' = [op EXCEPT ![t] = "farewell"]
        /\ ept' = [ept EXCEPT ![t] = e] /\ UNCHANGED <<rdev, chan>>
    BY <1>3 DEF Destroy, MayCall, Enter, eptVars
  <2>2. \A f \in Epts : (Arriving(f)' => Arriving(f)) /\ (Leaving(f) => Leaving(f)')
    BY <1>a, <2>1 DEF Arriving, Leaving
  <2>3. \A d \in Cores : ToLeave(d)' \subseteq ToLeave(d) /\ ToArrive(d)' \subseteq ToArrive(d)
    BY <2>1, <2>2 DEF ToLeave, ToArrive, Service
  <2> QED BY <1>q, <2>1, <2>3, TrafficQuiet
<1>4. ASSUME NEW t \in Contexts, CreateDone(t) PROVE Traffic'
  <2>1. op[t] = "announce" /\ UNCHANGED rdev
        /\ op' = [op EXCEPT ![t] = "idle"] /\ ept' = [ept EXCEPT ![t] = NoEpt]
    BY <1>4 DEF CreateDone, Stage, Leave, Enter, eptVars
  <2>2. ept[t] \in Epts /\ t[2] \in Cores /\ Home[ept[t]] = t[2]
    BY <1>e, <2>1
  <2>3. /\ \A d \in Cores : ToLeave(d)' \subseteq ToLeave(d) /\ ToArrive(d)' \subseteq ToArrive(d)
        /\ \A d \in Cores : ept[t] \notin ToArrive(d)'
    BY <1>a, <2>1, <2>2, StageOwes
  <2>4. CASE MustAnnounce(ept[t])
    <3>1. Post(t[2], NsMsg("create", Name[ept[t]], addr[ept[t]]))
      BY <1>4, <2>4 DEF CreateDone
    <3>2. NsMsg("create", Name[ept[t]], addr[ept[t]]) \in Msgs
      BY <1>a, <2>2 DEF NsMsg, Msgs, NsMsgs
    <3>3. ept[t] \in ToArrive(t[2])
      BY <2>1, <2>2, <2>4 DEF ToArrive, Arriving, Service, MustAnnounce
    <3> QED BY <2>2, <2>3, <3>1, <3>2, <3>3, TrafficPaid
  <2>5. CASE ~MustAnnounce(ept[t])
    <3>1. chan' = chan
      BY <1>4, <2>5 DEF CreateDone
    <3> QED BY <1>q, <2>3, <3>1, TrafficQuiet
  <2> QED BY <2>4, <2>5
<1>5. ASSUME NEW t \in Contexts, CreateFailed(t) PROVE Traffic'
  <2>1. op[t] # "idle" /\ UNCHANGED <<rdev, chan>>
        /\ op' = [op EXCEPT ![t] = "unregister"] /\ ept' = [ept EXCEPT ![t] = ept[t]]
    BY <1>5 DEF CreateFailed, Stage, Enter, eptVars
  <2>2. ept[t] \in Epts
    BY <1>e, <2>1
  <2>3. \A d \in Cores : ToLeave(d)' \subseteq ToLeave(d) /\ ToArrive(d)' \subseteq ToArrive(d)
    BY <1>a, <2>1, <2>2, StageOwes
  <2> QED BY <1>q, <2>1, <2>3, TrafficQuiet
<1>6. ASSUME NEW t \in Contexts, Farewell(t) PROVE Traffic'
  <2>1. op[t] = "farewell" /\ UNCHANGED rdev
        /\ op' = [op EXCEPT ![t] = "unregister"] /\ ept' = [ept EXCEPT ![t] = ept[t]]
    BY <1>6 DEF Farewell, Stage, Enter, eptVars
  <2>2. /\ ept[t] \in Epts /\ t[2] \in Cores /\ Home[ept[t]] = t[2] /\ rdev[ept[t]]
        /\ \A u \in Contexts : ept[u] = ept[t] => u = t
    BY <1>e, <2>1
  <2>3. /\ \A d \in Cores : ToLeave(d)' \subseteq ToLeave(d) /\ ToArrive(d)' \subseteq ToArrive(d)
        /\ \A d \in Cores : ept[t] \notin ToLeave(d)'
    BY <1>a, <2>1, <2>2, StageOwes
  <2>4. CASE MustSayFarewell(ept[t]) /\ Post(t[2], NsMsg("destroy", Name[ept[t]], addr[ept[t]]))
    <3>1. NsMsg("destroy", Name[ept[t]], addr[ept[t]]) \in Msgs
      BY <1>a, <2>2 DEF NsMsg, Msgs, NsMsgs
    <3>2. ept[t] \in ToLeave(t[2])
      BY <2>1, <2>2, <2>4 DEF ToLeave, Leaving, Service, MustSayFarewell
    <3> QED BY <2>2, <2>3, <2>4, <3>1, <3>2, TrafficPaid
  <2>5. CASE chan' = chan
    BY <1>q, <2>3, <2>5, TrafficQuiet
  <2> QED BY <1>6, <2>4, <2>5 DEF Farewell
<1>7. ASSUME NEW t \in Contexts, Unregister(t) PROVE Traffic'
  <2>1. /\ op[t] = "unregister" /\ chan' = chan /\ rdev' = [rdev EXCEPT ![ept[t]] = FALSE]
        /\ op' = [op EXCEPT ![t] = "idle"] /\ ept' = [ept EXCEPT ![t] = NoEpt]
    BY <1>7 DEF Unregister, Stage, Leave, Enter
  <2>2. ept[t] \in Epts
    BY <1>e, <2>1
  <2>3. \A d \in Cores : ToLeave(d)' \subseteq ToLeave(d) /\ ToArrive(d)' \subseteq ToArrive(d)
    BY <1>a, <2>1, <2>2, StageOwes
  <2> QED BY <1>q, <2>1, <2>3, TrafficQuiet
<1>8. ASSUME NEW c \in Cores, RxTake(c) PROVE Traffic'
  <2>1. /\ chan[c] # <<>> /\ chan' = [chan EXCEPT ![c] = Tail(@)]
        /\ UNCHANGED <<rdev, op, ept>>
    BY <1>8 DEF RxTake, eptVars, opVars
  <2>2. \A d \in Cores : Len(chan'[d]) <= Len(chan[d])
    BY <2>1 DEF MsgTypes
  <2> QED BY <1>s, <2>1, <2>2, TrafficQuiet
<1>9. ASSUME UNCHANGED <<chan, rdev, op, ept>> PROVE Traffic'
  BY <1>9, <1>q, <1>s, TrafficQuiet
<1>10. ASSUME NEW c \in Cores, RxData(c) \/ NsCreate(c) \/ NsDestroy(c) \/ RxReturn(c)
       PROVE  Traffic'
  BY <1>9, <1>10 DEF RxData, NsCreate, NsDestroy, RxReturn, eptVars, opVars
<1>11. CASE UNCHANGED vars
  BY <1>9, <1>11 DEF vars, eptVars, opVars
<1> QED BY <1>1, <1>2, <1>3, <1>4, <1>5, <1>6, <1>7, <1>8, <1>10, <1>11 DEF Next

\* The three invariants give every variable its type and the channel its bound.
LEMMA TypesFollow == EptInv /\ MsgTypes /\ Traffic => TypeOK
<1> SUFFICES ASSUME EptInv, MsgTypes, Traffic PROVE TypeOK
  OBVIOUS
<1>1. ASSUME NEW c \in Cores PROVE Len(chan[c]) <= ChanMax
  <2>1. Peer(c) \in Cores /\ c = Peer(Peer(c)) /\ Len(chan[c]) \in Nat
    BY DEF Peer, Cores, MsgTypes
  <2>2. Len(chan[c]) + Owed(Peer(c)) <= ChanMax
    BY <2>1 DEF Traffic
  <2>3. Owed(Peer(c)) \in Nat
    BY <2>1, OwedFits
  <2> QED BY <2>1, <2>2, <2>3, AddrAssumption
<1> QED BY <1>1 DEF EptInv, AddrTypes, MsgTypes, TypeOK

\* For any endpoints: every address an endpoint has or is bound to is a
\* reserved one or one the bitmap has a bit for, and the messages under way,
\* the announcements still owed included, keep within the channel.
THEOREM EndpointsTyped == Spec => []TypeOK
<1>1. Init => EptInv /\ MsgTypes /\ Traffic
  BY EptInit, MsgInit, TrafficInit
<1>2. EptInv /\ MsgTypes /\ Traffic /\ [Next]_vars => EptInv' /\ MsgTypes' /\ Traffic'
  BY EptStep, MsgStep, TrafficStep
<1>3. EptInv /\ MsgTypes /\ Traffic => TypeOK
  BY TypesFollow
<1> QED BY <1>1, <1>2, <1>3, PTL DEF Spec

(***************************************************************************)
(* The name service. A farewell of f ends all that its core has said about *)
(* f before: what binds an endpoint to an address of f, a destination set, *)
(* an announcement or data under way, is either about f as it is now, and  *)
(* no farewell follows, or the next farewell that follows is for it.       *)
(***************************************************************************)
\* In a queue of messages: a farewell of service n at j; the first one behind i
\* is for address b; there is none behind i.
Bye(q, n, j) == q[j].kind = "destroy" /\ q[j].name = n
Told(q, n, i, b) ==
    \E j \in (i + 1)..Len(q) : /\ Bye(q, n, j) /\ q[j].addr = b
                               /\ \A k \in (i + 1)..Len(q) : Bye(q, n, k) => j <= k
Silent(q, n, i) == \A k \in (i + 1)..Len(q) : ~Bye(q, n, k)

\* A message at the end that is no farewell of n changes neither.
LEMMA ToldAppend ==
    ASSUME NEW q \in Seq(Msgs), NEW m \in Msgs, NEW n, NEW i \in Nat, i <= Len(q),
           ~(m.kind = "destroy" /\ m.name = n)
    PROVE  /\ \A b : Told(q, n, i, b) => Told(Append(q, m), n, i, b)
           /\ Silent(q, n, i) => Silent(Append(q, m), n, i)
<1> DEFINE r == Append(q, m)
<1>1. /\ Len(r) = Len(q) + 1 /\ Len(q) \in Nat
      /\ \A k \in 1..Len(q) : r[k] = q[k]
      /\ r[Len(q) + 1] = m
  OBVIOUS
<1> HIDE DEF r
<1>2. \A k \in (i + 1)..Len(r) : Bye(r, n, k) <=> k \in (i + 1)..Len(q) /\ Bye(q, n, k)
  BY <1>1 DEF Bye
<1>3. \A k \in (i + 1)..Len(q) : k \in (i + 1)..Len(r) /\ r[k] = q[k]
  BY <1>1
<1>4. ASSUME NEW b, Told(q, n, i, b) PROVE Told(r, n, i, b)
  <2>1. PICK j \in (i + 1)..Len(q) : /\ Bye(q, n, j) /\ q[j].addr = b
                                     /\ \A k \in (i + 1)..Len(q) : Bye(q, n, k) => j <= k
    BY <1>4 DEF Told
  <2> QED BY <1>2, <1>3, <2>1 DEF Told
<1>5. Silent(q, n, i) => Silent(r, n, i)
  BY <1>2 DEF Silent
<1> QED BY <1>4, <1>5 DEF r

\* A farewell at the end is the first one where there was none.
LEMMA ToldFarewell ==
    ASSUME NEW q \in Seq(Msgs), NEW m \in Msgs, NEW n, NEW i \in Nat, i <= Len(q),
           m.kind = "destroy", m.name = n
    PROVE  /\ \A b : Told(q, n, i, b) => Told(Append(q, m), n, i, b)
           /\ Silent(q, n, i) => Told(Append(q, m), n, i, m.addr)
<1> DEFINE r == Append(q, m)
<1>1. /\ Len(r) = Len(q) + 1 /\ Len(q) \in Nat
      /\ \A k \in 1..Len(q) : r[k] = q[k]
      /\ r[Len(q) + 1] = m
  OBVIOUS
<1> HIDE DEF r
<1>2. /\ \A k \in (i + 1)..Len(r) : k \in (i + 1)..Len(q) \/ k = Len(q) + 1
      /\ \A k \in (i + 1)..Len(q) : k \in (i + 1)..Len(r) /\ r[k] = q[k] /\ k <= Len(q) + 1
      /\ Len(q) + 1 \in (i + 1)..Len(r)
  BY <1>1
<1>3. ASSUME NEW b, Told(q, n, i, b) PROVE Told(r, n, i, b)
  <2>1. PICK j \in (i + 1)..Len(q) : /\ Bye(q, n, j) /\ q[j].addr = b
                                     /\ \A k \in (i + 1)..Len(q) : Bye(q, n, k) => j <= k
    BY <1>3 DEF Told
  <2>2. \A k \in (i + 1)..Len(r) : Bye(r, n, k) => j <= k
    BY <1>2, <2>1 DEF Bye
  <2> QED BY <1>2, <2>1, <2>2 DEF Told, Bye
<1>4. Silent(q, n, i) => Told(r, n, i, m.addr)
  <2> SUFFICES ASSUME Silent(q, n, i) PROVE Told(r, n, i, m.addr)
    OBVIOUS
  <2>1. \A k \in (i + 1)..Len(r) : Bye(r, n, k) => Len(q) + 1 <= k
    BY <1>1, <1>2 DEF Silent, Bye
  <2> QED BY <1>1, <1>2, <2>1 DEF Told, Bye
<1> QED BY <1>3, <1>4 DEF r

\* Taking the first message moves all others by one.
LEMMA ToldTail ==
    ASSUME NEW q \in Seq(Msgs), q # <<>>, NEW n, NEW i \in Nat, 1 <= i, i <= Len(q)
    PROVE  /\ \A b : Told(q, n, i, b) => Told(Tail(q), n, i - 1, b)
           /\ Silent(q, n, i) => Silent(Tail(q), n, i - 1)
<1> DEFINE r == Tail(q)
<1>1. /\ Len(r) = Len(q) - 1 /\ Len(q) \in Nat \ {0}
      /\ \A k \in 1..Len(r) : r[k] = q[k + 1]
  OBVIOUS
<1> HIDE DEF r
<1>2. \A k \in ((i - 1) + 1)..Len(r) : k + 1 \in (i + 1)..Len(q) /\ r[k] = q[k + 1]
  BY <1>1
<1>3. \A k \in (i + 1)..Len(q) : k - 1 \in ((i - 1) + 1)..Len(r) /\ r[k - 1] = q[k]
  BY <1>1
<1>4. ASSUME NEW b, Told(q, n, i, b) PROVE Told(r, n, i - 1, b)
  <2>1. PICK j \in (i + 1)..Len(q) : /\ Bye(q, n, j) /\ q[j].addr = b
                                     /\ \A k \in (i + 1)..Len(q) : Bye(q, n, k) => j <= k
    BY <1>4 DEF Told
  <2>2. \A k \in ((i - 1) + 1)..Len(r) : Bye(r, n, k) => j - 1 <= k
    BY <1>2, <2>1 DEF Bye
  <2> QED BY <1>3, <2>1, <2>2 DEF Told, Bye
<1>5. Silent(q, n, i) => Silent(r, n, i - 1)
  BY <1>2 DEF Silent, Bye
<1> QED BY <1>4, <1>5 DEF r

\* What the first message of a queue says of the farewells in it.
LEMMA ToldFront ==
    ASSUME NEW q \in Seq(Msgs), q # <<>>, NEW n
    PROVE  /\ Bye(q, n, 1) => ~Silent(q, n, 0) /\ \A b : Told(q, n, 0, b) => q[1].addr = b
           /\ ~Bye(q, n, 1) => /\ Silent(q, n, 0) <=> Silent(q, n, 1)
                               /\ \A b : Told(q, n, 0, b) <=> Told(q, n, 1, b)
<1>1. /\ Len(q) \in Nat \ {0} /\ 1 \in (0 + 1)..Len(q)
      /\ \A k \in (0 + 1)..Len(q) : k = 1 \/ k \in (1 + 1)..Len(q)
      /\ \A k \in (1 + 1)..Len(q) : k \in (0 + 1)..Len(q)
  OBVIOUS
<1>2. Bye(q, n, 1) => ~Silent(q, n, 0)
  BY <1>1 DEF Silent
<1>3. ASSUME NEW b, Bye(q, n, 1), Told(q, n, 0, b) PROVE q[1].addr = b
  <2>1. PICK j \in (0 + 1)..Len(q) : /\ Bye(q, n, j) /\ q[j].addr = b
                                     /\ \A k \in (0 + 1)..Len(q) : Bye(q, n, k) => j <= k
    BY <1>3 DEF Told
  <2>2. j <= 1
    BY <1>1, <1>3, <2>1
  <2> QED BY <2>1, <2>2
<1>4. ~Bye(q, n, 1) => (Silent(q, n, 0) <=> Silent(q, n, 1))
  BY <1>1 DEF Silent
<1>5. ASSUME NEW b, ~Bye(q, n, 1) PROVE Told(q, n, 0, b) <=> Told(q, n, 1, b)
  <2>1. ASSUME Told(q, n, 0, b) PROVE Told(q, n, 1, b)
    <3>1. PICK j \in (0 + 1)..Len(q) : /\ Bye(q, n, j) /\ q[j].addr = b
                                       /\ \A k \in (0 + 1)..Len(q) : Bye(q, n, k) => j <= k
      BY <2>1 DEF Told
    <3>2. j \in (1 + 1)..Len(q)
      BY <1>1, <1>5, <3>1
    <3> QED BY <1>1, <3>1, <3>2 DEF Told
  <2>2. ASSUME Told(q, n, 1, b) PROVE Told(q, n, 0, b)
    <3>1. PICK j \in (1 + 1)..Len(q) : /\ Bye(q, n, j) /\ q[j].addr = b
                                       /\ \A k \in (1 + 1)..Len(q) : Bye(q, n, k) => j <= k
      BY <2>2 DEF Told
    <3>2. \A k \in (0 + 1)..Len(q) : Bye(q, n, k) => j <= k
      BY <1>1, <1>5, <3>1
    <3> QED BY <1>1, <3>1, <3>2 DEF Told
  <2> QED BY <2>1, <2>2
<1> QED BY <1>2, <1>3, <1>4, <1>5

(***************************************************************************)
(* Pairs of endpoints of one service, and what a queue may say about them. *)
(* F is a set of pairs of a service's endpoint and its address.            *)
(***************************************************************************)
Pair(e, f) == Name[e] # NoName /\ Name[f] = Name[e] /\ Home[f] = Peer(Home[e])
Covered(q, F, f, i, b) == Told(q, Name[f], i, b) \/ (Silent(q, Name[f], i) /\ <<f, b>> \in F)

\* Message i of a queue to core c is from a service of the peer, or its endpoint
\* to the other endpoint of the service; what may bind somebody is covered.
Sound(c, q, F, i) ==
    \E f \in Epts :
      /\ Home[f] = Peer(c) /\ Name[f] # NoName
      /\ \/ /\ q[i].kind = "data"
            /\ \E e \in Epts : Pair(f, e) /\ q[i].dst \in MayGet(e)
            /\ q[i].src \in MayGet(f) /\ Covered(q, F, f, i, q[i].src)
         \/ /\ q[i].kind \in {"create", "destroy"}
            /\ q[i].name = Name[f] /\ q[i].addr \in MayGet(f)
            /\ q[i].kind = "create" => Covered(q, F, f, i, q[i].addr)
AllSound(c, q, F) == \A i \in 1..Len(q) : Sound(c, q, F, i)

\* An endpoint bound to b has the other endpoint of its service to say farewell.
Bound(q, F, e, b) == \E f \in Epts : Pair(e, f) /\ b \in MayGet(f) /\ Covered(q, F, f, 0, b)

\* There are two cores.
LEMMA PeerFacts == \A c \in Cores : Peer(c) \in Cores /\ Peer(Peer(c)) = c /\ Peer(c) # c
BY DEF Peer, Cores

\* A core has one endpoint of a service.
LEMMA OneOfService ==
    ASSUME ServicesApart, NEW e \in Epts, NEW f \in Epts,
           Home[e] = Home[f], Name[e] = Name[f], Name[e] # NoName
    PROVE  e = f
BY DEF ServicesApart, Rivals

\* The two endpoints of a service are each other's pair.
LEMMA PairFacts ==
    ASSUME NEW e \in Epts, NEW f \in Epts, Pair(e, f)
    PROVE  Pair(f, e) /\ Home[e] = Peer(Home[f]) /\ Name[f] # NoName
BY PeerFacts, EptAssumption DEF Pair

\* More services on the other core cover more.
LEMMA CoverMore ==
    ASSUME NEW q, NEW F, NEW G, NEW f, NEW i, NEW b, Covered(q, F, f, i, b),
           <<f, b>> \in F => <<f, b>> \in G
    PROVE  Covered(q, G, f, i, b)
BY DEF Covered

\* What a queue says stays covered when more services stand.
LEMMA SoundMore ==
    ASSUME NEW c, NEW q, NEW F, NEW G, AllSound(c, q, F),
           \A f \in Epts : \A b : Home[f] = Peer(c) /\ <<f, b>> \in F => <<f, b>> \in G
    PROVE  AllSound(c, q, G)
<1> SUFFICES ASSUME NEW i \in 1..Len(q) PROVE Sound(c, q, G, i)
  BY DEF AllSound
<1>1. Sound(c, q, F, i)
  BY DEF AllSound
<1>2. \A f \in Epts : \A b : Home[f] = Peer(c) /\ Covered(q, F, f, i, b) => Covered(q, G, f, i, b)
  BY CoverMore
<1> QED BY <1>1, <1>2 DEF Sound

\* So does a binding.
LEMMA BoundMore ==
    ASSUME NEW q, NEW F, NEW G, NEW e \in Epts, NEW b, Bound(q, F, e, b),
           \A f \in Epts : Pair(e, f) /\ <<f, b>> \in F => <<f, b>> \in G
    PROVE  Bound(q, G, e, b)
<1>1. \A f \in Epts : Pair(e, f) /\ Covered(q, F, f, 0, b) => Covered(q, G, f, 0, b)
  BY CoverMore
<1> QED BY <1>1 DEF Bound

\* Once the first message is gone the others are still covered.
LEMMA SoundTail ==
    ASSUME NEW c, NEW q \in Seq(Msgs), q # <<>>, NEW F, AllSound(c, q, F)
    PROVE  AllSound(c, Tail(q), F)
<1> DEFINE r == Tail(q)
<1>1. /\ Len(r) = Len(q) - 1 /\ Len(q) \in Nat \ {0}
      /\ \A k \in 1..Len(r) : r[k] = q[k + 1]
  OBVIOUS
<1> SUFFICES ASSUME NEW i \in 1..Len(r) PROVE Sound(c, r, F, i)
  BY DEF AllSound
<1>2. i + 1 \in Nat /\ 1 <= i + 1 /\ i + 1 <= Len(q) /\ (i + 1) - 1 = i /\ i + 1 \in 1..Len(q)
  BY <1>1
<1>3. \A n, b : /\ Told(q, n, i + 1, b) => Told(r, n, i, b)
                /\ Silent(q, n, i + 1) => Silent(r, n, i)
  <2> SUFFICES ASSUME NEW n PROVE /\ \A b : Told(q, n, i + 1, b) => Told(r, n, i, b)
                                  /\ Silent(q, n, i + 1) => Silent(r, n, i)
    OBVIOUS
  <2> DEFINE k == i + 1
  <2>1. k \in Nat /\ 1 <= k /\ k <= Len(q) /\ k - 1 = i
    BY <1>2
  <2> HIDE DEF k
  <2>2. /\ \A b : Told(q, n, k, b) => Told(Tail(q), n, k - 1, b)
        /\ Silent(q, n, k) => Silent(Tail(q), n, k - 1)
    BY <2>1, ToldTail
  <2> QED BY <2>1, <2>2 DEF k
<1>4. \A f, b : Covered(q, F, f, i + 1, b) => Covered(r, F, f, i, b)
  BY <1>3 DEF Covered
<1>5. Sound(c, q, F, i + 1) /\ r[i] = q[i + 1]
  BY <1>1, <1>2 DEF AllSound
<1> HIDE DEF r
<1> QED BY <1>4, <1>5 DEF Sound

\* What a binding of another service needs stays in the queue.
LEMMA BoundTail ==
    ASSUME NEW q \in Seq(Msgs), q # <<>>, NEW F, NEW e \in Epts, NEW b, Bound(q, F, e, b),
           ~Bye(q, Name[e], 1)
    PROVE  Bound(Tail(q), F, e, b)
<1>1. PICK f \in Epts : Pair(e, f) /\ b \in MayGet(f) /\ Covered(q, F, f, 0, b)
  BY DEF Bound
<1>2. Name[f] = Name[e]
  BY <1>1 DEF Pair
<1>3. Covered(q, F, f, 1, b)
  BY <1>1, <1>2, ToldFront DEF Covered
<1>4. 1 \in Nat /\ 1 <= 1 /\ 1 <= Len(q) /\ 1 - 1 = 0
  OBVIOUS
<1>5. /\ \A x : Told(q, Name[f], 1, x) => Told(Tail(q), Name[f], 1 - 1, x)
      /\ Silent(q, Name[f], 1) => Silent(Tail(q), Name[f], 1 - 1)
  BY <1>4, ToldTail
<1>6. Covered(Tail(q), F, f, 0, b)
  BY <1>3, <1>4, <1>5 DEF Covered
<1> QED BY <1>1, <1>6 DEF Bound

\* The first message, announcement or data, binds an endpoint of its service.
LEMMA FrontBinds ==
    ASSUME ServicesApart, NEW c \in Cores, NEW q \in Seq(Msgs), q # <<>>, NEW F, AllSound(c, q, F),
           NEW e \in Epts, Home[e] = c, NEW b,
           \/ q[1].kind = "create" /\ q[1].name = Name[e] /\ b = q[1].addr
           \/ q[1].kind = "data" /\ q[1].dst \in MayGet(e) /\ b = q[1].src
    PROVE  Bound(q, F, e, b) /\ Bound(Tail(q), F, e, b)
<1>1. 1 \in 1..Len(q)
  OBVIOUS
<1>2. Sound(c, q, F, 1)
  BY <1>1 DEF AllSound
<1>3. PICK f \in Epts :
        /\ Home[f] = Peer(c) /\ Name[f] # NoName
        /\ \/ /\ q[1].kind = "data"
              /\ \E d \in Epts : Pair(f, d) /\ q[1].dst \in MayGet(d)
              /\ q[1].src \in MayGet(f) /\ Covered(q, F, f, 1, q[1].src)
           \/ /\ q[1].kind \in {"create", "destroy"}
              /\ q[1].name = Name[f] /\ q[1].addr \in MayGet(f)
              /\ q[1].kind = "create" => Covered(q, F, f, 1, q[1].addr)
  BY <1>2 DEF Sound
<1>4. Pair(e, f) /\ b \in MayGet(f) /\ Covered(q, F, f, 1, b)
  <2>1. CASE q[1].kind = "create" /\ q[1].name = Name[e] /\ b = q[1].addr
    BY <1>3, <2>1 DEF Pair
  <2>2. CASE q[1].kind = "data" /\ q[1].dst \in MayGet(e) /\ b = q[1].src
    <3>1. PICK d \in Epts : Pair(f, d) /\ q[1].dst \in MayGet(d)
      BY <1>3, <2>2
    <3>2. Home[d] = c /\ Name[d] # NoName
      BY <1>3, <3>1, PeerFacts DEF Pair
    <3>3. d = e
      BY <2>2, <3>1, <3>2 DEF ServicesApart, Rivals
    <3> QED BY <1>3, <2>2, <3>1, <3>3, PairFacts
  <2> QED BY <2>1, <2>2
<1>5. ~Bye(q, Name[f], 1)
  BY DEF Bye
<1>6. Covered(q, F, f, 0, b)
  BY <1>4, <1>5, ToldFront DEF Covered
<1>7. Bound(q, F, e, b)
  BY <1>4, <1>6 DEF Bound
<1>8. ~Bye(q, Name[e], 1)
  BY DEF Bye
<1> QED BY <1>7, <1>8, BoundTail

\* A farewell at the front is for the address its service is bound to.
LEMMA FrontUnbinds ==
    ASSUME NEW q \in Seq(Msgs), q # <<>>, NEW F, NEW e \in Epts, NEW b, Bound(q, F, e, b),
           Bye(q, Name[e], 1)
    PROVE  q[1].addr = b
<1>1. PICK f \in Epts : Pair(e, f) /\ Covered(q, F, f, 0, b)
  BY DEF Bound
<1>2. Name[f] = Name[e]
  BY <1>1 DEF Pair
<1> QED BY <1>1, <1>2, ToldFront DEF Covered

\* A new message that is covered itself and is no farewell.
LEMMA SoundAppend ==
    ASSUME NEW c, NEW q \in Seq(Msgs), NEW F, AllSound(c, q, F), NEW m \in Msgs,
           NEW f \in Epts, Home[f] = Peer(c), Name[f] # NoName,
           \/ /\ m.kind = "data" /\ (\E e \in Epts : Pair(f, e) /\ m.dst \in MayGet(e))
              /\ m.src \in MayGet(f) /\ <<f, m.src>> \in F
           \/ m.kind = "create" /\ m.name = Name[f] /\ m.addr \in MayGet(f) /\ <<f, m.addr>> \in F
    PROVE  /\ AllSound(c, Append(q, m), F)
           /\ \A e \in Epts : \A b : Bound(q, F, e, b) => Bound(Append(q, m), F, e, b)
<1> DEFINE r == Append(q, m)
<1>1. /\ Len(r) = Len(q) + 1 /\ Len(q) \in Nat
      /\ \A k \in 1..Len(q) : r[k] = q[k]
      /\ r[Len(q) + 1] = m
  OBVIOUS
<1>2. \A n, b : \A i \in Nat :
        /\ i <= Len(q) /\ Told(q, n, i, b) => Told(r, n, i, b)
        /\ i <= Len(q) /\ Silent(q, n, i) => Silent(r, n, i)
  BY ToldAppend
<1>3. \A g, b : \A i \in Nat : i <= Len(q) /\ Covered(q, F, g, i, b) => Covered(r, F, g, i, b)
  BY <1>2 DEF Covered
<1> HIDE DEF r
<1>4. \A n : Silent(r, n, Len(q) + 1)
  BY <1>1 DEF Silent
<1>5. Sound(c, r, F, Len(q) + 1)
  BY <1>1, <1>4 DEF Sound, Covered
<1>6. ASSUME NEW i \in 1..Len(q) PROVE Sound(c, r, F, i)
  <2>1. Sound(c, q, F, i) /\ r[i] = q[i] /\ i \in Nat /\ i <= Len(q)
    BY <1>1 DEF AllSound
  <2>2. \A g, b : Covered(q, F, g, i, b) => Covered(r, F, g, i, b)
    BY <1>3, <2>1
  <2> QED BY <2>1, <2>2 DEF Sound
<1>7. \A i \in 1..Len(r) : i \in 1..Len(q) \/ i = Len(q) + 1
  BY <1>1
<1>8. AllSound(c, r, F)
  BY <1>5, <1>6, <1>7 DEF AllSound
<1>9. \A e \in Epts : \A b : Bound(q, F, e, b) => Bound(r, F, e, b)
  BY <1>1, <1>3 DEF Bound
<1> QED BY <1>8, <1>9 DEF r

\* A farewell covers all that its service was covered for by being there.
LEMMA SoundFarewell ==
    ASSUME ServicesApart, NEW c \in Cores, NEW q \in Seq(Msgs), NEW F, AllSound(c, q, F),
           NEW m \in Msgs, NEW g \in Epts, Home[g] = Peer(c), Name[g] # NoName,
           m.kind = "destroy", m.name = Name[g], m.addr \in MayGet(g),
           \A b : <<g, b>> \in F => b = m.addr, NEW G,
           \A f \in Epts : \A b : f # g /\ <<f, b>> \in F => <<f, b>> \in G
    PROVE  /\ AllSound(c, Append(q, m), G)
           /\ \A e \in Epts : \A b : Home[e] = c /\ Bound(q, F, e, b) => Bound(Append(q, m), G, e, b)
<1> DEFINE r == Append(q, m)
<1>1. /\ Len(r) = Len(q) + 1 /\ Len(q) \in Nat
      /\ \A k \in 1..Len(q) : r[k] = q[k]
      /\ r[Len(q) + 1] = m
  OBVIOUS
<1>2. ASSUME NEW f \in Epts, NEW i \in Nat, NEW b, i <= Len(q), Home[f] = Peer(c), Name[f] # NoName,
             Covered(q, F, f, i, b)
      PROVE  Covered(r, G, f, i, b)
  <2>1. CASE f = g
    <3>1. /\ \A x : Told(q, Name[g], i, x) => Told(r, Name[g], i, x)
          /\ Silent(q, Name[g], i) => Told(r, Name[g], i, m.addr)
      BY <1>2, ToldFarewell
    <3> QED BY <1>2, <2>1, <3>1 DEF Covered
  <2>2. CASE f # g
    <3>1. Name[f] # m.name
      BY <1>2, <2>2, OneOfService
    <3>2. /\ \A x : Told(q, Name[f], i, x) => Told(r, Name[f], i, x)
          /\ Silent(q, Name[f], i) => Silent(r, Name[f], i)
      BY <1>2, <3>1, ToldAppend
    <3> QED BY <1>2, <2>2, <3>2 DEF Covered
  <2> QED BY <2>1, <2>2
<1> HIDE DEF r
<1>3. Sound(c, r, G, Len(q) + 1)
  BY <1>1 DEF Sound
<1>4. ASSUME NEW i \in 1..Len(q) PROVE Sound(c, r, G, i)
  <2>1. Sound(c, q, F, i) /\ r[i] = q[i] /\ i \in Nat /\ i <= Len(q)
    BY <1>1 DEF AllSound
  <2>2. \A f \in Epts : \A b : Home[f] = Peer(c) /\ Name[f] # NoName /\ Covered(q, F, f, i, b)
                             => Covered(r, G, f, i, b)
    BY <1>2, <2>1
  <2> QED BY <2>1, <2>2 DEF Sound
<1>5. \A i \in 1..Len(r) : i \in 1..Len(q) \/ i = Len(q) + 1
  BY <1>1
<1>6. AllSound(c, r, G)
  BY <1>3, <1>4, <1>5 DEF AllSound
<1>7. ASSUME NEW e \in Epts, NEW b, Home[e] = c, Bound(q, F, e, b) PROVE Bound(r, G, e, b)
  <2>1. PICK f \in Epts : Pair(e, f) /\ b \in MayGet(f) /\ Covered(q, F, f, 0, b)
    BY <1>7 DEF Bound
  <2>2. Home[f] = Peer(c) /\ Name[f] # NoName
    BY <1>7, <2>1 DEF Pair
  <2>3. Covered(r, G, f, 0, b)
    BY <1>1, <1>2, <2>1, <2>2
  <2> QED BY <2>1, <2>3 DEF Bound
<1> QED BY <1>6, <1>7 DEF r

(***************************************************************************)
(* The endpoint list: the registered endpoints of the core, each once.     *)
(***************************************************************************)
Listed(s, x) == \E i \in 1..Len(s) : s[i] = x
Distinct(s) == \A i, j \in 1..Len(s) : s[i] = s[j] => i = j
ListInv ==
    /\ \A c \in Cores : Distinct(list[c])
    /\ \A c \in Cores : \A e \in Epts : Listed(list[c], e) <=> rdev[e] /\ Home[e] = c

\* metal_list_add_tail.
LEMMA Linked ==
    ASSUME NEW s \in Seq(Epts), NEW e \in Epts, Distinct(s), ~Listed(s, e)
    PROVE  /\ Distinct(Append(s, e))
           /\ \A x : Listed(Append(s, e), x) <=> Listed(s, x) \/ x = e
<1> DEFINE r == Append(s, e)
<1>1. /\ Len(r) = Len(s) + 1 /\ Len(s) \in Nat
      /\ \A k \in 1..Len(s) : r[k] = s[k]
      /\ r[Len(s) + 1] = e
  OBVIOUS
<1> HIDE DEF r
<1>2. /\ \A k \in 1..Len(r) : k \in 1..Len(s) \/ k = Len(s) + 1
      /\ \A k \in 1..Len(s) : k \in 1..Len(r)
      /\ Len(s) + 1 \in 1..Len(r)
  BY <1>1
<1>3. Distinct(r)
  BY <1>1, <1>2 DEF Distinct, Listed
<1>4. \A x : Listed(r, x) <=> Listed(s, x) \/ x = e
  BY <1>1, <1>2 DEF Listed
<1> QED BY <1>3, <1>4 DEF r

\* metal_list_del.
LEMMA Unlinked ==
    ASSUME NEW s \in Seq(Epts), NEW e \in Epts, Distinct(s), Listed(s, e)
    PROVE  /\ Distinct(Unlink(s, e))
           /\ \A x : Listed(Unlink(s, e), x) <=> Listed(s, x) /\ x # e
<1> DEFINE at == CHOOSE i \in DOMAIN s : s[i] = e
           r == [i \in 1..(Len(s) - 1) |-> IF i < at THEN s[i] ELSE s[i + 1]]
<1>1. DOMAIN s = 1..Len(s) /\ Len(s) \in Nat
  OBVIOUS
<1>2. at \in 1..Len(s) /\ s[at] = e
  BY <1>1 DEF Listed
<1> HIDE DEF at
<1>3. r \in Seq(Epts) /\ Unlink(s, e) = r
  BY UnlinkType DEF Unlink, at
<1>4. /\ Len(r) = Len(s) - 1
      /\ \A i \in 1..Len(r) : r[i] = IF i < at THEN s[i] ELSE s[i + 1]
  <2>1. Len(s) - 1 \in Nat /\ DOMAIN r = 1..(Len(s) - 1)
    BY <1>1, <1>2
  <2>2. Len(r) = Len(s) - 1
    BY <1>3, <2>1
  <2> QED BY <2>2
<1> HIDE DEF r
<1>5. Distinct(r)
  <2> SUFFICES ASSUME NEW i \in 1..Len(r), NEW j \in 1..Len(r), r[i] = r[j] PROVE i = j
    BY DEF Distinct
  <2> DEFINE f(k) == IF k < at THEN k ELSE k + 1
  <2>1. f(i) \in 1..Len(s) /\ f(j) \in 1..Len(s) /\ r[i] = s[f(i)] /\ r[j] = s[f(j)]
    BY <1>1, <1>2, <1>4
  <2>2. f(i) = f(j)
    BY <2>1 DEF Distinct
  <2> QED BY <1>2, <2>2
<1>6. ASSUME NEW x PROVE Listed(r, x) <=> Listed(s, x) /\ x # e
  <2>1. ASSUME NEW i \in 1..Len(r), r[i] = x PROVE Listed(s, x) /\ x # e
    <3> DEFINE k == IF i < at THEN i ELSE i + 1
    <3>1. k \in 1..Len(s) /\ k # at /\ s[k] = x
      BY <1>1, <1>2, <1>4, <2>1
    <3> QED BY <1>2, <3>1 DEF Listed, Distinct
  <2>2. ASSUME NEW k \in 1..Len(s), s[k] = x, x # e PROVE Listed(r, x)
    <3> DEFINE i == IF k < at THEN k ELSE k - 1
    <3>1. k # at
      BY <1>2, <2>2
    <3>2. i \in 1..Len(r) /\ k = IF i < at THEN i ELSE i + 1
      BY <1>1, <1>2, <1>4, <3>1
    <3> HIDE DEF i
    <3>3. r[i] = s[k]
      BY <1>4, <3>2
    <3> QED BY <2>2, <3>2, <3>3 DEF Listed
  <2> QED BY <2>1, <2>2 DEF Listed
<1> QED BY <1>3, <1>5, <1>6

\* Registering and unregistering keep the list, and nothing else touches it.
LEMMA ListStep == EptInv /\ MsgTypes /\ ListInv /\ [Next]_vars => ListInv'
<1> SUFFICES ASSUME EptInv, MsgTypes, ListInv, [Next]_vars PROVE ListInv'
  OBVIOUS
<1>t. rdev \in [Epts -> BOOLEAN] /\ list \in [Cores -> Seq(Epts)]
  BY DEF EptInv, AddrTypes, MsgTypes
<1>1. ASSUME NEW t \in Contexts, NEW e \in Epts, NEW src \in Srcs[e], Create(t, e, src)
      PROVE  ListInv'
  <2> DEFINE c == t[2]
  <2>1. /\ c \in Cores /\ Home[e] = c /\ ~rdev[e]
        /\ list' = [list EXCEPT ![c] = Append(@, e)] /\ rdev' = [rdev EXCEPT ![e] = TRUE]
    BY <1>1 DEF Create, Contexts
  <2> HIDE DEF c
  <2>2. ~Listed(list[c], e) /\ Distinct(list[c]) /\ list[c] \in Seq(Epts)
    BY <1>t, <2>1 DEF ListInv
  <2>3. /\ Distinct(Append(list[c], e))
        /\ \A x : Listed(Append(list[c], e), x) <=> Listed(list[c], x) \/ x = e
    BY <2>2, Linked
  <2>4. \A d \in Cores : list'[d] = IF d = c THEN Append(list[c], e) ELSE list[d]
    BY <1>t, <2>1
  <2>5. \A f \in Epts : rdev'[f] <=> rdev[f] \/ f = e
    BY <1>t, <2>1
  <2> QED BY <2>1, <2>3, <2>4, <2>5 DEF ListInv
<1>2. ASSUME NEW t \in Contexts, Unregister(t) PROVE ListInv'
  <2> DEFINE c == t[2]
             e == ept[t]
  <2>1. /\ c \in Cores /\ e \in Epts /\ Home[e] = c /\ rdev[e]
        /\ list' = [list EXCEPT ![c] = Unlink(@, e)] /\ rdev' = [rdev EXCEPT ![e] = FALSE]
    BY <1>2 DEF Unregister, Stage, Contexts, EptInv, AddrTypes, CallsInv
  <2> HIDE DEF c, e
  <2>2. Listed(list[c], e) /\ Distinct(list[c]) /\ list[c] \in Seq(Epts)
    BY <1>t, <2>1 DEF ListInv
  <2>3. /\ Distinct(Unlink(list[c], e))
        /\ \A x : Listed(Unlink(list[c], e), x) <=> Listed(list[c], x) /\ x # e
    BY <2>1, <2>2, Unlinked
  <2>4. \A d \in Cores : list'[d] = IF d = c THEN Unlink(list[c], e) ELSE list[d]
    BY <1>t, <2>1
  <2>5. \A f \in Epts : rdev'[f] <=> rdev[f] /\ f # e
    BY <1>t, <2>1
  <2> QED BY <2>1, <2>3, <2>4, <2>5 DEF ListInv
<1>3. ASSUME UNCHANGED <<list, rdev>> PROVE ListInv'
  BY <1>3 DEF ListInv
<1>4. ASSUME NEW t \in Contexts,
             CreateDone(t) \/ CreateFailed(t) \/ Farewell(t)
               \/ (\E e \in Epts : Destroy(t, e) \/ SendData(t, e))
      PROVE  ListInv'
  BY <1>3, <1>4 DEF CreateDone, CreateFailed, Farewell, Destroy, SendData, eptVars
<1>5. ASSUME NEW c \in Cores,
             RxTake(c) \/ RxData(c) \/ NsCreate(c) \/ NsDestroy(c) \/ RxReturn(c)
      PROVE  ListInv'
  BY <1>3, <1>5 DEF RxTake, RxData, NsCreate, NsDestroy, RxReturn, eptVars
<1>6. CASE UNCHANGED vars
  BY <1>3, <1>6 DEF vars, eptVars
<1> QED BY <1>1, <1>2, <1>4, <1>5, <1>6 DEF Next

\* The lookups find an endpoint with the property asked for, if there is one.
LEMMA Lookups ==
    ASSUME MsgTypes, NEW c \in Cores
    PROVE  /\ \A a : LET r == EptAt(c, a) IN
                r # NoEpt => r \in Epts /\ Listed(list[c], r) /\ addr[r] = a
           /\ \A n, a : LET r == GetEndpoint(c, n, a) IN
                /\ r # NoEpt => /\ r \in Epts /\ Listed(list[c], r)
                                /\ Name[r] = n /\ dest[r] \in {a, ADDR_ANY}
                /\ r = NoEpt => \A e : Listed(list[c], e) /\ Name[e] = n
                                         => dest[e] \notin {a, ADDR_ANY}
<1>1. list[c] \in Seq(Epts) /\ DOMAIN list[c] = 1..Len(list[c])
  BY DEF MsgTypes
<1>2. \A S \in SUBSET (DOMAIN list[c]) : S # {} => Lowest(S) \in S /\ list[c][Lowest(S)] \in Epts
  <2> SUFFICES ASSUME NEW S \in SUBSET (DOMAIN list[c]), S # {}
               PROVE  Lowest(S) \in S /\ list[c][Lowest(S)] \in Epts
    OBVIOUS
  <2>1. S \in SUBSET Nat
    BY <1>1
  <2>2. Lowest(S) \in S
    BY <2>1, LowestExists
  <2> QED BY <1>1, <2>2
<1>n. NoEpt \notin Epts
  BY EptAssumption
<1>3. ASSUME NEW a, NEW r, r = EptAt(c, a), r # NoEpt
      PROVE  r \in Epts /\ Listed(list[c], r) /\ addr[r] = a
  <2> DEFINE S == {i \in DOMAIN list[c] : addr[list[c][i]] = a}
  <2>1. r = IF S = {} THEN NoEpt ELSE list[c][Lowest(S)]
    BY <1>3 DEF EptAt, First
  <2>2. S # {} /\ r = list[c][Lowest(S)]
    BY <1>3, <2>1
  <2>3. Lowest(S) \in S /\ list[c][Lowest(S)] \in Epts
    BY <1>2, <2>2
  <2>4. Lowest(S) \in 1..Len(list[c]) /\ addr[list[c][Lowest(S)]] = a
    BY <1>1, <2>3
  <2> QED BY <2>2, <2>3, <2>4 DEF Listed
<1>4. ASSUME NEW n, NEW a, NEW r, r = GetEndpoint(c, n, a)
      PROVE  /\ r # NoEpt => /\ r \in Epts /\ Listed(list[c], r)
                             /\ Name[r] = n /\ dest[r] \in {a, ADDR_ANY}
             /\ r = NoEpt => \A e : Listed(list[c], e) /\ Name[e] = n
                                      => dest[e] \notin {a, ADDR_ANY}
  <2> DEFINE S == {i \in DOMAIN list[c] :
                     Name[list[c][i]] = n /\ dest[list[c][i]] \in {a, ADDR_ANY}}
  <2>1. r = IF S = {} THEN NoEpt ELSE list[c][Lowest(S)]
    BY <1>4 DEF GetEndpoint, First
  <2>2. S # {} => Lowest(S) \in S /\ list[c][Lowest(S)] \in Epts
    BY <1>2
  <2>3. CASE S = {}
    <3>1. \A i \in 1..Len(list[c]) : ~(Name[list[c][i]] = n /\ dest[list[c][i]] \in {a, ADDR_ANY})
      BY <1>1, <2>3
    <3> HIDE DEF S
    <3> QED BY <2>1, <2>3, <3>1 DEF Listed
  <2>4. CASE S # {}
    <3>1. /\ Lowest(S) \in 1..Len(list[c]) /\ r = list[c][Lowest(S)] /\ r \in Epts
          /\ Name[list[c][Lowest(S)]] = n /\ dest[list[c][Lowest(S)]] \in {a, ADDR_ANY}
      BY <1>1, <2>1, <2>2, <2>4
    <3> HIDE DEF S
    <3> QED BY <1>n, <3>1 DEF Listed
  <2> QED BY <2>3, <2>4
<1> QED BY <1>3, <1>4

(***************************************************************************)
(* A registered endpoint has one of the addresses it may get.              *)
(***************************************************************************)
OwnAddrs == \A e \in Epts : rdev[e] => addr[e] \in MayGet(e)

\* The first address is clear unless its one owner is registered.
LEMMA FirstIsClear ==
    ASSUME EptInv, OwnAddrs, NEW e \in Epts, ~rdev[e], FirstIsOwn(e)
    PROVE  Reserved \notin bitmap[Home[e]]
<1> SUFFICES ASSUME Reserved \in bitmap[Home[e]] PROVE FALSE
  OBVIOUS
<1>1. PICK f \in Epts : Home[f] = Home[e] /\ rdev[f] /\ addr[f] = Reserved
  BY EptAssumption DEF EptInv, BitsUsed, Live
<1>2. f \in Rivals(e)
  BY <1>1 DEF Rivals
<1>3. ADDR_ANY \notin Srcs[f] /\ Reserved \notin Srcs[f]
  BY <1>2 DEF FirstIsOwn
<1>4. Reserved \in MayGet(f)
  BY <1>1 DEF OwnAddrs
<1> QED BY <1>3, <1>4 DEF MayGet

\* Every step keeps an endpoint to addresses it may get.
LEMMA AddrStep == EptInv /\ OwnAddrs /\ [Next]_vars => OwnAddrs'
<1> SUFFICES ASSUME EptInv, OwnAddrs, [Next]_vars PROVE OwnAddrs'
  OBVIOUS
<1>t. rdev \in [Epts -> BOOLEAN] /\ addr \in [Epts -> Addrs]
  BY DEF EptInv, AddrTypes
<1>1. ASSUME NEW t \in Contexts, NEW e \in Epts, NEW src \in Srcs[e], Create(t, e, src)
      PROVE  OwnAddrs'
  <2> DEFINE c == t[2]
             a == AddressFor(c, src)
  <2>1. /\ c \in Cores /\ Home[e] = c /\ ~rdev[e] /\ a # ADDR_ANY
        /\ rdev' = [rdev EXCEPT ![e] = TRUE] /\ addr' = [addr EXCEPT ![e] = a]
    BY <1>1 DEF Create, Contexts
  <2>2. a \in MayGet(e)
    <3>1. CASE src # ADDR_ANY
      BY <2>1, <3>1 DEF AddressFor, MayGet
    <3>2. CASE src = ADDR_ANY
      <4> DEFINE free == Dyn \ bitmap[c]
      <4>1. free # {} /\ a = Lowest(free)
        BY <2>1, <3>2 DEF AddressFor
      <4>2. free \in SUBSET Nat /\ Reserved \in Nat /\ BmpSize \in Nat
        BY AddrAssumption DEF Dyn
      <4>3. Lowest(free) \in free
        BY <4>1, <4>2, LowestExists
      <4>4. CASE ~FirstIsOwn(e)
        <5>1. MayGet(e) = (Srcs[e] \ {ADDR_ANY}) \cup Dyn
          BY <3>2, <4>4 DEF MayGet
        <5> QED BY <4>1, <4>3, <5>1
      <4>5. CASE FirstIsOwn(e)
        <5>1. Reserved \notin bitmap[c]
          BY <2>1, <4>5, FirstIsClear
        <5>2. Reserved \in Dyn
          BY <4>1, <4>2 DEF Dyn
        <5>3. Reserved \in free /\ \A b \in free : Reserved <= b
          BY <4>2, <5>1, <5>2 DEF Dyn
        <5>4. \A b \in free : Lowest(free) <= b
          BY <5>3 DEF Lowest
        <5>5. Lowest(free) = Reserved
          BY <4>2, <4>3, <5>3, <5>4
        <5>6. Reserved \in MayGet(e)
          BY <3>2, <4>5 DEF MayGet
        <5> QED BY <4>1, <5>5, <5>6
      <4> QED BY <4>4, <4>5
    <3> QED BY <3>1, <3>2
  <2> HIDE DEF a
  <2> QED BY <1>t, <2>1, <2>2 DEF OwnAddrs
<1>2. ASSUME NEW t \in Contexts, Unregister(t) PROVE OwnAddrs'
  <2>1. ept[t] \in Epts /\ rdev' = [rdev EXCEPT ![ept[t]] = FALSE] /\ addr' = addr
    BY <1>2 DEF Unregister, Stage, EptInv, AddrTypes, CallsInv
  <2> QED BY <1>t, <2>1 DEF OwnAddrs
<1>3. ASSUME UNCHANGED <<addr, rdev>> PROVE OwnAddrs'
  BY <1>3 DEF OwnAddrs
<1>4. ASSUME NEW t \in Contexts,
             CreateDone(t) \/ CreateFailed(t) \/ Farewell(t)
               \/ (\E e \in Epts : Destroy(t, e) \/ SendData(t, e))
      PROVE  OwnAddrs'
  BY <1>3, <1>4 DEF CreateDone, CreateFailed, Farewell, Destroy, SendData, eptVars
<1>5. ASSUME NEW c \in Cores,
             RxTake(c) \/ RxData(c) \/ NsCreate(c) \/ NsDestroy(c) \/ RxReturn(c)
      PROVE  OwnAddrs'
  BY <1>3, <1>5 DEF RxTake, RxData, NsCreate, NsDestroy, RxReturn, eptVars
<1>6. CASE UNCHANGED vars
  BY <1>3, <1>6 DEF vars, eptVars
<1> QED BY <1>1, <1>2, <1>4, <1>5, <1>6 DEF Next

(***************************************************************************)
(* The invariant of the name service.                                      *)
(***************************************************************************)
\* The messages core c has still to act on: the one rx_callback holds, as long
\* as it can bind somebody, and those under way.
Queue(c) == IF rx[c] \in {"found", "bind"} THEN <<msg[c]>> \o chan[c] ELSE chan[c]

\* Endpoints of services that were announced, or would have been, and have not
\* said farewell.
Stands(f) == Name[f] # NoName /\ rdev[f] /\ \A t \in Contexts : ept[t] = f => op[t] = "farewell"
Firms == {<<f, addr[f]>> : f \in {g \in Epts : Stands(g)}}

RxInv ==
    \A c \in Cores :
      /\ rx[c] \in {"found", "bind"} => msg[c] \in Msgs
      /\ rx[c] = "found" /\ msg[c].kind = "data" =>
           hit[c] \in Epts /\ Home[hit[c]] = c /\ msg[c].dst \in MayGet(hit[c])
AllSaid == \A c \in Cores : AllSound(c, Queue(c), Firms)
Bindings == \A e \in Epts :
    rdev[e] /\ dest[e] # ADDR_ANY => Bound(Queue(Home[e]), Firms, e, dest[e])

ServiceInv == ListInv /\ OwnAddrs /\ RxInv /\ AllSaid /\ Bindings

\* Membership in Firms, in a state and in the next one.
LEMMA FirmFacts ==
    /\ \A f \in Epts : \A b : <<f, b>> \in Firms <=> Stands(f) /\ b = addr[f]
    /\ \A f \in Epts : \A b : (<<f, b>> \in Firms)' <=> Stands(f)' /\ b = addr'[f]
BY DEF Firms

\* A queue is a sequence of messages.
LEMMA QueueType == ASSUME MsgTypes, RxInv, NEW c \in Cores PROVE Queue(c) \in Seq(Msgs)
<1>1. chan[c] \in Seq(Msgs)
  BY DEF MsgTypes
<1>2. CASE rx[c] \in {"found", "bind"}
  <2>1. msg[c] \in Msgs
    BY <1>2 DEF RxInv
  <2>2. <<msg[c]>> \in Seq(Msgs)
    BY <2>1
  <2> QED BY <1>1, <1>2, <2>2 DEF Queue
<1>3. CASE rx[c] \notin {"found", "bind"}
  BY <1>1, <1>3 DEF Queue
<1> QED BY <1>2, <1>3

\* A message posted comes last.
LEMMA QueuePost ==
    ASSUME MsgTypes, RxInv, NEW c \in Cores, NEW m \in Msgs, Post(c, m), UNCHANGED <<rx, msg>>
    PROVE  /\ Queue(Peer(c))' = Append(Queue(Peer(c)), m)
           /\ \A d \in Cores : d # Peer(c) => Queue(d)' = Queue(d)
<1> DEFINE p == Peer(c)
<1>1. p \in Cores
  BY PeerFacts
<1>2. chan' = [chan EXCEPT ![p] = Append(@, m)] /\ chan \in [Cores -> Seq(Msgs)]
  BY DEF Post, MsgTypes
<1> HIDE DEF p
<1>3. chan'[p] = Append(chan[p], m) /\ (\A d \in Cores : d # p => chan'[d] = chan[d])
      /\ chan[p] \in Seq(Msgs)
  BY <1>1, <1>2
<1>4. Queue(p)' = Append(Queue(p), m)
  <2>1. CASE rx[p] \in {"found", "bind"}
    <3> DEFINE s == chan[p]
    <3>1. msg[p] \in Msgs
      BY <1>1, <2>1 DEF RxInv
    <3>2. <<msg[p]>> \o Append(s, m) = Append(<<msg[p]>> \o s, m)
      <4>1. s \in Seq(Msgs) /\ <<msg[p]>> \in Seq(Msgs) /\ <<m>> \in Seq(Msgs)
        BY <1>3, <3>1
      <4> HIDE DEF s
      <4>2. Append(s, m) = s \o <<m>>
        BY <4>1
      <4>3. <<msg[p]>> \o (s \o <<m>>) = (<<msg[p]>> \o s) \o <<m>>
        BY <4>1
      <4>4. <<msg[p]>> \o s \in Seq(Msgs)
        BY <4>1
      <4>5. Append(<<msg[p]>> \o s, m) = (<<msg[p]>> \o s) \o <<m>>
        BY <4>1, <4>4
      <4> QED BY <4>2, <4>3, <4>5
    <3> QED BY <1>3, <2>1, <3>2 DEF Queue
  <2>2. CASE rx[p] \notin {"found", "bind"}
    BY <1>3, <2>2 DEF Queue
  <2> QED BY <2>1, <2>2
<1>5. \A d \in Cores : d # p => Queue(d)' = Queue(d)
  BY <1>3 DEF Queue
<1> QED BY <1>4, <1>5 DEF p

\* rx_callback is done with the message it holds.
LEMMA QueueHeld ==
    ASSUME MsgTypes, RxInv, NEW c \in Cores, rx[c] \in {"found", "bind"}
    PROVE  /\ Queue(c) # <<>> /\ Queue(c)[1] = msg[c] /\ Tail(Queue(c)) = chan[c]
<1>1. chan[c] \in Seq(Msgs) /\ msg[c] \in Msgs
  BY DEF MsgTypes, RxInv
<1> QED BY <1>1 DEF Queue

\* Nothing is said and nobody leaves or comes: only the bindings that are new, or
\* of endpoints that are new, are to be looked at.
LEMMA Quiet ==
    ASSUME AllSaid, Bindings, \A c \in Cores : Queue(c)' = Queue(c),
           \A f \in Epts : Stands(f) => Stands(f)' /\ addr'[f] = addr[f],
           \A e \in Epts : rdev'[e] /\ dest'[e] # ADDR_ANY =>
               (rdev[e] /\ dest[e] = dest'[e]) \/ Bound(Queue(Home[e]), Firms, e, dest'[e])
    PROVE  AllSaid' /\ Bindings'
<1>1. \A f \in Epts : \A b : <<f, b>> \in Firms => <<f, b>> \in Firms'
  BY FirmFacts
<1>2. ASSUME NEW c \in Cores PROVE AllSound(c, Queue(c), Firms)'
  <2>1. AllSound(c, Queue(c), Firms)
    BY DEF AllSaid
  <2>2. AllSound(c, Queue(c), Firms')
    BY <1>1, <2>1, SoundMore
  <2> QED BY <2>2
<1>3. ASSUME NEW e \in Epts, rdev'[e], dest'[e] # ADDR_ANY
      PROVE  Bound(Queue(Home[e])', Firms', e, dest'[e])
  <2>1. Bound(Queue(Home[e]), Firms, e, dest'[e])
    BY <1>3 DEF Bindings
  <2>2. Bound(Queue(Home[e]), Firms', e, dest'[e])
    BY <1>1, <2>1, BoundMore
  <2>3. Home[e] \in Cores
    BY EptAssumption
  <2> QED BY <2>2, <2>3
<1>4. AllSaid'
  BY <1>2 DEF AllSaid
<1>5. Bindings'
  BY <1>3 DEF Bindings
<1> QED BY <1>4, <1>5

\* One core is done with its first message.
LEMMA Consumed ==
    ASSUME AllSaid, Bindings, NEW c \in Cores, Queue(c) \in Seq(Msgs), Queue(c) # <<>>,
           Queue(c)' = Tail(Queue(c)), \A d \in Cores : d # c => Queue(d)' = Queue(d),
           \A f \in Epts : Stands(f) => Stands(f)' /\ addr'[f] = addr[f],
           rdev' = rdev,
           \A e \in Epts : rdev[e] /\ dest'[e] # ADDR_ANY =>
               \/ dest[e] = dest'[e] /\ (Home[e] = c => ~Bye(Queue(c), Name[e], 1))
               \/ Home[e] = c /\ Bound(Tail(Queue(c)), Firms, e, dest'[e])
    PROVE  AllSaid' /\ Bindings'
<1>1. \A f \in Epts : \A b : <<f, b>> \in Firms => <<f, b>> \in Firms'
  BY FirmFacts
<1>2. ASSUME NEW d \in Cores PROVE AllSound(d, Queue(d)', Firms')
  <2>1. AllSound(d, Queue(d), Firms)
    BY DEF AllSaid
  <2>2. AllSound(d, Queue(d)', Firms)
    <3>1. CASE d = c
      BY <2>1, <3>1, SoundTail
    <3>2. CASE d # c
      BY <2>1, <3>2
    <3> QED BY <3>1, <3>2
  <2> QED BY <1>1, <2>2, SoundMore
<1>3. ASSUME NEW e \in Epts, rdev'[e], dest'[e] # ADDR_ANY
      PROVE  Bound(Queue(Home[e])', Firms', e, dest'[e])
  <2>1. Home[e] \in Cores
    BY EptAssumption
  <2>2. Bound(Queue(Home[e])', Firms, e, dest'[e])
    <3>1. CASE Home[e] = c /\ Bound(Tail(Queue(c)), Firms, e, dest'[e])
      BY <3>1
    <3>2. CASE dest[e] = dest'[e] /\ (Home[e] = c => ~Bye(Queue(c), Name[e], 1))
      <4>1. Bound(Queue(Home[e]), Firms, e, dest'[e])
        BY <1>3, <3>2 DEF Bindings
      <4>2. CASE Home[e] = c
        BY <3>2, <4>1, <4>2, BoundTail
      <4>3. CASE Home[e] # c
        BY <2>1, <4>1, <4>3
      <4> QED BY <4>2, <4>3
    <3> QED BY <1>3, <3>1, <3>2
  <2> QED BY <1>1, <2>2, BoundMore
<1>4. AllSaid'
  BY <1>2 DEF AllSaid
<1>5. Bindings'
  BY <1>3 DEF Bindings
<1> QED BY <1>4, <1>5

\* An endpoint of a service says something other than farewell.
LEMMA Spoken ==
    ASSUME AllSaid, Bindings, NEW f \in Epts, NEW m \in Msgs, Name[f] # NoName,
           Queue(Peer(Home[f])) \in Seq(Msgs),
           Queue(Peer(Home[f]))' = Append(Queue(Peer(Home[f])), m),
           \A d \in Cores : d # Peer(Home[f]) => Queue(d)' = Queue(d),
           \A g \in Epts : Stands(g) => Stands(g)' /\ addr'[g] = addr[g],
           \A g \in Epts : rdev'[g] /\ dest'[g] # ADDR_ANY => rdev[g] /\ dest[g] = dest'[g],
           Stands(f)',
           \/ /\ m.kind = "data" /\ (\E e \in Epts : Pair(f, e) /\ m.dst \in MayGet(e))
              /\ m.src \in MayGet(f) /\ m.src = addr'[f]
           \/ m.kind = "create" /\ m.name = Name[f] /\ m.addr \in MayGet(f) /\ m.addr = addr'[f]
    PROVE  AllSaid' /\ Bindings'
<1> DEFINE p == Peer(Home[f])
           G == Firms'
<1>1. \A g \in Epts : \A b : <<g, b>> \in Firms => <<g, b>> \in G
  BY FirmFacts
<1>2. <<f, addr'[f]>> \in G
  BY FirmFacts
<1>3. p \in Cores /\ Peer(p) = Home[f]
  BY EptAssumption, PeerFacts
<1> HIDE DEF p, G
<1>4. /\ AllSound(p, Queue(p), G)
      /\ \A e \in Epts : \A b : Bound(Queue(p), Firms, e, b) => Bound(Queue(p), G, e, b)
  <2>1. AllSound(p, Queue(p), Firms)
    BY <1>3 DEF AllSaid
  <2> QED BY <1>1, <2>1, SoundMore, BoundMore
<1>5. /\ AllSound(p, Append(Queue(p), m), G)
      /\ \A e \in Epts : \A b : Bound(Queue(p), G, e, b) => Bound(Append(Queue(p), m), G, e, b)
  <2>1. Queue(p) \in Seq(Msgs)
    BY DEF p
  <2> QED BY <1>2, <1>3, <1>4, <2>1, SoundAppend
<1>6. ASSUME NEW d \in Cores PROVE AllSound(d, Queue(d)', G)
  <2>1. CASE d = p
    BY <1>5, <2>1 DEF p
  <2>2. CASE d # p
    <3>1. AllSound(d, Queue(d), Firms) /\ Queue(d)' = Queue(d)
      BY <2>2 DEF AllSaid, p
    <3> QED BY <1>1, <3>1, SoundMore
  <2> QED BY <2>1, <2>2
<1>7. ASSUME NEW e \in Epts, rdev'[e], dest'[e] # ADDR_ANY
      PROVE  Bound(Queue(Home[e])', G, e, dest'[e])
  <2>1. Home[e] \in Cores
    BY EptAssumption
  <2>2. Bound(Queue(Home[e]), Firms, e, dest'[e])
    BY <1>7 DEF Bindings
  <2>3. CASE Home[e] = p
    BY <1>4, <1>5, <2>2, <2>3 DEF p
  <2>4. CASE Home[e] # p
    <3>1. Queue(Home[e])' = Queue(Home[e])
      BY <2>1, <2>4 DEF p
    <3> QED BY <1>1, <2>2, <3>1, BoundMore
  <2> QED BY <2>3, <2>4
<1>8. AllSaid'
  BY <1>6 DEF AllSaid, G
<1>9. Bindings'
  BY <1>7 DEF Bindings, G
<1> QED BY <1>8, <1>9

\* An endpoint of a service says farewell.
LEMMA Parted ==
    ASSUME ServicesApart, AllSaid, Bindings, NEW g \in Epts, NEW m \in Msgs, Name[g] # NoName,
           Queue(Peer(Home[g])) \in Seq(Msgs),
           Queue(Peer(Home[g]))' = Append(Queue(Peer(Home[g])), m),
           \A d \in Cores : d # Peer(Home[g]) => Queue(d)' = Queue(d),
           \A f \in Epts : f # g /\ Stands(f) => Stands(f)',
           UNCHANGED <<addr, rdev, dest>>,
           m.kind = "destroy", m.name = Name[g], m.addr \in MayGet(g), m.addr = addr[g]
    PROVE  AllSaid' /\ Bindings'
<1> DEFINE p == Peer(Home[g])
           G == Firms'
<1>1. /\ \A f \in Epts : \A b : f # g /\ <<f, b>> \in Firms => <<f, b>> \in G
      /\ \A b : <<g, b>> \in Firms => b = m.addr
  BY FirmFacts
<1>2. p \in Cores /\ Peer(p) = Home[g]
  BY EptAssumption, PeerFacts
<1> HIDE DEF p, G
<1>3. AllSound(p, Queue(p), Firms) /\ Queue(p) \in Seq(Msgs)
  BY <1>2 DEF AllSaid, p
<1>4. /\ AllSound(p, Append(Queue(p), m), G)
      /\ \A e \in Epts : \A b : Home[e] = p /\ Bound(Queue(p), Firms, e, b)
                                  => Bound(Append(Queue(p), m), G, e, b)
  BY <1>1, <1>2, <1>3, SoundFarewell
<1>5. ASSUME NEW d \in Cores PROVE AllSound(d, Queue(d)', G)
  <2>1. CASE d = p
    BY <1>4, <2>1 DEF p
  <2>2. CASE d # p
    <3>1. AllSound(d, Queue(d), Firms) /\ Queue(d)' = Queue(d)
      BY <2>2 DEF AllSaid, p
    <3>2. Peer(d) # Home[g]
      BY <1>2, <2>2, PeerFacts
    <3>3. \A f \in Epts : \A b : Home[f] = Peer(d) /\ <<f, b>> \in Firms => <<f, b>> \in G
      BY <1>1, <3>2
    <3> QED BY <3>1, <3>3, SoundMore
  <2> QED BY <2>1, <2>2
<1>6. ASSUME NEW e \in Epts, rdev'[e], dest'[e] # ADDR_ANY
      PROVE  Bound(Queue(Home[e])', G, e, dest'[e])
  <2>1. Home[e] \in Cores
    BY EptAssumption
  <2>2. Bound(Queue(Home[e]), Firms, e, dest'[e])
    BY <1>6 DEF Bindings
  <2>3. CASE Home[e] = p
    BY <1>4, <2>2, <2>3 DEF p
  <2>4. CASE Home[e] # p
    <3>1. Queue(Home[e])' = Queue(Home[e])
      BY <2>1, <2>4 DEF p
    <3>2. \A f \in Epts : Pair(e, f) => f # g
      BY <1>2, <2>1, <2>4, PeerFacts DEF Pair
    <3> QED BY <1>1, <2>2, <3>1, <3>2, BoundMore
  <2> QED BY <2>3, <2>4
<1>7. AllSaid'
  BY <1>5 DEF AllSaid, G
<1>8. Bindings'
  BY <1>6 DEF Bindings, G
<1> QED BY <1>7, <1>8

\* The hypotheses and the invariants of the steps below.
ServiceHyp == ServicesApart /\ ~DestroyLost /\ EptInv /\ MsgTypes /\ ServiceInv

\* Nothing but a farewell makes an endpoint stand no longer.
LEMMA StandsOn ==
    ASSUME EptInv, NEW t \in Contexts, NEW e \in Epts, NEW stage, Enter(t, stage, e),
           ept[t] \in {e, NoEpt}, UNCHANGED <<rdev, addr>>,
           stage # "farewell" => op[t] \in {"announce", "unregister"} \/ Name[e] = NoName
    PROVE  \A f \in Epts : Stands(f) => Stands(f)' /\ addr'[f] = addr[f]
<1>1. op' = [op EXCEPT ![t] = stage] /\ ept' = [ept EXCEPT ![t] = e]
  BY DEF Enter
<1>2. op \in [Contexts -> {"idle", "announce", "farewell", "unregister"}]
      /\ ept \in [Contexts -> Epts \cup {NoEpt}]
  BY DEF EptInv, AddrTypes
<1>3. /\ \A u \in Contexts : u # t => op'[u] = op[u] /\ ept'[u] = ept[u]
      /\ op'[t] = stage /\ ept'[t] = e
  BY <1>1, <1>2
<1> SUFFICES ASSUME NEW f \in Epts, Stands(f) PROVE Stands(f)'
  OBVIOUS
<1>4. Name[f] # NoName /\ rdev'[f] /\ \A u \in Contexts : ept[u] = f => op[u] = "farewell"
  BY DEF Stands
<1>5. ASSUME NEW u \in Contexts, ept'[u] = f PROVE op'[u] = "farewell"
  <2>1. CASE u # t
    BY <1>3, <1>4, <1>5, <2>1
  <2>2. CASE u = t /\ stage = "farewell"
    BY <1>3, <2>2
  <2>3. CASE u = t /\ stage # "farewell"
    <3>1. f = e /\ op[t] \in {"announce", "unregister"}
      BY <1>3, <1>4, <1>5, <2>3
    <3>2. ept[t] # NoEpt
      BY <3>1 DEF EptInv, CallsInv
    <3> QED BY <1>4, <3>1, <3>2
  <2> QED BY <2>1, <2>2, <2>3
<1> QED BY <1>4, <1>5 DEF Stands

\* rpmsg_create_ept.
LEMMA CreateSaid ==
    ASSUME ServiceHyp, NEW t \in Contexts, NEW e \in Epts, NEW src \in Srcs[e], Create(t, e, src)
    PROVE  AllSaid' /\ Bindings'
<1> USE DEF ServiceHyp, ServiceInv
<1> DEFINE c == t[2]
<1>1. /\ c \in Cores /\ Home[e] = c /\ ~rdev[e] /\ (\A u \in Contexts : ept[u] # e)
      /\ rdev' = [rdev EXCEPT ![e] = TRUE]
      /\ addr' = [addr EXCEPT ![e] = AddressFor(c, src)]
      /\ dest' = [dest EXCEPT ![e] = DestFor(t, e)]
      /\ op' = [op EXCEPT ![t] = "announce"] /\ ept' = [ept EXCEPT ![t] = e]
      /\ UNCHANGED <<chan, rx, msg>> /\ ept[t] = NoEpt
  BY DEF Create, Contexts, Busy, Enter, rxVars, MayCall, EptInv, CallsInv
<1>2. /\ rdev \in [Epts -> BOOLEAN] /\ addr \in [Epts -> Addrs] /\ dest \in [Epts -> Addrs]
      /\ op \in [Contexts -> {"idle", "announce", "farewell", "unregister"}]
      /\ ept \in [Contexts -> Epts \cup {NoEpt}]
  BY DEF EptInv, AddrTypes, MsgTypes
<1>3. \A d \in Cores : Queue(d)' = Queue(d)
  BY <1>1 DEF Queue
<1>4. \A f \in Epts : Stands(f) => Stands(f)' /\ addr'[f] = addr[f]
  <2> SUFFICES ASSUME NEW f \in Epts, Stands(f) PROVE Stands(f)' /\ addr'[f] = addr[f]
    OBVIOUS
  <2>1. f # e
    BY <1>1 DEF Stands
  <2>2. rdev'[f] = rdev[f] /\ addr'[f] = addr[f]
    BY <1>1, <1>2, <2>1
  <2>3. \A u \in Contexts : ept'[u] = f => ept[u] = f /\ op'[u] = op[u]
    BY <1>1, <1>2, <2>1
  <2> QED BY <2>2, <2>3 DEF Stands
<1>5. ASSUME DestFor(t, e) # ADDR_ANY PROVE Bound(Queue(c), Firms, e, DestFor(t, e))
  <2>1. rx[c] = "bind" /\ Name[e] = msg[c].name /\ DestFor(t, e) = msg[c].addr
    BY <1>5 DEF DestFor
  <2>2. msg[c].kind = "create"
    BY <1>1, <2>1 DEF MsgTypes
  <2>3. Queue(c) # <<>> /\ Queue(c)[1] = msg[c] /\ Queue(c) \in Seq(Msgs)
    BY <1>1, <2>1, QueueHeld, QueueType
  <2>4. AllSound(c, Queue(c), Firms)
    BY <1>1 DEF AllSaid
  <2> QED BY <1>1, <2>1, <2>2, <2>3, <2>4, FrontBinds
<1> HIDE DEF c
<1>6. \A f \in Epts : rdev'[f] /\ dest'[f] # ADDR_ANY =>
        (rdev[f] /\ dest[f] = dest'[f]) \/ Bound(Queue(Home[f]), Firms, f, dest'[f])
  <2> SUFFICES ASSUME NEW f \in Epts, rdev'[f], dest'[f] # ADDR_ANY
               PROVE  (rdev[f] /\ dest[f] = dest'[f]) \/ Bound(Queue(Home[f]), Firms, f, dest'[f])
    OBVIOUS
  <2>1. CASE f = e
    BY <1>1, <1>2, <1>5, <2>1
  <2>2. CASE f # e
    BY <1>1, <1>2, <2>2
  <2> QED BY <2>1, <2>2
<1> QED BY <1>3, <1>4, <1>6, Quiet

\* The announcement, if one is due, comes from an endpoint that stands.
LEMMA CreateDoneSaid ==
    ASSUME ServiceHyp, NEW t \in Contexts, CreateDone(t)
    PROVE  AllSaid' /\ Bindings'
<1> USE DEF ServiceHyp, ServiceInv
<1>0. ept[t] \in Epts
  BY DEF CreateDone, Stage, EptInv, AddrTypes, CallsInv
<1> SUFFICES ASSUME NEW e \in Epts, e = ept[t] PROVE AllSaid' /\ Bindings'
  BY <1>0
<1> DEFINE c == t[2]
           m == NsMsg("create", Name[e], addr[e])
<1>1. /\ e \in Epts /\ c \in Cores /\ Home[e] = c /\ rdev[e]
      /\ op' = [op EXCEPT ![t] = "idle"] /\ ept' = [ept EXCEPT ![t] = NoEpt]
      /\ UNCHANGED <<rdev, addr, dest, rx, msg>>
      /\ IF MustAnnounce(e) THEN Post(c, m) ELSE UNCHANGED chan
  BY DEF CreateDone, Stage, Leave, Enter, eptVars, rxVars, EptInv, AddrTypes, CallsInv, Contexts
<1>2. /\ op \in [Contexts -> {"idle", "announce", "farewell", "unregister"}]
      /\ ept \in [Contexts -> Epts \cup {NoEpt}] /\ NoEpt \notin Epts
      /\ \A u \in Contexts : ept[u] = e => u = t
  BY <1>1, EptAssumption DEF EptInv, AddrTypes, CallsInv
<1>3. \A f \in Epts : Stands(f) => Stands(f)' /\ addr'[f] = addr[f]
  <2>1. \A f \in Epts, u \in Contexts : ept'[u] = f => ept[u] = f /\ op'[u] = op[u]
    BY <1>1, <1>2
  <2> QED BY <1>1, <2>1 DEF Stands
<1>4. CASE ~MustAnnounce(e)
  <2>1. \A d \in Cores : Queue(d)' = Queue(d)
    BY <1>1, <1>4 DEF Queue
  <2> QED BY <1>1, <1>3, <2>1, Quiet
<1>5. CASE MustAnnounce(e)
  <2>1. Name[e] # NoName /\ Post(c, m)
    BY <1>1, <1>5 DEF MustAnnounce
  <2>2. Stands(e)'
    <3>1. \A u \in Contexts : ept'[u] # e
      BY <1>1, <1>2
    <3> QED BY <1>1, <2>1, <3>1 DEF Stands
  <2>3. addr[e] \in Addrs /\ addr[e] \in MayGet(e)
    BY <1>1 DEF EptInv, AddrTypes, OwnAddrs
  <2>4. m \in Msgs /\ m.kind = "create" /\ m.name = Name[e] /\ m.addr = addr[e]
    BY <1>1, <2>3 DEF NsMsg, Msgs, NsMsgs
  <2> HIDE DEF m, c
  <2>5. Peer(c) \in Cores
    BY <1>1, PeerFacts
  <2>6. /\ Queue(Peer(c))' = Append(Queue(Peer(c)), m)
        /\ \A d \in Cores : d # Peer(c) => Queue(d)' = Queue(d)
        /\ Queue(Peer(c)) \in Seq(Msgs)
    BY <1>1, <2>1, <2>4, <2>5, QueuePost, QueueType
  <2> QED BY <1>1, <1>3, <2>1, <2>2, <2>3, <2>4, <2>6, Spoken
<1> QED BY <1>4, <1>5

\* rpmsg_send. Data comes from an endpoint that stands and goes to its pair.
LEMMA SendSaid ==
    ASSUME ServiceHyp, NEW t \in Contexts, NEW e \in Epts, SendData(t, e)
    PROVE  AllSaid' /\ Bindings'
<1> USE DEF ServiceHyp, ServiceInv
<1> DEFINE c == t[2]
           m == Data(addr[e], dest[e])
<1>1. /\ c \in Cores /\ Home[e] = c /\ rdev[e] /\ dest[e] # ADDR_ANY
      /\ (\A u \in Contexts : ept[u] # e) /\ Post(c, m)
      /\ UNCHANGED <<rdev, addr, dest, rx, msg, op, ept>>
  BY DEF SendData, Contexts, Busy, eptVars, rxVars, opVars
<1>2. PICK f \in Epts : Pair(e, f) /\ dest[e] \in MayGet(f)
  BY <1>1 DEF Bindings, Bound
<1>3. Name[e] # NoName
  BY <1>2 DEF Pair
<1>4. Stands(e)'
  BY <1>1, <1>3 DEF Stands
<1>5. \A g \in Epts : Stands(g) => Stands(g)' /\ addr'[g] = addr[g]
  BY <1>1 DEF Stands
<1>6. addr[e] \in Addrs /\ addr[e] \in MayGet(e) /\ dest[e] \in Addrs
  BY <1>1 DEF EptInv, AddrTypes, OwnAddrs, MsgTypes
<1>7. m \in Msgs /\ m.kind = "data" /\ m.src = addr[e] /\ m.dst = dest[e]
  BY <1>6 DEF Data, Msgs, DataMsgs
<1> HIDE DEF m, c
<1>8. Peer(c) \in Cores
  BY <1>1, PeerFacts
<1>9. /\ Queue(Peer(c))' = Append(Queue(Peer(c)), m)
      /\ \A d \in Cores : d # Peer(c) => Queue(d)' = Queue(d)
      /\ Queue(Peer(c)) \in Seq(Msgs)
  BY <1>1, <1>7, <1>8, QueuePost, QueueType
<1> QED BY <1>1, <1>2, <1>3, <1>4, <1>5, <1>6, <1>7, <1>9, Spoken

\* rpmsg_destroy_ept. Its service has an address that is announced as gone.
LEMMA FarewellSaid ==
    ASSUME ServiceHyp, NEW t \in Contexts, Farewell(t)
    PROVE  AllSaid' /\ Bindings'
<1> USE DEF ServiceHyp, ServiceInv
<1> DEFINE e == ept[t]
           c == t[2]
           m == NsMsg("destroy", Name[e], addr[e])
<1>1. /\ e \in Epts /\ c \in Cores /\ Home[e] = c /\ rdev[e]
      /\ Enter(t, "unregister", e)
      /\ UNCHANGED <<rdev, addr, dest, rx, msg>>
      /\ (MustSayFarewell(e) /\ Post(c, m)) \/ (~MustSayFarewell(e) /\ UNCHANGED chan)
  BY DEF Farewell, Stage, eptVars, rxVars, EptInv, AddrTypes, CallsInv, Contexts
<1>2. addr[e] \in Addrs /\ addr[e] \in MayGet(e)
  BY <1>1 DEF EptInv, AddrTypes, OwnAddrs
<1>3. CASE Name[e] = NoName
  <2>1. UNCHANGED chan
    BY <1>1, <1>3 DEF MustSayFarewell
  <2>2. \A d \in Cores : Queue(d)' = Queue(d)
    BY <1>1, <2>1 DEF Queue
  <2>3. \A f \in Epts : Stands(f) => Stands(f)' /\ addr'[f] = addr[f]
    BY <1>1, <1>3, StandsOn
  <2> QED BY <1>1, <2>2, <2>3, Quiet
<1>4. CASE Name[e] # NoName
  <2>1. addr[e] \in Dyn
    BY <1>1, <1>2, <1>4 DEF ServicesApart
  <2>2. addr[e] >= Reserved
    BY <2>1, AddrAssumption DEF Dyn
  <2>3. Post(c, m)
    BY <1>1, <1>4, <2>2 DEF MustSayFarewell
  <2>4. m \in Msgs /\ m.kind = "destroy" /\ m.name = Name[e] /\ m.addr = addr[e]
    BY <1>1, <1>2 DEF NsMsg, Msgs, NsMsgs
  <2>5. \A f \in Epts : f # e /\ Stands(f) => Stands(f)'
    <3>1. op' = [op EXCEPT ![t] = "unregister"] /\ ept' = [ept EXCEPT ![t] = e]
      BY <1>1 DEF Enter
    <3>2. /\ op \in [Contexts -> {"idle", "announce", "farewell", "unregister"}]
          /\ ept \in [Contexts -> Epts \cup {NoEpt}]
      BY DEF EptInv, AddrTypes
    <3>3. \A f \in Epts, u \in Contexts : f # e /\ ept'[u] = f => ept[u] = f /\ op'[u] = op[u]
      BY <3>1, <3>2
    <3> QED BY <1>1, <3>3 DEF Stands
  <2> HIDE DEF m, c, e
  <2>6. Peer(c) \in Cores
    BY <1>1, PeerFacts
  <2>7. /\ Queue(Peer(c))' = Append(Queue(Peer(c)), m)
        /\ \A d \in Cores : d # Peer(c) => Queue(d)' = Queue(d)
        /\ Queue(Peer(c)) \in Seq(Msgs)
    BY <1>1, <2>3, <2>4, <2>6, QueuePost, QueueType
  <2> QED BY <1>1, <1>2, <1>4, <2>4, <2>5, <2>7, Parted
<1> QED BY <1>3, <1>4

\* The rest of the calls says nothing.
LEMMA CallsSaid ==
    ASSUME ServiceHyp, NEW t \in Contexts,
           Unregister(t) \/ CreateFailed(t) \/ \E e \in Epts : Destroy(t, e)
    PROVE  AllSaid' /\ Bindings'
<1> USE DEF ServiceHyp, ServiceInv
<1>1. \A d \in Cores : Queue(d)' = Queue(d)
  BY DEF Unregister, CreateFailed, Destroy, rxVars, Queue
<1>2. CASE Unregister(t)
  <2> DEFINE e == ept[t]
  <2>1. /\ e \in Epts /\ op[t] = "unregister" /\ t \in Contexts
        /\ rdev' = [rdev EXCEPT ![e] = FALSE] /\ UNCHANGED <<addr, dest>>
        /\ op' = [op EXCEPT ![t] = "idle"] /\ ept' = [ept EXCEPT ![t] = NoEpt]
    BY <1>2 DEF Unregister, Stage, Leave, Enter, EptInv, AddrTypes, CallsInv
  <2>2. /\ rdev \in [Epts -> BOOLEAN] /\ NoEpt \notin Epts
        /\ op \in [Contexts -> {"idle", "announce", "farewell", "unregister"}]
        /\ ept \in [Contexts -> Epts \cup {NoEpt}]
    BY EptAssumption DEF EptInv, AddrTypes
  <2>3. \A f \in Epts : Stands(f) => Stands(f)' /\ addr'[f] = addr[f]
    <3> SUFFICES ASSUME NEW f \in Epts, Stands(f) PROVE Stands(f)'
      BY <2>1
    <3>1. f # e
      BY <2>1 DEF Stands
    <3>2. rdev'[f] = rdev[f]
      BY <2>1, <2>2, <3>1
    <3>3. \A u \in Contexts : ept'[u] = f => ept[u] = f /\ op'[u] = op[u]
      BY <2>1, <2>2
    <3> QED BY <3>2, <3>3 DEF Stands
  <2>4. \A f \in Epts : rdev'[f] => rdev[f]
    BY <2>1, <2>2
  <2> QED BY <1>1, <2>1, <2>3, <2>4, Quiet
<1>3. CASE CreateFailed(t)
  <2>1. /\ Enter(t, "unregister", ept[t]) /\ op[t] = "announce" /\ ept[t] \in Epts
        /\ UNCHANGED <<rdev, addr, dest>>
    BY <1>3 DEF CreateFailed, Stage, eptVars, EptInv, AddrTypes, CallsInv
  <2>2. \A f \in Epts : Stands(f) => Stands(f)' /\ addr'[f] = addr[f]
    BY <2>1, StandsOn
  <2> QED BY <1>1, <2>1, <2>2, Quiet
<1>4. ASSUME NEW e \in Epts, Destroy(t, e) PROVE AllSaid' /\ Bindings'
  <2>1. Enter(t, "farewell", e) /\ ept[t] = NoEpt /\ UNCHANGED <<rdev, addr, dest>>
    BY <1>4 DEF Destroy, MayCall, eptVars, EptInv, CallsInv
  <2>2. \A f \in Epts : Stands(f) => Stands(f)' /\ addr'[f] = addr[f]
    BY <2>1, StandsOn
  <2> QED BY <1>1, <2>1, <2>2, Quiet
<1> QED BY <1>2, <1>3, <1>4

\* What Consumed asks of the endpoints that stand, when no call takes a step.
LEMMA StandStill ==
    ASSUME UNCHANGED <<rdev, addr, op, ept>>
    PROVE  \A f \in Epts : Stands(f) => Stands(f)' /\ addr'[f] = addr[f]
BY DEF Stands

\* rpmsg_virtio_rx_callback takes a message, and drops it or holds it.
LEMMA TakeSaid ==
    ASSUME ServiceHyp, NEW c \in Cores, RxTake(c)
    PROVE  AllSaid' /\ Bindings' /\ RxInv'
<1> USE DEF ServiceHyp, ServiceInv
<1> DEFINE m == Head(chan[c])
           r == IF m.kind = "data" THEN EptAt(c, m.dst) ELSE NoEpt
<1>1. /\ rx[c] = "idle" /\ chan[c] # <<>> /\ chan' = [chan EXCEPT ![c] = Tail(@)]
      /\ IF m.kind = "data" /\ r = NoEpt
           THEN UNCHANGED <<rx, msg, hit>>
           ELSE /\ rx' = [rx EXCEPT ![c] = "found"] /\ msg' = [msg EXCEPT ![c] = m]
                /\ hit' = [hit EXCEPT ![c] = r]
      /\ UNCHANGED <<rdev, addr, dest, list, op, ept>>
  BY DEF RxTake, rxVars, eptVars, opVars
<1>2. /\ chan \in [Cores -> Seq(Msgs)] /\ msg \in [Cores -> Msgs \cup {NoMessage}]
      /\ rx \in [Cores -> {"idle", "found"} \cup Callbacks] /\ hit \in [Cores -> Epts \cup {NoEpt}]
  BY DEF MsgTypes
<1>3. Queue(c) = chan[c] /\ chan[c] \in Seq(Msgs) /\ m \in Msgs /\ m = chan[c][1]
  BY <1>1, <1>2 DEF Queue
<1>4. \A f \in Epts : Stands(f) => Stands(f)' /\ addr'[f] = addr[f]
  BY <1>1, StandStill
<1>5. m.kind = "data" /\ r # NoEpt => r \in Epts /\ Home[r] = c /\ m.dst \in MayGet(r)
  <2> SUFFICES ASSUME m.kind = "data", r # NoEpt
               PROVE  r \in Epts /\ Home[r] = c /\ m.dst \in MayGet(r)
    OBVIOUS
  <2>1. r \in Epts /\ Listed(list[c], r) /\ addr[r] = m.dst
    BY Lookups
  <2>2. rdev[r] /\ Home[r] = c
    BY <2>1 DEF ListInv
  <2> QED BY <2>1, <2>2 DEF OwnAddrs
<1> HIDE DEF m, r
<1>6. chan'[c] = Tail(chan[c]) /\ \A d \in Cores : d # c => chan'[d] = chan[d]
  BY <1>1, <1>2
<1>7. CASE m.kind = "data" /\ r = NoEpt
  <2>1. UNCHANGED <<rx, msg, hit>>
    BY <1>1, <1>7
  <2>2. Queue(c)' = Tail(Queue(c)) /\ \A d \in Cores : d # c => Queue(d)' = Queue(d)
    BY <1>1, <1>3, <1>6, <2>1 DEF Queue
  <2>3. \A n : ~Bye(Queue(c), n, 1)
    BY <1>3, <1>7 DEF Bye
  <2>4. Queue(c) \in Seq(Msgs) /\ Queue(c) # <<>>
    BY <1>1, <1>3
  <2>5. AllSaid' /\ Bindings'
    BY <1>1, <1>4, <2>2, <2>3, <2>4, Consumed
  <2>6. RxInv'
    BY <2>1 DEF RxInv
  <2> QED BY <2>5, <2>6
<1>8. CASE ~(m.kind = "data" /\ r = NoEpt)
  <2>1. /\ rx' = [rx EXCEPT ![c] = "found"] /\ msg' = [msg EXCEPT ![c] = m]
        /\ hit' = [hit EXCEPT ![c] = r]
    BY <1>1, <1>8
  <2>2. /\ rx'[c] = "found" /\ msg'[c] = m /\ hit'[c] = r
        /\ \A d \in Cores : d # c => rx'[d] = rx[d] /\ msg'[d] = msg[d] /\ hit'[d] = hit[d]
    BY <1>2, <2>1
  <2>3. <<m>> \o Tail(chan[c]) = chan[c]
    BY <1>1, <1>3
  <2>4. \A d \in Cores : Queue(d)' = Queue(d)
    <3>1. Queue(c)' = Queue(c)
      BY <1>3, <1>6, <2>2, <2>3 DEF Queue
    <3>2. \A d \in Cores : d # c => Queue(d)' = Queue(d)
      BY <1>6, <2>2 DEF Queue
    <3> QED BY <3>1, <3>2
  <2>5. AllSaid' /\ Bindings'
    BY <1>1, <1>4, <2>4, Quiet
  <2>6. RxInv'
    BY <1>3, <1>5, <1>8, <2>2 DEF RxInv
  <2> QED BY <2>5, <2>6
<1> QED BY <1>7, <1>8

\* The message that was held is gone.
LEMMA QueueDone ==
    ASSUME MsgTypes, RxInv, NEW c \in Cores, rx[c] \in {"found", "bind"}, chan' = chan,
           rx'[c] \notin {"found", "bind"},
           \A d \in Cores : d # c => rx'[d] = rx[d] /\ msg'[d] = msg[d] /\ hit'[d] = hit[d]
    PROVE  /\ Queue(c) \in Seq(Msgs) /\ Queue(c) # <<>> /\ Queue(c)[1] = msg[c]
           /\ Queue(c)' = Tail(Queue(c)) /\ \A d \in Cores : d # c => Queue(d)' = Queue(d)
           /\ RxInv'
<1>1. Queue(c) \in Seq(Msgs) /\ Queue(c) # <<>> /\ Queue(c)[1] = msg[c] /\ Tail(Queue(c)) = chan[c]
  BY QueueType, QueueHeld
<1>2. Queue(c)' = chan[c]
  BY DEF Queue
<1>3. \A d \in Cores : d # c => Queue(d)' = Queue(d)
  BY DEF Queue
<1>4. RxInv'
  BY DEF RxInv
<1> QED BY <1>1, <1>2, <1>3, <1>4

\* Data binds an endpoint without a destination to a covered address.
LEMMA DataSaid ==
    ASSUME ServiceHyp, NEW c \in Cores, RxData(c)
    PROVE  AllSaid' /\ Bindings' /\ RxInv'
<1> USE DEF ServiceHyp, ServiceInv
<1> DEFINE e == hit[c]
<1>1. /\ rx[c] = "found" /\ msg[c].kind = "data" /\ rx' = [rx EXCEPT ![c] = "cb"]
      /\ UNCHANGED <<rdev, addr, chan, op, ept, msg, hit>>
      /\ dest' = [dest EXCEPT ![e] = IF @ = ADDR_ANY THEN msg[c].src ELSE @]
  BY DEF RxData, RxCall, opVars
<1>2. rx \in [Cores -> {"idle", "found"} \cup Callbacks] /\ dest \in [Epts -> Addrs]
  BY DEF MsgTypes
<1>3. e \in Epts /\ Home[e] = c /\ msg[c].dst \in MayGet(e)
  BY <1>1 DEF RxInv
<1> HIDE DEF e
<1>4. rx'[c] = "cb" /\ \A d \in Cores : d # c => rx'[d] = rx[d] /\ msg'[d] = msg[d] /\ hit'[d] = hit[d]
  BY <1>1, <1>2
<1>5. /\ Queue(c) \in Seq(Msgs) /\ Queue(c) # <<>> /\ Queue(c)[1] = msg[c]
      /\ Queue(c)' = Tail(Queue(c)) /\ \A d \in Cores : d # c => Queue(d)' = Queue(d)
      /\ RxInv'
  BY <1>1, <1>4, QueueDone
<1>6. \A n : ~Bye(Queue(c), n, 1)
  BY <1>1, <1>5 DEF Bye
<1>7. Bound(Tail(Queue(c)), Firms, e, msg[c].src)
  <2>1. AllSound(c, Queue(c), Firms)
    BY DEF AllSaid
  <2> QED BY <1>1, <1>3, <1>5, <2>1, FrontBinds
<1>8. \A f \in Epts : dest'[f] = dest[f] \/ (f = e /\ dest'[f] = msg[c].src)
  BY <1>1, <1>2, <1>3
<1>9. \A f \in Epts : Stands(f) => Stands(f)' /\ addr'[f] = addr[f]
  BY <1>1, StandStill
<1>10. \A f \in Epts : rdev[f] /\ dest'[f] # ADDR_ANY =>
         \/ dest[f] = dest'[f] /\ (Home[f] = c => ~Bye(Queue(c), Name[f], 1))
         \/ Home[f] = c /\ Bound(Tail(Queue(c)), Firms, f, dest'[f])
  BY <1>3, <1>6, <1>7, <1>8
<1>11. AllSaid' /\ Bindings'
  BY <1>1, <1>5, <1>9, <1>10, Consumed
<1> QED BY <1>5, <1>11

\* So does an announcement, at once or in ns_bind_cb.
LEMMA NsCreateSaid ==
    ASSUME ServiceHyp, NEW c \in Cores, NsCreate(c)
    PROVE  AllSaid' /\ Bindings' /\ RxInv'
<1> USE DEF ServiceHyp, ServiceInv
<1> DEFINE e == GetEndpoint(c, msg[c].name, msg[c].addr)
<1>1. /\ rx[c] = "found" /\ msg[c].kind = "create"
      /\ UNCHANGED <<rdev, addr, chan, op, ept>>
      /\ IF e = NoEpt THEN rx' = [rx EXCEPT ![c] = "bind"] /\ UNCHANGED <<msg, hit, dest>>
         ELSE dest' = [dest EXCEPT ![e] = msg[c].addr] /\ RxIdle(c)
  BY DEF NsCreate, RxCall, opVars
<1>2. /\ rx \in [Cores -> {"idle", "found"} \cup Callbacks] /\ dest \in [Epts -> Addrs]
      /\ msg \in [Cores -> Msgs \cup {NoMessage}] /\ hit \in [Cores -> Epts \cup {NoEpt}]
  BY DEF MsgTypes
<1>3. \A f \in Epts : Stands(f) => Stands(f)' /\ addr'[f] = addr[f]
  BY <1>1, StandStill
<1>4. e # NoEpt => e \in Epts /\ Listed(list[c], e) /\ Name[e] = msg[c].name
  BY Lookups
<1> HIDE DEF e
<1>5. CASE e = NoEpt
  <2>1. /\ rx'[c] = "bind" /\ UNCHANGED <<msg, hit, dest>>
        /\ \A d \in Cores : d # c => rx'[d] = rx[d]
    BY <1>1, <1>2, <1>5
  <2>2. \A d \in Cores : Queue(d)' = Queue(d)
    BY <1>1, <2>1 DEF Queue
  <2>3. AllSaid' /\ Bindings'
    BY <1>1, <1>3, <2>1, <2>2, Quiet
  <2>4. RxInv'
    BY <1>1, <2>1 DEF RxInv
  <2> QED BY <2>3, <2>4
<1>6. CASE e # NoEpt
  <2>1. /\ rx'[c] = "idle" /\ dest' = [dest EXCEPT ![e] = msg[c].addr]
        /\ \A d \in Cores : d # c => rx'[d] = rx[d] /\ msg'[d] = msg[d] /\ hit'[d] = hit[d]
    BY <1>1, <1>2, <1>6 DEF RxIdle
  <2>2. /\ Queue(c) \in Seq(Msgs) /\ Queue(c) # <<>> /\ Queue(c)[1] = msg[c]
        /\ Queue(c)' = Tail(Queue(c)) /\ \A d \in Cores : d # c => Queue(d)' = Queue(d)
        /\ RxInv'
    BY <1>1, <2>1, QueueDone
  <2>3. \A n : ~Bye(Queue(c), n, 1)
    BY <1>1, <2>2 DEF Bye
  <2>4. e \in Epts /\ Home[e] = c
    BY <1>4, <1>6 DEF ListInv
  <2>5. Bound(Tail(Queue(c)), Firms, e, msg[c].addr)
    <3>1. AllSound(c, Queue(c), Firms)
      BY DEF AllSaid
    <3> QED BY <1>1, <1>4, <1>6, <2>2, <2>4, <3>1, FrontBinds
  <2>6. \A f \in Epts : dest'[f] = dest[f] \/ (f = e /\ dest'[f] = msg[c].addr)
    BY <1>2, <2>1, <2>4
  <2>7. \A f \in Epts : rdev[f] /\ dest'[f] # ADDR_ANY =>
          \/ dest[f] = dest'[f] /\ (Home[f] = c => ~Bye(Queue(c), Name[f], 1))
          \/ Home[f] = c /\ Bound(Tail(Queue(c)), Firms, f, dest'[f])
    BY <2>3, <2>4, <2>5, <2>6
  <2>8. AllSaid' /\ Bindings'
    BY <1>1, <1>3, <2>2, <2>7, Consumed
  <2> QED BY <2>2, <2>8
<1> QED BY <1>5, <1>6

\* The farewell of a service finds its endpoint if that is registered.
LEMMA FarewellFinds ==
    ASSUME ServiceHyp, NEW c \in Cores, rx[c] = "found", msg[c].kind = "destroy",
           NEW e \in Epts, rdev[e], Home[e] = c, Name[e] # NoName, Name[e] = msg[c].name
    PROVE  /\ dest[e] \in {msg[c].addr, ADDR_ANY}
           /\ GetEndpoint(c, msg[c].name, msg[c].addr) = e
<1> USE DEF ServiceHyp, ServiceInv
<1> DEFINE r == GetEndpoint(c, msg[c].name, msg[c].addr)
<1>1. Queue(c) \in Seq(Msgs) /\ Queue(c) # <<>> /\ Queue(c)[1] = msg[c]
  BY QueueType, QueueHeld
<1>2. dest[e] \in {msg[c].addr, ADDR_ANY}
  <2> SUFFICES ASSUME dest[e] # ADDR_ANY PROVE dest[e] = msg[c].addr
    OBVIOUS
  <2>1. Bound(Queue(c), Firms, e, dest[e])
    BY DEF Bindings
  <2>2. Bye(Queue(c), Name[e], 1)
    BY <1>1 DEF Bye
  <2> QED BY <1>1, <2>1, <2>2, FrontUnbinds
<1>3. Listed(list[c], e)
  BY DEF ListInv
<1>4. r # NoEpt => r \in Epts /\ Listed(list[c], r) /\ Name[r] = msg[c].name
  BY Lookups
<1>5. r = NoEpt => dest[e] \notin {msg[c].addr, ADDR_ANY}
  BY <1>3, Lookups
<1> HIDE DEF r
<1>6. r \in Epts /\ Home[r] = c /\ Name[r] = Name[e]
  BY <1>2, <1>4, <1>5 DEF ListInv
<1>7. r = e
  BY <1>6, OneOfService
<1> QED BY <1>2, <1>7 DEF r

\* A farewell unbinds the endpoint that was bound to the one that left.
LEMMA NsDestroySaid ==
    ASSUME ServiceHyp, NEW c \in Cores, NsDestroy(c)
    PROVE  AllSaid' /\ Bindings' /\ RxInv'
<1> USE DEF ServiceHyp, ServiceInv
<1> DEFINE e == GetEndpoint(c, msg[c].name, msg[c].addr)
<1>1. /\ rx[c] = "found" /\ msg[c].kind = "destroy"
      /\ UNCHANGED <<rdev, addr, chan, op, ept>>
      /\ IF e = NoEpt THEN RxIdle(c) /\ UNCHANGED dest
         ELSE /\ dest' = [dest EXCEPT ![e] = ADDR_ANY] /\ rx' = [rx EXCEPT ![c] = "unbind"]
              /\ hit' = [hit EXCEPT ![c] = e] /\ UNCHANGED msg
  BY DEF NsDestroy, opVars
<1>2. /\ rx \in [Cores -> {"idle", "found"} \cup Callbacks] /\ dest \in [Epts -> Addrs]
      /\ msg \in [Cores -> Msgs \cup {NoMessage}] /\ hit \in [Cores -> Epts \cup {NoEpt}]
  BY DEF MsgTypes
<1>3. \A f \in Epts : Stands(f) => Stands(f)' /\ addr'[f] = addr[f]
  BY <1>1, StandStill
<1>4. e # NoEpt => e \in Epts
  BY Lookups
<1>f. \A f \in Epts : rdev[f] /\ Home[f] = c /\ Name[f] # NoName /\ Name[f] = msg[c].name => e = f
  BY <1>1, FarewellFinds
<1> HIDE DEF e
<1>5. /\ rx'[c] \in {"idle", "unbind"}
      /\ \A d \in Cores : d # c => rx'[d] = rx[d] /\ msg'[d] = msg[d] /\ hit'[d] = hit[d]
  BY <1>1, <1>2 DEF RxIdle
<1>6. /\ Queue(c) \in Seq(Msgs) /\ Queue(c) # <<>> /\ Queue(c)[1] = msg[c]
      /\ Queue(c)' = Tail(Queue(c)) /\ \A d \in Cores : d # c => Queue(d)' = Queue(d)
      /\ RxInv'
  BY <1>1, <1>5, QueueDone
<1>7. \A f \in Epts : dest'[f] = dest[f] \/ dest'[f] = ADDR_ANY
  BY <1>1, <1>2, <1>4
<1>8. e \in Epts => dest'[e] = ADDR_ANY
  BY <1>1, <1>2, EptAssumption
<1>9. ASSUME NEW f \in Epts, rdev[f], dest'[f] # ADDR_ANY
      PROVE  dest[f] = dest'[f] /\ (Home[f] = c => ~Bye(Queue(c), Name[f], 1))
  <2>1. dest[f] = dest'[f]
    BY <1>7, <1>9
  <2>2. Name[f] # NoName
    BY <1>9, <2>1 DEF Bindings, Bound, Pair
  <2>3. Bye(Queue(c), Name[f], 1) => Name[f] = msg[c].name
    BY <1>6 DEF Bye
  <2> QED BY <1>8, <1>9, <1>f, <2>1, <2>2, <2>3
<1>10. AllSaid' /\ Bindings'
  BY <1>1, <1>3, <1>6, <1>9, Consumed
<1> QED BY <1>6, <1>10

\* A callback returns, and the announcement it was about is gone.
LEMMA ReturnSaid ==
    ASSUME ServiceHyp, NEW c \in Cores, RxReturn(c)
    PROVE  AllSaid' /\ Bindings' /\ RxInv'
<1> USE DEF ServiceHyp, ServiceInv
<1>1. rx[c] \in Callbacks /\ RxIdle(c) /\ UNCHANGED <<rdev, addr, dest, chan, op, ept>>
  BY DEF RxReturn, eptVars, opVars
<1>2. /\ rx \in [Cores -> {"idle", "found"} \cup Callbacks]
      /\ msg \in [Cores -> Msgs \cup {NoMessage}] /\ hit \in [Cores -> Epts \cup {NoEpt}]
  BY DEF MsgTypes
<1>3. /\ rx'[c] = "idle"
      /\ \A d \in Cores : d # c => rx'[d] = rx[d] /\ msg'[d] = msg[d] /\ hit'[d] = hit[d]
  BY <1>1, <1>2 DEF RxIdle
<1>4. \A f \in Epts : Stands(f) => Stands(f)' /\ addr'[f] = addr[f]
  BY <1>1, StandStill
<1>5. CASE rx[c] = "bind"
  <2>1. /\ Queue(c) \in Seq(Msgs) /\ Queue(c) # <<>> /\ Queue(c)[1] = msg[c]
        /\ Queue(c)' = Tail(Queue(c)) /\ \A d \in Cores : d # c => Queue(d)' = Queue(d)
        /\ RxInv'
    BY <1>1, <1>3, <1>5, QueueDone
  <2>2. msg[c].kind = "create"
    BY <1>5 DEF MsgTypes
  <2>3. \A n : ~Bye(Queue(c), n, 1)
    BY <2>1, <2>2 DEF Bye
  <2>4. AllSaid' /\ Bindings'
    BY <1>1, <1>4, <2>1, <2>3, Consumed
  <2> QED BY <2>1, <2>4
<1>6. CASE rx[c] # "bind"
  <2>1. rx[c] \notin {"found", "bind"}
    BY <1>1, <1>6 DEF Callbacks
  <2>2. \A d \in Cores : Queue(d)' = Queue(d)
    BY <1>1, <1>3, <2>1 DEF Queue
  <2>3. AllSaid' /\ Bindings'
    BY <1>1, <1>4, <2>2, Quiet
  <2>4. RxInv'
    BY <1>3 DEF RxInv
  <2> QED BY <2>3, <2>4
<1> QED BY <1>5, <1>6

\* Every step keeps the invariant of the name service.
LEMMA ServiceStep ==
    ServicesApart /\ ~DestroyLost /\ EptInv /\ MsgTypes /\ ServiceInv /\ [Next]_vars => ServiceInv'
<1> SUFFICES ASSUME ServicesApart, ~DestroyLost, EptInv, MsgTypes, ServiceInv, [Next]_vars
             PROVE  ServiceInv'
  OBVIOUS
<1>1. ServiceHyp
  BY DEF ServiceHyp
<1>2. ListInv' /\ OwnAddrs'
  BY ListStep, AddrStep DEF ServiceInv
<1>3. ASSUME UNCHANGED <<rx, msg, hit>> PROVE RxInv'
  BY <1>3 DEF ServiceInv, RxInv
<1>4. AllSaid' /\ Bindings' /\ RxInv'
  <2>1. ASSUME NEW t \in Contexts, NEW e \in Epts, NEW src \in Srcs[e], Create(t, e, src)
        PROVE  AllSaid' /\ Bindings' /\ RxInv'
    BY <1>1, <1>3, <2>1, CreateSaid DEF Create, rxVars
  <2>2. ASSUME NEW t \in Contexts, CreateDone(t) PROVE AllSaid' /\ Bindings' /\ RxInv'
    BY <1>1, <1>3, <2>2, CreateDoneSaid DEF CreateDone, rxVars
  <2>3. ASSUME NEW t \in Contexts, Farewell(t) PROVE AllSaid' /\ Bindings' /\ RxInv'
    BY <1>1, <1>3, <2>3, FarewellSaid DEF Farewell, rxVars
  <2>4. ASSUME NEW t \in Contexts, NEW e \in Epts, SendData(t, e)
        PROVE  AllSaid' /\ Bindings' /\ RxInv'
    BY <1>1, <1>3, <2>4, SendSaid DEF SendData, rxVars
  <2>5. ASSUME NEW t \in Contexts, Unregister(t) \/ CreateFailed(t) \/ \E e \in Epts : Destroy(t, e)
        PROVE  AllSaid' /\ Bindings' /\ RxInv'
    BY <1>1, <1>3, <2>5, CallsSaid DEF Unregister, CreateFailed, Destroy, rxVars
  <2>6. ASSUME NEW c \in Cores, RxTake(c) \/ RxData(c) \/ NsCreate(c) \/ NsDestroy(c) \/ RxReturn(c)
        PROVE  AllSaid' /\ Bindings' /\ RxInv'
    BY <1>1, <2>6, TakeSaid, DataSaid, NsCreateSaid, NsDestroySaid, ReturnSaid
  <2>7. CASE UNCHANGED vars
    <3>1. UNCHANGED <<rx, msg, hit, chan, rdev, addr, dest, op, ept>>
      BY <2>7 DEF vars, eptVars, rxVars, opVars
    <3>2. \A d \in Cores : Queue(d)' = Queue(d)
      BY <3>1 DEF Queue
    <3>3. \A f \in Epts : Stands(f) => Stands(f)' /\ addr'[f] = addr[f]
      BY <3>1, StandStill
    <3>4. AllSaid' /\ Bindings'
      BY <3>1, <3>2, <3>3, Quiet DEF ServiceInv
    <3> QED BY <1>3, <3>1, <3>4
  <2> QED BY <2>1, <2>2, <2>3, <2>4, <2>5, <2>6, <2>7 DEF Next
<1> QED BY <1>2, <1>4 DEF ServiceInv

\* At the start no endpoint is registered and nothing is said.
LEMMA ServiceInit == Init => ServiceInv
<1> SUFFICES ASSUME Init PROVE ServiceInv
  OBVIOUS
<1> USE DEF Init
<1>1. ListInv
  <2>1. \A c \in Cores : list[c] = <<>> /\ Len(list[c]) = 0
    OBVIOUS
  <2> QED BY <2>1 DEF ListInv, Listed, Distinct
<1>2. OwnAddrs /\ RxInv /\ Bindings
  BY DEF OwnAddrs, RxInv, Bindings
<1>3. AllSaid
  <2>1. \A c \in Cores : Queue(c) = <<>> /\ Len(Queue(c)) = 0
    BY DEF Queue
  <2> QED BY <2>1 DEF AllSaid, AllSound
<1> QED BY <1>1, <1>2, <1>3 DEF ServiceInv

\* In a quiescent state a bound endpoint is bound to the other one of its service.
LEMMA BoundToPartner ==
    ASSUME EptInv, MsgTypes, ServiceInv, Quiescent, NEW e \in Epts, rdev[e], dest[e] # ADDR_ANY
    PROVE  \E f \in Epts : Pair(e, f) /\ f \in Partners(e)
<1>1. Home[e] \in Cores
  BY EptAssumption
<1>2. Queue(Home[e]) = <<>>
  BY <1>1 DEF Quiescent, Queue
<1>3. PICK f \in Epts : Pair(e, f) /\ Covered(<<>>, Firms, f, 0, dest[e])
  BY <1>2 DEF ServiceInv, Bindings, Bound
<1>4. ~Told(<<>>, Name[f], 0, dest[e])
  BY DEF Told
<1>5. Stands(f) /\ dest[e] = addr[f]
  BY <1>3, <1>4, FirmFacts DEF Covered
<1>6. Home[f] # Home[e]
  BY <1>1, <1>3, PeerFacts DEF Pair
<1> QED BY <1>3, <1>5, <1>6 DEF Stands, Partners

\* "called when remote ept is destroyed": whoever was bound to an endpoint that is
\* gone is unbound once all messages are delivered, however creations,
\* destructions, lookups and late data interleave, for any number of services that
\* are apart; rpmsg_destroy_ept has to get its farewell out.
THEOREM UnboundOnceDestroyed ==
    ServicesApart /\ ~DestroyLost => (Spec => []UnboundAfterDestroy)
<1> SUFFICES ASSUME ServicesApart, ~DestroyLost PROVE Spec => []UnboundAfterDestroy
  OBVIOUS
<1>1. EptInv /\ MsgTypes /\ ServiceInv => UnboundAfterDestroy
  BY BoundToPartner DEF UnboundAfterDestroy
<1>2. EptInv /\ MsgTypes /\ ServiceInv /\ [Next]_vars => ServiceInv'
  BY ServiceStep
<1> QED BY <1>1, <1>2, EptInit, EptStep, MsgInit, MsgStep, ServiceInit, PTL DEF Spec

(***************************************************************************)
(* Two endpoints of a service that are registered, one on each core: as    *)
(* long as neither is bound, one is still to be announced, or to hear of   *)
(* the other, or to be destroyed.                                          *)
(***************************************************************************)
\* Core c has still to look at an announcement of this kind and name.
Due(c, kind, n) ==
    \/ rx[c] = "found" /\ msg[c].kind = kind /\ msg[c].name = n
    \/ \E i \in 1..Len(chan[c]) : chan[c][i].kind = kind /\ chan[c][i].name = n

Going(e) == \E t \in Contexts : ept[t] = e /\ op[t] \in {"farewell", "unregister"}
Unbinding(e) == rx[Home[e]] = "unbind" /\ hit[Home[e]] = e
Doomed(e) == Going(e) \/ Unbinding(e) \/ Due(Home[e], "destroy", Name[e])
Heard(e) == dest[e] # ADDR_ANY \/ Due(Home[e], "create", Name[e])

Meeting ==
    \A e, f \in Epts : Pair(e, f) /\ rdev[e] /\ rdev[f] =>
      Doomed(e) \/ Doomed(f) \/ Arriving(e) \/ Arriving(f) \/ Heard(e) \/ Heard(f)

\* What a step may do to one of the two.
Keeps(e) ==
    rdev'[e] =>
      \/ Arriving(e)'
      \/ /\ rdev[e]
         /\ Doomed(e) => Doomed(e)'
         /\ Heard(e) => Heard(e)' \/ Doomed(e)'
         /\ Arriving(e) => Doomed(e)' \/ Heard(e)' \/ \A f \in Epts : Pair(e, f) => Heard(f)'

\* A step that keeps every endpoint of a service keeps the meeting.
LEMMA MeetingKept ==
    ASSUME Meeting, \A e \in Epts : Name[e] # NoName => Keeps(e)
    PROVE  Meeting'
<1> SUFFICES ASSUME NEW e \in Epts, NEW f \in Epts, Pair(e, f), rdev'[e], rdev'[f],
                    ~Arriving(e)', ~Arriving(f)'
             PROVE  Doomed(e)' \/ Doomed(f)' \/ Heard(e)' \/ Heard(f)'
  BY DEF Meeting
<1>1. Pair(f, e) /\ Name[e] # NoName /\ Name[f] # NoName
  BY PairFacts DEF Pair
<1>2. Keeps(e) /\ Keeps(f)
  BY <1>1
<1>3. /\ rdev[e] /\ (Doomed(e) => Doomed(e)') /\ (Heard(e) => Heard(e)' \/ Doomed(e)')
      /\ (Arriving(e) => Doomed(e)' \/ Heard(e)' \/ Heard(f)')
  BY <1>2 DEF Keeps
<1>4. /\ rdev[f] /\ (Doomed(f) => Doomed(f)') /\ (Heard(f) => Heard(f)' \/ Doomed(f)')
      /\ (Arriving(f) => Doomed(f)' \/ Heard(f)' \/ Heard(e)')
  BY <1>1, <1>2 DEF Keeps
<1>5. Doomed(e) \/ Doomed(f) \/ Arriving(e) \/ Arriving(f) \/ Heard(e) \/ Heard(f)
  BY <1>3, <1>4 DEF Meeting
<1> QED BY <1>3, <1>4, <1>5

\* What is due stays due while calls post more, and so does what is posted.
LEMMA DuePost ==
    ASSUME MsgTypes, NEW c \in Cores, NEW m \in Msgs, Post(c, m), UNCHANGED <<rx, msg>>
    PROVE  /\ \A d \in Cores : \A k, n : Due(d, k, n) => Due(d, k, n)'
           /\ Due(Peer(c), m.kind, m.name)'
<1> DEFINE p == Peer(c)
<1>1. p \in Cores
  BY PeerFacts
<1>2. chan' = [chan EXCEPT ![p] = Append(@, m)] /\ chan \in [Cores -> Seq(Msgs)]
  BY DEF Post, MsgTypes
<1> HIDE DEF p
<1>3. chan'[p] = Append(chan[p], m) /\ (\A d \in Cores : d # p => chan'[d] = chan[d])
      /\ chan[p] \in Seq(Msgs)
  BY <1>1, <1>2
<1>4. /\ Len(chan'[p]) = Len(chan[p]) + 1 /\ Len(chan[p]) \in Nat
      /\ chan'[p][Len(chan[p]) + 1] = m
      /\ \A i \in 1..Len(chan[p]) : chan'[p][i] = chan[p][i]
  BY <1>3
<1>5. \A k, n : Due(p, k, n) => Due(p, k, n)'
  <2> SUFFICES ASSUME NEW k, NEW n, Due(p, k, n) PROVE Due(p, k, n)'
    OBVIOUS
  <2>1. CASE rx[p] = "found" /\ msg[p].kind = k /\ msg[p].name = n
    BY <2>1 DEF Due
  <2>2. ASSUME NEW i \in 1..Len(chan[p]), chan[p][i].kind = k, chan[p][i].name = n
        PROVE  Due(p, k, n)'
    <3>1. i \in 1..Len(chan'[p]) /\ chan'[p][i] = chan[p][i]
      BY <1>4
    <3> QED BY <2>2, <3>1 DEF Due
  <2> QED BY <2>1, <2>2 DEF Due
<1>6. \A d \in Cores : d # p => \A k, n : Due(d, k, n) => Due(d, k, n)'
  BY <1>3 DEF Due
<1>7. Due(p, m.kind, m.name)'
  <2>1. Len(chan[p]) + 1 \in 1..Len(chan'[p])
    BY <1>4
  <2> QED BY <1>4, <2>1 DEF Due
<1> QED BY <1>5, <1>6, <1>7 DEF p

\* A message that is taken is still due, and the others are.
LEMMA DueTake ==
    ASSUME MsgTypes, NEW c \in Cores, RxTake(c)
    PROVE  \A d \in Cores : \A k \in {"create", "destroy"} : \A n : Due(d, k, n) => Due(d, k, n)'
<1> DEFINE m == Head(chan[c])
           r == IF m.kind = "data" THEN EptAt(c, m.dst) ELSE NoEpt
<1>1. /\ rx[c] = "idle" /\ chan[c] # <<>> /\ chan' = [chan EXCEPT ![c] = Tail(@)]
      /\ IF m.kind = "data" /\ r = NoEpt
           THEN UNCHANGED <<rx, msg>>
           ELSE rx' = [rx EXCEPT ![c] = "found"] /\ msg' = [msg EXCEPT ![c] = m]
  BY DEF RxTake, rxVars
<1>2. /\ chan \in [Cores -> Seq(Msgs)] /\ msg \in [Cores -> Msgs \cup {NoMessage}]
      /\ rx \in [Cores -> {"idle", "found"} \cup Callbacks]
  BY DEF MsgTypes
<1>3. m = chan[c][1]
  OBVIOUS
<1> HIDE DEF m, r
<1>4. /\ chan'[c] = Tail(chan[c]) /\ chan[c] \in Seq(Msgs)
      /\ \A d \in Cores : d # c => chan'[d] = chan[d]
  BY <1>1, <1>2
<1>5. /\ \A d \in Cores : d # c => rx'[d] = rx[d] /\ msg'[d] = msg[d]
      /\ m.kind # "data" => rx'[c] = "found" /\ msg'[c] = m
  BY <1>1, <1>2
<1>6. \A d \in Cores : d # c => \A k, n : Due(d, k, n) => Due(d, k, n)'
  BY <1>4, <1>5 DEF Due
<1>7. ASSUME NEW k \in {"create", "destroy"}, NEW n, Due(c, k, n) PROVE Due(c, k, n)'
  <2>1. PICK i \in 1..Len(chan[c]) : chan[c][i].kind = k /\ chan[c][i].name = n
    BY <1>1, <1>7 DEF Due
  <2>2. CASE i = 1
    <3>1. m.kind = k /\ m.name = n /\ m.kind # "data"
      BY <1>3, <2>1, <2>2
    <3> QED BY <1>5, <3>1 DEF Due
  <2>3. CASE i # 1
    <3>1. \A s \in Seq(Msgs) : s # <<>> => /\ Len(Tail(s)) = Len(s) - 1 /\ Len(s) \in Nat
                                          /\ \A j \in 1..Len(Tail(s)) : Tail(s)[j] = s[j + 1]
      OBVIOUS
    <3>2. /\ Len(chan'[c]) = Len(chan[c]) - 1 /\ Len(chan[c]) \in Nat
          /\ \A j \in 1..Len(chan'[c]) : chan'[c][j] = chan[c][j + 1]
      BY <1>1, <1>4, <3>1
    <3>3. i - 1 \in 1..Len(chan'[c]) /\ (i - 1) + 1 = i
      BY <2>3, <3>2
    <3>4. chan'[c][i - 1] = chan[c][i]
      BY <3>2, <3>3
    <3> QED BY <2>1, <3>3, <3>4 DEF Due
  <2> QED BY <2>2, <2>3
<1> QED BY <1>6, <1>7

\* rx_callback is done with a message: the others are still due.
LEMMA DueDone ==
    ASSUME MsgTypes, NEW c \in Cores, chan' = chan,
           \A d \in Cores : d # c => rx'[d] = rx[d] /\ msg'[d] = msg[d],
           NEW k, NEW n, rx[c] = "found" => msg[c].kind # k \/ msg[c].name # n
    PROVE  \A d \in Cores : Due(d, k, n) => Due(d, k, n)'
BY DEF Due

\* The calls leave what does not concern them.
LEMMA CallKeeps ==
    ASSUME NEW e \in Epts, UNCHANGED <<rx, hit>>, rdev'[e] = rdev[e], dest'[e] = dest[e],
           \A d \in Cores : \A k, n : Due(d, k, n) => Due(d, k, n)',
           Going(e) => Going(e)',
           Arriving(e) => Arriving(e)' \/ Going(e)' \/ Heard(e)'
                            \/ \A f \in Epts : Pair(e, f) => Heard(f)'
    PROVE  Keeps(e)
<1>1. Home[e] \in Cores
  BY EptAssumption
<1>2. Doomed(e) => Doomed(e)'
  BY <1>1 DEF Doomed, Unbinding
<1>3. Heard(e) => Heard(e)'
  BY <1>1 DEF Heard
<1>4. Going(e)' => Doomed(e)'
  BY DEF Doomed
<1> QED BY <1>2, <1>3, <1>4 DEF Keeps

\* A context other than t, or on another endpoint, is where it was.
LEMMA OthersStay ==
    ASSUME EptInv, NEW t \in Contexts, NEW g, NEW stage, Enter(t, stage, g),
           NEW e \in Epts, ept[t] # e
    PROVE  (Going(e) => Going(e)') /\ (Arriving(e) => Arriving(e)')
<1>1. op' = [op EXCEPT ![t] = stage] /\ ept' = [ept EXCEPT ![t] = g]
  BY DEF Enter
<1>2. op \in [Contexts -> {"idle", "announce", "farewell", "unregister"}]
      /\ ept \in [Contexts -> Epts \cup {NoEpt}]
  BY DEF EptInv, AddrTypes
<1>3. \A u \in Contexts : ept[u] = e => ept'[u] = e /\ op'[u] = op[u]
  BY <1>1, <1>2
<1> QED BY <1>3 DEF Going, Arriving

\* Entering the farewell or the clean-up dooms an endpoint.
LEMMA EnterGoing ==
    ASSUME EptInv, NEW t \in Contexts, NEW g \in Epts, NEW stage \in {"farewell", "unregister"},
           Enter(t, stage, g)
    PROVE  Going(g)'
<1>1. op' = [op EXCEPT ![t] = stage] /\ ept' = [ept EXCEPT ![t] = g]
  BY DEF Enter
<1>2. op \in [Contexts -> {"idle", "announce", "farewell", "unregister"}]
      /\ ept \in [Contexts -> Epts \cup {NoEpt}]
  BY DEF EptInv, AddrTypes
<1>3. op'[t] = stage /\ ept'[t] = g
  BY <1>1, <1>2
<1> QED BY <1>3 DEF Going

\* rpmsg_create_ept: the new endpoint is to be announced.
LEMMA CreateMeets ==
    ASSUME ServiceHyp, NEW t \in Contexts, NEW g \in Epts, NEW src \in Srcs[g], Create(t, g, src),
           NEW e \in Epts
    PROVE  Keeps(e)
<1> USE DEF ServiceHyp
<1>1. /\ rdev' = [rdev EXCEPT ![g] = TRUE] /\ dest' = [dest EXCEPT ![g] = DestFor(t, g)]
      /\ Enter(t, "announce", g) /\ ept[t] = NoEpt /\ UNCHANGED <<chan, rx, msg, hit>>
  BY DEF Create, rxVars, MayCall, EptInv, CallsInv
<1>2. /\ rdev \in [Epts -> BOOLEAN] /\ dest \in [Epts -> Addrs]
      /\ op \in [Contexts -> {"idle", "announce", "farewell", "unregister"}]
      /\ ept \in [Contexts -> Epts \cup {NoEpt}]
  BY DEF EptInv, AddrTypes, MsgTypes
<1>3. CASE e = g
  <2>1. op'[t] = "announce" /\ ept'[t] = g
    BY <1>1, <1>2 DEF Enter
  <2> QED BY <1>3, <2>1 DEF Keeps, Arriving
<1>4. CASE e # g
  <2>1. rdev'[e] = rdev[e] /\ dest'[e] = dest[e]
    BY <1>1, <1>2, <1>4
  <2>2. (Going(e) => Going(e)') /\ (Arriving(e) => Arriving(e)')
    BY <1>1, EptAssumption, OthersStay
  <2>3. \A d \in Cores : \A k, n : Due(d, k, n) => Due(d, k, n)'
    BY <1>1 DEF Due
  <2> QED BY <1>1, <2>1, <2>2, <2>3, CallKeeps
<1> QED BY <1>3, <1>4

\* The announcement: the other endpoint of the service is to hear of it.
LEMMA CreateDoneMeets ==
    ASSUME ServiceHyp, NEW t \in Contexts, CreateDone(t), NEW e \in Epts, Name[e] # NoName
    PROVE  Keeps(e)
<1> USE DEF ServiceHyp
<1>0. ept[t] \in Epts
  BY DEF CreateDone, Stage, EptInv, AddrTypes, CallsInv
<1> SUFFICES ASSUME NEW g \in Epts, g = ept[t] PROVE Keeps(e)
  BY <1>0
<1> DEFINE c == t[2]
           m == NsMsg("create", Name[g], addr[g])
<1>1. /\ c \in Cores /\ Home[g] = c /\ rdev[g] /\ op[t] = "announce"
      /\ Enter(t, "idle", NoEpt) /\ UNCHANGED <<rdev, addr, dest, rx, msg, hit>>
      /\ IF MustAnnounce(g) THEN Post(c, m) ELSE UNCHANGED chan
  BY DEF CreateDone, Stage, Leave, eptVars, rxVars, EptInv, AddrTypes, CallsInv, Contexts
<1>2. addr[g] \in Addrs
  BY DEF EptInv, AddrTypes
<1>3. m \in Msgs /\ m.kind = "create" /\ m.name = Name[g]
  BY <1>2 DEF NsMsg, Msgs, NsMsgs
<1> HIDE DEF m, c
<1>4. /\ \A d \in Cores : \A k, n : Due(d, k, n) => Due(d, k, n)'
      /\ MustAnnounce(g) => Due(Peer(c), "create", Name[g])'
  <2>1. CASE MustAnnounce(g)
    BY <1>1, <1>3, <2>1, DuePost
  <2>2. CASE ~MustAnnounce(g)
    BY <1>1, <2>2 DEF Due
  <2> QED BY <2>1, <2>2
<1>5. CASE e # g
  <2>1. (Going(e) => Going(e)') /\ (Arriving(e) => Arriving(e)')
    BY <1>1, <1>5, OthersStay
  <2> QED BY <1>1, <1>4, <2>1, CallKeeps
<1>6. CASE e = g
  <2>1. \A u \in Contexts : ept[u] = e => op[u] = "announce"
    BY <1>1, <1>6 DEF EptInv, CallsInv
  <2>2. ~Going(e)
    BY <2>1 DEF Going
  <2>3. CASE MustAnnounce(g)
    <3>1. \A f \in Epts : Pair(e, f) => Heard(f)'
      BY <1>1, <1>4, <1>6, <2>3 DEF Pair, Heard
    <3> QED BY <1>1, <1>4, <2>2, <3>1, CallKeeps
  <2>4. CASE ~MustAnnounce(g)
    <3>1. Heard(e)'
      BY <1>1, <1>6, <2>4 DEF MustAnnounce, Heard
    <3> QED BY <1>1, <1>4, <2>2, <3>1, CallKeeps
  <2> QED BY <2>3, <2>4
<1> QED BY <1>5, <1>6

\* The other calls.
LEMMA CallsMeet ==
    ASSUME ServiceHyp, NEW t \in Contexts,
           Farewell(t) \/ Unregister(t) \/ CreateFailed(t) \/ \E g \in Epts : Destroy(t, g),
           NEW e \in Epts
    PROVE  Keeps(e)
<1> USE DEF ServiceHyp
<1>1. CASE Farewell(t) \/ CreateFailed(t) \/ \E g \in Epts : Destroy(t, g)
  <2>1. PICK g \in Epts, stage \in {"farewell", "unregister"} :
          Enter(t, stage, g) /\ ept[t] \in {g, NoEpt}
    BY <1>1 DEF Farewell, CreateFailed, Destroy, Stage, MayCall, EptInv, AddrTypes, CallsInv
  <2>2. UNCHANGED <<rdev, addr, dest, rx, msg, hit>>
    BY <1>1 DEF Farewell, CreateFailed, Destroy, eptVars, rxVars
  <2>3. \A d \in Cores : \A k, n : Due(d, k, n) => Due(d, k, n)'
    <3>1. CASE UNCHANGED chan
      BY <2>2, <3>1 DEF Due
    <3>2. CASE chan' # chan
      <4>1. Farewell(t) /\ ept[t] \in Epts /\ t[2] \in Cores
        BY <1>1, <3>2 DEF Farewell, CreateFailed, Destroy, Stage, EptInv, AddrTypes, CallsInv, Contexts
      <4> DEFINE m == NsMsg("destroy", Name[ept[t]], addr[ept[t]])
      <4>2. Post(t[2], m)
        BY <3>2, <4>1 DEF Farewell
      <4>3. addr[ept[t]] \in Addrs
        BY <4>1 DEF EptInv, AddrTypes
      <4>4. m \in Msgs
        BY <4>1, <4>3 DEF NsMsg, Msgs, NsMsgs
      <4> HIDE DEF m
      <4> QED BY <2>2, <4>1, <4>2, <4>4, DuePost
    <3> QED BY <3>1, <3>2
  <2>4. CASE e = g
    <3>1. Going(e)'
      BY <2>1, <2>4, EnterGoing
    <3> QED BY <2>2, <2>3, <3>1, CallKeeps
  <2>5. CASE e # g
    <3>1. (Going(e) => Going(e)') /\ (Arriving(e) => Arriving(e)')
      BY <2>1, <2>5, EptAssumption, OthersStay
    <3> QED BY <2>2, <2>3, <3>1, CallKeeps
  <2> QED BY <2>4, <2>5
<1>2. CASE Unregister(t)
  <2>0. ept[t] \in Epts
    BY <1>2 DEF Unregister, Stage, EptInv, AddrTypes, CallsInv
  <2> SUFFICES ASSUME NEW g \in Epts, g = ept[t] PROVE Keeps(e)
    BY <2>0
  <2>1. /\ rdev' = [rdev EXCEPT ![g] = FALSE] /\ Enter(t, "idle", NoEpt)
        /\ UNCHANGED <<dest, chan, rx, msg, hit>> /\ rdev \in [Epts -> BOOLEAN]
    BY <1>2 DEF Unregister, Leave, rxVars, EptInv, AddrTypes
  <2>2. \A d \in Cores : \A k, n : Due(d, k, n) => Due(d, k, n)'
    BY <2>1 DEF Due
  <2>3. CASE e = g
    BY <2>1, <2>3 DEF Keeps
  <2>4. CASE e # g
    <3>1. rdev'[e] = rdev[e]
      BY <2>1, <2>4
    <3>2. (Going(e) => Going(e)') /\ (Arriving(e) => Arriving(e)')
      BY <2>1, <2>4, OthersStay
    <3> QED BY <2>1, <2>2, <3>1, <3>2, CallKeeps
  <2> QED BY <2>3, <2>4
<1> QED BY <1>1, <1>2

\* rpmsg_send.
LEMMA SendMeets ==
    ASSUME ServiceHyp, NEW t \in Contexts, NEW g \in Epts, SendData(t, g), NEW e \in Epts
    PROVE  Keeps(e)
<1> USE DEF ServiceHyp
<1> DEFINE m == Data(addr[g], dest[g])
<1>1. t[2] \in Cores /\ Post(t[2], m) /\ UNCHANGED <<rdev, addr, dest, rx, msg, hit, op, ept>>
  BY DEF SendData, Contexts, eptVars, rxVars, opVars
<1>2. addr[g] \in Addrs /\ dest[g] \in Addrs
  BY DEF EptInv, AddrTypes, MsgTypes
<1>3. m \in Msgs
  BY <1>2 DEF Data, Msgs, DataMsgs
<1> HIDE DEF m
<1>4. \A d \in Cores : \A k, n : Due(d, k, n) => Due(d, k, n)'
  BY <1>1, <1>3, DuePost
<1>5. (Going(e) => Going(e)') /\ (Arriving(e) => Arriving(e)')
  BY <1>1 DEF Going, Arriving
<1> QED BY <1>1, <1>4, <1>5, CallKeeps

\* Outside the calls endpoints neither come nor go.
LEMMA RxKeeps ==
    ASSUME UNCHANGED <<rdev, op, ept>>, NEW e \in Epts,
           rdev[e] /\ Unbinding(e) => Doomed(e)',
           rdev[e] /\ Due(Home[e], "destroy", Name[e]) => Doomed(e)',
           rdev[e] /\ Heard(e) => Heard(e)' \/ Doomed(e)'
    PROVE  Keeps(e)
<1>1. (Going(e) => Going(e)') /\ (Arriving(e) => Arriving(e)')
  BY DEF Going, Arriving
<1>2. Going(e)' => Doomed(e)'
  BY DEF Doomed
<1>3. rdev[e] /\ Doomed(e) => Doomed(e)'
  BY <1>1, <1>2 DEF Doomed
<1> QED BY <1>1, <1>3 DEF Keeps

\* rpmsg_virtio_rx_callback.
LEMMA TakeMeets ==
    ASSUME ServiceHyp, NEW c \in Cores, RxTake(c), NEW e \in Epts
    PROVE  Keeps(e)
<1> USE DEF ServiceHyp
<1>1. /\ rx[c] = "idle" /\ UNCHANGED <<rdev, dest, op, ept>>
      /\ \/ UNCHANGED <<rx, hit>>
         \/ \E r : rx' = [rx EXCEPT ![c] = "found"] /\ hit' = [hit EXCEPT ![c] = r]
  BY DEF RxTake, rxVars, eptVars, opVars
<1>2. /\ rx \in [Cores -> {"idle", "found"} \cup Callbacks]
      /\ hit \in [Cores -> Epts \cup {NoEpt}] /\ Home[e] \in Cores
  BY EptAssumption DEF MsgTypes
<1>3. \A d \in Cores : \A k \in {"create", "destroy"} : \A n : Due(d, k, n) => Due(d, k, n)'
  BY DueTake
<1>4. Unbinding(e) => Unbinding(e)'
  BY <1>1, <1>2 DEF Unbinding
<1>5. Due(Home[e], "destroy", Name[e]) => Doomed(e)'
  BY <1>2, <1>3 DEF Doomed
<1>6. Heard(e) => Heard(e)'
  BY <1>1, <1>2, <1>3 DEF Heard
<1>7. Unbinding(e) => Doomed(e)'
  BY <1>4 DEF Doomed
<1> QED BY <1>1, <1>5, <1>6, <1>7, RxKeeps

\* The first data message can only bind an endpoint.
LEMMA DataMeets ==
    ASSUME ServiceHyp, NEW c \in Cores, RxData(c), NEW e \in Epts
    PROVE  Keeps(e)
<1> USE DEF ServiceHyp, ServiceInv
<1>1. /\ rx[c] = "found" /\ msg[c].kind = "data" /\ rx' = [rx EXCEPT ![c] = "cb"]
      /\ UNCHANGED <<rdev, chan, op, ept, msg, hit>>
      /\ dest' = [dest EXCEPT ![hit[c]] = IF @ = ADDR_ANY THEN msg[c].src ELSE @]
  BY DEF RxData, RxCall, opVars
<1>2. /\ rx \in [Cores -> {"idle", "found"} \cup Callbacks] /\ dest \in [Epts -> Addrs]
      /\ Home[e] \in Cores
  BY EptAssumption DEF MsgTypes
<1>3. rx'[c] = "cb" /\ \A d \in Cores : d # c => rx'[d] = rx[d] /\ msg'[d] = msg[d]
  BY <1>1, <1>2
<1>4. \A k \in {"create", "destroy"} : \A n : \A d \in Cores : Due(d, k, n) => Due(d, k, n)'
  <2> SUFFICES ASSUME NEW k \in {"create", "destroy"}, NEW n
               PROVE  \A d \in Cores : Due(d, k, n) => Due(d, k, n)'
    OBVIOUS
  <2>1. msg[c].kind # k
    BY <1>1
  <2> QED BY <1>1, <1>3, <2>1, DueDone
<1>5. dest[e] # ADDR_ANY => dest'[e] # ADDR_ANY
  BY <1>1, <1>2
<1>6. Unbinding(e) => Doomed(e)'
  BY <1>1, <1>2, <1>3 DEF Unbinding, Doomed
<1>7. Due(Home[e], "destroy", Name[e]) => Doomed(e)'
  BY <1>2, <1>4 DEF Doomed
<1>8. Heard(e) => Heard(e)'
  BY <1>2, <1>4, <1>5 DEF Heard
<1> QED BY <1>1, <1>6, <1>7, <1>8, RxKeeps

\* The announcement of a service binds its endpoint, unless that is bound.
LEMMA NsCreateMeets ==
    ASSUME ServiceHyp, NEW c \in Cores, NsCreate(c), NEW e \in Epts, Name[e] # NoName
    PROVE  Keeps(e)
<1> USE DEF ServiceHyp, ServiceInv
<1> DEFINE r == GetEndpoint(c, msg[c].name, msg[c].addr)
<1>1. /\ rx[c] = "found" /\ msg[c].kind = "create"
      /\ UNCHANGED <<rdev, chan, op, ept>>
      /\ IF r = NoEpt THEN rx' = [rx EXCEPT ![c] = "bind"] /\ UNCHANGED <<msg, hit, dest>>
         ELSE dest' = [dest EXCEPT ![r] = msg[c].addr] /\ RxIdle(c)
  BY DEF NsCreate, RxCall, opVars
<1>2. /\ rx \in [Cores -> {"idle", "found"} \cup Callbacks] /\ dest \in [Epts -> Addrs]
      /\ msg \in [Cores -> Msgs \cup {NoMessage}] /\ hit \in [Cores -> Epts \cup {NoEpt}]
      /\ Home[e] \in Cores
  BY EptAssumption DEF MsgTypes
<1>3. /\ r # NoEpt => r \in Epts /\ Listed(list[c], r) /\ Name[r] = msg[c].name
      /\ r = NoEpt => \A f : Listed(list[c], f) /\ Name[f] = msg[c].name => dest[f] # ADDR_ANY
  BY Lookups
<1> HIDE DEF r
<1>4. /\ rx'[c] \in {"bind", "idle"}
      /\ \A d \in Cores : d # c => rx'[d] = rx[d] /\ msg'[d] = msg[d] /\ hit'[d] = hit[d]
  BY <1>1, <1>2 DEF RxIdle
<1>5. \A d \in Cores : \A n : Due(d, "destroy", n) => Due(d, "destroy", n)'
  BY <1>1, <1>4, DueDone
<1>6. \A d \in Cores : \A n : n # msg[c].name => (Due(d, "create", n) => Due(d, "create", n)')
  BY <1>1, <1>4, DueDone
<1>7. msg[c].addr # ADDR_ANY
  <2>1. Queue(c) \in Seq(Msgs) /\ Queue(c) # <<>> /\ Queue(c)[1] = msg[c]
    BY <1>1, QueueType, QueueHeld
  <2>2. Sound(c, Queue(c), Firms, 1)
    BY <2>1 DEF AllSaid, AllSound
  <2>3. PICK f \in Epts : Name[f] # NoName /\ msg[c].addr \in MayGet(f)
    BY <1>1, <2>1, <2>2 DEF Sound
  <2>4. msg[c].addr \in Dyn
    BY <2>3 DEF ServicesApart
  <2> QED BY <2>4, AddrAssumption DEF Dyn, ADDR_ANY
<1>8. dest[e] # ADDR_ANY => dest'[e] # ADDR_ANY
  BY <1>1, <1>2, <1>7
<1>9. rdev[e] /\ Home[e] = c /\ Name[e] = msg[c].name => dest'[e] # ADDR_ANY
  <2> SUFFICES ASSUME rdev[e], Home[e] = c, Name[e] = msg[c].name PROVE dest'[e] # ADDR_ANY
    OBVIOUS
  <2>1. Listed(list[c], e)
    BY DEF ListInv
  <2>2. CASE r = NoEpt
    BY <1>3, <1>8, <2>1, <2>2
  <2>3. CASE r # NoEpt
    <3>1. r \in Epts /\ Home[r] = c /\ Name[r] = Name[e]
      BY <1>3, <2>3 DEF ListInv
    <3>2. r = e
      BY <3>1, OneOfService
    <3>3. dest' = [dest EXCEPT ![r] = msg[c].addr]
      BY <1>1, <2>3
    <3> QED BY <1>2, <1>7, <3>2, <3>3
  <2> QED BY <2>2, <2>3
<1>10. Unbinding(e) => Doomed(e)'
  BY <1>1, <1>2, <1>4 DEF Unbinding, Doomed
<1>11. Due(Home[e], "destroy", Name[e]) => Doomed(e)'
  BY <1>2, <1>5 DEF Doomed
<1>12. rdev[e] /\ Heard(e) => Heard(e)'
  <2>1. CASE dest'[e] # ADDR_ANY
    BY <2>1 DEF Heard
  <2>2. CASE dest'[e] = ADDR_ANY /\ Home[e] = c
    BY <1>2, <1>6, <1>8, <1>9, <2>2 DEF Heard
  <2>3. CASE dest'[e] = ADDR_ANY /\ Home[e] # c
    <3>1. Due(Home[e], "create", Name[e]) => Due(Home[e], "create", Name[e])'
      BY <1>1, <1>2, <1>4, <2>3 DEF Due
    <3> QED BY <1>8, <2>3, <3>1 DEF Heard
  <2> QED BY <2>1, <2>2, <2>3
<1> QED BY <1>1, <1>10, <1>11, <1>12, RxKeeps

\* The farewell of a service runs the callback that destroys its endpoint.
LEMMA NsDestroyMeets ==
    ASSUME ServiceHyp, NEW c \in Cores, NsDestroy(c), NEW e \in Epts, Name[e] # NoName
    PROVE  Keeps(e)
<1> USE DEF ServiceHyp, ServiceInv
<1> DEFINE r == GetEndpoint(c, msg[c].name, msg[c].addr)
<1>1. /\ rx[c] = "found" /\ msg[c].kind = "destroy"
      /\ UNCHANGED <<rdev, chan, op, ept>>
      /\ IF r = NoEpt THEN RxIdle(c) /\ UNCHANGED dest
         ELSE /\ dest' = [dest EXCEPT ![r] = ADDR_ANY] /\ rx' = [rx EXCEPT ![c] = "unbind"]
              /\ hit' = [hit EXCEPT ![c] = r] /\ UNCHANGED msg
  BY DEF NsDestroy, opVars
<1>2. /\ rx \in [Cores -> {"idle", "found"} \cup Callbacks] /\ dest \in [Epts -> Addrs]
      /\ msg \in [Cores -> Msgs \cup {NoMessage}] /\ hit \in [Cores -> Epts \cup {NoEpt}]
      /\ Home[e] \in Cores /\ NoEpt \notin Epts
  BY EptAssumption DEF MsgTypes
<1>3. r # NoEpt => r \in Epts /\ Home[r] = c
  BY Lookups DEF ListInv
<1>4. rdev[e] /\ Home[e] = c /\ Name[e] = msg[c].name => r = e
  BY <1>1, FarewellFinds
<1> HIDE DEF r
<1>5. \A d \in Cores : d # c => rx'[d] = rx[d] /\ msg'[d] = msg[d] /\ hit'[d] = hit[d]
  BY <1>1, <1>2 DEF RxIdle
<1>6. \A d \in Cores : \A n : Due(d, "create", n) => Due(d, "create", n)'
  BY <1>1, <1>5, DueDone
<1>7. \A d \in Cores : \A n : n # msg[c].name => (Due(d, "destroy", n) => Due(d, "destroy", n)')
  BY <1>1, <1>5, DueDone
<1>8. r = e => Unbinding(e)'
  BY <1>1, <1>2, <1>3 DEF Unbinding
<1>9. r # e => dest'[e] = dest[e]
  BY <1>1, <1>2
<1>10. Unbinding(e) => Doomed(e)'
  BY <1>1, <1>2, <1>5 DEF Unbinding, Doomed
<1>11. rdev[e] /\ Due(Home[e], "destroy", Name[e]) => Doomed(e)'
  <2>1. CASE Home[e] # c
    <3>1. Due(Home[e], "destroy", Name[e]) => Due(Home[e], "destroy", Name[e])'
      BY <1>1, <1>2, <1>5, <2>1 DEF Due
    <3> QED BY <3>1 DEF Doomed
  <2>2. CASE Home[e] = c /\ Name[e] # msg[c].name
    BY <1>2, <1>7, <2>2 DEF Doomed
  <2>3. CASE Home[e] = c /\ Name[e] = msg[c].name
    BY <1>4, <1>8, <2>3 DEF Doomed
  <2> QED BY <2>1, <2>2, <2>3
<1>12. Heard(e) => Heard(e)' \/ Doomed(e)'
  BY <1>2, <1>6, <1>8, <1>9 DEF Heard, Doomed
<1> QED BY <1>1, <1>10, <1>11, <1>12, RxKeeps

\* ns_unbind_cb returns when it has destroyed the endpoint.
LEMMA ReturnMeets ==
    ASSUME ServiceHyp, UnbindDestroys, NEW c \in Cores, RxReturn(c), NEW e \in Epts
    PROVE  Keeps(e)
<1> USE DEF ServiceHyp
<1>1. /\ rx[c] \in Callbacks /\ RxIdle(c) /\ UNCHANGED <<rdev, dest, chan, op, ept>>
      /\ rx[c] = "unbind" => ~rdev[hit[c]]
  BY DEF RxReturn, eptVars, opVars
<1>2. /\ rx \in [Cores -> {"idle", "found"} \cup Callbacks]
      /\ msg \in [Cores -> Msgs \cup {NoMessage}] /\ hit \in [Cores -> Epts \cup {NoEpt}]
      /\ Home[e] \in Cores
  BY EptAssumption DEF MsgTypes
<1>3. \A d \in Cores : d # c => rx'[d] = rx[d] /\ msg'[d] = msg[d] /\ hit'[d] = hit[d]
  BY <1>1, <1>2 DEF RxIdle
<1>4. rx[c] # "found"
  BY <1>1 DEF Callbacks
<1>5. \A k, n : \A d \in Cores : Due(d, k, n) => Due(d, k, n)'
  BY <1>1, <1>3, <1>4, DueDone
<1>6. rdev[e] /\ Unbinding(e) => Doomed(e)'
  BY <1>1, <1>2, <1>3 DEF Unbinding, Doomed
<1>7. Due(Home[e], "destroy", Name[e]) => Doomed(e)'
  BY <1>2, <1>5 DEF Doomed
<1>8. Heard(e) => Heard(e)'
  BY <1>1, <1>2, <1>5 DEF Heard
<1> QED BY <1>1, <1>6, <1>7, <1>8, RxKeeps

\* Every step keeps the two meeting.
LEMMA MeetStep ==
    ServicesApart /\ ~DestroyLost /\ UnbindDestroys /\ EptInv /\ MsgTypes /\ ServiceInv
      /\ Meeting /\ [Next]_vars => Meeting'
<1> SUFFICES ASSUME ServicesApart, ~DestroyLost, UnbindDestroys, EptInv, MsgTypes, ServiceInv,
                    Meeting, [Next]_vars
             PROVE  Meeting'
  OBVIOUS
<1>1. ServiceHyp
  BY DEF ServiceHyp
<1>2. CASE UNCHANGED vars
  BY <1>2 DEF vars, eptVars, rxVars, opVars, Meeting, Doomed, Going, Unbinding, Due, Heard, Arriving
<1>3. ASSUME Next, NEW e \in Epts, Name[e] # NoName PROVE Keeps(e)
  <2>1. ASSUME NEW t \in Contexts, NEW g \in Epts, NEW src \in Srcs[g], Create(t, g, src)
        PROVE  Keeps(e)
    BY <1>1, <2>1, CreateMeets
  <2>2. ASSUME NEW t \in Contexts, CreateDone(t) PROVE Keeps(e)
    BY <1>1, <1>3, <2>2, CreateDoneMeets
  <2>3. ASSUME NEW t \in Contexts,
               Farewell(t) \/ Unregister(t) \/ CreateFailed(t) \/ \E g \in Epts : Destroy(t, g)
        PROVE  Keeps(e)
    BY <1>1, <2>3, CallsMeet
  <2>4. ASSUME NEW t \in Contexts, NEW g \in Epts, SendData(t, g) PROVE Keeps(e)
    BY <1>1, <2>4, SendMeets
  <2>5. ASSUME NEW c \in Cores, RxTake(c) \/ RxData(c) \/ NsCreate(c) \/ NsDestroy(c) \/ RxReturn(c)
        PROVE  Keeps(e)
    BY <1>1, <1>3, <2>5, TakeMeets, DataMeets, NsCreateMeets, NsDestroyMeets, ReturnMeets
  <2> QED BY <1>3, <2>1, <2>2, <2>3, <2>4, <2>5 DEF Next
<1>4. CASE Next
  BY <1>3, <1>4, MeetingKept
<1> QED BY <1>2, <1>4

\* In a quiescent state nothing is due and nobody is in a call.
LEMMA MeetingDone ==
    ASSUME ServicesApart, EptInv, MsgTypes, ServiceInv, Meeting PROVE ServicesMeet
<1> SUFFICES ASSUME Quiescent, NEW e \in Epts, NEW f \in Epts, Home[e] # Home[f], rdev[e], rdev[f],
                    Name[e] = Name[f], Name[e] # NoName
             PROVE  f \in Partners(e) \/ e \in Partners(f)
  BY DEF ServicesMeet
<1>1. Home[e] \in Cores /\ Home[f] \in Cores
  BY EptAssumption
<1>2. Pair(e, f) /\ Pair(f, e)
  BY <1>1 DEF Pair, Peer, Cores
<1>3. \A d \in Cores : \A k, n : ~Due(d, k, n)
  <2>1. \A d \in Cores : rx[d] = "idle" /\ chan[d] = <<>> /\ Len(chan[d]) = 0
    BY DEF Quiescent
  <2> QED BY <2>1 DEF Due
<1>4. ~Doomed(e) /\ ~Doomed(f) /\ ~Arriving(e) /\ ~Arriving(f)
  BY <1>1, <1>3 DEF Quiescent, Doomed, Going, Unbinding, Arriving
<1>5. dest[e] # ADDR_ANY \/ dest[f] # ADDR_ANY
  BY <1>1, <1>2, <1>3, <1>4 DEF Meeting, Heard
<1>6. \A g, h \in Epts : Pair(e, g) /\ Pair(e, h) => g = h
  BY OneOfService DEF Pair
<1>7. \A g, h \in Epts : Pair(f, g) /\ Pair(f, h) => g = h
  BY OneOfService DEF Pair
<1>8. CASE dest[e] # ADDR_ANY
  BY <1>2, <1>6, <1>8, BoundToPartner
<1>9. CASE dest[f] # ADDR_ANY
  BY <1>2, <1>7, <1>9, BoundToPartner
<1> QED BY <1>5, <1>8, <1>9

\* Two endpoints of a service, one on each core, find each other whatever the
\* order in which both are created, announced, destroyed and created again, for
\* any number of services that are apart, if the applications destroy their
\* endpoint in ns_unbind_cb and the farewells get out.
THEOREM ServicesAlwaysMeet ==
    ServicesApart /\ ~DestroyLost /\ UnbindDestroys => (Spec => []ServicesMeet)
<1> SUFFICES ASSUME ServicesApart, ~DestroyLost, UnbindDestroys PROVE Spec => []ServicesMeet
  OBVIOUS
<1>1. Init => Meeting
  BY DEF Init, Meeting
<1>2. EptInv /\ MsgTypes /\ ServiceInv /\ [Next]_vars => ServiceInv'
  BY ServiceStep
<1>3. EptInv /\ MsgTypes /\ ServiceInv /\ Meeting /\ [Next]_vars => Meeting'
  BY MeetStep
<1>4. EptInv /\ MsgTypes /\ ServiceInv /\ Meeting => ServicesMeet
  BY MeetingDone
<1> QED BY <1>1, <1>2, <1>3, <1>4, EptInit, EptStep, MsgInit, MsgStep, ServiceInit, PTL DEF Spec
================================================================================
