--------------------------- MODULE VdevStartupProofs ---------------------------
(***************************************************************************)
(* Theorems about VdevStartup, for any ids, features and failures: its     *)
(* types; the handshake, when no DRIVER_OK is left in the resource table   *)
(* by an earlier run, however the platform passes interrupts on; and that  *)
(* no kick is lost, when it does so as the platforms in apps/ do.          *)
(***************************************************************************)
EXTENDS VdevStartup, TLAPS, WellFoundedInduction, NaturalsInduction

Labels == {"parse", "create", "wait", "vring0", "vring1", "sync", "features",
           "vq0", "vq1", "fill", "driver_ok", "ready"}

\* The variables of the handshake are in their types.
ShakeTypes ==
    /\ pc \in [Cores -> Labels]
    /\ ring \in [Rings -> {"old", "clear", "filled"}]
    /\ support_ns \in [Cores -> BOOLEAN]
    /\ driver_ok \in BOOLEAN /\ gfeatures \in BOOLEAN

\* How far the master is tells what it has done; DRIVER_OK is the last of it.
MasterDone ==
    LET m == pc["master"] IN
    /\ m \notin {"wait", "sync"}
    /\ m \notin {"parse", "create"} => gfeatures = OfferNs
    /\ m \in {"driver_ok", "ready"} => ring[0] = "filled"
    /\ m \in {"fill", "driver_ok", "ready"} => ring[1] = "clear"
    /\ driver_ok => m = "ready"

\* The slave is past its first wait only when DRIVER_OK is set.
SlaveWaited ==
    /\ pc["slave"] \notin {"parse", "create", "wait"} => driver_ok
    /\ pc["slave"] \notin {"fill", "driver_ok"}

\* Features are read when they are final.
NsRead ==
    \A c \in Cores :
      pc[c] \in {"vq0", "vq1", "fill", "driver_ok", "ready"} => support_ns[c] = OfferNs

ShakeInv == ShakeTypes /\ MasterDone /\ SlaveWaited /\ NsRead

\* Before either core started nothing is claimed but that DRIVER_OK is not set.
LEMMA ShakeInit == ~DriverOkLeft /\ Init => ShakeInv
<1> SUFFICES ASSUME ~DriverOkLeft, Init PROVE ShakeInv
  OBVIOUS
<1>1. ShakeTypes
  BY FlagAssumption DEF Init, ShakeTypes, Labels
<1>2. MasterDone /\ SlaveWaited /\ NsRead
  BY DEF Init, MasterDone, SlaveWaited, NsRead, Cores
<1> QED BY <1>1, <1>2 DEF ShakeInv

\* No step of either core breaks the order of the handshake.
LEMMA ShakeStep == ShakeInv /\ [Next]_vars => ShakeInv'
<1> SUFFICES ASSUME ShakeInv, [Next]_vars PROVE ShakeInv'
  OBVIOUS
<1> USE DEF ShakeInv, ShakeTypes, MasterDone, SlaveWaited, NsRead, Cores, Rings, Labels,
            At, Goto, Notify
<1>1. ASSUME NEW c \in Cores, Parse(c) PROVE ShakeInv'
  BY <1>1 DEF Parse
<1>2. ASSUME NEW c \in Cores, Create(c) PROVE ShakeInv'
  BY <1>2, FlagAssumption DEF Create
<1>3. ASSUME NEW c \in Cores, Wait(c) PROVE ShakeInv'
  BY <1>3 DEF Wait, RemoteReady, shared, local
<1>4. ASSUME NEW c \in Cores, NEW r \in Rings, InitVring(c, r) PROVE ShakeInv'
  BY <1>4 DEF InitVring, shared
<1>5. ASSUME NEW c \in Cores, GetFeatures(c) PROVE ShakeInv'
  <2>1. gfeatures = OfferNs
    BY <1>5 DEF GetFeatures
  <2>2. support_ns' = [support_ns EXCEPT ![c] = OfferNs]
    BY <1>5, <2>1, Zenon DEF GetFeatures
  <2>3. pc' = [pc EXCEPT ![c] = "vq0"] /\ UNCHANGED shared /\ pc[c] = "features"
    BY <1>5 DEF GetFeatures
  <2>4. OfferNs \in BOOLEAN
    BY FlagAssumption, Zenon
  <2>5. support_ns' \in [Cores -> BOOLEAN]
    BY <2>2, <2>4, Zenon
  <2>6. \A d \in Cores : support_ns'[d] = IF d = c THEN OfferNs ELSE support_ns[d]
    BY <2>2, Zenon
  <2>7. NsRead'
    <3> TAKE d \in Cores
    <3>1. CASE d = c
      BY <3>1, <2>6, Zenon
    <3>2. CASE d # c
      <4>1. pc'[d] = pc[d]
        BY <3>2, <2>3
      <4>2. support_ns'[d] = support_ns[d]
        BY <3>2, <2>6, Zenon
      <4> QED BY <4>1, <4>2, Zenon
    <3> QED BY <3>1, <3>2
  <2>8. (pc \in [Cores -> Labels])' /\ MasterDone' /\ SlaveWaited'
    BY <2>3 DEF shared
  <2>9. ShakeTypes'
    <3>1. ring' = ring /\ driver_ok' = driver_ok /\ gfeatures' = gfeatures
      BY <2>3 DEF shared
    <3> QED BY <3>1, <2>5, <2>8, Zenon
  <2> QED BY <2>7, <2>8, <2>9, Zenon
<1>6. ASSUME NEW c \in Cores, NEW r \in Rings, CreateVq(c, r) PROVE ShakeInv'
  BY <1>6 DEF CreateVq
<1>7. CASE Fill
  BY <1>7 DEF Fill, local
<1>8. CASE DriverOk
  BY <1>8 DEF DriverOk, SetDriverOk, local
<1>9. ASSUME NEW c \in Cores, Fail(c) PROVE ShakeInv'
  BY <1>9 DEF Fail, shared
<1>10. ASSUME NEW c \in Cores, Send(c) \/ Interrupt(c) PROVE ShakeInv'
  BY <1>10 DEF Send, Interrupt, local
<1>11. CASE UNCHANGED vars
  BY <1>11 DEF vars, shared, local
<1> QED BY <1>1, <1>2, <1>3, <1>4, <1>5, <1>6, <1>7, <1>8, <1>9, <1>10, <1>11 DEF Next, Step

\* Unless a stale DRIVER_OK lies in the table, a slave past its wait finds the
\* features negotiated, the rings cleared and the receive buffers in place,
\* however often either core failed and began again.
THEOREM HandshakeOrder == ~DriverOkLeft => (Spec => []SlaveAfterMaster)
<1> SUFFICES ASSUME ~DriverOkLeft PROVE Spec => []SlaveAfterMaster
  OBVIOUS
<1>1. Init => ShakeInv
  BY ShakeInit
<1>2. ShakeInv => SlaveAfterMaster
  BY DEF ShakeInv, SlaveAfterMaster, MasterDone, SlaveWaited
<1> QED BY <1>1, <1>2, ShakeStep, PTL DEF Spec

\* Under the same condition both cores agree on the name service.
THEOREM NameServiceAgreed == ~DriverOkLeft => (Spec => []NsAgreed)
<1> SUFFICES ASSUME ~DriverOkLeft PROVE Spec => []NsAgreed
  OBVIOUS
<1>1. Init => ShakeInv
  BY ShakeInit
<1>2. ShakeInv => NsAgreed
  BY DEF ShakeInv, NsAgreed, NsRead, At, Cores
<1> QED BY <1>1, <1>2, ShakeStep, PTL DEF Spec

(***************************************************************************)
(* Types, and the ids of the bitmap.                                       *)
(***************************************************************************)
\* A nonempty set of ids has a smallest one.
LEMMA LowestId ==
    ASSUME NEW S \in SUBSET Ids, S # {} PROVE \E a \in S : \A b \in S : a <= b
<1>1. S \subseteq Nat
  BY IdAssumption DEF Ids
<1>2. PICK a \in S : \A b \in S : <<b, a>> \notin OpToRel(<, Nat)
  BY <1>1, NatLessThanWellFounded, WFMin
<1>3. \A b \in S : ~(b < a)
  BY <1>1, <1>2 DEF OpToRel
<1> QED BY <1>1, <1>3

\* remoteproc_allocate_id gives an id the bitmap has a bit for and that was
\* free, and fails only when there was none.
LEMMA AllocatedId ==
    ASSUME NEW bits, NEW id \in Ids \cup {ANY}
    PROVE  /\ AllocateId(bits, id) \in (Ids \ bits) \cup {ANY}
           /\ bits = {} => AllocateId(bits, id) \in Ids
<1> DEFINE free == (IF id = ANY THEN Ids ELSE {id}) \ bits
<1>1. free \in SUBSET Ids
  OBVIOUS
<1>2. CASE free = {}
  <2>1. AllocateId(bits, id) = ANY
    BY <1>2 DEF AllocateId
  <2>2. 0 \in Ids
    BY IdAssumption DEF Ids
  <2> QED BY <1>2, <2>1, <2>2
<1>3. CASE free # {}
  <2>1. PICK a \in free : \A b \in free : a <= b
    BY <1>1, <1>3, LowestId
  <2>2. AllocateId(bits, id) \in free
    BY <1>3, <2>1 DEF AllocateId
  <2> QED BY <2>2
<1> QED BY <1>2, <1>3

\* Parsing the table leaves a good id in the vdev's notifyid, if the bitmap was
\* empty.
LEMMA ParsedId ==
    ASSUME TypeOK, NEW c \in Cores, Parse(c)
    PROVE  /\ tab_id' \in Ids \cup {ANY} /\ bitmap' \in [Cores -> SUBSET Ids]
           /\ bitmap[c] = {} => tab_id' \in Ids
<1> DEFINE a == AllocateId(bitmap[c], tab_id)
           b == AllocateId(bitmap[c] \cup {a}, RingId[0])
           d == AllocateId(bitmap[c] \cup {a, b}, RingId[1])
<1>1. tab_id \in Ids \cup {ANY} /\ bitmap \in [Cores -> SUBSET Ids]
  BY DEF TypeOK
<1>2. RingId[0] \in Ids \cup {ANY} /\ RingId[1] \in Ids \cup {ANY}
  BY IdAssumption DEF Rings
<1>3. a \in Ids \cup {ANY} /\ (bitmap[c] = {} => a \in Ids)
  BY <1>1, AllocatedId
<1>4. b \in Ids \cup {ANY} /\ d \in Ids \cup {ANY}
  BY <1>2, AllocatedId
<1>5. /\ bitmap' = [bitmap EXCEPT ![c] = @ \cup ({a, b, d} \ {ANY})]
      /\ tab_id' = IF d # ANY THEN d ELSE IF b # ANY THEN b
                   ELSE IF a # ANY THEN a ELSE tab_id
  BY DEF Parse
<1>6. ANY \notin Ids
  BY IdAssumption DEF ANY, Ids
<1> HIDE DEF a, b, d
<1> QED BY <1>1, <1>3, <1>4, <1>5, <1>6

\* The tables of both cores start empty.
LEMMA TypeInit == Init => TypeOK
<1> USE DEF Init, TypeOK, Cores, Rings, NoRings
<1>1. ASSUME Init PROVE TypeOK
  <2>1. {driver_ok, gfeatures} \subseteq BOOLEAN
    BY <1>1, FlagAssumption, Zenon
  <2>2. fails \in 0..MaxFail /\ 0 \in 0..MaxSend
    BY <1>1, BoundAssumption
  <2> QED BY <1>1, <2>1, <2>2, IdAssumption
<1> QED BY <1>1

\* No step of either core leaves the types.
LEMMA TypeStep == TypeOK /\ [Next]_vars => TypeOK'
<1> SUFFICES ASSUME TypeOK, [Next]_vars PROVE TypeOK'
  OBVIOUS
<1> USE DEF TypeOK, Cores, Rings, At, Goto, Notify, Peer, NoRings
<1>1. ASSUME NEW c \in Cores, Parse(c) PROVE TypeOK'
  BY <1>1, ParsedId DEF Parse
<1>2. ASSUME NEW c \in Cores, Create(c) PROVE TypeOK'
  <2>1. {driver_ok', gfeatures'} \subseteq BOOLEAN
    BY <1>2, FlagAssumption, Zenon DEF Create
  <2> QED BY <1>2, <2>1 DEF Create
<1>3. ASSUME NEW c \in Cores, Wait(c) PROVE TypeOK'
  BY <1>3 DEF Wait, shared, local
<1>4. ASSUME NEW c \in Cores, NEW r \in Rings, InitVring(c, r) PROVE TypeOK'
  <2>1. ring_id' \in [Cores -> [Rings -> Ids \cup {ANY}]]
    BY <1>4, IdAssumption DEF InitVring
  <2> QED BY <1>4, <2>1 DEF InitVring, shared
<1>5. ASSUME NEW c \in Cores, GetFeatures(c) PROVE TypeOK'
  <2>1. support_ns' \in [Cores -> BOOLEAN]
    BY <1>5, Zenon DEF GetFeatures
  <2> QED BY <1>5, <2>1 DEF GetFeatures, shared
<1>6. ASSUME NEW c \in Cores, NEW r \in Rings, CreateVq(c, r) PROVE TypeOK'
  BY <1>6, BoundAssumption DEF CreateVq
<1>7. CASE Fill
  BY <1>7 DEF Fill, local
<1>8. CASE DriverOk
  BY <1>8 DEF DriverOk, SetDriverOk, local
<1>9. ASSUME NEW c \in Cores, Fail(c) PROVE TypeOK'
  BY <1>9, BoundAssumption DEF Fail, shared
<1>10. ASSUME NEW c \in Cores, Send(c) PROVE TypeOK'
  BY <1>10, BoundAssumption DEF Send, local, RxRing
<1>11. ASSUME NEW c \in Cores, Interrupt(c) PROVE TypeOK'
  BY <1>11, BoundAssumption DEF Interrupt, local, Drain
<1>12. CASE UNCHANGED vars
  BY <1>12 DEF vars, shared, local
<1> QED BY <1>1, <1>2, <1>3, <1>4, <1>5, <1>6, <1>7, <1>8, <1>9, <1>10, <1>11, <1>12
        DEF Next, Step

\* Whatever ids the firmware's table holds, and whatever fails, every id in use
\* is one the bitmap has a bit for, and every other variable has its type.
THEOREM StartupTyped == Spec => []TypeOK
  BY TypeInit, TypeStep, PTL DEF Spec

(***************************************************************************)
(* No kick is lost where interrupts are passed on by a poll loop, and as   *)
(* RSC_NOTIFY_ID_ANY: every platform of apps does both. It takes that the  *)
(* vdev has an id, as a notification with the id of the vdev does nothing. *)
(***************************************************************************)
Later == {"vring1", "sync", "features", "vq0", "vq1", "fill", "driver_ok", "ready"}

\* What a core has set up by the time it can be notified.
SetUp(c) ==
    /\ pc[c] = "parse" => bitmap[c] = {}
    /\ pc[c] # "parse" => tab_id # ANY
    /\ pc[c] \in Later => listed[c]
    /\ pc[c] \in Later \cup {"wait", "vring0"} => vdev_id[c] # ANY
    /\ pc[c] \in {"vq1", "fill", "driver_ok", "ready"} => 0 \in callback[c]
    /\ pc[c] \in {"fill", "driver_ok", "ready"} => 1 \in callback[c]

\* A message that waits has its interrupt waiting too.
KickInv == \A c \in Cores : SetUp(c) /\ (queued[c] # 0 => irq[c] # {})

\* Before start-up no kick is under way and no message is queued.
LEMMA KickInit == Init => KickInv
  BY DEF Init, KickInv, SetUp, Cores, Later

\* Only a poll loop takes interrupts, and then it runs every callback.
LEMMA KickStep == Deferred /\ ByAny /\ TypeOK /\ KickInv /\ [Next]_vars => KickInv'
<1> SUFFICES ASSUME Deferred, ByAny, TypeOK, KickInv, [Next]_vars PROVE KickInv'
  OBVIOUS
<1> USE DEF KickInv, SetUp, Cores, Rings, Later, At, Goto, Notify, Peer
<1>t. /\ bitmap \in [Cores -> SUBSET Ids] /\ listed \in [Cores -> BOOLEAN]
      /\ callback \in [Cores -> SUBSET Rings] /\ vdev_id \in [Cores -> Ids \cup {ANY}]
      /\ pc \in [Cores -> Labels] /\ queued \in [Cores -> 0..MaxSend]
      /\ irq \in [Cores -> SUBSET (Ids \cup {ANY})] /\ tab_id \in Ids \cup {ANY}
  BY DEF TypeOK, Labels
<1>1. ASSUME NEW c \in Cores, Parse(c) PROVE KickInv'
  <2>1. tab_id' # ANY
    <3>1. bitmap[c] = {}
      BY <1>1 DEF Parse
    <3>2. tab_id' \in Ids
      BY <1>1, <3>1, ParsedId
    <3> QED BY <3>2, IdAssumption DEF ANY, Ids
  <2>2. /\ pc' = [pc EXCEPT ![c] = "create"]
        /\ \A d \in Cores : d # c => bitmap'[d] = bitmap[d]
    BY <1>1, <1>t DEF Parse
  <2>3. UNCHANGED <<queued, irq, listed, vdev_id, callback>>
    BY <1>1 DEF Parse
  <2> QED BY <1>t, <2>1, <2>2, <2>3
<1>2. ASSUME NEW c \in Cores, Create(c) PROVE KickInv'
  BY <1>2, <1>t DEF Create
<1>3. ASSUME NEW c \in Cores, Wait(c) PROVE KickInv'
  BY <1>3, <1>t DEF Wait, RemoteReady, shared, local
<1>4. ASSUME NEW c \in Cores, NEW r \in Rings, InitVring(c, r) PROVE KickInv'
  BY <1>4, <1>t DEF InitVring, shared
<1>5. ASSUME NEW c \in Cores, GetFeatures(c) PROVE KickInv'
  BY <1>5, <1>t DEF GetFeatures, shared
<1>6. ASSUME NEW c \in Cores, NEW r \in Rings, CreateVq(c, r) PROVE KickInv'
  BY <1>6, <1>t DEF CreateVq
<1>7. CASE Fill
  BY <1>7, <1>t DEF Fill, local
<1>8. CASE DriverOk
  BY <1>8, <1>t DEF DriverOk, SetDriverOk, local
<1>9. ASSUME NEW c \in Cores, Fail(c) PROVE KickInv'
  BY <1>9, <1>t DEF Fail, shared
<1>10. ASSUME NEW c \in Cores, Send(c) PROVE KickInv'
  BY <1>10, <1>t DEF Send, local
<1>11. ASSUME NEW c \in Cores, Interrupt(c) PROVE KickInv'
  <2>1. pc[c] = "ready"
    BY <1>11 DEF Interrupt
  <2>2. RxRing(c) \in Notified(c, ANY)
    BY <2>1, <1>t DEF Notified, RxRing
  <2>3. queued' = [queued EXCEPT ![c] = 0] /\ irq' = [irq EXCEPT ![c] = {}]
    BY <1>11, <2>2 DEF Interrupt, Drain
  <2> QED BY <1>11, <1>t, <2>3 DEF Interrupt, local
<1>12. CASE UNCHANGED vars
  BY <1>12 DEF vars, shared, local
<1> QED BY <1>1, <1>2, <1>3, <1>4, <1>5, <1>6, <1>7, <1>8, <1>9, <1>10, <1>11, <1>12
        DEF Next, Step

\* Once both cores are up and no interrupt is latched no message waits, also
\* with a stale DRIVER_OK and after failed starts.
THEOREM KicksReachRings == Deferred /\ ByAny => (Spec => []NoKickLost)
<1> SUFFICES ASSUME Deferred, ByAny PROVE Spec => []NoKickLost
  OBVIOUS
<1>1. TypeOK /\ KickInv /\ [Next]_vars => (TypeOK /\ KickInv)'
  BY TypeStep, KickStep
<1>2. KickInv => NoKickLost
  BY DEF KickInv, NoKickLost
<1> QED BY TypeInit, KickInit, <1>1, <1>2, PTL DEF Spec
================================================================================
