------------------------------ MODULE VdevStartup ------------------------------
(***************************************************************************)
(* Bringing up the RPMsg virtio device on both cores: the resource table   *)
(* and its notification ids (rsc_table_parser.c), remoteproc_create_virtio *)
(* and remoteproc_get_notification (remoteproc.c), the status and feature  *)
(* handshake (remoteproc_virtio.c), virtio_create_virtqueues (virtio.c)    *)
(* and rpmsg_init_vdev (rpmsg_virtio.c), up to the first messages.         *)
(*                                                                         *)
(* The table has one vdev with two vrings and lies in memory that both     *)
(* cores share. Each core runs one thread through its steps; a step is one *)
(* access to what the other core reads or writes. How a platform passes an *)
(* interrupt on is external: see Deferred and ByAny.                       *)
(***************************************************************************)
EXTENDS Integers, FiniteSets

CONSTANTS
    VdevId,       \* notifyid of the vdev in the firmware's table
    RingId,       \* notifyids of its vrings
    IdBits,       \* METAL_BITS_PER_ULONG: bits of rproc->bitmap
    OfferNs,      \* is VIRTIO_RPMSG_F_NS in dfeatures?
    DriverOkLeft, \* is DRIVER_OK left in the table by an earlier run?
    Deferred,     \* are interrupts passed on only by a poll loop after start-up?
    ByAny,        \* are they passed on as RSC_NOTIFY_ID_ANY?
    MaxFail,      \* bound on the allocations and mappings that fail
    MaxSend       \* bound on the messages waiting in a ring

Cores == {"master", "slave"}
Peer(c) == IF c = "master" THEN "slave" ELSE "master"
Rings == {0, 1}
RxRing(c) == IF c = "master" THEN 0 ELSE 1
ANY == -1                           \* RSC_NOTIFY_ID_ANY
Ids == 0..(IdBits - 1)

ASSUME IdAssumption ==
    IdBits \in Nat \ {0} /\ VdevId \in Ids \cup {ANY} /\ RingId \in [Rings -> Ids \cup {ANY}]
ASSUME FlagAssumption ==
    {OfferNs, DriverOkLeft, Deferred, ByAny} \subseteq BOOLEAN
ASSUME BoundAssumption == MaxFail \in Nat /\ MaxSend \in Nat

VARIABLES
    \* shared memory: vdev_rsc->notifyid, status & DRIVER_OK, the NS bit of
    \* gfeatures, what each vring holds, messages in it for each core
    tab_id, driver_ok, gfeatures, ring, queued,
    \* each core's remoteproc: bitmap, and its vdev if rproc->vdevs has it
    bitmap, listed, vdev_id, ring_id, callback, support_ns,
    \* where each core is, interrupts latched for it
    pc, irq,
    fails         \* allocations and mappings that failed

shared == <<tab_id, driver_ok, gfeatures, ring, queued>>
local == <<bitmap, listed, vdev_id, ring_id, callback, support_ns>>
vars == <<shared, local, pc, irq, fails>>

NoRings == [r \in Rings |-> ANY]

Init ==
    /\ tab_id = VdevId /\ driver_ok = DriverOkLeft /\ gfeatures = FALSE
    /\ ring = [r \in Rings |-> "old"]
    /\ queued = [c \in Cores |-> 0]
    /\ bitmap = [c \in Cores |-> {}]
    /\ listed = [c \in Cores |-> FALSE]
    /\ vdev_id = [c \in Cores |-> ANY] /\ ring_id = [c \in Cores |-> NoRings]
    /\ callback = [c \in Cores |-> {}] /\ support_ns = [c \in Cores |-> FALSE]
    /\ pc = [c \in Cores |-> "parse"] /\ irq = [c \in Cores |-> {}]
    /\ fails = 0

At(c, l) == pc[c] = l
Goto(c, l) == pc' = [pc EXCEPT ![c] = l]
Notify(c, id) == irq' = [irq EXCEPT ![Peer(c)] = @ \cup {id}]

(***************************************************************************)
(* The resource table.                                                     *)
(***************************************************************************)
\* remoteproc_allocate_id(id, id + 1): that very id, any free one for ANY, or
\* ANY if it is taken.
AllocateId_OffByOne(bits, id) ==            \* mutant: one id more than bits
    LET free == (IF id = ANY THEN 0..IdBits ELSE {id + 1}) \ bits
    IN  IF free = {} THEN ANY ELSE CHOOSE a \in free : \A b \in free : a <= b
AllocateId(bits, id) ==
    LET free == (IF id = ANY THEN Ids ELSE {id}) \ bits
    IN  IF free = {} THEN ANY ELSE CHOOSE a \in free : \A b \in free : a <= b

\* remoteproc_set_rsc_table, handle_rsc_table and handle_vdev_rsc: ids for the
\* vdev and for the vrings in turn. Each one allocated goes into the vdev's
\* notifyid; the ids of the vrings stay as they are.
Parse(c) ==
    LET a == AllocateId(bitmap[c], tab_id)
        b == AllocateId(bitmap[c] \cup {a}, RingId[0])
        d == AllocateId(bitmap[c] \cup {a, b}, RingId[1])
    IN  /\ At(c, "parse")
        /\ bitmap' = [bitmap EXCEPT ![c] = @ \cup ({a, b, d} \ {ANY})]
        /\ tab_id' = IF d # ANY THEN d ELSE IF b # ANY THEN b
                     ELSE IF a # ANY THEN a ELSE tab_id
        /\ Goto(c, "create")
        /\ UNCHANGED <<driver_ok, gfeatures, ring, queued, listed, vdev_id, ring_id,
                       callback, support_ns, irq, fails>>

(***************************************************************************)
(* remoteproc_create_virtio.                                               *)
(***************************************************************************)
\* rproc_virtio_create_vdev: the master writes back the features it accepts,
\* which are all the firmware offers, and tells the slave. The search of
\* rproc->vdevs before it finds nothing: there is one vdev, and a failure
\* removes it.
Create(c) ==
    /\ At(c, "create")
    /\ vdev_id' = [vdev_id EXCEPT ![c] = tab_id]
    /\ IF c = "master"
         THEN gfeatures' = OfferNs /\ Notify(c, tab_id) /\ Goto(c, "vring0")
         ELSE Goto(c, "wait") /\ UNCHANGED <<gfeatures, irq>>
    /\ UNCHANGED <<tab_id, driver_ok, ring, queued, bitmap, listed, ring_id, callback,
                   support_ns, fails>>

\* rproc_virtio_wait_remote_ready and rpmsg_virtio_wait_remote_ready: the slave
\* looks at the status until DRIVER_OK is there.
RemoteReady_NoWait == TRUE                       \* mutant: does not wait
RemoteReady == driver_ok

Wait(c) ==
    /\ \/ ~RemoteReady /\ pc[c] \in {"wait", "sync"} /\ UNCHANGED pc
       \/ RemoteReady /\ At(c, "wait") /\ Goto(c, "vring0")
       \/ RemoteReady /\ At(c, "sync") /\ Goto(c, "features")
    /\ UNCHANGED <<shared, local, irq, fails>>

\* The vdev is put into rproc->vdevs, then its vrings are mapped and set.
InitVring(c, r) ==
    /\ At(c, IF r = 0 THEN "vring0" ELSE "vring1")
    /\ listed' = [listed EXCEPT ![c] = TRUE]
    /\ ring_id' = [ring_id EXCEPT ![c][r] = RingId[r]]
    /\ Goto(c, CASE r = 0 -> "vring1"
                 [] r = 1 /\ c = "slave" -> "sync"
                 [] r = 1 /\ c = "master" -> "features")
    /\ UNCHANGED <<shared, bitmap, vdev_id, callback, support_ns, irq, fails>>

(***************************************************************************)
(* rpmsg_init_vdev. The slave waits for the master first.                  *)
(***************************************************************************)
GetFeatures(c) ==
    /\ At(c, "features")
    /\ support_ns' = [support_ns EXCEPT ![c] = OfferNs /\ gfeatures]
    /\ Goto(c, "vq0")
    /\ UNCHANGED <<shared, bitmap, listed, vdev_id, ring_id, callback, irq, fails>>

\* virtio_create_virtqueues: the master clears the ring; the callback is set.
CreateVq(c, r) ==
    /\ At(c, IF r = 0 THEN "vq0" ELSE "vq1")
    /\ callback' = [callback EXCEPT ![c] = @ \cup {r}]
    /\ IF c = "master"
         THEN /\ ring' = [ring EXCEPT ![r] = "clear"]
              /\ queued' = [queued EXCEPT ![IF r = 0 THEN "master" ELSE "slave"] = 0]
         ELSE UNCHANGED <<ring, queued>>
    /\ Goto(c, CASE r = 0 -> "vq1"
                 [] r = 1 /\ c = "slave" -> "ready"
                 [] r = 1 /\ c = "master" -> "fill")
    /\ UNCHANGED <<tab_id, driver_ok, gfeatures, bitmap, listed, vdev_id, ring_id,
                   support_ns, irq, fails>>

\* The master makes its receive buffers available to the slave ...
Fill ==
    /\ At("master", "fill")
    /\ ring' = [ring EXCEPT ![0] = "filled"]
    /\ Goto("master", "driver_ok")
    /\ UNCHANGED <<tab_id, driver_ok, gfeatures, queued, local, irq, fails>>

\* ... and sets DRIVER_OK, which notifies the slave.
SetDriverOk_Forgotten == FALSE                   \* mutant: the status is not written
SetDriverOk == TRUE

DriverOk ==
    /\ At("master", "driver_ok")
    /\ driver_ok' = (SetDriverOk \/ driver_ok)
    /\ Notify("master", vdev_id["master"])
    /\ Goto("master", "ready")
    /\ UNCHANGED <<tab_id, gfeatures, ring, queued, local, fails>>

\* No memory for the vdev, no mapping for a vring, or no buffer in the pool:
\* the vdev is removed (by remoteproc_create_virtio, or by the caller of
\* rpmsg_init_vdev) and the core tries again.
Fail(c) ==
    /\ pc[c] \in {"create", "vring0", "vring1"} \cup {x \in {"fill"} : c = "master"}
    /\ fails < MaxFail
    /\ fails' = fails + 1
    /\ listed' = [listed EXCEPT ![c] = FALSE]
    /\ vdev_id' = [vdev_id EXCEPT ![c] = ANY]
    /\ ring_id' = [ring_id EXCEPT ![c] = NoRings]
    /\ callback' = [callback EXCEPT ![c] = {}]
    /\ Goto(c, "create")
    /\ UNCHANGED <<shared, bitmap, support_ns, irq>>

(***************************************************************************)
(* Messages and notifications.                                             *)
(***************************************************************************)
\* A message on the peer's receive ring, and the kick of that ring.
Send(c) ==
    /\ At(c, "ready")
    /\ queued[Peer(c)] < MaxSend
    /\ queued' = [queued EXCEPT ![Peer(c)] = @ + 1]
    /\ Notify(c, ring_id[c][RxRing(Peer(c))])
    /\ UNCHANGED <<tab_id, driver_ok, gfeatures, ring, local, pc, fails>>

\* remoteproc_get_notification, rproc_virtio_notified, virtqueue_notification:
\* the rings whose callback runs for an id. The id of the vdev does nothing.
Notified_NotAny(c, id) ==                        \* mutant: ANY is an id like others
    IF ~listed[c] \/ id = vdev_id[c] THEN {}
    ELSE {r \in callback[c] : ring_id[c][r] = id}
Notified(c, id) ==
    IF ~listed[c] \/ id = vdev_id[c] THEN {}
    ELSE {r \in callback[c] : ring_id[c][r] = id \/ id = ANY}

\* The receive callback drains its ring; the other ring's does nothing.
Drain(c, rings) ==
    queued' = IF RxRing(c) \in rings THEN [queued EXCEPT ![c] = 0] ELSE queued

Interrupt(c) ==
    /\ Deferred => At(c, "ready")
    /\ irq[c] # {}
    /\ \E id \in IF ByAny THEN {ANY} ELSE irq[c] :
         /\ irq' = [irq EXCEPT ![c] = IF ByAny THEN {} ELSE @ \ {id}]
         /\ Drain(c, Notified(c, id))
    /\ UNCHANGED <<tab_id, driver_ok, gfeatures, ring, local, pc, fails>>

Step(c) ==
    \/ Parse(c) \/ Create(c) \/ Wait(c) \/ GetFeatures(c)
    \/ \E r \in Rings : InitVring(c, r) \/ CreateVq(c, r)
    \/ c = "master" /\ (Fill \/ DriverOk)

Next == \E c \in Cores : Step(c) \/ Fail(c) \/ Send(c) \/ Interrupt(c)

Spec == Init /\ [][Next]_vars

(***************************************************************************)
(* Both cores run, and a latched interrupt is passed on: by the poll loop  *)
(* every application enters after start-up.                                *)
(***************************************************************************)
LiveSpec == Spec /\ \A c \in Cores : WF_vars(Step(c)) /\ WF_vars(Interrupt(c))

--------------------------------------------------------------------------------
(***************************************************************************)
(* Correctness.                                                            *)
(***************************************************************************)
\* Every variable stays within its type; ids are ones the bitmap has.
TypeOK ==
    /\ tab_id \in Ids \cup {ANY} /\ {driver_ok, gfeatures} \subseteq BOOLEAN
    /\ ring \in [Rings -> {"old", "clear", "filled"}]
    /\ queued \in [Cores -> 0..MaxSend]
    /\ bitmap \in [Cores -> SUBSET Ids]
    /\ listed \in [Cores -> BOOLEAN] /\ support_ns \in [Cores -> BOOLEAN]
    /\ vdev_id \in [Cores -> Ids \cup {ANY}]
    /\ ring_id \in [Cores -> [Rings -> Ids \cup {ANY}]]
    /\ callback \in [Cores -> SUBSET Rings]
    /\ irq \in [Cores -> SUBSET (Ids \cup {ANY})]
    /\ pc \in [Cores -> {"parse", "create", "wait", "vring0", "vring1", "sync", "features",
                         "vq0", "vq1", "fill", "driver_ok", "ready"}]
    /\ fails \in 0..MaxFail

\* A slave that got past its wait finds a device that is ready: the features
\* are negotiated, both rings are cleared and the receive buffers are in
\* place, also when the master failed and began again in between.
SlaveAfterMaster ==
    pc["slave"] \notin {"parse", "create", "wait"} =>
      /\ gfeatures = OfferNs
      /\ ring[0] = "filled" /\ ring[1] = "clear"

\* Both cores agree on whether there is a name service once both are up.
NsAgreed ==
    (\A c \in Cores : At(c, "ready")) => support_ns["slave"] = support_ns["master"]

\* "This notify index is used when kicking a remote remoteproc, to let it know
\* that this vring is triggered" (remoteproc.h:236-238): once both cores are up
\* and no interrupt is latched, no message waits in a ring.
NoKickLost ==
    (\A c \in Cores : At(c, "ready") /\ irq[c] = {}) => \A c \in Cores : queued[c] = 0

\* Both cores get through start-up: the two busy waits of the slave end.
StartupCompletes == <>(\A c \in Cores : At(c, "ready"))
================================================================================
