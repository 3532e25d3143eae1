------------------------------- MODULE Virtqueue -------------------------------
(***************************************************************************)
(* One virtqueue of lib/virtio/virtqueue.c: a vring in shared memory, the  *)
(* struct virtqueue of the master (driver) and the one of the slave        *)
(* (device), and the two cores stepping through the virtqueue operations   *)
(* concurrently.                                                           *)
(*                                                                         *)
(* A call is split at every access to memory the other core writes or      *)
(* reads: the ring slot and the ring index it publishes are two steps      *)
(* (the code separates them with a fence), and so are the store of a       *)
(* notification-suppression field and the re-read of the ring index in     *)
(* vq_ring_enable_interrupt. The loops over a descriptor chain take one    *)
(* step per descriptor.  Memory is sequentially consistent.                *)
(*                                                                         *)
(* Each side is used by one thread at a time (RPMsg holds rdev->lock), and *)
(* the VQASSERTs of the VQUEUE_DEBUG build are guards: a failed assertion  *)
(* halts the core. AssertionsHold says that none of them ever fails.       *)
(***************************************************************************)
EXTENDS Integers, FiniteSets

CONSTANTS
    N,            \* vq_nentries: descriptors, and slots of each ring
    M,            \* modulus of the free-running 16-bit indices (2^16)
    Bufs,         \* buffers the master offers; also their cookies
    NoBuf,        \* the NULL cookie
    MaxChain,     \* most descriptors one virtqueue_add_buffer asks for
    MaxBatch,     \* most entries a caller adds between two kicks
    EventIdx,     \* VIRTIO_RING_F_EVENT_IDX negotiated?
    CallerCounts, \* do callers ask for at most vq_free_cnt descriptors?
    Rearm         \* do callers always virtqueue_enable_cb before waiting?

ASSUME SizeAssumption == N \in Nat \ {0} /\ M \in Nat /\ M > N + 1 /\ M % N = 0
ASSUME BufsAssumption == NoBuf \notin Bufs
ASSUME ChainAssumption == MaxChain \in 1..N
ASSUME BatchAssumption == MaxBatch \in 1..(M - 1)   \* they fit vq_queued_cnt
ASSUME ModeAssumption == EventIdx \in BOOLEAN /\ CallerCounts \in BOOLEAN /\ Rearm \in BOOLEAN

Desc == 0..(N - 1)
Index == 0..(M - 1)
CHAIN_END == N            \* VQ_RING_DESC_CHAIN_END: no descriptor has it
Link == Desc \cup {CHAIN_END}

VARIABLES
    \* descriptor table, written by the master: next, VRING_DESC_F_NEXT, addr
    next, more, addr,
    \* written by the master: avail ring, avail->idx, avail->flags, used_event
    avail_ring, avail_idx, no_interrupt, used_event,
    \* written by the slave: used ring, used->idx, used->flags, avail_event
    used_ring, used_idx, no_notify, avail_event,
    \* struct virtqueue of the master
    vq_desc_head_idx, vq_free_cnt, vq_used_cons_idx, m_queued_cnt, cookie, ndescs,
    \* master: where it is in a call, the call's locals, waiting for a callback
    m_pc, m_head, m_idx, m_i, m_wait, m_pending,
    \* struct virtqueue of the slave
    vq_available_idx, s_queued_cnt,
    \* slave: buffers its caller holds, place in a call, locals, waiting
    held, s_pc, s_slot, s_head, s_wait, s_pending

descVars == <<next, more, addr>>
availVars == <<avail_ring, avail_idx>>
usedVars == <<used_ring, used_idx>>
eventVars == <<no_interrupt, used_event, no_notify, avail_event>>
freeVars == <<vq_desc_head_idx, vq_free_cnt, cookie, ndescs>>
mLocals == <<m_head, m_idx, m_i>>
mVars == <<freeVars, vq_used_cons_idx, m_queued_cnt, m_pc, mLocals, m_wait>>
sVars == <<vq_available_idx, s_queued_cnt, held, s_pc, s_slot, s_head, s_wait>>
pendVars == <<m_pending, s_pending>>
vars == <<descVars, availVars, usedVars, eventVars, mVars, sVars, pendVars>>

(***************************************************************************)
(* uint16_t arithmetic (a - b and i + 1 modulo M, operands in Index), the  *)
(* slot of an index, and the pending entries of each ring.                 *)
(***************************************************************************)
Inc_NoWrap(i) == i + 1                       \* mutant: an index wider than 16 bits
Inc(i) == IF i = M - 1 THEN 0 ELSE i + 1
Sub(a, b) == IF a >= b THEN a - b ELSE a - b + M
Slot_OffByOne(i) == i % (N - 1)              \* mutant: mask of one entry less
Slot(i) == i % N

\* Mutant: the event index itself no longer counts as passed.
vring_need_event_Late(event, new, old) == Sub(new, event) < Sub(new, old)
vring_need_event(event, new, old) == Sub(Sub(new, event), 1) < Sub(new, old)

virtqueue_nused == Sub(used_idx, vq_used_cons_idx)
virtqueue_navail == Sub(avail_idx, vq_available_idx)

\* The emptiness checks of virtqueue_get_buffer and _get_available_buffer.
UsedPending_Dropped == TRUE                  \* mutant: no check
UsedPending == vq_used_cons_idx # used_idx
AvailPending_Dropped == TRUE                 \* mutant: no check
AvailPending == vq_available_idx # avail_idx

\* vq_ring_must_notify: master and slave may suppress each other's notification.
MustNotifySlave_WrongFlag == ~no_interrupt   \* mutant: reads its own flag
MustNotifySlave ==
    IF EventIdx THEN vring_need_event(avail_event, avail_idx, Sub(avail_idx, m_queued_cnt))
    ELSE ~no_notify

MustNotifyMaster_WrongFlag == ~no_notify     \* mutant: reads its own flag
MustNotifyMaster ==
    IF EventIdx THEN vring_need_event(used_event, used_idx, Sub(used_idx, s_queued_cnt))
    ELSE ~no_interrupt

(***************************************************************************)
(* virtqueue_create on zeroed ring memory: the master links the free chain.*)
(* Both sides then wait for their callback.                                *)
(***************************************************************************)
Init ==
    /\ next = [d \in Desc |-> d + 1]
    /\ more = [d \in Desc |-> FALSE]
    /\ addr = [d \in Desc |-> NoBuf]
    /\ avail_ring = [i \in Desc |-> 0] /\ avail_idx = 0
    /\ used_ring = [i \in Desc |-> 0] /\ used_idx = 0
    /\ no_interrupt = FALSE /\ no_notify = FALSE
    /\ used_event = 0 /\ avail_event = 0
    /\ vq_desc_head_idx = 0 /\ vq_free_cnt = N
    /\ cookie = [d \in Desc |-> NoBuf] /\ ndescs = [d \in Desc |-> 0]
    /\ vq_used_cons_idx = 0 /\ m_queued_cnt = 0
    /\ m_pc = "idle" /\ m_head = 0 /\ m_idx = 0 /\ m_i = 0
    /\ vq_available_idx = 0 /\ s_queued_cnt = 0
    /\ held = {} /\ s_pc = "idle" /\ s_slot = 0 /\ s_head = 0
    /\ m_wait = TRUE /\ s_wait = TRUE
    /\ m_pending = FALSE /\ s_pending = FALSE

(***************************************************************************)
(* Assertions of the code, at the point of the call where they stand.      *)
(***************************************************************************)
AssertHead == vq_desc_head_idx \in Desc /\ cookie[vq_desc_head_idx] = NoBuf
AssertNotEnd == m_idx # CHAIN_END
AssertChainTerm == vq_free_cnt = 0 => vq_desc_head_idx = CHAIN_END
AssertNewHead ==
    IF vq_free_cnt = ndescs[m_head] THEN m_idx = CHAIN_END ELSE m_idx \in Desc

(***************************************************************************)
(* Master: virtqueue_add_buffer.                                           *)
(***************************************************************************)
\* The call returns: its locals are gone.
M_Leave == m_pc' = "idle" /\ m_head' = 0 /\ m_idx' = 0 /\ m_i' = 0

InFlight == {cookie[d] : d \in Desc} \ {NoBuf}

\* The VQUEUE_DEBUG check asks for one free descriptor, whatever is needed.
RoomFor_One(needed) == vq_free_cnt # 0       \* mutant: callers do not count
RoomFor(needed) == vq_free_cnt # 0 /\ (CallerCounts => needed <= vq_free_cnt)

\* Entry checks; the cookie and the chain length go with the chain's head.
M_AddStart(needed, buf) ==
    /\ m_pc = "idle"
    /\ m_queued_cnt < MaxBatch
    /\ buf \notin InFlight
    /\ RoomFor(needed)
    /\ AssertHead
    /\ cookie' = [cookie EXCEPT ![vq_desc_head_idx] = buf]
    /\ ndescs' = [ndescs EXCEPT ![vq_desc_head_idx] = needed]
    /\ m_head' = vq_desc_head_idx /\ m_idx' = vq_desc_head_idx /\ m_i' = 0
    /\ m_pc' = "add"
    /\ UNCHANGED <<descVars, availVars, usedVars, eventVars, vq_desc_head_idx, vq_free_cnt,
                   vq_used_cons_idx, m_queued_cnt, m_wait, sVars, pendVars>>

\* VRING_DESC_F_NEXT of the descriptor being filled.
NextFlag_OffByOne == m_i < ndescs[m_head]    \* mutant: set on the last one too
NextFlag == m_i < ndescs[m_head] - 1

\* One round of the loop of vq_ring_add_buffer.
M_AddDesc ==
    /\ m_pc = "add"
    /\ AssertNotEnd
    /\ addr' = [addr EXCEPT ![m_idx] = cookie[m_head]]
    /\ more' = [more EXCEPT ![m_idx] = NextFlag]
    /\ m_idx' = next[m_idx]
    /\ m_i' = m_i + 1
    /\ m_pc' = IF m_i + 1 < ndescs[m_head] THEN "add" ELSE "slot"
    /\ UNCHANGED <<next, availVars, usedVars, eventVars, freeVars, vq_used_cons_idx,
                   m_queued_cnt, m_head, m_wait, sVars, pendVars>>

\* The rest of the chain becomes the free chain; vq_ring_update_avail puts the
\* head in the slot of avail->idx.
M_AddSlot ==
    /\ m_pc = "slot"
    /\ AssertNewHead
    /\ vq_desc_head_idx' = m_idx
    /\ vq_free_cnt' = vq_free_cnt - ndescs[m_head]
    /\ avail_ring' = [avail_ring EXCEPT ![Slot(avail_idx)] = m_head]
    /\ m_pc' = "publish"
    /\ UNCHANGED <<descVars, avail_idx, usedVars, eventVars, cookie, ndescs, vq_used_cons_idx,
                   m_queued_cnt, mLocals, m_wait, sVars, pendVars>>

\* After the fence: avail->idx++ makes the chain visible to the slave.
M_AddPublish ==
    /\ m_pc = "publish"
    /\ avail_idx' = Inc(avail_idx)
    /\ m_queued_cnt' = m_queued_cnt + 1
    /\ M_Leave
    /\ UNCHANGED <<descVars, avail_ring, usedVars, eventVars, freeVars, vq_used_cons_idx,
                   m_wait, sVars, pendVars>>

(***************************************************************************)
(* Master: virtqueue_get_buffer, with vq_ring_free_chain.                  *)
(***************************************************************************)
\* The ring is not empty: claim the slot of vq_used_cons_idx++.
M_Get ==
    /\ m_pc = "idle" /\ ~m_wait
    /\ UsedPending
    /\ vq_used_cons_idx' = Inc(vq_used_cons_idx)
    /\ m_i' = Slot(vq_used_cons_idx)
    /\ m_pc' = "get"
    /\ UNCHANGED <<descVars, availVars, usedVars, eventVars, freeVars, m_queued_cnt,
                   m_head, m_idx, m_wait, sVars, pendVars>>

\* After the fence: read the element, start freeing its chain.
M_FreeStart ==
    /\ m_pc = "get"
    /\ AssertChainTerm
    /\ LET desc_idx == used_ring[m_i] IN
         /\ m_head' = desc_idx /\ m_idx' = desc_idx
         /\ vq_free_cnt' = vq_free_cnt + ndescs[desc_idx]
         /\ ndescs' = [ndescs EXCEPT ![desc_idx] = @ - 1]
    /\ m_i' = 0
    /\ m_pc' = "free"
    /\ UNCHANGED <<descVars, availVars, usedVars, eventVars, vq_desc_head_idx, cookie,
                   vq_used_cons_idx, m_queued_cnt, m_wait, sVars, pendVars>>

\* One round of its loop over the chain.
M_FreeStep ==
    /\ m_pc = "free"
    /\ more[m_idx]
    /\ next[m_idx] \in Desc
    /\ m_idx' = next[m_idx]
    /\ ndescs' = [ndescs EXCEPT ![m_head] = @ - 1]
    /\ UNCHANGED <<descVars, availVars, usedVars, eventVars, vq_desc_head_idx, vq_free_cnt,
                   cookie, vq_used_cons_idx, m_queued_cnt, m_pc, m_head, m_i, m_wait, sVars,
                   pendVars>>

\* The old free chain goes behind the freed one; the cookie is returned.
M_FreeEnd ==
    /\ m_pc = "free"
    /\ ~more[m_idx]
    /\ ndescs[m_head] = 0
    /\ next' = [next EXCEPT ![m_idx] = vq_desc_head_idx]
    /\ vq_desc_head_idx' = m_head
    /\ cookie' = [cookie EXCEPT ![m_head] = NoBuf]
    /\ M_Leave
    /\ UNCHANGED <<more, addr, availVars, usedVars, eventVars, vq_free_cnt, ndescs,
                   vq_used_cons_idx, m_queued_cnt, m_wait, sVars, pendVars>>

(***************************************************************************)
(* Master: virtqueue_kick. The suppression field is its one shared read.   *)
(***************************************************************************)
M_Kick ==
    /\ m_pc = "idle"
    /\ s_pending' = (s_pending \/ MustNotifySlave)
    /\ m_queued_cnt' = 0
    /\ UNCHANGED <<descVars, availVars, usedVars, eventVars, freeVars, vq_used_cons_idx,
                   m_pc, mLocals, m_wait, sVars, m_pending>>

(***************************************************************************)
(* Master: waiting for its callback. A drain loop ends when                *)
(* virtqueue_get_buffer returns NULL; the caller then waits, if it never   *)
(* disabled callbacks, or enables them first and waits if                  *)
(* virtqueue_enable_cb returns 0.                                          *)
(***************************************************************************)
M_GetEmpty ==
    /\ m_pc = "idle" /\ ~m_wait
    /\ ~Rearm /\ ~no_interrupt
    /\ ~UsedPending
    /\ m_wait' = TRUE
    /\ UNCHANGED <<descVars, availVars, usedVars, eventVars, freeVars, vq_used_cons_idx,
                   m_queued_cnt, m_pc, mLocals, sVars, pendVars>>

M_DisableCb ==
    /\ m_pc = "idle" /\ ~m_wait
    /\ IF EventIdx
         THEN used_event' = Sub(vq_used_cons_idx, N + 1) /\ UNCHANGED no_interrupt
         ELSE no_interrupt' = TRUE /\ UNCHANGED used_event
    /\ UNCHANGED <<descVars, availVars, usedVars, no_notify, avail_event, mVars, sVars, pendVars>>

\* vq_ring_enable_interrupt(vq, 0), up to its fence ...
M_EnableCb ==
    /\ m_pc = "idle" /\ ~m_wait
    /\ IF EventIdx
         THEN used_event' = vq_used_cons_idx /\ UNCHANGED no_interrupt
         ELSE no_interrupt' = FALSE /\ UNCHANGED used_event
    /\ m_pc' = "arm"
    /\ UNCHANGED <<descVars, availVars, usedVars, no_notify, avail_event, freeVars,
                   vq_used_cons_idx, m_queued_cnt, mLocals, m_wait, sVars, pendVars>>

\* ... and the second look at the ring after it.
M_EnableCheck ==
    /\ m_pc = "arm"
    /\ m_wait' = ~(virtqueue_nused > 0)
    /\ m_pc' = "idle"
    /\ UNCHANGED <<descVars, availVars, usedVars, eventVars, freeVars, vq_used_cons_idx,
                   m_queued_cnt, mLocals, sVars, pendVars>>

\* virtqueue_notification: a latched interrupt runs the callback.
M_Notification ==
    /\ m_pending /\ m_wait /\ m_pc = "idle"
    /\ m_pending' = FALSE
    /\ m_wait' = FALSE
    /\ UNCHANGED <<descVars, availVars, usedVars, eventVars, freeVars, vq_used_cons_idx,
                   m_queued_cnt, m_pc, mLocals, sVars, s_pending>>

(***************************************************************************)
(* Slave: virtqueue_get_available_buffer.                                  *)
(***************************************************************************)
S_Take ==
    /\ s_pc = "idle" /\ ~s_wait
    /\ AvailPending
    /\ vq_available_idx' = Inc(vq_available_idx)
    /\ s_slot' = Slot(vq_available_idx)
    /\ s_pc' = "take"
    /\ UNCHANGED <<descVars, availVars, usedVars, eventVars, mVars, s_queued_cnt, held, s_head,
                   s_wait, pendVars>>

\* The caller gets the head and the address in its descriptor.
S_TakeRead ==
    /\ s_pc = "take"
    /\ held' = held \cup {<<avail_ring[s_slot], addr[avail_ring[s_slot]]>>}
    /\ s_slot' = 0
    /\ s_pc' = "idle"
    /\ UNCHANGED <<descVars, availVars, usedVars, eventVars, mVars, vq_available_idx,
                   s_queued_cnt, s_head, s_wait, pendVars>>

(***************************************************************************)
(* Slave: virtqueue_add_consumed_buffer, for a buffer its caller holds     *)
(* (in any order).                                                         *)
(***************************************************************************)
S_ReturnSlot(h) ==
    /\ s_pc = "idle"
    /\ s_queued_cnt < MaxBatch
    /\ h \in held
    /\ held' = held \ {h}
    /\ used_ring' = [used_ring EXCEPT ![Slot(used_idx)] = h[1]]
    /\ s_head' = h[1]
    /\ s_pc' = "return"
    /\ UNCHANGED <<descVars, availVars, used_idx, eventVars, mVars, vq_available_idx,
                   s_queued_cnt, s_slot, s_wait, pendVars>>

\* After the fence: used->idx++ makes it visible to the master.
S_ReturnPublish ==
    /\ s_pc = "return"
    /\ used_idx' = Inc(used_idx)
    /\ s_queued_cnt' = s_queued_cnt + 1
    /\ s_head' = 0
    /\ s_pc' = "idle"
    /\ UNCHANGED <<descVars, availVars, used_ring, eventVars, mVars, vq_available_idx, held,
                   s_slot, s_wait, pendVars>>

(***************************************************************************)
(* Slave: virtqueue_kick and waiting, as for the master.                   *)
(***************************************************************************)
S_Kick ==
    /\ s_pc = "idle"
    /\ m_pending' = (m_pending \/ MustNotifyMaster)
    /\ s_queued_cnt' = 0
    /\ UNCHANGED <<descVars, availVars, usedVars, eventVars, mVars, vq_available_idx, held,
                   s_pc, s_slot, s_head, s_wait, s_pending>>

S_TakeEmpty ==
    /\ s_pc = "idle" /\ ~s_wait
    /\ ~Rearm /\ ~no_notify
    /\ ~AvailPending
    /\ s_wait' = TRUE
    /\ UNCHANGED <<descVars, availVars, usedVars, eventVars, mVars, vq_available_idx,
                   s_queued_cnt, held, s_pc, s_slot, s_head, pendVars>>

S_DisableCb ==
    /\ s_pc = "idle" /\ ~s_wait
    /\ IF EventIdx
         THEN avail_event' = Sub(vq_available_idx, N + 1) /\ UNCHANGED no_notify
         ELSE no_notify' = TRUE /\ UNCHANGED avail_event
    /\ UNCHANGED <<descVars, availVars, usedVars, no_interrupt, used_event, mVars, sVars,
                   pendVars>>

S_EnableCb ==
    /\ s_pc = "idle" /\ ~s_wait
    /\ IF EventIdx
         THEN avail_event' = vq_available_idx /\ UNCHANGED no_notify
         ELSE no_notify' = FALSE /\ UNCHANGED avail_event
    /\ s_pc' = "arm"
    /\ UNCHANGED <<descVars, availVars, usedVars, no_interrupt, used_event, mVars,
                   vq_available_idx, s_queued_cnt, held, s_slot, s_head, s_wait, pendVars>>

S_EnableCheck ==
    /\ s_pc = "arm"
    /\ s_wait' = ~(virtqueue_navail > 0)
    /\ s_pc' = "idle"
    /\ UNCHANGED <<descVars, availVars, usedVars, eventVars, mVars, vq_available_idx,
                   s_queued_cnt, held, s_slot, s_head, pendVars>>

S_Notification ==
    /\ s_pending /\ s_wait /\ s_pc = "idle"
    /\ s_pending' = FALSE
    /\ s_wait' = FALSE
    /\ UNCHANGED <<descVars, availVars, usedVars, eventVars, mVars, vq_available_idx,
                   s_queued_cnt, held, s_pc, s_slot, s_head, m_pending>>

Next ==
    \/ \E needed \in 1..MaxChain, buf \in Bufs : M_AddStart(needed, buf)
    \/ M_AddDesc \/ M_AddSlot \/ M_AddPublish
    \/ M_Get \/ M_FreeStart \/ M_FreeStep \/ M_FreeEnd
    \/ M_Kick
    \/ M_GetEmpty \/ M_DisableCb \/ M_EnableCb \/ M_EnableCheck \/ M_Notification
    \/ S_Take \/ S_TakeRead
    \/ \E h \in held : S_ReturnSlot(h)
    \/ S_ReturnPublish
    \/ S_Kick
    \/ S_TakeEmpty \/ S_DisableCb \/ S_EnableCb \/ S_EnableCheck \/ S_Notification

Spec == Init /\ [][Next]_vars

--------------------------------------------------------------------------------
(***************************************************************************)
(* Correctness.                                                            *)
(***************************************************************************)
\* Every variable stays within the type the code gives it.
TypeOK ==
    /\ next \in [Desc -> Link] /\ more \in [Desc -> BOOLEAN]
    /\ addr \in [Desc -> Bufs \cup {NoBuf}]
    /\ avail_ring \in [Desc -> Desc] /\ avail_idx \in Index
    /\ used_ring \in [Desc -> Desc] /\ used_idx \in Index
    /\ no_interrupt \in BOOLEAN /\ no_notify \in BOOLEAN
    /\ used_event \in Index /\ avail_event \in Index
    /\ vq_desc_head_idx \in Link /\ vq_free_cnt \in Int
    /\ cookie \in [Desc -> Bufs \cup {NoBuf}] /\ ndescs \in [Desc -> Int]
    /\ vq_used_cons_idx \in Index /\ m_queued_cnt \in 0..MaxBatch
    /\ m_pc \in {"idle", "add", "slot", "publish", "get", "free", "arm"}
    /\ m_head \in Desc /\ m_idx \in Link /\ m_i \in Nat
    /\ m_wait \in BOOLEAN /\ m_pending \in BOOLEAN
    /\ vq_available_idx \in Index /\ s_queued_cnt \in 0..MaxBatch
    /\ held \subseteq Desc \X (Bufs \cup {NoBuf})
    /\ s_pc \in {"idle", "take", "return", "arm"}
    /\ s_slot \in Desc /\ s_head \in Desc
    /\ s_wait \in BOOLEAN /\ s_pending \in BOOLEAN

\* No VQASSERT of virtqueue.c ever fails: the free chain does not end before
\* vq_ring_add_buffer is done, a chain is freed whole, a full ring has no
\* free head, no cookie is overwritten, and neither ring ever holds more than
\* vq_nentries entries.
AssertionsHold ==
    /\ m_pc = "idle" /\ vq_free_cnt # 0 => AssertHead
    /\ m_pc = "add" => AssertNotEnd
    /\ m_pc = "slot" => AssertNewHead
    /\ m_pc = "get" => AssertChainTerm
    /\ m_pc = "free" => IF more[m_idx] THEN next[m_idx] \in Desc ELSE ndescs[m_head] = 0
    /\ virtqueue_nused <= N /\ virtqueue_navail <= N

\* The k-th entry not yet consumed of each ring, k counting from 0.
Ahead(i, k) == IF i + k < M THEN i + k ELSE i + k - M
AvailAt(k) == avail_ring[Slot(Ahead(vq_available_idx, k))]
UsedAt(k) == used_ring[Slot(Ahead(vq_used_cons_idx, k))]

\* Who owns which chain head now, one claim per place a head can be.
Claims ==
    {<<"avail", k, AvailAt(k)>> : k \in 0..(virtqueue_navail - 1)}
    \cup {<<"take", 0, avail_ring[s_slot]>> : x \in {s_pc} \cap {"take"}}
    \cup {<<"held", 0, h[1]>> : h \in held}
    \cup {<<"return", 0, s_head>> : x \in {s_pc} \cap {"return"}}
    \cup {<<"used", k, UsedAt(k)>> : k \in 0..(virtqueue_nused - 1)}
    \cup {<<"get", 0, used_ring[m_i]>> : x \in {m_pc} \cap {"get"}}
    \cup {<<"master", 0, m_head>> : x \in {m_pc} \cap {"add", "slot", "publish", "free"}}

\* A chain is in one place at a time, and the chains somewhere are exactly the
\* ones whose cookie virtqueue_get_buffer has still to return: none is lost,
\* none is handed out twice, whatever the two cores interleave.
OneOwner ==
    /\ \A c, e \in Claims : c # e => c[3] # e[3]
    /\ {c[3] : c \in Claims} = {d \in Desc : cookie[d] # NoBuf}

\* Descriptors reached from d along next, CHAIN_END once the chain is over.
Walk(d) ==
    LET w[k \in 0..N] == IF k = 0 THEN d
                         ELSE IF w[k - 1] \in Desc THEN next[w[k - 1]] ELSE CHAIN_END
    IN  w

Descs(d, len) == {Walk(d)[k] : k \in 0..(len - 1)}

\* Between calls every descriptor is either on the free chain, which has
\* vq_free_cnt members and ends in CHAIN_END, or in the chain of exactly one
\* head in flight, whose descriptors carry its buffer and whose NEXT flags
\* end it after ndescs descriptors.
DescPartition ==
    m_pc \in {"idle", "publish", "get", "arm"} =>
      LET heads == {d \in Desc : cookie[d] # NoBuf}
          free == Descs(vq_desc_head_idx, vq_free_cnt)
      IN  /\ vq_free_cnt \in 0..N
          /\ Walk(vq_desc_head_idx)[vq_free_cnt] = CHAIN_END
          /\ Cardinality(free) = vq_free_cnt
          /\ \A h \in heads :
               /\ ndescs[h] \in 1..N
               /\ Descs(h, ndescs[h]) \cap free = {}
               /\ \A g \in heads \ {h} : Descs(h, ndescs[h]) \cap Descs(g, ndescs[g]) = {}
               /\ \A k \in 0..(ndescs[h] - 1) :
                    LET d == Walk(h)[k]
                    IN  more[d] = (k < ndescs[h] - 1) /\ addr[d] = cookie[h]
          /\ free \cup UNION {Descs(h, ndescs[h]) : h \in heads} = Desc

\* The address the slave read is the buffer the master offered under that
\* head, and the master leaves the descriptor alone while the slave holds it.
HeldIntact ==
    \A h \in held : cookie[h[1]] = h[2] /\ addr[h[1]] = h[2]

\* No wakeup is lost: a side that waits for its callback with entries in its
\* ring has a notification latched, or the other side has still to kick.
NoLostWakeup ==
    /\ s_wait /\ avail_idx # vq_available_idx => s_pending \/ m_queued_cnt # 0
    /\ m_wait /\ used_idx # vq_used_cons_idx => m_pending \/ s_queued_cnt # 0

(***************************************************************************)
(* Fairness: a call that was started runs to its end; whoever adds entries *)
(* kicks (each caller in lib/rpmsg does, before it releases rdev->lock); a *)
(* latched notification is delivered between two calls; a callback drains  *)
(* its ring. The last three are strong because other calls of the same     *)
(* side, made in between, disable them for a while.                        *)
(***************************************************************************)
M_InCall ==
    M_AddDesc \/ M_AddSlot \/ M_AddPublish \/ M_FreeStart \/ M_FreeStep \/ M_FreeEnd
    \/ M_EnableCheck
S_InCall == S_TakeRead \/ S_ReturnPublish \/ S_EnableCheck

Fairness ==
    /\ WF_vars(M_InCall) /\ WF_vars(S_InCall)
    /\ SF_vars(m_queued_cnt > 0 /\ M_Kick) /\ SF_vars(s_queued_cnt > 0 /\ S_Kick)
    /\ SF_vars(M_Notification) /\ SF_vars(S_Notification)
    /\ SF_vars(M_Get) /\ SF_vars(S_Take)

LiveSpec == Spec /\ Fairness

\* Buffers offered and not yet taken, returned and not yet reclaimed, in ring
\* order.
Offered == [k \in 1..virtqueue_navail |-> cookie[AvailAt(k - 1)]]
Returned == [k \in 1..virtqueue_nused |-> cookie[UsedAt(k - 1)]]

\* A buffer is with the slave from the step that claims its ring slot to the
\* step that publishes it in the used ring.
SlaveHas ==
    {h[2] : h \in held}
    \cup {addr[avail_ring[s_slot]] : x \in {s_pc} \cap {"take"}}
    \cup {cookie[s_head] : x \in {s_pc} \cap {"return"}}

Abs == INSTANCE VirtqueueAbs WITH offered <- Offered, held <- SlaveHas, returned <- Returned

\* The virtqueue implements the queue of VirtqueueAbs: first offered is first
\* taken, first returned is first reclaimed, and nothing is lost, duplicated
\* or changed on the way.
ImplementsQueue == Abs!Spec

\* Every buffer made available is eventually taken by the slave, and every
\* buffer it returns is eventually reclaimed by the master.
EveryBufferMoves ==
    \A b \in Bufs :
      /\ (\E k \in DOMAIN Offered : Offered[k] = b)
           ~> ~(\E k \in DOMAIN Offered : Offered[k] = b)
      /\ (\E k \in DOMAIN Returned : Returned[k] = b)
           ~> ~(\E k \in DOMAIN Returned : Returned[k] = b)
================================================================================
