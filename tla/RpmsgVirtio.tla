------------------------------ MODULE RpmsgVirtio ------------------------------
(***************************************************************************)
(* The RPMsg transport of lib/rpmsg/rpmsg_virtio.c on both cores: sending  *)
(* with its buffer pool, size check, lock and retry loop, and the receive  *)
(* callback, over the two vrings. It starts when both sides are through    *)
(* rpmsg_init_vdev.                                                        *)
(*                                                                         *)
(* Vring 0 carries messages to the master (its rvq, the slave's svq),      *)
(* vring 1 messages to the slave. A vring is the queue of VirtqueueAbs,    *)
(* which module Virtqueue implements: avail[r] are the buffers the master  *)
(* made available, used[r] the ones the slave gave back, in ring order.    *)
(*                                                                         *)
(* A context is a thread that sends: an application thread, or the receive *)
(* callback of a core, whose endpoint callback may send too.               *)
(***************************************************************************)
EXTENDS Integers, Sequences, FiniteSets

CONSTANTS
    NEntries,   \* vq_nentries of both vrings
    Pool,       \* RPMSG_BUFFER_SIZE buffers in the shared memory pool
    Apps,       \* application threads
    AppCore,    \* the core each application thread runs on
    Payloads,   \* message contents
    NoMsg,      \* content of a buffer that holds no whole message
    BigFrom,    \* cores whose callers also send messages longer than a buffer
    TickCount   \* retries of a waiting send: 15 s in steps of 1 ms

Master == "master"
Slave == "slave"
Cores == {Master, Slave}
None == "none"

ASSUME RingAssumption == NEntries \in Nat \ {0} /\ Pool \in Nat /\ Pool >= NEntries
ASSUME AppAssumption ==
    AppCore \in [Apps -> Cores] /\ Apps \cap (Cores \cup {None}) = {} /\ IsFiniteSet(Apps)
ASSUME TickAssumption == TickCount \in Nat /\ NoMsg \notin Payloads
ASSUME BigAssumption == BigFrom \subseteq Cores

Buffers == 1..Pool
NoBuffer == 0
Contexts == Apps \cup Cores       \* a core's name is also its receive context
CoreOf(t) == IF t \in Cores THEN t ELSE AppCore[t]
Peer(c) == IF c = Master THEN Slave ELSE Master

VARIABLES
    avail, used,     \* the vrings, 0 and 1
    pool_avail,      \* shpool->avail, in buffers
    content,         \* what each buffer holds
    lock,            \* rdev->lock of each core: its holder, or None
    pending,         \* is a notification for the core's rvq latched?
    tx_pc, tx_buf, tx_data, tx_big, tx_tick, tx_size,  \* send_offchannel_raw
    rx_pc, rx_buf    \* rx_callback of each core

ringVars == <<avail, used, pool_avail>>
txLocals == <<tx_data, tx_big, tx_tick>>
txVars == <<tx_pc, tx_buf, txLocals, tx_size>>
rxVars == <<rx_pc, rx_buf>>
vars == <<ringVars, content, lock, pending, txVars, rxVars>>

(***************************************************************************)
(* rpmsg_init_vdev: the master fills its rvq from the pool.                *)
(***************************************************************************)
Init ==
    /\ avail = [r \in {0, 1} |-> IF r = 0 THEN [i \in 1..NEntries |-> i] ELSE <<>>]
    /\ used = [r \in {0, 1} |-> <<>>]
    /\ pool_avail = Pool - NEntries
    /\ content = [b \in Buffers |-> NoMsg]
    /\ lock = [c \in Cores |-> None]
    /\ pending = [c \in Cores |-> FALSE]
    /\ tx_pc = [t \in Contexts |-> "idle"]
    /\ tx_buf = [t \in Contexts |-> NoBuffer]
    /\ tx_data = [t \in Contexts |-> NoMsg]
    /\ tx_big = [t \in Contexts |-> FALSE]
    /\ tx_tick = [t \in Contexts |-> 0]
    /\ tx_size = [t \in Contexts |-> FALSE]
    /\ rx_pc = [c \in Cores |-> "idle"]
    /\ rx_buf = [c \in Cores |-> NoBuffer]

(***************************************************************************)
(* rpmsg_virtio_send_offchannel_raw, by context t. big: the message is     *)
(* longer than a buffer. A core's receive context sends only from within   *)
(* its endpoint callback. DRIVER_OK, tested first, is set when the device  *)
(* is up (VdevStartup) and stays; a buffer is enqueued and kicked under    *)
(* one hold of the lock, as one step.                                      *)
(***************************************************************************)
At(t, pc) == tx_pc[t] = pc
Goto(t, pc) == tx_pc' = [tx_pc EXCEPT ![t] = pc]

\* The send returns: its locals are gone.
Return(t) ==
    /\ Goto(t, "idle")
    /\ tx_buf' = [tx_buf EXCEPT ![t] = NoBuffer]
    /\ tx_data' = [tx_data EXCEPT ![t] = NoMsg]
    /\ tx_tick' = [tx_tick EXCEPT ![t] = 0]
    /\ tx_size' = [tx_size EXCEPT ![t] = FALSE]
    /\ tx_big' = [tx_big EXCEPT ![t] = FALSE]

Free(c) == lock[c] = None

Send(t, data, big, wait) ==
    /\ At(t, "idle")
    /\ t \in Cores => rx_pc[t] = "callback"
    /\ big => CoreOf(t) \in BigFrom
    /\ Goto(t, "size")
    /\ tx_data' = [tx_data EXCEPT ![t] = data]
    /\ tx_big' = [tx_big EXCEPT ![t] = big]
    /\ tx_tick' = [tx_tick EXCEPT ![t] = IF wait THEN TickCount ELSE 0]
    /\ UNCHANGED <<ringVars, content, lock, pending, tx_buf, tx_size, rxVars>>

\* _rpmsg_virtio_get_buffer_size # 0: the master's is a constant, the slave
\* looks at the next available descriptor.
BufferSizeKnown(c) == c = Master \/ avail[0] # <<>>

\* Under the lock: too big for the buffer that would be taken, RPMSG_ERR_BUFF_SIZE.
SendTooBig(t) ==
    LET c == CoreOf(t) IN
    /\ At(t, "size") /\ Free(c)
    /\ BufferSizeKnown(c) /\ tx_big[t]
    /\ Return(t)
    /\ UNCHANGED <<ringVars, content, lock, pending, rxVars>>

SendSizeOK(t) ==
    LET c == CoreOf(t) IN
    /\ At(t, "size") /\ Free(c)
    /\ ~(BufferSizeKnown(c) /\ tx_big[t])
    /\ lock' = [lock EXCEPT ![c] = t]
    /\ tx_size' = [tx_size EXCEPT ![t] = BufferSizeKnown(c)]
    /\ Goto(t, "get")
    /\ UNCHANGED <<ringVars, content, pending, tx_buf, txLocals, rxVars>>

\* rpmsg_virtio_get_tx_buffer, still under the lock. The master reuses a
\* buffer the slave returned before it takes a new one from the pool.
\* Mutant: shpool->avail may be zero.
TxSource_OffByOne(c) ==
    IF c = Slave THEN IF avail[0] # <<>> THEN Head(avail[0]) ELSE NoBuffer
    ELSE IF used[1] # <<>> THEN Head(used[1])
    ELSE IF pool_avail >= 0 THEN Pool - pool_avail + 1 ELSE NoBuffer

TxSource(c) ==
    IF c = Slave THEN IF avail[0] # <<>> THEN Head(avail[0]) ELSE NoBuffer
    ELSE IF used[1] # <<>> THEN Head(used[1])
    ELSE IF pool_avail > 0 THEN Pool - pool_avail + 1 ELSE NoBuffer

\* Mutants: shpool->avail is not debited; the reused buffer stays in the ring.
TakeTxSource_NoDebit(c) ==
    IF c = Slave
      THEN avail' = [avail EXCEPT ![0] = Tail(@)] /\ UNCHANGED <<used, pool_avail>>
    ELSE IF used[1] # <<>>
      THEN used' = [used EXCEPT ![1] = Tail(@)] /\ UNCHANGED <<avail, pool_avail>>
    ELSE UNCHANGED ringVars

TakeTxSource_KeepUsed(c) ==
    IF c = Slave
      THEN avail' = [avail EXCEPT ![0] = Tail(@)] /\ UNCHANGED <<used, pool_avail>>
    ELSE IF used[1] # <<>>
      THEN UNCHANGED ringVars
    ELSE pool_avail' = pool_avail - 1 /\ UNCHANGED <<avail, used>>

TakeTxSource(c) ==
    IF c = Slave
      THEN avail' = [avail EXCEPT ![0] = Tail(@)] /\ UNCHANGED <<used, pool_avail>>
    ELSE IF used[1] # <<>>
      THEN used' = [used EXCEPT ![1] = Tail(@)] /\ UNCHANGED <<avail, pool_avail>>
    ELSE pool_avail' = pool_avail - 1 /\ UNCHANGED <<avail, used>>

Unlock_Forgotten(c) == UNCHANGED lock         \* mutant: returns with the lock
Unlock(c) == lock' = [lock EXCEPT ![c] = None]

SendGotBuffer(t) ==
    LET c == CoreOf(t) IN
    /\ At(t, "get")
    /\ TxSource(c) # NoBuffer
    /\ tx_buf' = [tx_buf EXCEPT ![t] = TxSource(c)]
    /\ TakeTxSource(c)
    /\ Unlock(c)
    /\ Goto(t, "fill")
    /\ UNCHANGED <<content, pending, txLocals, tx_size, rxVars>>

\* No buffer: RPMSG_ERR_NO_BUFF if not waiting or the ticks are used up, ...
SendNoBuffer(t) ==
    LET c == CoreOf(t) IN
    /\ At(t, "get")
    /\ TxSource(c) = NoBuffer
    /\ tx_tick[t] = 0
    /\ Unlock(c)
    /\ Return(t)
    /\ UNCHANGED <<ringVars, content, pending, rxVars>>

\* ... RPMSG_ERR_BUFF_SIZE if a buffer size was known, ...
SendSizeKnown(t) ==
    LET c == CoreOf(t) IN
    /\ At(t, "get")
    /\ TxSource(c) = NoBuffer
    /\ tx_tick[t] # 0 /\ tx_size[t]
    /\ Unlock(c)
    /\ Return(t)
    /\ UNCHANGED <<ringVars, content, pending, rxVars>>

\* ... and else sleep for a tick and start over.
SendSleep(t) ==
    LET c == CoreOf(t) IN
    /\ At(t, "get")
    /\ TxSource(c) = NoBuffer
    /\ tx_tick[t] # 0 /\ ~tx_size[t]
    /\ Unlock(c)
    /\ tx_tick' = [tx_tick EXCEPT ![t] = @ - 1]
    /\ Goto(t, "size")
    /\ UNCHANGED <<ringVars, content, pending, tx_buf, tx_data, tx_big, tx_size, rxVars>>

\* Mutant: only the header is copied.
SendFill_NoCopy(t) ==
    /\ At(t, "fill")
    /\ Goto(t, "enqueue")
    /\ UNCHANGED <<ringVars, content, lock, pending, tx_buf, txLocals, tx_size, rxVars>>

\* Header and data are copied without the lock and without another look at the
\* size: a message too long for its buffer runs over into the next one.
Overrun(t) == {b \in Buffers : tx_big[t] /\ b = tx_buf[t] + 1}

SendFill(t) ==
    /\ At(t, "fill")
    /\ content' = [b \in Buffers |-> IF b = tx_buf[t] THEN tx_data[t]
                                    ELSE IF b \in Overrun(t) THEN NoMsg ELSE content[b]]
    /\ Goto(t, "enqueue")
    /\ UNCHANGED <<ringVars, lock, pending, tx_buf, txLocals, tx_size, rxVars>>

\* Descriptors of vring r that are not on the master's free chain: the chains
\* available, with the slave, or used and not yet reclaimed.
WithSlave(r) ==
    IF r = 0 THEN {t \in Contexts : CoreOf(t) = Slave /\ tx_buf[t] # NoBuffer}
    ELSE {c \in {Slave} : rx_buf[c] # NoBuffer}
DescsInUse(r) == Len(avail[r]) + Cardinality(WithSlave(r)) + Len(used[r])

\* virtqueue_kick(svq): it reaches the peer's rvq, whose callback is never
\* disabled.
Kick_Self(c) == pending' = [pending EXCEPT ![c] = TRUE]   \* mutant: the wrong vq
Kick(c) == pending' = [pending EXCEPT ![Peer(c)] = TRUE]

\* rpmsg_virtio_enqueue_buffer and the kick, under the lock.
EnqueueSucceeds(c) == c = Master => DescsInUse(1) < NEntries

SendEnqueue(t) ==
    LET c == CoreOf(t) IN
    /\ At(t, "enqueue") /\ Free(c)
    /\ EnqueueSucceeds(c)
    /\ IF c = Master
         THEN avail' = [avail EXCEPT ![1] = Append(@, tx_buf[t])] /\ UNCHANGED used
         ELSE used' = [used EXCEPT ![0] = Append(@, tx_buf[t])] /\ UNCHANGED avail
    /\ Kick(c)
    /\ Return(t)
    /\ UNCHANGED <<pool_avail, content, lock, rxVars>>

(***************************************************************************)
(* rpmsg_virtio_rx_callback of core c.                                     *)
(***************************************************************************)
\* A latched notification starts it; it is not re-entered.
RxNotified(c) ==
    /\ rx_pc[c] = "idle" /\ pending[c]
    /\ pending' = [pending EXCEPT ![c] = FALSE]
    /\ rx_pc' = [rx_pc EXCEPT ![c] = "first"]
    /\ UNCHANGED <<ringVars, content, lock, txVars, rx_buf>>

\* rpmsg_virtio_get_rx_buffer on the rings a, u: the buffer, the rings after.
RxQueue(c, a, u) == IF c = Master THEN u[0] ELSE a[1]

GetRx(c, a, u) ==
    IF RxQueue(c, a, u) = <<>>
    THEN /\ rx_pc' = [rx_pc EXCEPT ![c] = "idle"]
         /\ rx_buf' = [rx_buf EXCEPT ![c] = NoBuffer]
         /\ avail' = a /\ used' = u
    ELSE /\ rx_pc' = [rx_pc EXCEPT ![c] = "callback"]
         /\ rx_buf' = [rx_buf EXCEPT ![c] = Head(RxQueue(c, a, u))]
         /\ avail' = IF c = Slave THEN [a EXCEPT ![1] = Tail(@)] ELSE a
         /\ used' = IF c = Master THEN [u EXCEPT ![0] = Tail(@)] ELSE u

RxFirst(c) ==
    /\ rx_pc[c] = "first" /\ Free(c)
    /\ GetRx(c, avail, used)
    /\ UNCHANGED <<pool_avail, content, lock, pending, txVars>>

\* The endpoint callback has returned: give the buffer back, get the next
\* one. Without one the rvq is kicked, but the peer has disabled callbacks on
\* that ring, its svq: no notification. What a returned buffer still holds is
\* forgotten: nobody may read it.
RxNext(c) ==
    /\ rx_pc[c] = "callback" /\ At(c, "idle") /\ Free(c)
    /\ IF c = Master
         THEN GetRx(c, [avail EXCEPT ![0] = Append(@, rx_buf[c])], used)
         ELSE GetRx(c, avail, [used EXCEPT ![1] = Append(@, rx_buf[c])])
    /\ content' = [content EXCEPT ![rx_buf[c]] = NoMsg]
    /\ UNCHANGED <<pool_avail, lock, pending, txVars>>

SendStep(t) ==
    \/ SendTooBig(t) \/ SendSizeOK(t) \/ SendGotBuffer(t) \/ SendNoBuffer(t)
    \/ SendSizeKnown(t) \/ SendSleep(t) \/ SendFill(t) \/ SendEnqueue(t)

Next ==
    \/ \E t \in Contexts, data \in Payloads, big, wait \in BOOLEAN : Send(t, data, big, wait)
    \/ \E t \in Contexts : SendStep(t)
    \/ \E c \in Cores : RxNotified(c) \/ RxFirst(c) \/ RxNext(c)

Spec == Init /\ [][Next]_vars

--------------------------------------------------------------------------------
(***************************************************************************)
(* Correctness.                                                            *)
(***************************************************************************)
\* Every variable stays within its type.
TypeOK ==
    /\ avail \in [{0, 1} -> Seq(Buffers)] /\ used \in [{0, 1} -> Seq(Buffers)]
    /\ pool_avail \in 0..Pool
    /\ content \in [Buffers -> Payloads \cup {NoMsg}]
    /\ lock \in [Cores -> Contexts \cup {None}]
    /\ pending \in [Cores -> BOOLEAN]
    /\ tx_pc \in [Contexts -> {"idle", "size", "get", "fill", "enqueue"}]
    /\ tx_buf \in [Contexts -> Buffers \cup {NoBuffer}]
    /\ tx_data \in [Contexts -> Payloads \cup {NoMsg}]
    /\ tx_big \in [Contexts -> BOOLEAN] /\ tx_size \in [Contexts -> BOOLEAN]
    /\ tx_tick \in [Contexts -> 0..TickCount]
    /\ rx_pc \in [Cores -> {"idle", "first", "callback"}]
    /\ rx_buf \in [Cores -> Buffers \cup {NoBuffer}]

\* The places buffer b is in.
Places(b) ==
    {<<"avail", p>> : p \in {q \in {0, 1} \X (1..Pool) :
                               q[2] <= Len(avail[q[1]]) /\ avail[q[1]][q[2]] = b}}
    \cup {<<"used", p>> : p \in {q \in {0, 1} \X (1..Pool) :
                                   q[2] <= Len(used[q[1]]) /\ used[q[1]][q[2]] = b}}
    \cup {<<"tx", t>> : t \in {x \in Contexts : tx_buf[x] = b}}
    \cup {<<"rx", c>> : c \in {x \in Cores : rx_buf[x] = b}}
    \cup {<<"pool", x>> : x \in {b} \cap {y \in Buffers : y > Pool - pool_avail}}

\* No buffer is lost or shared: each is in the pool, in one place of one ring,
\* with one sender, or with one receive callback, whatever sends fail or race.
BufferConserved == \A b \in Buffers : Cardinality(Places(b)) = 1

\* "failed to enqueue buffer" (rpmsg_virtio.c:349) never happens: the ring has
\* a free descriptor for every buffer the master sends or gives back.
EnqueueNeverFails ==
    /\ \A t \in Contexts : At(t, "enqueue") => EnqueueSucceeds(CoreOf(t))
    /\ DescsInUse(0) <= NEntries

\* A message a receiver's callback is looking at is a whole message that
\* nobody writes to: no sender fills that buffer until it was given back.
CallbackDataStable ==
    [][\A c \in Cores :
         rx_pc[c] = "callback" /\ rx_buf'[c] = rx_buf[c]
           => content'[rx_buf[c]] = content[rx_buf[c]]]_vars

Channel == INSTANCE RpmsgChannel WITH
    chan <- [c \in Cores |-> [i \in 1..Len(RxQueue(c, avail, used)) |->
                                content[RxQueue(c, avail, used)[i]]]],
    cur <- [c \in Cores |-> IF rx_pc[c] = "callback" THEN content[rx_buf[c]] ELSE NoMsg]

\* The transport implements the channel: messages arrive in the order they
\* were enqueued, exactly once, and unchanged.
ImplementsChannel == Channel!Spec

\* rpmsg.h:141-143, of a send that may wait and finds no TX buffer: it blocks
\* until one becomes available or the time is over. So as long as ticks are
\* left a message that fits is not given up.
WaitingSendBlocks ==
    [][\A t \in Contexts :
         At(t, "get") /\ tx_tick[t] > 0 /\ ~tx_big[t] => tx_pc'[t] # "idle"]_vars

(***************************************************************************)
(* Liveness. A context that sends takes its next step, in the end also     *)
(* when it contends for rdev->lock; notifications are delivered; endpoint  *)
(* callbacks return.                                                       *)
(***************************************************************************)
Fairness ==
    /\ \A t \in Contexts : SF_vars(SendStep(t))
    /\ \A c \in Cores : WF_vars(RxNotified(c)) /\ SF_vars(RxFirst(c)) /\ SF_vars(RxNext(c))

LiveSpec == Spec /\ Fairness

\* Every send returns: the retry loop of rpmsg_virtio_send_offchannel_raw ends
\* and nobody keeps rdev->lock, whichever way the buffers go.
SendsReturn == \A t \in Contexts : ~At(t, "idle") ~> At(t, "idle")

\* Every message that was enqueued reaches rpmsg_virtio_rx_callback: a kick
\* while the callback is finding its ring empty is not lost.
MessagesArrive ==
    \A c \in Cores, b \in Buffers :
      (\E i \in 1..Len(RxQueue(c, avail, used)) : RxQueue(c, avail, used)[i] = b)
        ~> rx_buf[c] = b
================================================================================
