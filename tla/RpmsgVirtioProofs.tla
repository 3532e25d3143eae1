--------------------------- MODULE RpmsgVirtioProofs ---------------------------
(***************************************************************************)
(* Theorems about RpmsgVirtio, for any vring and pool size, any number of  *)
(* application threads on either core and any messages.                    *)
(***************************************************************************)
EXTENDS RpmsgVirtio, SequenceTheorems, FiniteSetTheorems, TLAPS

\* A sender holds a buffer from when it has taken one until it has enqueued it,
\* a receive callback while the endpoint's callback runs.
TxHolds == \A t \in Contexts : tx_buf[t] # NoBuffer <=> tx_pc[t] \in {"fill", "enqueue"}
RxHolds == \A c \in Cores : rx_buf[c] # NoBuffer <=> rx_pc[c] = "callback"

RingTypes ==
    /\ avail \in [{0, 1} -> Seq(Buffers)] /\ used \in [{0, 1} -> Seq(Buffers)]
    /\ pool_avail \in 0..Pool
SharedTypes ==
    /\ content \in [Buffers -> Payloads \cup {NoMsg}]
    /\ lock \in [Cores -> Contexts \cup {None}]
    /\ pending \in [Cores -> BOOLEAN]
TxTypes ==
    /\ tx_pc \in [Contexts -> {"idle", "size", "get", "fill", "enqueue"}]
    /\ tx_buf \in [Contexts -> Buffers \cup {NoBuffer}]
    /\ tx_data \in [Contexts -> Payloads \cup {NoMsg}]
    /\ tx_big \in [Contexts -> BOOLEAN] /\ tx_size \in [Contexts -> BOOLEAN]
    /\ tx_tick \in [Contexts -> 0..TickCount]
RxTypes ==
    /\ rx_pc \in [Cores -> {"idle", "first", "callback"}]
    /\ rx_buf \in [Cores -> Buffers \cup {NoBuffer}]

TypeInv == RingTypes /\ SharedTypes /\ TxTypes /\ RxTypes /\ TxHolds /\ RxHolds

\* Every context runs on one of the two cores.
LEMMA CoreOfType == ASSUME NEW t \in Contexts PROVE CoreOf(t) \in Cores
BY AppAssumption DEF CoreOf, Contexts

\* Removing the head and appending at the end, as the rings are used.
LEMMA QueueTypes ==
    ASSUME NEW q \in Seq(Buffers)
    PROVE  /\ q # <<>> => Head(q) \in Buffers /\ Tail(q) \in Seq(Buffers)
           /\ \A b \in Buffers : Append(q, b) \in Seq(Buffers)
BY HeadTailProperties, AppendProperties

\* The state rpmsg_init_vdev leaves has the types.
LEMMA TypeInit == Init => TypeInv
<1> SUFFICES ASSUME Init PROVE TypeInv
  OBVIOUS
<1> USE DEF Init
<1>1. [i \in 1..NEntries |-> i] \in Seq(Buffers)
  BY RingAssumption, SeqDef DEF Buffers
<1>2. RingTypes
  BY <1>1, RingAssumption DEF RingTypes
<1>3. SharedTypes /\ TxTypes /\ RxTypes
  BY TickAssumption DEF SharedTypes, TxTypes, RxTypes
<1>4. TxHolds /\ RxHolds
  BY DEF TxHolds, RxHolds
<1> QED BY <1>2, <1>3, <1>4 DEF TypeInv

\* What rpmsg_virtio_get_tx_buffer finds is a buffer, and taking it leaves the
\* rings and the pool well-formed.
LEMMA TxSourceTypes ==
    ASSUME TypeInv, NEW c \in Cores, TxSource(c) # NoBuffer, TakeTxSource(c)
    PROVE  TxSource(c) \in Buffers /\ RingTypes'
<1>1. avail[0] \in Seq(Buffers) /\ used[1] \in Seq(Buffers) /\ pool_avail \in 0..Pool
  BY DEF TypeInv, RingTypes
<1>2. CASE c = Slave
  <2>1. avail[0] # <<>>
    BY <1>2 DEF TxSource
  <2>2. TxSource(c) = Head(avail[0]) /\ Tail(avail[0]) \in Seq(Buffers) /\ Head(avail[0]) \in Buffers
    BY <1>1, <1>2, <2>1, QueueTypes DEF TxSource
  <2> QED BY <1>2, <2>2 DEF TypeInv, RingTypes, TakeTxSource
<1>3. CASE c # Slave /\ used[1] # <<>>
  <2>1. TxSource(c) = Head(used[1]) /\ Tail(used[1]) \in Seq(Buffers) /\ Head(used[1]) \in Buffers
    BY <1>1, <1>3, QueueTypes DEF TxSource
  <2> QED BY <1>3, <2>1 DEF TypeInv, RingTypes, TakeTxSource
<1>4. CASE c # Slave /\ used[1] = <<>>
  <2>1. pool_avail > 0 /\ TxSource(c) = Pool - pool_avail + 1
    BY <1>4 DEF TxSource
  <2> QED BY <1>1, <1>4, <2>1, RingAssumption DEF TypeInv, RingTypes, TakeTxSource, Buffers
<1> QED BY <1>2, <1>3, <1>4

\* rpmsg_virtio_get_rx_buffer on well-formed rings.
LEMMA GetRxTypes ==
    ASSUME TypeInv, NEW c \in Cores, NEW a \in [{0, 1} -> Seq(Buffers)],
           NEW u \in [{0, 1} -> Seq(Buffers)], GetRx(c, a, u)
    PROVE  /\ avail' \in [{0, 1} -> Seq(Buffers)] /\ used' \in [{0, 1} -> Seq(Buffers)]
           /\ RxTypes' /\ RxHolds'
<1>1. CASE RxQueue(c, a, u) = <<>>
  BY <1>1 DEF GetRx, TypeInv, RxTypes, RxHolds
<1>2. CASE RxQueue(c, a, u) # <<>>
  <2>1. RxQueue(c, a, u) \in Seq(Buffers)
    BY DEF RxQueue
  <2>2. Head(RxQueue(c, a, u)) \in Buffers /\ Tail(RxQueue(c, a, u)) \in Seq(Buffers)
    BY <1>2, <2>1, QueueTypes
  <2>3. avail' \in [{0, 1} -> Seq(Buffers)] /\ used' \in [{0, 1} -> Seq(Buffers)]
    BY <1>2, <2>2 DEF GetRx, RxQueue, Master, Slave
  <2>4. Head(RxQueue(c, a, u)) # NoBuffer
    BY <2>2, RingAssumption DEF Buffers, NoBuffer
  <2> HIDE DEF RxQueue
  <2>5. RxTypes' /\ RxHolds'
    BY <1>2, <2>2, <2>4 DEF GetRx, TypeInv, RxTypes, RxHolds
  <2> QED BY <2>3, <2>5
<1> QED BY <1>1, <1>2

\* A returning send gives up its locals.
LEMMA ReturnTypes ==
    ASSUME TypeInv, NEW t \in Contexts, Return(t)
    PROVE  TxTypes' /\ TxHolds'
BY TickAssumption DEF TypeInv, TxTypes, TxHolds, Return, Goto

\* Every step of a send or of the receive callback keeps the types.
LEMMA TypeStep == ASSUME TypeInv, [Next]_vars PROVE TypeInv'
<1> USE DEF ringVars, txLocals, txVars, rxVars
<1>1. ASSUME NEW t \in Contexts, NEW data \in Payloads, NEW big \in BOOLEAN, NEW wait \in BOOLEAN,
             Send(t, data, big, wait)
      PROVE  TypeInv'
  <2>1. TxTypes' /\ TxHolds'
    BY <1>1, TickAssumption DEF TypeInv, TxTypes, TxHolds, Send, At, Goto
  <2> QED BY <1>1, <2>1 DEF TypeInv, RingTypes, SharedTypes, RxTypes, RxHolds, Send
<1>2. ASSUME NEW t \in Contexts, SendTooBig(t) PROVE TypeInv'
  BY <1>2, ReturnTypes DEF TypeInv, RingTypes, SharedTypes, RxTypes, RxHolds, SendTooBig
<1>3. ASSUME NEW t \in Contexts, SendSizeOK(t) PROVE TypeInv'
  <2>1. TxTypes' /\ TxHolds'
    BY <1>3 DEF TypeInv, TxTypes, TxHolds, SendSizeOK, BufferSizeKnown, At, Goto
  <2>2. SharedTypes'
    BY <1>3, CoreOfType DEF TypeInv, SharedTypes, SendSizeOK
  <2> QED BY <1>3, <2>1, <2>2 DEF TypeInv, RingTypes, RxTypes, RxHolds, SendSizeOK
<1>4. ASSUME NEW t \in Contexts, SendGotBuffer(t) PROVE TypeInv'
  <2>1. TxSource(CoreOf(t)) \in Buffers /\ RingTypes'
    BY <1>4, CoreOfType, TxSourceTypes DEF SendGotBuffer
  <2>2. TxTypes' /\ TxHolds'
    BY <1>4, <2>1 DEF TypeInv, TxTypes, TxHolds, SendGotBuffer, Goto
  <2>3. SharedTypes'
    BY <1>4, CoreOfType DEF TypeInv, SharedTypes, SendGotBuffer, Unlock
  <2> QED BY <1>4, <2>1, <2>2, <2>3 DEF TypeInv, RxTypes, RxHolds, SendGotBuffer
<1>5. ASSUME NEW t \in Contexts, SendNoBuffer(t) \/ SendSizeKnown(t) PROVE TypeInv'
  <2>1. SharedTypes'
    BY <1>5, CoreOfType DEF TypeInv, SharedTypes, SendNoBuffer, SendSizeKnown, Unlock
  <2> QED BY <1>5, <2>1, ReturnTypes DEF TypeInv, RingTypes, RxTypes, RxHolds, SendNoBuffer,
               SendSizeKnown
<1>6. ASSUME NEW t \in Contexts, SendSleep(t) PROVE TypeInv'
  <2>1. SharedTypes'
    BY <1>6, CoreOfType DEF TypeInv, SharedTypes, SendSleep, Unlock
  <2>2. TxTypes' /\ TxHolds'
    BY <1>6, TickAssumption DEF TypeInv, TxTypes, TxHolds, SendSleep, At, Goto
  <2> QED BY <1>6, <2>1, <2>2 DEF TypeInv, RingTypes, RxTypes, RxHolds, SendSleep
<1>7. ASSUME NEW t \in Contexts, SendFill(t) PROVE TypeInv'
  <2>1. SharedTypes'
    BY <1>7 DEF TypeInv, SharedTypes, TxTypes, SendFill
  <2>2. TxTypes' /\ TxHolds'
    BY <1>7 DEF TypeInv, TxTypes, TxHolds, SendFill, At, Goto
  <2> QED BY <1>7, <2>1, <2>2 DEF TypeInv, RingTypes, RxTypes, RxHolds, SendFill
<1>8. ASSUME NEW t \in Contexts, SendEnqueue(t) PROVE TypeInv'
  <2>1. tx_buf[t] \in Buffers
    BY <1>8 DEF TypeInv, TxTypes, TxHolds, SendEnqueue, At
  <2>2. /\ Append(avail[1], tx_buf[t]) \in Seq(Buffers)
        /\ Append(used[0], tx_buf[t]) \in Seq(Buffers)
    BY <2>1, QueueTypes DEF TypeInv, RingTypes
  <2>3. RingTypes'
    BY <1>8, <2>2 DEF TypeInv, RingTypes, SendEnqueue
  <2>4. SharedTypes'
    BY <1>8, CoreOfType DEF TypeInv, SharedTypes, SendEnqueue, Kick
  <2>5. TxTypes' /\ TxHolds'
    BY <1>8, ReturnTypes DEF SendEnqueue
  <2> QED BY <1>8, <2>3, <2>4, <2>5 DEF TypeInv, RxTypes, RxHolds, SendEnqueue
<1>9. ASSUME NEW c \in Cores, RxNotified(c) PROVE TypeInv'
  <2>1. RxTypes' /\ RxHolds'
    BY <1>9 DEF TypeInv, RxTypes, RxHolds, RxNotified
  <2> QED BY <1>9, <2>1 DEF TypeInv, RingTypes, SharedTypes, TxTypes, TxHolds, RxNotified
<1>10. ASSUME NEW c \in Cores, RxFirst(c) PROVE TypeInv'
  <2>1. RingTypes' /\ RxTypes' /\ RxHolds'
    BY <1>10, GetRxTypes DEF TypeInv, RingTypes, RxFirst
  <2> QED BY <1>10, <2>1 DEF TypeInv, SharedTypes, TxTypes, TxHolds, RxFirst
<1>11. ASSUME NEW c \in Cores, RxNext(c) PROVE TypeInv'
  <2>1. rx_buf[c] \in Buffers
    BY <1>11 DEF TypeInv, RxTypes, RxHolds, RxNext
  <2>2. /\ [avail EXCEPT ![0] = Append(@, rx_buf[c])] \in [{0, 1} -> Seq(Buffers)]
        /\ [used EXCEPT ![1] = Append(@, rx_buf[c])] \in [{0, 1} -> Seq(Buffers)]
    BY <2>1, QueueTypes DEF TypeInv, RingTypes
  <2>3. RingTypes' /\ RxTypes' /\ RxHolds'
    BY <1>11, <2>2, GetRxTypes DEF TypeInv, RingTypes, RxNext
  <2>4. SharedTypes'
    BY <1>11, <2>1 DEF TypeInv, SharedTypes, RxNext
  <2> QED BY <1>11, <2>3, <2>4 DEF TypeInv, TxTypes, TxHolds, RxNext
<1>12. CASE UNCHANGED vars
  BY <1>12 DEF TypeInv, RingTypes, SharedTypes, TxTypes, RxTypes, TxHolds, RxHolds, vars
<1> QED BY <1>1, <1>2, <1>3, <1>4, <1>5, <1>6, <1>7, <1>8, <1>9, <1>10, <1>11, <1>12
        DEF Next, SendStep

\* Every variable of the transport stays within its type, whatever the sizes,
\* the threads and the messages.
THEOREM TransportTyped == Spec => []TypeOK
<1>1. TypeInv => TypeOK
  BY DEF TypeInv, RingTypes, SharedTypes, TxTypes, RxTypes, TypeOK
<1> QED BY <1>1, TypeInit, TypeStep, PTL DEF Spec

(***************************************************************************)
(* Ownership. Every buffer is in exactly one place: in one of the four     *)
(* queues, with one holder (a sender or a receive callback), or in the     *)
(* pool. The lemmas about moving a buffer are about the places alone: qs   *)
(* gives the queues, hold the holders' buffers, free is shpool->avail.     *)
(***************************************************************************)
Has(q, b) == \E i \in 1..Len(q) : q[i] = b
Distinct(q) == \A i, j \in 1..Len(q) : q[i] = q[j] => i = j

QueueNames == {"avail0", "avail1", "used0", "used1"}
Holders == ({"tx"} \X Contexts) \cup ({"rx"} \X Cores)
Spots == ({"queue"} \X QueueNames) \cup ({"holder"} \X Holders) \cup {<<"pool", "pool">>}

IsAt(qs, hold, free, l, b) ==
    \/ l[1] = "queue" /\ Has(qs[l[2]], b)
    \/ l[1] = "holder" /\ hold[l[2]] = b
    \/ l[1] = "pool" /\ b > Pool - free

PlacesTyped(qs, hold, free) ==
    /\ qs \in [QueueNames -> Seq(Buffers)]
    /\ hold \in [Holders -> Buffers \cup {NoBuffer}]
    /\ free \in 0..Pool

Owned(qs, hold, free) ==
    /\ PlacesTyped(qs, hold, free)
    /\ \A n \in QueueNames : Distinct(qs[n])
    /\ \A b \in Buffers : \E l \in Spots : IsAt(qs, hold, free, l, b)
    /\ \A b \in Buffers : \A l, k \in Spots :
         IsAt(qs, hold, free, l, b) /\ IsAt(qs, hold, free, k, b) => l = k

\* A spot is a queue, a holder or the pool.
LEMMA SpotCases ==
    /\ \A n \in QueueNames : <<"queue", n>> \in Spots
    /\ \A h \in Holders : <<"holder", h>> \in Spots
    /\ <<"pool", "pool">> \in Spots
    /\ \A l \in Spots : \/ \E n \in QueueNames : l = <<"queue", n>>
                        \/ \E h \in Holders : l = <<"holder", h>>
                        \/ l = <<"pool", "pool">>
BY DEF Spots

\* What it means to be in a queue, in the hands of a holder, or in the unused part of the pool.
LEMMA AtSpot ==
    ASSUME NEW qs, NEW hold, NEW free, NEW b
    PROVE  /\ \A n : IsAt(qs, hold, free, <<"queue", n>>, b) <=> Has(qs[n], b)
           /\ \A h : IsAt(qs, hold, free, <<"holder", h>>, b) <=> hold[h] = b
           /\ IsAt(qs, hold, free, <<"pool", "pool">>, b) <=> b > Pool - free
BY DEF IsAt

\* What the head's removal and an append at the end do to a queue.
LEMMA QueueMoves ==
    ASSUME NEW q \in Seq(Buffers), Distinct(q)
    PROVE  /\ q # <<>> => /\ Has(q, Head(q)) /\ Distinct(Tail(q))
                          /\ \A b : Has(Tail(q), b) <=> Has(q, b) /\ b # Head(q)
           /\ \A x \in Buffers : ~Has(q, x) =>
                /\ Distinct(Append(q, x))
                /\ \A b : Has(Append(q, x), b) <=> Has(q, b) \/ b = x
<1>1. ASSUME q # <<>>
      PROVE  /\ Has(q, Head(q)) /\ Distinct(Tail(q))
             /\ \A b : Has(Tail(q), b) <=> Has(q, b) /\ b # Head(q)
  <2>1. /\ Head(q) = q[1] /\ Len(q) \in Nat /\ Len(q) >= 1 /\ Len(Tail(q)) = Len(q) - 1
        /\ \A i \in 1..(Len(q) - 1) : Tail(q)[i] = q[i + 1]
    BY <1>1
  <2>2. Has(q, Head(q))
    BY <2>1 DEF Has
  <2>3. Distinct(Tail(q))
    BY <2>1 DEF Distinct
  <2>4. ASSUME NEW b, Has(Tail(q), b) PROVE Has(q, b) /\ b # Head(q)
    <3>1. PICK i \in 1..(Len(q) - 1) : q[i + 1] = b
      BY <2>1, <2>4 DEF Has
    <3>2. i + 1 \in 1..Len(q) /\ 1 \in 1..Len(q) /\ i + 1 # 1
      BY <2>1
    <3> QED BY <3>1, <3>2, <2>1 DEF Has, Distinct
  <2>5. ASSUME NEW b, Has(q, b), b # Head(q) PROVE Has(Tail(q), b)
    <3>1. PICK i \in 1..Len(q) : q[i] = b
      BY <2>5 DEF Has
    <3>2. i - 1 \in 1..(Len(q) - 1) /\ (i - 1) + 1 = i
      BY <2>1, <2>5, <3>1
    <3> QED BY <3>1, <3>2, <2>1 DEF Has
  <2> QED BY <2>2, <2>3, <2>4, <2>5
<1>2. ASSUME NEW x \in Buffers, ~Has(q, x)
      PROVE  /\ Distinct(Append(q, x))
             /\ \A b : Has(Append(q, x), b) <=> Has(q, b) \/ b = x
  <2>1. /\ Len(q) \in Nat /\ Len(Append(q, x)) = Len(q) + 1 /\ Append(q, x)[Len(q) + 1] = x
        /\ \A i \in 1..Len(q) : Append(q, x)[i] = q[i]
    OBVIOUS
  <2>2. \A i \in 1..(Len(q) + 1) : i \in 1..Len(q) \/ i = Len(q) + 1
    BY <2>1
  <2>3. Distinct(Append(q, x))
    BY <1>2, <2>1, <2>2 DEF Distinct, Has
  <2>4. \A b : Has(Append(q, x), b) <=> Has(q, b) \/ b = x
    BY <2>1, <2>2 DEF Has
  <2> QED BY <2>3, <2>4
<1> QED BY <1>1, <1>2

\* A buffer that is now at spot d, the others being where they were, leaves every
\* buffer in one place.
LEMMA MovedTo ==
    ASSUME NEW qs, NEW hold, NEW free, NEW qs2, NEW hold2, NEW free2,
           Owned(qs, hold, free), PlacesTyped(qs2, hold2, free2),
           \A n \in QueueNames : Distinct(qs2[n]),
           NEW x \in Buffers, NEW d \in Spots,
           \A b \in Buffers : \A l \in Spots :
             IsAt(qs2, hold2, free2, l, b) <=> IF b = x THEN l = d ELSE IsAt(qs, hold, free, l, b)
    PROVE  Owned(qs2, hold2, free2)
<1>1. \A b \in Buffers : \E l \in Spots : IsAt(qs2, hold2, free2, l, b)
  BY DEF Owned
<1>2. \A b \in Buffers : \A l, k \in Spots :
        IsAt(qs2, hold2, free2, l, b) /\ IsAt(qs2, hold2, free2, k, b) => l = k
  BY DEF Owned
<1> QED BY <1>1, <1>2 DEF Owned

\* Buffer b is at spot d if it is x, and else where it was.
NowAt(qs, hold, free, qs2, hold2, free2, x, d, b) ==
    /\ \A n \in QueueNames :
         Has(qs2[n], b) <=> IF b = x THEN <<"queue", n>> = d ELSE Has(qs[n], b)
    /\ \A h \in Holders : hold2[h] = b <=> IF b = x THEN <<"holder", h>> = d ELSE hold[h] = b
    /\ b > Pool - free2 <=> IF b = x THEN <<"pool", "pool">> = d ELSE b > Pool - free

\* NowAt, spot by spot: the moved buffer is where it went, every other one where it was.
LEMMA SpotBySpot ==
    ASSUME NEW qs, NEW hold, NEW free, NEW qs2, NEW hold2, NEW free2,
           NEW x \in Buffers, NEW d \in Spots, NEW b \in Buffers,
           NowAt(qs, hold, free, qs2, hold2, free2, x, d, b), NEW l \in Spots
    PROVE  IsAt(qs2, hold2, free2, l, b) <=> IF b = x THEN l = d ELSE IsAt(qs, hold, free, l, b)
<1>1. ASSUME NEW n \in QueueNames, l = <<"queue", n>>
      PROVE  IsAt(qs2, hold2, free2, l, b) <=> IF b = x THEN l = d ELSE IsAt(qs, hold, free, l, b)
  <2>1. /\ IsAt(qs2, hold2, free2, l, b) <=> Has(qs2[n], b)
        /\ IsAt(qs, hold, free, l, b) <=> Has(qs[n], b)
    BY <1>1, AtSpot
  <2> QED BY <1>1, <2>1 DEF NowAt
<1>2. ASSUME NEW h \in Holders, l = <<"holder", h>>
      PROVE  IsAt(qs2, hold2, free2, l, b) <=> IF b = x THEN l = d ELSE IsAt(qs, hold, free, l, b)
  <2>1. /\ IsAt(qs2, hold2, free2, l, b) <=> hold2[h] = b
        /\ IsAt(qs, hold, free, l, b) <=> hold[h] = b
    BY <1>2 DEF IsAt
  <2> QED BY <1>2, <2>1 DEF NowAt
<1>3. CASE l = <<"pool", "pool">>
  <2>1. /\ IsAt(qs2, hold2, free2, l, b) <=> b > Pool - free2
        /\ IsAt(qs, hold, free, l, b) <=> b > Pool - free
    BY <1>3, AtSpot
  <2> QED BY <1>3, <2>1 DEF NowAt
<1> QED BY <1>1, <1>2, <1>3, SpotCases

\* Every spot that has buffer x is spot s: read spot by spot.
AllAt(qs, hold, free, x, s) == \A l \in Spots : IsAt(qs, hold, free, l, x) => l = s

\* A buffer that is at one spot only is in no other queue, hand or pool.
LEMMA OnlyAt ==
    ASSUME NEW qs, NEW hold, NEW free, NEW x, NEW s, AllAt(qs, hold, free, x, s)
    PROVE  /\ \A n \in QueueNames : Has(qs[n], x) => <<"queue", n>> = s
           /\ \A h \in Holders : hold[h] = x => <<"holder", h>> = s
           /\ x > Pool - free => <<"pool", "pool">> = s
<1>1. ASSUME NEW n \in QueueNames, Has(qs[n], x) PROVE <<"queue", n>> = s
  BY <1>1, AtSpot, SpotCases DEF AllAt
<1>2. ASSUME NEW h \in Holders, hold[h] = x PROVE <<"holder", h>> = s
  BY <1>2, AtSpot, SpotCases DEF AllAt
<1>3. ASSUME x > Pool - free PROVE <<"pool", "pool">> = s
  BY <1>3, AtSpot, SpotCases DEF AllAt
<1> QED BY <1>1, <1>2, <1>3

\* The spots of different kinds, queues and holders differ.
LEMMA SpotsDiffer ==
    /\ \A n, m \in QueueNames : <<"queue", n>> = <<"queue", m>> => n = m
    /\ \A h, g \in Holders : <<"holder", h>> = <<"holder", g>> => h = g
    /\ \A n, h : <<"queue", n>> # <<"holder", h>> /\ <<"queue", n>> # <<"pool", "pool">>
    /\ \A h : <<"holder", h>> # <<"pool", "pool">>
OBVIOUS

\* A holder without a buffer takes the head of a queue.
LEMMA TakeHead ==
    ASSUME NEW qs, NEW hold, NEW free, Owned(qs, hold, free),
           NEW n \in QueueNames, NEW h \in Holders, qs[n] # <<>>, hold[h] = NoBuffer
    PROVE  Owned([qs EXCEPT ![n] = Tail(qs[n])], [hold EXCEPT ![h] = Head(qs[n])], free)
<1> DEFINE x == Head(qs[n])
           qs2 == [qs EXCEPT ![n] = Tail(qs[n])]
           hold2 == [hold EXCEPT ![h] = x]
           d == <<"holder", h>>
<1>1. PlacesTyped(qs, hold, free) /\ qs[n] \in Seq(Buffers) /\ Distinct(qs[n])
  BY DEF Owned, PlacesTyped
<1>2. x \in Buffers /\ Tail(qs[n]) \in Seq(Buffers) /\ x # NoBuffer
  <2>1. x \in Buffers /\ Tail(qs[n]) \in Seq(Buffers)
    BY <1>1, QueueTypes
  <2> QED BY <2>1, RingAssumption DEF Buffers, NoBuffer
<1>3. /\ Has(qs[n], x) /\ Distinct(Tail(qs[n]))
      /\ \A b : Has(Tail(qs[n]), b) <=> Has(qs[n], b) /\ b # x
  BY <1>1, QueueMoves
<1> HIDE DEF x
<1>4. PlacesTyped(qs2, hold2, free) /\ \A m \in QueueNames : Distinct(qs2[m])
  BY <1>1, <1>2, <1>3 DEF PlacesTyped, Owned
<1>5. <<"queue", n>> \in Spots /\ d \in Spots
  BY SpotCases
<1>6. IsAt(qs, hold, free, <<"queue", n>>, x)
  BY <1>3, AtSpot
<1>7. \A l \in Spots : IsAt(qs, hold, free, l, x) => l = <<"queue", n>>
  BY <1>2, <1>5, <1>6 DEF Owned
<1>8. /\ \A m \in QueueNames : Has(qs[m], x) => m = n
      /\ \A g \in Holders : hold[g] # x
      /\ ~(x > Pool - free)
  <2> DEFINE s == <<"queue", n>>
  <2>1. AllAt(qs, hold, free, x, s)
    BY <1>7 DEF AllAt
  <2> HIDE DEF s
  <2>2. /\ \A m \in QueueNames : Has(qs[m], x) => <<"queue", m>> = s
        /\ \A g \in Holders : hold[g] = x => <<"holder", g>> = s
        /\ x > Pool - free => <<"pool", "pool">> = s
    BY <2>1, OnlyAt
  <2> QED BY <2>2, SpotsDiffer DEF s
<1>9. ASSUME NEW b \in Buffers, NEW l \in Spots
      PROVE  IsAt(qs2, hold2, free, l, b) <=> IF b = x THEN l = d ELSE IsAt(qs, hold, free, l, b)
  <2>1. \A m \in QueueNames :
          Has(qs2[m], b) <=> IF b = x THEN <<"queue", m>> = d ELSE Has(qs[m], b)
    BY <1>1, <1>3, <1>8, SpotsDiffer DEF PlacesTyped
  <2>2. b # NoBuffer
    BY RingAssumption DEF Buffers, NoBuffer
  <2>3. \A g \in Holders : hold2[g] = b <=> IF b = x THEN <<"holder", g>> = d ELSE hold[g] = b
    BY <1>1, <1>8, <2>2, SpotsDiffer DEF PlacesTyped
  <2>4. b > Pool - free <=> IF b = x THEN <<"pool", "pool">> = d ELSE b > Pool - free
    BY <1>8, SpotsDiffer
  <2> HIDE DEF qs2, hold2, d
  <2>5. NowAt(qs, hold, free, qs2, hold2, free, x, d, b)
    BY <2>1, <2>3, <2>4 DEF NowAt
  <2> QED BY <1>2, <1>5, <2>5, SpotBySpot
<1> HIDE DEF qs2, hold2, d
<1>10. Owned(qs2, hold2, free)
  BY <1>2, <1>4, <1>5, <1>9, MovedTo
<1> QED BY <1>10 DEF qs2, hold2, x

\* A holder puts its buffer at the end of a queue.
LEMMA PutLast ==
    ASSUME NEW qs, NEW hold, NEW free, Owned(qs, hold, free),
           NEW n \in QueueNames, NEW h \in Holders, hold[h] # NoBuffer
    PROVE  Owned([qs EXCEPT ![n] = Append(qs[n], hold[h])], [hold EXCEPT ![h] = NoBuffer], free)
<1> DEFINE x == hold[h]
           qs2 == [qs EXCEPT ![n] = Append(qs[n], x)]
           hold2 == [hold EXCEPT ![h] = NoBuffer]
           d == <<"queue", n>>
<1>1. /\ PlacesTyped(qs, hold, free) /\ qs[n] \in Seq(Buffers) /\ Distinct(qs[n])
      /\ x \in Buffers /\ hold[h] = x
  BY DEF Owned, PlacesTyped
<1> HIDE DEF x
<1>2. <<"holder", h>> \in Spots /\ d \in Spots
  BY SpotCases
<1>3. IsAt(qs, hold, free, <<"holder", h>>, x)
  BY <1>1, AtSpot
<1>4. \A l \in Spots : IsAt(qs, hold, free, l, x) => l = <<"holder", h>>
  BY <1>1, <1>2, <1>3 DEF Owned
<1>5. /\ \A m \in QueueNames : ~Has(qs[m], x)
      /\ \A g \in Holders : hold[g] = x => g = h
      /\ ~(x > Pool - free)
  <2> DEFINE s == <<"holder", h>>
  <2>1. AllAt(qs, hold, free, x, s)
    BY <1>4 DEF AllAt
  <2> HIDE DEF s
  <2>2. /\ \A m \in QueueNames : Has(qs[m], x) => <<"queue", m>> = s
        /\ \A g \in Holders : hold[g] = x => <<"holder", g>> = s
        /\ x > Pool - free => <<"pool", "pool">> = s
    BY <2>1, OnlyAt
  <2> QED BY <2>2, SpotsDiffer DEF s
<1>6. /\ Distinct(Append(qs[n], x)) /\ Append(qs[n], x) \in Seq(Buffers)
      /\ \A b : Has(Append(qs[n], x), b) <=> Has(qs[n], b) \/ b = x
  BY <1>1, <1>5, QueueMoves, QueueTypes
<1>7. PlacesTyped(qs2, hold2, free) /\ \A m \in QueueNames : Distinct(qs2[m])
  BY <1>1, <1>6 DEF PlacesTyped, Owned
<1>8. ASSUME NEW b \in Buffers, NEW l \in Spots
      PROVE  IsAt(qs2, hold2, free, l, b) <=> IF b = x THEN l = d ELSE IsAt(qs, hold, free, l, b)
  <2>1. \A m \in QueueNames :
          Has(qs2[m], b) <=> IF b = x THEN <<"queue", m>> = d ELSE Has(qs[m], b)
    BY <1>1, <1>5, <1>6, SpotsDiffer DEF PlacesTyped
  <2>2. b # NoBuffer
    BY RingAssumption DEF Buffers, NoBuffer
  <2>3. \A g \in Holders : hold2[g] = b <=> IF b = x THEN <<"holder", g>> = d ELSE hold[g] = b
    BY <1>1, <1>5, <2>2, SpotsDiffer DEF PlacesTyped
  <2>4. b > Pool - free <=> IF b = x THEN <<"pool", "pool">> = d ELSE b > Pool - free
    BY <1>5, SpotsDiffer
  <2> HIDE DEF qs2, hold2, d
  <2>5. NowAt(qs, hold, free, qs2, hold2, free, x, d, b)
    BY <2>1, <2>3, <2>4 DEF NowAt
  <2> QED BY <1>1, <1>2, <2>5, SpotBySpot
<1> HIDE DEF qs2, hold2, d
<1>9. Owned(qs2, hold2, free)
  BY <1>1, <1>2, <1>7, <1>8, MovedTo
<1> QED BY <1>9 DEF qs2, hold2, x

\* A holder without a buffer takes the next one of the pool.
LEMMA TakeFromPool ==
    ASSUME NEW qs, NEW hold, NEW free, Owned(qs, hold, free),
           NEW h \in Holders, hold[h] = NoBuffer, free > 0
    PROVE  Owned(qs, [hold EXCEPT ![h] = Pool - free + 1], free - 1)
<1> DEFINE x == Pool - free + 1
           hold2 == [hold EXCEPT ![h] = x]
           d == <<"holder", h>>
<1>1. PlacesTyped(qs, hold, free) /\ free \in 1..Pool
  BY RingAssumption DEF Owned, PlacesTyped
<1>2. x \in Buffers /\ x # NoBuffer /\ x > Pool - free
  BY <1>1, RingAssumption DEF Buffers, NoBuffer
<1>3. \A b \in Buffers : b > Pool - (free - 1) <=> b > Pool - free /\ b # x
  BY <1>1, RingAssumption DEF Buffers
<1> HIDE DEF x
<1>4. PlacesTyped(qs, hold2, free - 1)
  BY <1>1, <1>2, RingAssumption DEF PlacesTyped
<1>5. <<"pool", "pool">> \in Spots /\ d \in Spots
  BY SpotCases
<1>6. IsAt(qs, hold, free, <<"pool", "pool">>, x)
  BY <1>2, AtSpot
<1>7. \A l \in Spots : IsAt(qs, hold, free, l, x) => l = <<"pool", "pool">>
  BY <1>2, <1>5, <1>6 DEF Owned
<1>8. (\A m \in QueueNames : ~Has(qs[m], x)) /\ (\A g \in Holders : hold[g] # x)
  <2> DEFINE s == <<"pool", "pool">>
  <2>1. AllAt(qs, hold, free, x, s)
    BY <1>7 DEF AllAt
  <2> HIDE DEF s
  <2>2. /\ \A m \in QueueNames : Has(qs[m], x) => <<"queue", m>> = s
        /\ \A g \in Holders : hold[g] = x => <<"holder", g>> = s
        /\ x > Pool - free => <<"pool", "pool">> = s
    BY <2>1, OnlyAt
  <2> QED BY <2>2, SpotsDiffer DEF s
<1>9. ASSUME NEW b \in Buffers, NEW l \in Spots
      PROVE  IsAt(qs, hold2, free - 1, l, b) <=> IF b = x THEN l = d ELSE IsAt(qs, hold, free, l, b)
  <2>1. \A m \in QueueNames :
          Has(qs[m], b) <=> IF b = x THEN <<"queue", m>> = d ELSE Has(qs[m], b)
    BY <1>8, SpotsDiffer
  <2>2. b # NoBuffer
    BY RingAssumption DEF Buffers, NoBuffer
  <2>3. \A g \in Holders : hold2[g] = b <=> IF b = x THEN <<"holder", g>> = d ELSE hold[g] = b
    BY <1>1, <1>8, <2>2, SpotsDiffer DEF PlacesTyped
  <2>4. b > Pool - (free - 1) <=> IF b = x THEN <<"pool", "pool">> = d ELSE b > Pool - free
    BY <1>3, SpotsDiffer
  <2> HIDE DEF hold2, d
  <2>5. NowAt(qs, hold, free, qs, hold2, free - 1, x, d, b)
    BY <2>1, <2>3, <2>4 DEF NowAt
  <2> QED BY <1>2, <1>5, <2>5, SpotBySpot
<1> HIDE DEF hold2, d
<1>10. Owned(qs, hold2, free - 1)
  BY <1>2, <1>4, <1>5, <1>9, MovedTo DEF Owned
<1> QED BY <1>10 DEF hold2, x

(***************************************************************************)
(* The queues and holders of the transport.                                *)
(***************************************************************************)
QueuesOf(a, u) ==
    [n \in QueueNames |-> IF n = "avail0" THEN a[0] ELSE IF n = "avail1" THEN a[1]
                          ELSE IF n = "used0" THEN u[0] ELSE u[1]]
HoldingOf(tx, rx) == [h \in Holders |-> IF h[1] = "tx" THEN tx[h[2]] ELSE rx[h[2]]]
OwnedBy(a, u, tx, rx, free) == Owned(QueuesOf(a, u), HoldingOf(tx, rx), free)

Rings == [{0, 1} -> Seq(Buffers)]

TxBufs == [Contexts -> Buffers \cup {NoBuffer}]
RxBufs == [Cores -> Buffers \cup {NoBuffer}]

\* Changing one ring changes one of the four queues.
LEMMA QueueUpdates ==
    ASSUME NEW a \in Rings, NEW u \in Rings
    PROVE  /\ \A q : QueuesOf([a EXCEPT ![0] = q], u) = [QueuesOf(a, u) EXCEPT !["avail0"] = q]
           /\ \A q : QueuesOf([a EXCEPT ![1] = q], u) = [QueuesOf(a, u) EXCEPT !["avail1"] = q]
           /\ \A q : QueuesOf(a, [u EXCEPT ![0] = q]) = [QueuesOf(a, u) EXCEPT !["used0"] = q]
           /\ \A q : QueuesOf(a, [u EXCEPT ![1] = q]) = [QueuesOf(a, u) EXCEPT !["used1"] = q]
           /\ QueuesOf(a, u)["avail0"] = a[0] /\ QueuesOf(a, u)["avail1"] = a[1]
           /\ QueuesOf(a, u)["used0"] = u[0] /\ QueuesOf(a, u)["used1"] = u[1]
           /\ {"avail0", "avail1", "used0", "used1"} \subseteq QueueNames
<1>1. ASSUME NEW q PROVE QueuesOf([a EXCEPT ![0] = q], u) = [QueuesOf(a, u) EXCEPT !["avail0"] = q]
  <2>1. \A n \in QueueNames : QueuesOf([a EXCEPT ![0] = q], u)[n]
                              = [QueuesOf(a, u) EXCEPT !["avail0"] = q][n]
    BY DEF QueuesOf, QueueNames, Rings
  <2> QED BY <2>1 DEF QueuesOf
<1>2. ASSUME NEW q PROVE QueuesOf([a EXCEPT ![1] = q], u) = [QueuesOf(a, u) EXCEPT !["avail1"] = q]
  <2>1. \A n \in QueueNames : QueuesOf([a EXCEPT ![1] = q], u)[n]
                              = [QueuesOf(a, u) EXCEPT !["avail1"] = q][n]
    BY DEF QueuesOf, QueueNames, Rings
  <2> QED BY <2>1 DEF QueuesOf
<1>3. ASSUME NEW q PROVE QueuesOf(a, [u EXCEPT ![0] = q]) = [QueuesOf(a, u) EXCEPT !["used0"] = q]
  <2>1. \A n \in QueueNames : QueuesOf(a, [u EXCEPT ![0] = q])[n]
                              = [QueuesOf(a, u) EXCEPT !["used0"] = q][n]
    BY DEF QueuesOf, QueueNames, Rings
  <2> QED BY <2>1 DEF QueuesOf
<1>4. ASSUME NEW q PROVE QueuesOf(a, [u EXCEPT ![1] = q]) = [QueuesOf(a, u) EXCEPT !["used1"] = q]
  <2>1. \A n \in QueueNames : QueuesOf(a, [u EXCEPT ![1] = q])[n]
                              = [QueuesOf(a, u) EXCEPT !["used1"] = q][n]
    BY DEF QueuesOf, QueueNames, Rings
  <2> QED BY <2>1 DEF QueuesOf
<1>5. /\ QueuesOf(a, u)["avail0"] = a[0] /\ QueuesOf(a, u)["avail1"] = a[1]
      /\ QueuesOf(a, u)["used0"] = u[0] /\ QueuesOf(a, u)["used1"] = u[1]
      /\ {"avail0", "avail1", "used0", "used1"} \subseteq QueueNames
  BY DEF QueuesOf, QueueNames
<1> QED BY <1>1, <1>2, <1>3, <1>4, <1>5

\* Changing the buffer of one sender changes one holder.
LEMMA SenderUpdates ==
    ASSUME NEW tx \in TxBufs, NEW rx \in RxBufs, NEW t \in Contexts
    PROVE  /\ \A b : HoldingOf([tx EXCEPT ![t] = b], rx) = [HoldingOf(tx, rx) EXCEPT ![<<"tx", t>>] = b]
           /\ HoldingOf(tx, rx)[<<"tx", t>>] = tx[t] /\ <<"tx", t>> \in Holders
<1>1. <<"tx", t>> \in Holders
  BY DEF Holders
<1>2. \A h \in Holders : h # <<"tx", t>> => h[1] # "tx" \/ (h[2] \in Contexts /\ h[2] # t)
  BY DEF Holders
<1>3. HoldingOf(tx, rx)[<<"tx", t>>] = tx[t]
  BY <1>1 DEF HoldingOf
<1>4. ASSUME NEW b
      PROVE  HoldingOf([tx EXCEPT ![t] = b], rx) = [HoldingOf(tx, rx) EXCEPT ![<<"tx", t>>] = b]
  <2>1. \A h \in Holders : HoldingOf([tx EXCEPT ![t] = b], rx)[h]
                            = [HoldingOf(tx, rx) EXCEPT ![<<"tx", t>>] = b][h]
    BY <1>1, <1>2 DEF HoldingOf, TxBufs
  <2> QED BY <1>1, <2>1 DEF HoldingOf
<1> QED BY <1>1, <1>3, <1>4

\* Changing the buffer of one receive callback changes one holder.
LEMMA ReceiverUpdates ==
    ASSUME NEW tx \in TxBufs, NEW rx \in RxBufs, NEW c \in Cores
    PROVE  /\ \A b : HoldingOf(tx, [rx EXCEPT ![c] = b]) = [HoldingOf(tx, rx) EXCEPT ![<<"rx", c>>] = b]
           /\ HoldingOf(tx, rx)[<<"rx", c>>] = rx[c] /\ <<"rx", c>> \in Holders
<1>1. <<"rx", c>> \in Holders
  BY DEF Holders
<1>2. \A h \in Holders : h # <<"rx", c>> => h[1] = "tx" \/ (h[2] \in Cores /\ h[2] # c)
  BY DEF Holders
<1>3. HoldingOf(tx, rx)[<<"rx", c>>] = rx[c]
  BY <1>1 DEF HoldingOf
<1>4. ASSUME NEW b
      PROVE  HoldingOf(tx, [rx EXCEPT ![c] = b]) = [HoldingOf(tx, rx) EXCEPT ![<<"rx", c>>] = b]
  <2>1. \A h \in Holders : HoldingOf(tx, [rx EXCEPT ![c] = b])[h]
                            = [HoldingOf(tx, rx) EXCEPT ![<<"rx", c>>] = b][h]
    BY <1>1, <1>2 DEF HoldingOf, RxBufs
  <2> QED BY <1>1, <2>1 DEF HoldingOf
<1> QED BY <1>1, <1>3, <1>4

\* A sender takes the head of the ring buffers come from.
LEMMA SenderTakes ==
    ASSUME NEW a \in Rings, NEW u \in Rings, NEW tx \in TxBufs, NEW rx \in RxBufs, NEW free,
           OwnedBy(a, u, tx, rx, free), NEW t \in Contexts, tx[t] = NoBuffer
    PROVE  /\ a[0] # <<>> =>
                OwnedBy([a EXCEPT ![0] = Tail(a[0])], u, [tx EXCEPT ![t] = Head(a[0])], rx, free)
           /\ u[1] # <<>> =>
                OwnedBy(a, [u EXCEPT ![1] = Tail(u[1])], [tx EXCEPT ![t] = Head(u[1])], rx, free)
           /\ free > 0 => OwnedBy(a, u, [tx EXCEPT ![t] = Pool - free + 1], rx, free - 1)
<1> DEFINE qs == QueuesOf(a, u)
           hold == HoldingOf(tx, rx)
           h == <<"tx", t>>
<1>1. Owned(qs, hold, free) /\ h \in Holders /\ hold[h] = NoBuffer
  BY SenderUpdates DEF OwnedBy
<1>2. \A b : HoldingOf([tx EXCEPT ![t] = b], rx) = [hold EXCEPT ![h] = b]
  BY SenderUpdates
<1>3. /\ \A q : QueuesOf([a EXCEPT ![0] = q], u) = [qs EXCEPT !["avail0"] = q]
      /\ \A q : QueuesOf(a, [u EXCEPT ![1] = q]) = [qs EXCEPT !["used1"] = q]
      /\ qs["avail0"] = a[0] /\ qs["used1"] = u[1] /\ {"avail0", "used1"} \subseteq QueueNames
  BY QueueUpdates
<1> HIDE DEF qs, hold, h
<1>4. ASSUME a[0] # <<>>
      PROVE  OwnedBy([a EXCEPT ![0] = Tail(a[0])], u, [tx EXCEPT ![t] = Head(a[0])], rx, free)
  <2>1. Owned([qs EXCEPT !["avail0"] = Tail(qs["avail0"])], [hold EXCEPT ![h] = Head(qs["avail0"])], free)
    BY <1>1, <1>3, <1>4, TakeHead
  <2>2. QueuesOf([a EXCEPT ![0] = Tail(a[0])], u) = [qs EXCEPT !["avail0"] = Tail(qs["avail0"])]
    BY <1>3
  <2>3. HoldingOf([tx EXCEPT ![t] = Head(a[0])], rx) = [hold EXCEPT ![h] = Head(qs["avail0"])]
    BY <1>2, <1>3
  <2> QED BY <2>1, <2>2, <2>3, Zenon DEF OwnedBy
<1>5. ASSUME u[1] # <<>>
      PROVE  OwnedBy(a, [u EXCEPT ![1] = Tail(u[1])], [tx EXCEPT ![t] = Head(u[1])], rx, free)
  <2>1. Owned([qs EXCEPT !["used1"] = Tail(qs["used1"])], [hold EXCEPT ![h] = Head(qs["used1"])], free)
    BY <1>1, <1>3, <1>5, TakeHead
  <2>2. QueuesOf(a, [u EXCEPT ![1] = Tail(u[1])]) = [qs EXCEPT !["used1"] = Tail(qs["used1"])]
    BY <1>3
  <2>3. HoldingOf([tx EXCEPT ![t] = Head(u[1])], rx) = [hold EXCEPT ![h] = Head(qs["used1"])]
    BY <1>2, <1>3
  <2> QED BY <2>1, <2>2, <2>3, Zenon DEF OwnedBy
<1>6. ASSUME free > 0
      PROVE  OwnedBy(a, u, [tx EXCEPT ![t] = Pool - free + 1], rx, free - 1)
  <2>1. Owned(qs, [hold EXCEPT ![h] = Pool - free + 1], free - 1)
    BY <1>1, <1>6, TakeFromPool
  <2> QED BY <1>2, <2>1 DEF OwnedBy, qs
<1> QED BY <1>4, <1>5, <1>6

\* A sender enqueues its buffer.
LEMMA SenderPuts ==
    ASSUME NEW a \in Rings, NEW u \in Rings, NEW tx \in TxBufs, NEW rx \in RxBufs, NEW free,
           OwnedBy(a, u, tx, rx, free), NEW t \in Contexts, tx[t] # NoBuffer
    PROVE  /\ OwnedBy([a EXCEPT ![1] = Append(a[1], tx[t])], u, [tx EXCEPT ![t] = NoBuffer], rx, free)
           /\ OwnedBy(a, [u EXCEPT ![0] = Append(u[0], tx[t])], [tx EXCEPT ![t] = NoBuffer], rx, free)
<1> DEFINE qs == QueuesOf(a, u)
           hold == HoldingOf(tx, rx)
           h == <<"tx", t>>
<1>1. Owned(qs, hold, free) /\ h \in Holders /\ hold[h] = tx[t] /\ hold[h] # NoBuffer
  BY SenderUpdates DEF OwnedBy
<1>2. HoldingOf([tx EXCEPT ![t] = NoBuffer], rx) = [hold EXCEPT ![h] = NoBuffer]
  BY SenderUpdates
<1>3. /\ \A q : QueuesOf([a EXCEPT ![1] = q], u) = [qs EXCEPT !["avail1"] = q]
      /\ \A q : QueuesOf(a, [u EXCEPT ![0] = q]) = [qs EXCEPT !["used0"] = q]
      /\ qs["avail1"] = a[1] /\ qs["used0"] = u[0] /\ {"avail1", "used0"} \subseteq QueueNames
  BY QueueUpdates
<1> HIDE DEF qs, hold, h
<1>4. \A n \in {"avail1", "used0"} :
        Owned([qs EXCEPT ![n] = Append(qs[n], hold[h])], [hold EXCEPT ![h] = NoBuffer], free)
  BY <1>1, <1>3, PutLast
<1> QED BY <1>1, <1>2, <1>3, <1>4 DEF OwnedBy

\* A receive callback takes the next message.
LEMMA ReceiverTakes ==
    ASSUME NEW a \in Rings, NEW u \in Rings, NEW tx \in TxBufs, NEW rx \in RxBufs, NEW free,
           OwnedBy(a, u, tx, rx, free), NEW c \in Cores, rx[c] = NoBuffer
    PROVE  /\ a[1] # <<>> =>
                OwnedBy([a EXCEPT ![1] = Tail(a[1])], u, tx, [rx EXCEPT ![c] = Head(a[1])], free)
           /\ u[0] # <<>> =>
                OwnedBy(a, [u EXCEPT ![0] = Tail(u[0])], tx, [rx EXCEPT ![c] = Head(u[0])], free)
<1> DEFINE qs == QueuesOf(a, u)
           hold == HoldingOf(tx, rx)
           h == <<"rx", c>>
<1>1. Owned(qs, hold, free) /\ h \in Holders /\ hold[h] = NoBuffer
  BY ReceiverUpdates DEF OwnedBy
<1>2. \A b : HoldingOf(tx, [rx EXCEPT ![c] = b]) = [hold EXCEPT ![h] = b]
  BY ReceiverUpdates
<1>3. /\ \A q : QueuesOf([a EXCEPT ![1] = q], u) = [qs EXCEPT !["avail1"] = q]
      /\ \A q : QueuesOf(a, [u EXCEPT ![0] = q]) = [qs EXCEPT !["used0"] = q]
      /\ qs["avail1"] = a[1] /\ qs["used0"] = u[0] /\ {"avail1", "used0"} \subseteq QueueNames
  BY QueueUpdates
<1> HIDE DEF qs, hold, h
<1>4. ASSUME a[1] # <<>>
      PROVE  OwnedBy([a EXCEPT ![1] = Tail(a[1])], u, tx, [rx EXCEPT ![c] = Head(a[1])], free)
  <2>1. Owned([qs EXCEPT !["avail1"] = Tail(qs["avail1"])], [hold EXCEPT ![h] = Head(qs["avail1"])], free)
    BY <1>1, <1>3, <1>4, TakeHead
  <2>2. QueuesOf([a EXCEPT ![1] = Tail(a[1])], u) = [qs EXCEPT !["avail1"] = Tail(qs["avail1"])]
    BY <1>3
  <2>3. HoldingOf(tx, [rx EXCEPT ![c] = Head(a[1])]) = [hold EXCEPT ![h] = Head(qs["avail1"])]
    BY <1>2, <1>3
  <2> QED BY <2>1, <2>2, <2>3, Zenon DEF OwnedBy
<1>5. ASSUME u[0] # <<>>
      PROVE  OwnedBy(a, [u EXCEPT ![0] = Tail(u[0])], tx, [rx EXCEPT ![c] = Head(u[0])], free)
  <2>1. Owned([qs EXCEPT !["used0"] = Tail(qs["used0"])], [hold EXCEPT ![h] = Head(qs["used0"])], free)
    BY <1>1, <1>3, <1>5, TakeHead
  <2>2. QueuesOf(a, [u EXCEPT ![0] = Tail(u[0])]) = [qs EXCEPT !["used0"] = Tail(qs["used0"])]
    BY <1>3
  <2>3. HoldingOf(tx, [rx EXCEPT ![c] = Head(u[0])]) = [hold EXCEPT ![h] = Head(qs["used0"])]
    BY <1>2, <1>3
  <2> QED BY <2>1, <2>2, <2>3, Zenon DEF OwnedBy
<1> QED BY <1>4, <1>5

\* A receive callback gives its buffer back.
LEMMA ReceiverPuts ==
    ASSUME NEW a \in Rings, NEW u \in Rings, NEW tx \in TxBufs, NEW rx \in RxBufs, NEW free,
           OwnedBy(a, u, tx, rx, free), NEW c \in Cores, rx[c] # NoBuffer
    PROVE  /\ OwnedBy([a EXCEPT ![0] = Append(a[0], rx[c])], u, tx, [rx EXCEPT ![c] = NoBuffer], free)
           /\ OwnedBy(a, [u EXCEPT ![1] = Append(u[1], rx[c])], tx, [rx EXCEPT ![c] = NoBuffer], free)
<1> DEFINE qs == QueuesOf(a, u)
           hold == HoldingOf(tx, rx)
           h == <<"rx", c>>
<1>1. Owned(qs, hold, free) /\ h \in Holders /\ hold[h] = rx[c] /\ hold[h] # NoBuffer
  BY ReceiverUpdates DEF OwnedBy
<1>2. HoldingOf(tx, [rx EXCEPT ![c] = NoBuffer]) = [hold EXCEPT ![h] = NoBuffer]
  BY ReceiverUpdates
<1>3. /\ \A q : QueuesOf([a EXCEPT ![0] = q], u) = [qs EXCEPT !["avail0"] = q]
      /\ \A q : QueuesOf(a, [u EXCEPT ![1] = q]) = [qs EXCEPT !["used1"] = q]
      /\ qs["avail0"] = a[0] /\ qs["used1"] = u[1] /\ {"avail0", "used1"} \subseteq QueueNames
  BY QueueUpdates
<1> HIDE DEF qs, hold, h
<1>4. \A n \in {"avail0", "used1"} :
        Owned([qs EXCEPT ![n] = Append(qs[n], hold[h])], [hold EXCEPT ![h] = NoBuffer], free)
  BY <1>1, <1>3, PutLast
<1> QED BY <1>1, <1>2, <1>3, <1>4 DEF OwnedBy

OwnedInv == OwnedBy(avail, used, tx_buf, rx_buf, pool_avail)

\* rpmsg_init_vdev: the first NEntries buffers are in the ring, the rest in the
\* pool.
LEMMA OwnedInit == Init => OwnedInv
<1> SUFFICES ASSUME Init PROVE OwnedInv
  OBVIOUS
<1> DEFINE qs == QueuesOf(avail, used)
           hold == HoldingOf(tx_buf, rx_buf)
<1>1. TypeInv
  BY TypeInit
<1>2. /\ qs["avail0"] = [i \in 1..NEntries |-> i] /\ qs["avail1"] = <<>>
      /\ qs["used0"] = <<>> /\ qs["used1"] = <<>> /\ pool_avail = Pool - NEntries
  BY DEF QueuesOf, QueueNames, Init
<1>3. qs \in [QueueNames -> Seq(Buffers)]
  BY <1>1 DEF QueuesOf, TypeInv, RingTypes
<1>4. \A h \in Holders : hold[h] = NoBuffer
  BY DEF HoldingOf, Holders, Init
<1>5. PlacesTyped(qs, hold, pool_avail)
  BY <1>1, <1>3, <1>4 DEF PlacesTyped, HoldingOf, TypeInv, RingTypes
<1>6. /\ \A b \in Buffers : Has(qs["avail0"], b) <=> b <= NEntries
      /\ \A n \in QueueNames \ {"avail0"} : \A b \in Buffers : ~Has(qs[n], b)
      /\ \A b \in Buffers : b > Pool - pool_avail <=> b > NEntries
  <2>1. Len(qs["avail0"]) = NEntries
    BY <1>2, RingAssumption
  <2>2. \A n \in QueueNames \ {"avail0"} : qs[n] = <<>>
    BY <1>2 DEF QueueNames
  <2>3. \A b \in Buffers : Has(qs["avail0"], b) <=> b <= NEntries
    BY <1>2, <2>1, RingAssumption DEF Has, Buffers
  <2>4. \A n \in QueueNames \ {"avail0"} : \A b \in Buffers : ~Has(qs[n], b)
    BY <2>2 DEF Has
  <2>5. \A b \in Buffers : b > Pool - pool_avail <=> b > NEntries
    BY <1>2, RingAssumption DEF Buffers
  <2> QED BY <2>3, <2>4, <2>5
<1>7. \A n \in QueueNames : Distinct(qs[n])
  BY <1>2, RingAssumption DEF Distinct, QueueNames
<1> HIDE DEF qs, hold
<1>8. "avail0" \in QueueNames /\ <<"queue", "avail0">> \in Spots /\ <<"pool", "pool">> \in Spots
  BY SpotCases DEF QueueNames
<1>9. ASSUME NEW b \in Buffers, NEW l \in Spots
      PROVE  IsAt(qs, hold, pool_avail, l, b)
               <=> IF b <= NEntries THEN l = <<"queue", "avail0">> ELSE l = <<"pool", "pool">>
  <2>1. b # NoBuffer /\ (b <= NEntries <=> ~(b > NEntries))
    BY RingAssumption DEF Buffers, NoBuffer
  <2>2. ASSUME NEW n \in QueueNames, l = <<"queue", n>>
        PROVE  IsAt(qs, hold, pool_avail, l, b) <=> n = "avail0" /\ b <= NEntries
    BY <1>6, <2>2 DEF IsAt
  <2>3. ASSUME NEW h \in Holders, l = <<"holder", h>>
        PROVE  ~IsAt(qs, hold, pool_avail, l, b)
    BY <1>4, <2>1, <2>3 DEF IsAt
  <2>4. ASSUME l = <<"pool", "pool">>
        PROVE  IsAt(qs, hold, pool_avail, l, b) <=> b > NEntries
    BY <1>6, <2>4 DEF IsAt
  <2> QED BY <2>1, <2>2, <2>3, <2>4, SpotCases
<1>10. Owned(qs, hold, pool_avail)
  BY <1>5, <1>7, <1>8, <1>9 DEF Owned
<1> QED BY <1>10 DEF OwnedInv, OwnedBy, qs, hold

\* rpmsg_virtio_get_tx_buffer moves a buffer to the sender.
LEMMA GotBufferOwned ==
    ASSUME TypeInv, OwnedInv, NEW t \in Contexts, SendGotBuffer(t)
    PROVE  OwnedInv'
<1> DEFINE c == CoreOf(t)
<1>1. /\ c \in Cores /\ tx_buf[t] = NoBuffer /\ tx_buf' = [tx_buf EXCEPT ![t] = TxSource(c)]
      /\ TxSource(c) # NoBuffer /\ TakeTxSource(c) /\ rx_buf' = rx_buf
  BY CoreOfType DEF SendGotBuffer, TypeInv, TxHolds, At, rxVars
<1>2. /\ avail \in Rings /\ used \in Rings /\ tx_buf \in TxBufs /\ rx_buf \in RxBufs
      /\ OwnedBy(avail, used, tx_buf, rx_buf, pool_avail)
  BY DEF TypeInv, RingTypes, TxTypes, RxTypes, Rings, TxBufs, RxBufs, OwnedInv
<1> HIDE DEF c
<1>3. CASE c = Slave
  <2>1. /\ avail[0] # <<>> /\ TxSource(c) = Head(avail[0]) /\ used' = used
        /\ avail' = [avail EXCEPT ![0] = Tail(avail[0])] /\ pool_avail' = pool_avail
    BY <1>1, <1>3 DEF TxSource, TakeTxSource
  <2>2. OwnedBy([avail EXCEPT ![0] = Tail(avail[0])], used, [tx_buf EXCEPT ![t] = Head(avail[0])],
                rx_buf, pool_avail)
    BY <1>1, <1>2, <2>1, SenderTakes
  <2> QED BY <1>1, <2>1, <2>2 DEF OwnedInv
<1>4. CASE c # Slave /\ used[1] # <<>>
  <2>1. /\ TxSource(c) = Head(used[1]) /\ avail' = avail
        /\ used' = [used EXCEPT ![1] = Tail(used[1])] /\ pool_avail' = pool_avail
    BY <1>1, <1>4 DEF TxSource, TakeTxSource
  <2>2. OwnedBy(avail, [used EXCEPT ![1] = Tail(used[1])], [tx_buf EXCEPT ![t] = Head(used[1])],
                rx_buf, pool_avail)
    BY <1>1, <1>2, <1>4, SenderTakes
  <2> QED BY <1>1, <2>1, <2>2 DEF OwnedInv
<1>5. CASE c # Slave /\ used[1] = <<>>
  <2>1. /\ pool_avail > 0 /\ TxSource(c) = Pool - pool_avail + 1 /\ avail' = avail
        /\ used' = used /\ pool_avail' = pool_avail - 1
    BY <1>1, <1>5 DEF TxSource, TakeTxSource
  <2>2. OwnedBy(avail, used, [tx_buf EXCEPT ![t] = Pool - pool_avail + 1], rx_buf, pool_avail - 1)
    BY <1>1, <1>2, <2>1, SenderTakes
  <2> QED BY <1>1, <2>1, <2>2 DEF OwnedInv
<1> QED BY <1>3, <1>4, <1>5

\* rpmsg_virtio_enqueue_buffer moves it to the ring.
LEMMA EnqueueOwned ==
    ASSUME TypeInv, OwnedInv, NEW t \in Contexts, SendEnqueue(t)
    PROVE  OwnedInv'
<1>1. /\ tx_buf[t] # NoBuffer /\ tx_buf' = [tx_buf EXCEPT ![t] = NoBuffer]
      /\ UNCHANGED <<rx_buf, pool_avail>>
  BY DEF SendEnqueue, TypeInv, TxHolds, At, Return, rxVars
<1>2. /\ avail \in Rings /\ used \in Rings /\ tx_buf \in TxBufs /\ rx_buf \in RxBufs
      /\ OwnedBy(avail, used, tx_buf, rx_buf, pool_avail)
  BY DEF TypeInv, RingTypes, TxTypes, RxTypes, Rings, TxBufs, RxBufs, OwnedInv
<1>3. \/ avail' = [avail EXCEPT ![1] = Append(avail[1], tx_buf[t])] /\ used' = used
      \/ used' = [used EXCEPT ![0] = Append(used[0], tx_buf[t])] /\ avail' = avail
  BY DEF SendEnqueue
<1>4. /\ OwnedBy([avail EXCEPT ![1] = Append(avail[1], tx_buf[t])], used,
                 [tx_buf EXCEPT ![t] = NoBuffer], rx_buf, pool_avail)
      /\ OwnedBy(avail, [used EXCEPT ![0] = Append(used[0], tx_buf[t])],
                 [tx_buf EXCEPT ![t] = NoBuffer], rx_buf, pool_avail)
  BY <1>1, <1>2, SenderPuts
<1> QED BY <1>1, <1>3, <1>4 DEF OwnedInv

\* rpmsg_virtio_get_rx_buffer moves a buffer to the receive callback.
LEMMA GetRxOwned ==
    ASSUME TypeInv, NEW c \in Cores, NEW a \in Rings, NEW u \in Rings,
           OwnedBy(a, u, tx_buf, [rx_buf EXCEPT ![c] = NoBuffer], pool_avail), GetRx(c, a, u)
    PROVE  OwnedBy(avail', used', tx_buf, rx_buf', pool_avail)
<1> DEFINE rx == [rx_buf EXCEPT ![c] = NoBuffer]
<1>1. rx \in RxBufs /\ rx[c] = NoBuffer /\ tx_buf \in TxBufs
  BY DEF TypeInv, RxTypes, TxTypes, RxBufs, TxBufs
<1>2. \A b : [rx_buf EXCEPT ![c] = b] = [rx EXCEPT ![c] = b]
  BY DEF TypeInv, RxTypes
<1>3. OwnedBy(a, u, tx_buf, rx, pool_avail)
  OBVIOUS
<1>4. CASE RxQueue(c, a, u) = <<>>
  <2>1. rx_buf' = rx /\ avail' = a /\ used' = u
    BY <1>4 DEF GetRx
  <2> QED BY <1>3, <2>1
<1>5. CASE RxQueue(c, a, u) # <<>> /\ c = Master
  <2>1. /\ u[0] # <<>> /\ rx_buf' = [rx_buf EXCEPT ![c] = Head(u[0])]
        /\ avail' = a /\ used' = [u EXCEPT ![0] = Tail(u[0])]
    BY <1>5 DEF GetRx, RxQueue, Master, Slave
  <2>2. rx_buf' = [rx EXCEPT ![c] = Head(u[0])]
    BY <1>2, <2>1
  <2> HIDE DEF rx
  <2>3. OwnedBy(a, [u EXCEPT ![0] = Tail(u[0])], tx_buf, [rx EXCEPT ![c] = Head(u[0])], pool_avail)
    BY <1>1, <1>3, <2>1, ReceiverTakes
  <2> QED BY <2>1, <2>2, <2>3
<1>6. CASE RxQueue(c, a, u) # <<>> /\ c = Slave
  <2>1. /\ a[1] # <<>> /\ rx_buf' = [rx_buf EXCEPT ![c] = Head(a[1])]
        /\ used' = u /\ avail' = [a EXCEPT ![1] = Tail(a[1])]
    BY <1>6 DEF GetRx, RxQueue, Master, Slave
  <2>2. rx_buf' = [rx EXCEPT ![c] = Head(a[1])]
    BY <1>2, <2>1
  <2> HIDE DEF rx
  <2>3. OwnedBy([a EXCEPT ![1] = Tail(a[1])], u, tx_buf, [rx EXCEPT ![c] = Head(a[1])], pool_avail)
    BY <1>1, <1>3, <2>1, ReceiverTakes
  <2> QED BY <2>1, <2>2, <2>3
<1> QED BY <1>4, <1>5, <1>6 DEF Cores

\* The receive callback keeps every buffer in one place.
LEMMA ReceiveOwned ==
    ASSUME TypeInv, OwnedInv, NEW c \in Cores, RxFirst(c) \/ RxNext(c)
    PROVE  OwnedInv'
<1>1. /\ avail \in Rings /\ used \in Rings /\ tx_buf \in TxBufs /\ rx_buf \in RxBufs
      /\ OwnedBy(avail, used, tx_buf, rx_buf, pool_avail)
  BY DEF TypeInv, RingTypes, TxTypes, RxTypes, Rings, TxBufs, RxBufs, OwnedInv
<1>2. UNCHANGED <<tx_buf, pool_avail>>
  BY DEF RxFirst, RxNext, txVars
<1>3. CASE RxFirst(c)
  <2>1. rx_buf = [rx_buf EXCEPT ![c] = NoBuffer]
    BY <1>1, <1>3 DEF RxFirst, TypeInv, RxHolds, RxBufs
  <2>2. OwnedBy(avail, used, tx_buf, [rx_buf EXCEPT ![c] = NoBuffer], pool_avail)
    BY <1>1, <2>1
  <2> QED BY <1>1, <1>2, <1>3, <2>2, GetRxOwned DEF RxFirst, OwnedInv
<1>4. CASE RxNext(c)
  <2> DEFINE a == [avail EXCEPT ![0] = Append(avail[0], rx_buf[c])]
             u == [used EXCEPT ![1] = Append(used[1], rx_buf[c])]
  <2>1. rx_buf[c] # NoBuffer /\ rx_buf[c] \in Buffers
    BY <1>1, <1>4 DEF RxNext, TypeInv, RxHolds, RxBufs
  <2>2. a \in Rings /\ u \in Rings
    BY <1>1, <2>1, QueueTypes DEF Rings
  <2>3. /\ OwnedBy(a, used, tx_buf, [rx_buf EXCEPT ![c] = NoBuffer], pool_avail)
        /\ OwnedBy(avail, u, tx_buf, [rx_buf EXCEPT ![c] = NoBuffer], pool_avail)
    BY <1>1, <2>1, ReceiverPuts
  <2>4. GetRx(c, a, used) \/ GetRx(c, avail, u)
    BY <1>4 DEF RxNext
  <2> HIDE DEF a, u
  <2> QED BY <1>1, <1>2, <2>2, <2>3, <2>4, GetRxOwned DEF OwnedInv
<1> QED BY <1>3, <1>4

(***************************************************************************)
(* Counting. The buffers of vring 0 are in its rings, with senders of the  *)
(* slave or with the master's receive callback; those of vring 1 are in    *)
(* its rings, with senders of the master, with the slave's callback or in  *)
(* the pool. Neither circulation gains or loses a buffer.                  *)
(***************************************************************************)
SendersIn(tx, c) == {t \in Contexts : CoreOf(t) = c /\ tx[t] # NoBuffer}
Senders(c) == Cardinality(SendersIn(tx_buf, c))
Receiving(c) == IF rx_buf[c] # NoBuffer THEN 1 ELSE 0

Balanced(a0, u0, s0, r0, a1, u1, s1, r1, free) ==
    /\ a0 + u0 + s0 + r0 = NEntries
    /\ a1 + u1 + s1 + r1 + free = Pool - NEntries

RingCount ==
    Balanced(Len(avail[0]), Len(used[0]), Senders(Slave), Receiving(Master),
             Len(avail[1]), Len(used[1]), Senders(Master), Receiving(Slave), pool_avail)

\* What the sends and the receive callbacks move from one place to the next.
LEMMA Transfers ==
    ASSUME NEW a0 \in Int, NEW u0 \in Int, NEW s0 \in Int, NEW r0 \in Int,
           NEW a1 \in Int, NEW u1 \in Int, NEW s1 \in Int, NEW r1 \in Int, NEW free \in Int,
           Balanced(a0, u0, s0, r0, a1, u1, s1, r1, free)
    PROVE  /\ Balanced(a0 - 1, u0, s0 + 1, r0, a1, u1, s1, r1, free)
           /\ Balanced(a0, u0 + 1, s0 - 1, r0, a1, u1, s1, r1, free)
           /\ Balanced(a0, u0 - 1, s0, r0 + 1, a1, u1, s1, r1, free)
           /\ Balanced(a0 + 1, u0, s0, r0 - 1, a1, u1, s1, r1, free)
           /\ Balanced(a0, u0, s0, r0, a1, u1 - 1, s1 + 1, r1, free)
           /\ Balanced(a0, u0, s0, r0, a1, u1, s1 + 1, r1, free - 1)
           /\ Balanced(a0, u0, s0, r0, a1 + 1, u1, s1 - 1, r1, free)
           /\ Balanced(a0, u0, s0, r0, a1 - 1, u1, s1, r1 + 1, free)
           /\ Balanced(a0, u0, s0, r0, a1, u1 + 1, s1, r1 - 1, free)
BY RingAssumption DEF Balanced

\* The senders of a core that hold a buffer can be counted.
LEMMA FiniteSenders ==
    ASSUME NEW tx, NEW c
    PROVE  IsFiniteSet(SendersIn(tx, c)) /\ Cardinality(SendersIn(tx, c)) \in Nat
<1>1. IsFiniteSet(Cores)
  <2>1. IsFiniteSet({Master}) /\ Cores = {Master} \cup {Slave}
    BY FS_Singleton DEF Cores
  <2> QED BY <2>1, FS_AddElement
<1>2. IsFiniteSet(Contexts)
  BY <1>1, AppAssumption, FS_Union DEF Contexts
<1>3. SendersIn(tx, c) \subseteq Contexts
  BY DEF SendersIn
<1> QED BY <1>2, <1>3, FS_Subset, FS_CardinalityType

\* A sender that gets or gives up a buffer is one more, or one less.
LEMMA SenderCount ==
    ASSUME NEW tx \in TxBufs, NEW t \in Contexts, NEW b \in Buffers \cup {NoBuffer}, NEW c
    PROVE  Cardinality(SendersIn([tx EXCEPT ![t] = b], c)) =
             Cardinality(SendersIn(tx, c))
             + (IF CoreOf(t) = c /\ tx[t] = NoBuffer /\ b # NoBuffer THEN 1
                ELSE IF CoreOf(t) = c /\ tx[t] # NoBuffer /\ b = NoBuffer THEN -1 ELSE 0)
<1> DEFINE S == SendersIn(tx, c)
           T == SendersIn([tx EXCEPT ![t] = b], c)
<1>1. IsFiniteSet(S) /\ Cardinality(S) \in Nat
  BY FiniteSenders
<1>2. CASE CoreOf(t) = c /\ b # NoBuffer
  <2>1. T = S \cup {t} /\ (t \in S <=> tx[t] # NoBuffer)
    BY <1>2 DEF SendersIn, TxBufs
  <2>2. Cardinality(S \cup {t}) = IF t \in S THEN Cardinality(S) ELSE Cardinality(S) + 1
    BY <1>1, FS_AddElement
  <2> HIDE DEF S, T
  <2>3. Cardinality(T) = Cardinality(S) + IF tx[t] = NoBuffer THEN 1 ELSE 0
    BY <1>1, <2>1, <2>2
  <2> QED BY <1>2, <2>3 DEF S, T
<1>3. CASE CoreOf(t) = c /\ b = NoBuffer
  <2>1. T = S \ {t} /\ (t \in S <=> tx[t] # NoBuffer)
    BY <1>3 DEF SendersIn, TxBufs
  <2>2. Cardinality(S \ {t}) = IF t \in S THEN Cardinality(S) - 1 ELSE Cardinality(S)
    BY <1>1, FS_RemoveElement
  <2> HIDE DEF S, T
  <2>3. Cardinality(T) = Cardinality(S) + IF tx[t] # NoBuffer THEN -1 ELSE 0
    BY <1>1, <2>1, <2>2
  <2> QED BY <1>3, <2>3 DEF S, T
<1>4. CASE CoreOf(t) # c
  <2>1. T = S
    BY <1>4 DEF SendersIn, TxBufs
  <2> QED BY <1>1, <1>4, <2>1
<1> QED BY <1>2, <1>3, <1>4

\* Lengths of queues, as the rings are used.
LEMMA QueueLengths ==
    ASSUME NEW q \in Seq(Buffers)
    PROVE  /\ Len(q) \in Nat /\ (q # <<>> => Len(Tail(q)) = Len(q) - 1)
           /\ \A b \in Buffers : Len(Append(q, b)) = Len(q) + 1
OBVIOUS

\* rpmsg_init_vdev leaves the slave's ring filled and the rest in the pool.
LEMMA CountInit == Init => RingCount
<1> SUFFICES ASSUME Init PROVE RingCount
  OBVIOUS
<1>1. Senders(Slave) = 0 /\ Senders(Master) = 0
  BY FS_EmptySet DEF Init, Senders, SendersIn
<1>2. Receiving(Slave) = 0 /\ Receiving(Master) = 0
  BY DEF Init, Receiving, Cores
<1>3. /\ Len(avail[0]) = NEntries /\ Len(used[0]) = 0 /\ Len(avail[1]) = 0 /\ Len(used[1]) = 0
      /\ pool_avail = Pool - NEntries
  BY RingAssumption DEF Init
<1> QED BY <1>1, <1>2, <1>3, RingAssumption DEF RingCount, Balanced

\* Every place of the count holds a natural number of buffers.
LEMMA CountTypes ==
    ASSUME TypeInv
    PROVE  /\ Len(avail[0]) \in Nat /\ Len(used[0]) \in Nat /\ Senders(Slave) \in Nat
           /\ Receiving(Master) \in Nat
           /\ Len(avail[1]) \in Nat /\ Len(used[1]) \in Nat /\ Senders(Master) \in Nat
           /\ Receiving(Slave) \in Nat /\ pool_avail \in Nat
<1>1. /\ avail[0] \in Seq(Buffers) /\ avail[1] \in Seq(Buffers) /\ used[0] \in Seq(Buffers)
      /\ used[1] \in Seq(Buffers) /\ pool_avail \in 0..Pool
  BY DEF TypeInv, RingTypes
<1>2. /\ Len(avail[0]) \in Nat /\ Len(avail[1]) \in Nat /\ Len(used[0]) \in Nat
      /\ Len(used[1]) \in Nat /\ pool_avail \in Nat
  BY <1>1, QueueLengths, RingAssumption
<1>3. /\ Senders(Master) \in Nat /\ Senders(Slave) \in Nat
      /\ Receiving(Master) \in Nat /\ Receiving(Slave) \in Nat
  BY FiniteSenders DEF Senders, Receiving
<1> QED BY <1>2, <1>3

\* The count after each of the moves, from the count before.
LEMMA CountMoves ==
    ASSUME TypeInv, RingCount
    PROVE  /\ Balanced(Len(avail[0]) - 1, Len(used[0]), Senders(Slave) + 1, Receiving(Master),
                 Len(avail[1]), Len(used[1]), Senders(Master), Receiving(Slave), pool_avail)
           /\ Balanced(Len(avail[0]), Len(used[0]) + 1, Senders(Slave) - 1, Receiving(Master),
                 Len(avail[1]), Len(used[1]), Senders(Master), Receiving(Slave), pool_avail)
           /\ Balanced(Len(avail[0]), Len(used[0]), Senders(Slave), Receiving(Master),
                 Len(avail[1]), Len(used[1]) - 1, Senders(Master) + 1, Receiving(Slave), pool_avail)
           /\ Balanced(Len(avail[0]), Len(used[0]), Senders(Slave), Receiving(Master),
                 Len(avail[1]), Len(used[1]), Senders(Master) + 1, Receiving(Slave), pool_avail - 1)
           /\ Balanced(Len(avail[0]), Len(used[0]), Senders(Slave), Receiving(Master),
                 Len(avail[1]) + 1, Len(used[1]), Senders(Master) - 1, Receiving(Slave), pool_avail)
<1> DEFINE a0 == Len(avail[0])
           u0 == Len(used[0])
           s0 == Senders(Slave)
           r0 == Receiving(Master)
           a1 == Len(avail[1])
           u1 == Len(used[1])
           s1 == Senders(Master)
           r1 == Receiving(Slave)
<1>1. /\ a0 \in Int /\ u0 \in Int /\ s0 \in Int /\ r0 \in Int
      /\ a1 \in Int /\ u1 \in Int /\ s1 \in Int /\ r1 \in Int /\ pool_avail \in Int
  BY CountTypes
<1>2. Balanced(a0, u0, s0, r0, a1, u1, s1, r1, pool_avail)
  BY DEF RingCount
<1> HIDE DEF a0, u0, s0, r0, a1, u1, s1, r1
<1>3. /\ Balanced(a0 - 1, u0, s0 + 1, r0, a1, u1, s1, r1, pool_avail)
      /\ Balanced(a0, u0 + 1, s0 - 1, r0, a1, u1, s1, r1, pool_avail)
      /\ Balanced(a0, u0, s0, r0, a1, u1 - 1, s1 + 1, r1, pool_avail)
      /\ Balanced(a0, u0, s0, r0, a1, u1, s1 + 1, r1, pool_avail - 1)
      /\ Balanced(a0, u0, s0, r0, a1 + 1, u1, s1 - 1, r1, pool_avail)
  BY <1>1, <1>2, Transfers
<1> QED BY <1>3 DEF a0, u0, s0, r0, a1, u1, s1, r1

\* rpmsg_virtio_get_tx_buffer moves one buffer from a ring or the pool to a sender.
LEMMA GotBufferCounted ==
    ASSUME TypeInv, RingCount, NEW t \in Contexts, SendGotBuffer(t)
    PROVE  RingCount'
<1> DEFINE c == CoreOf(t)
<1>1. /\ c \in Cores /\ tx_buf[t] = NoBuffer /\ tx_buf' = [tx_buf EXCEPT ![t] = TxSource(c)]
      /\ TxSource(c) # NoBuffer /\ TakeTxSource(c) /\ rx_buf' = rx_buf /\ TxSource(c) \in Buffers
  BY CoreOfType, TxSourceTypes DEF SendGotBuffer, TypeInv, TxHolds, At, rxVars
<1>2. /\ avail[0] \in Seq(Buffers) /\ avail[1] \in Seq(Buffers) /\ used[0] \in Seq(Buffers)
      /\ used[1] \in Seq(Buffers) /\ pool_avail \in 0..Pool /\ tx_buf \in TxBufs
      /\ avail \in Rings /\ used \in Rings
  BY DEF TypeInv, RingTypes, TxTypes, TxBufs, Rings
<1>3. \A d : Senders(d)' = Senders(d) + IF c = d THEN 1 ELSE 0
  BY <1>1, <1>2, SenderCount DEF Senders
<1>4. Receiving(Master)' = Receiving(Master) /\ Receiving(Slave)' = Receiving(Slave)
  BY <1>1 DEF Receiving
<1>5. Senders(Master) \in Nat /\ Senders(Slave) \in Nat /\ Receiving(Master) \in Nat
      /\ Receiving(Slave) \in Nat
  BY FiniteSenders DEF Senders, Receiving
<1> HIDE DEF c
<1>6. CASE c = Slave
  <2>1. avail[0] # <<>> /\ avail' = [avail EXCEPT ![0] = Tail(avail[0])] /\ UNCHANGED <<used, pool_avail>>
    BY <1>1, <1>6 DEF TxSource, TakeTxSource
  <2>2. Len(avail'[0]) = Len(avail[0]) - 1 /\ avail'[1] = avail[1] /\ Len(avail[0]) \in Nat
    BY <1>2, <2>1, QueueLengths DEF Rings
  <2>3. Senders(Slave)' = Senders(Slave) + 1 /\ Senders(Master)' = Senders(Master)
    BY <1>3, <1>5, <1>6 DEF Master, Slave
  <2> QED BY <1>4, <2>1, <2>2, <2>3, CountMoves, Zenon DEF RingCount
<1>7. CASE c = Master /\ used[1] # <<>>
  <2>1. used' = [used EXCEPT ![1] = Tail(used[1])] /\ UNCHANGED <<avail, pool_avail>>
    BY <1>1, <1>7 DEF TakeTxSource, Master, Slave
  <2>2. Len(used'[1]) = Len(used[1]) - 1 /\ used'[0] = used[0] /\ Len(used[1]) \in Nat
    BY <1>2, <1>7, <2>1, QueueLengths DEF Rings
  <2>3. Senders(Master)' = Senders(Master) + 1 /\ Senders(Slave)' = Senders(Slave)
    BY <1>3, <1>5, <1>7 DEF Master, Slave
  <2> QED BY <1>4, <2>1, <2>2, <2>3, CountMoves, Zenon DEF RingCount
<1>8. CASE c = Master /\ used[1] = <<>>
  <2>1. pool_avail' = pool_avail - 1 /\ UNCHANGED <<avail, used>>
    BY <1>1, <1>8 DEF TakeTxSource, Master, Slave
  <2>2. Senders(Master)' = Senders(Master) + 1 /\ Senders(Slave)' = Senders(Slave)
    BY <1>3, <1>5, <1>8 DEF Master, Slave
  <2> QED BY <1>4, <2>1, <2>2, CountMoves, Zenon DEF RingCount
<1> QED BY <1>1, <1>6, <1>7, <1>8 DEF Cores

\* rpmsg_virtio_enqueue_buffer moves one buffer from a sender to a ring.
LEMMA EnqueueCounted ==
    ASSUME TypeInv, RingCount, NEW t \in Contexts, SendEnqueue(t)
    PROVE  RingCount'
<1> DEFINE c == CoreOf(t)
<1>1. /\ c \in Cores /\ tx_buf[t] # NoBuffer /\ tx_buf' = [tx_buf EXCEPT ![t] = NoBuffer]
      /\ rx_buf' = rx_buf /\ pool_avail' = pool_avail /\ tx_buf[t] \in Buffers
  BY CoreOfType DEF SendEnqueue, TypeInv, TxHolds, TxTypes, At, Return, rxVars
<1>2. /\ avail[0] \in Seq(Buffers) /\ avail[1] \in Seq(Buffers) /\ used[0] \in Seq(Buffers)
      /\ used[1] \in Seq(Buffers) /\ pool_avail \in 0..Pool /\ tx_buf \in TxBufs
      /\ avail \in Rings /\ used \in Rings
  BY DEF TypeInv, RingTypes, TxTypes, TxBufs, Rings
<1>3. \A d : Senders(d)' = Senders(d) + IF c = d THEN -1 ELSE 0
  <2>1. NoBuffer \in Buffers \cup {NoBuffer}
    OBVIOUS
  <2>2. \A d : Cardinality(SendersIn([tx_buf EXCEPT ![t] = NoBuffer], d))
                = Cardinality(SendersIn(tx_buf, d)) + IF c = d THEN -1 ELSE 0
    BY <1>1, <1>2, <2>1, SenderCount
  <2> QED BY <1>1, <2>2 DEF Senders
<1>4. Receiving(Master)' = Receiving(Master) /\ Receiving(Slave)' = Receiving(Slave)
  BY <1>1 DEF Receiving
<1>5. Senders(Master) \in Nat /\ Senders(Slave) \in Nat /\ Receiving(Master) \in Nat
      /\ Receiving(Slave) \in Nat
  BY FiniteSenders DEF Senders, Receiving
<1>6. \/ c = Master /\ avail' = [avail EXCEPT ![1] = Append(avail[1], tx_buf[t])] /\ used' = used
      \/ c = Slave /\ used' = [used EXCEPT ![0] = Append(used[0], tx_buf[t])] /\ avail' = avail
  BY <1>1 DEF SendEnqueue, Cores
<1> HIDE DEF c
<1>7. CASE c = Master
  <2>1. /\ Len(avail'[1]) = Len(avail[1]) + 1 /\ avail'[0] = avail[0] /\ used' = used
        /\ Len(avail[1]) \in Nat
    BY <1>1, <1>2, <1>6, <1>7, QueueLengths DEF Rings, Master, Slave
  <2>2. Senders(Master)' = Senders(Master) - 1 /\ Senders(Slave)' = Senders(Slave)
    BY <1>3, <1>5, <1>7 DEF Master, Slave
  <2> QED BY <1>1, <1>4, <2>1, <2>2, CountMoves, Zenon DEF RingCount
<1>8. CASE c = Slave
  <2>1. /\ Len(used'[0]) = Len(used[0]) + 1 /\ used'[1] = used[1] /\ avail' = avail
        /\ Len(used[0]) \in Nat
    BY <1>1, <1>2, <1>6, <1>8, QueueLengths DEF Rings, Master, Slave
  <2>2. Senders(Slave)' = Senders(Slave) - 1 /\ Senders(Master)' = Senders(Master)
    BY <1>3, <1>5, <1>8 DEF Master, Slave
  <2> QED BY <1>1, <1>4, <2>1, <2>2, CountMoves, Zenon DEF RingCount
<1> QED BY <1>1, <1>7, <1>8 DEF Cores

\* The count on rings a and u, with n buffers at the callback of core c.
CountWith(a, u, c, n) ==
    Balanced(Len(a[0]), Len(u[0]), Senders(Slave), IF c = Master THEN n ELSE Receiving(Master),
             Len(a[1]), Len(u[1]), Senders(Master), IF c = Slave THEN n ELSE Receiving(Slave),
             pool_avail)

\* rpmsg_virtio_get_rx_buffer moves a buffer from the ring to the callback.
LEMMA GetRxCounted ==
    ASSUME TypeInv, NEW c \in Cores, NEW a \in Rings, NEW u \in Rings,
           CountWith(a, u, c, 0), GetRx(c, a, u), UNCHANGED <<tx_buf, pool_avail>>
    PROVE  RingCount'
<1>1. /\ a[0] \in Seq(Buffers) /\ a[1] \in Seq(Buffers)
      /\ u[0] \in Seq(Buffers) /\ u[1] \in Seq(Buffers)
  BY DEF Rings
<1>2. /\ Len(a[0]) \in Nat /\ Len(a[1]) \in Nat /\ Len(u[0]) \in Nat /\ Len(u[1]) \in Nat
  BY <1>1, QueueLengths
<1>3. Senders(Master)' = Senders(Master) /\ Senders(Slave)' = Senders(Slave)
  BY DEF Senders
<1>4. \A d \in Cores : Receiving(d)' = IF d # c THEN Receiving(d)
                        ELSE IF RxQueue(c, a, u) = <<>> THEN 0 ELSE 1
  <2>1. rx_buf' = [rx_buf EXCEPT ![c] = IF RxQueue(c, a, u) = <<>> THEN NoBuffer
                                        ELSE Head(RxQueue(c, a, u))]
    BY DEF GetRx
  <2>2. RxQueue(c, a, u) # <<>> => Head(RxQueue(c, a, u)) # NoBuffer
    <3>1. RxQueue(c, a, u) \in Seq(Buffers)
      BY <1>1 DEF RxQueue
    <3>2. RxQueue(c, a, u) # <<>> => Head(RxQueue(c, a, u)) \in Buffers
      BY <3>1, QueueTypes
    <3> QED BY <3>2, RingAssumption DEF Buffers, NoBuffer
  <2> QED BY <2>1, <2>2 DEF Receiving, TypeInv, RxTypes
<1>5. CASE RxQueue(c, a, u) = <<>>
  <2>1. avail' = a /\ used' = u
    BY <1>5 DEF GetRx
  <2>2. /\ Receiving(Master)' = IF c = Master THEN 0 ELSE Receiving(Master)
        /\ Receiving(Slave)' = IF c = Slave THEN 0 ELSE Receiving(Slave)
    BY <1>4, <1>5 DEF Cores
  <2> QED BY <1>3, <2>1, <2>2 DEF CountWith, RingCount
<1> DEFINE a0 == Len(a[0])
           u0 == Len(u[0])
           a1 == Len(a[1])
           u1 == Len(u[1])
           s0 == Senders(Slave)
           s1 == Senders(Master)
           r0 == Receiving(Master)
           r1 == Receiving(Slave)
           none == 0
<1>6. none \in Int /\ a0 \in Int /\ u0 \in Int /\ a1 \in Int /\ u1 \in Int
      /\ s0 \in Int /\ s1 \in Int /\ r0 \in Int /\ r1 \in Int /\ pool_avail \in Int
  BY <1>2, CountTypes
<1>7. CASE RxQueue(c, a, u) # <<>> /\ c = Master
  <2>1. u[0] # <<>> /\ avail' = a /\ used' = [u EXCEPT ![0] = Tail(u[0])]
    BY <1>7 DEF GetRx, RxQueue, Master, Slave
  <2>2. Len(used'[0]) = Len(u[0]) - 1 /\ used'[1] = u[1]
    BY <1>1, <2>1, QueueLengths DEF Rings
  <2>3. Receiving(Master)' = 1 /\ Receiving(Slave)' = r1
    BY <1>4, <1>7 DEF Cores, Master, Slave
  <2>4. Balanced(a0, u0, s0, none, a1, u1, s1, r1, pool_avail)
    BY <1>7 DEF CountWith, Master, Slave
  <2> HIDE DEF s0, s1, r0, r1, a0, u0, a1, u1, none
  <2>5. Balanced(a0, u0 - 1, s0, none + 1, a1, u1, s1, r1, pool_avail)
    BY <1>6, <2>4, Transfers
  <2>6. none + 1 = 1
    BY DEF none
  <2> QED BY <1>3, <2>1, <2>2, <2>3, <2>5, <2>6, Zenon DEF RingCount, s0, s1, r0, r1, a0, u0, a1, u1
<1>8. CASE RxQueue(c, a, u) # <<>> /\ c = Slave
  <2>1. a[1] # <<>> /\ used' = u /\ avail' = [a EXCEPT ![1] = Tail(a[1])]
    BY <1>8 DEF GetRx, RxQueue, Master, Slave
  <2>2. Len(avail'[1]) = Len(a[1]) - 1 /\ avail'[0] = a[0]
    BY <1>1, <2>1, QueueLengths DEF Rings
  <2>3. Receiving(Master)' = r0 /\ Receiving(Slave)' = 1
    BY <1>4, <1>8 DEF Cores, Master, Slave
  <2>4. Balanced(a0, u0, s0, r0, a1, u1, s1, none, pool_avail)
    BY <1>8 DEF CountWith, Master, Slave
  <2> HIDE DEF s0, s1, r0, r1, a0, u0, a1, u1, none
  <2>5. Balanced(a0, u0, s0, r0, a1 - 1, u1, s1, none + 1, pool_avail)
    BY <1>6, <2>4, Transfers
  <2>6. none + 1 = 1
    BY DEF none
  <2> QED BY <1>3, <2>1, <2>2, <2>3, <2>5, <2>6, Zenon DEF RingCount, s0, s1, r0, r1, a0, u0, a1, u1
<1> QED BY <1>5, <1>7, <1>8 DEF Cores

\* The receive callback keeps the count.
LEMMA ReceiveCounted ==
    ASSUME TypeInv, RingCount, NEW c \in Cores, RxFirst(c) \/ RxNext(c)
    PROVE  RingCount'
<1>1. UNCHANGED <<tx_buf, pool_avail>> /\ avail \in Rings /\ used \in Rings
  BY DEF RxFirst, RxNext, txVars, TypeInv, RingTypes, Rings
<1>2. CASE RxFirst(c)
  <2>1. Receiving(c) = 0
    BY <1>2 DEF RxFirst, TypeInv, RxHolds, Receiving
  <2>2. CountWith(avail, used, c, 0)
    BY <2>1 DEF CountWith, RingCount, Cores, Master, Slave
  <2> QED BY <1>1, <1>2, <2>2, GetRxCounted DEF RxFirst
<1>3. CASE RxNext(c)
  <2> DEFINE a == [avail EXCEPT ![0] = Append(avail[0], rx_buf[c])]
             u == [used EXCEPT ![1] = Append(used[1], rx_buf[c])]
             a0 == Len(avail[0])
             u0 == Len(used[0])
             s0 == Senders(Slave)
             r0 == Receiving(Master)
             a1 == Len(avail[1])
             u1 == Len(used[1])
             s1 == Senders(Master)
             r1 == Receiving(Slave)
  <2>1. rx_buf[c] # NoBuffer /\ rx_buf[c] \in Buffers /\ Receiving(c) = 1
    BY <1>3 DEF RxNext, TypeInv, RxTypes, RxHolds, Receiving
  <2>2. /\ a \in Rings /\ Len(a[0]) = a0 + 1 /\ a[1] = avail[1]
        /\ u \in Rings /\ Len(u[1]) = u1 + 1 /\ u[0] = used[0]
    BY <1>1, <2>1, QueueTypes, QueueLengths DEF Rings
  <2>3. /\ a0 \in Int /\ u0 \in Int /\ s0 \in Int /\ r0 \in Int
        /\ a1 \in Int /\ u1 \in Int /\ s1 \in Int /\ r1 \in Int /\ pool_avail \in Int
    BY CountTypes
  <2>4. Balanced(a0, u0, s0, r0, a1, u1, s1, r1, pool_avail)
    BY DEF RingCount
  <2> HIDE DEF a, u, a0, u0, s0, r0, a1, u1, s1, r1
  <2>5. /\ Balanced(a0 + 1, u0, s0, r0 - 1, a1, u1, s1, r1, pool_avail)
        /\ Balanced(a0, u0, s0, r0, a1, u1 + 1, s1, r1 - 1, pool_avail)
    BY <2>3, <2>4, Transfers
  <2>6. CASE c = Master
    <3>1. r0 - 1 = 0 /\ GetRx(c, a, used) /\ c # Slave
      BY <1>3, <2>1, <2>6 DEF RxNext, r0, a, Master, Slave
    <3>2. CountWith(a, used, c, 0)
      BY <2>2, <2>5, <2>6, <3>1 DEF CountWith, a0, u0, s0, r0, a1, u1, s1, r1
    <3> QED BY <1>1, <2>2, <3>1, <3>2, GetRxCounted
  <2>7. CASE c = Slave
    <3>1. r1 - 1 = 0 /\ GetRx(c, avail, u) /\ c # Master
      BY <1>3, <2>1, <2>7 DEF RxNext, r1, u, Master, Slave
    <3>2. CountWith(avail, u, c, 0)
      BY <2>2, <2>5, <2>7, <3>1 DEF CountWith, a0, u0, s0, r0, a1, u1, s1, r1
    <3> QED BY <1>1, <2>2, <3>1, <3>2, GetRxCounted
  <2> QED BY <2>6, <2>7 DEF Cores
<1> QED BY <1>2, <1>3

\* The other steps move no buffer.
LEMMA OtherStepsStill ==
    ASSUME TypeInv,
           \/ \E t \in Contexts, data \in Payloads, big, wait \in BOOLEAN : Send(t, data, big, wait)
           \/ \E t \in Contexts : SendTooBig(t) \/ SendSizeOK(t) \/ SendNoBuffer(t)
                                  \/ SendSizeKnown(t) \/ SendSleep(t) \/ SendFill(t)
           \/ \E c \in Cores : RxNotified(c)
           \/ UNCHANGED vars
    PROVE  UNCHANGED <<avail, used, pool_avail, tx_buf, rx_buf>>
<1> USE DEF ringVars, txLocals, txVars, rxVars
<1>1. ASSUME NEW t \in Contexts, SendTooBig(t) \/ SendNoBuffer(t) \/ SendSizeKnown(t)
      PROVE  UNCHANGED <<avail, used, pool_avail, tx_buf, rx_buf>>
  <2>1. tx_buf[t] = NoBuffer /\ tx_buf' = [tx_buf EXCEPT ![t] = NoBuffer]
    BY <1>1 DEF TypeInv, TxHolds, SendTooBig, SendNoBuffer, SendSizeKnown, At, Return
  <2>2. tx_buf' = tx_buf
    BY <2>1 DEF TypeInv, TxTypes
  <2> QED BY <1>1, <2>2 DEF SendTooBig, SendNoBuffer, SendSizeKnown
<1>2. ASSUME NEW t \in Contexts, SendSizeOK(t) \/ SendSleep(t) \/ SendFill(t)
      PROVE  UNCHANGED <<avail, used, pool_avail, tx_buf, rx_buf>>
  BY <1>2 DEF SendSizeOK, SendSleep, SendFill
<1> QED BY <1>1, <1>2 DEF Send, RxNotified, vars

\* Every step keeps each buffer at exactly one spot, and the counts of both rings.
LEMMA ConservedStep ==
    ASSUME TypeInv, OwnedInv, RingCount, [Next]_vars
    PROVE  OwnedInv' /\ RingCount'
<1>1. ASSUME NEW t \in Contexts, SendGotBuffer(t) PROVE OwnedInv' /\ RingCount'
  BY <1>1, GotBufferOwned, GotBufferCounted
<1>2. ASSUME NEW t \in Contexts, SendEnqueue(t) PROVE OwnedInv' /\ RingCount'
  BY <1>2, EnqueueOwned, EnqueueCounted
<1>3. ASSUME NEW c \in Cores, RxFirst(c) \/ RxNext(c) PROVE OwnedInv' /\ RingCount'
  BY <1>3, ReceiveOwned, ReceiveCounted
<1>4. CASE UNCHANGED <<avail, used, pool_avail, tx_buf, rx_buf>>
  BY <1>4 DEF OwnedInv, RingCount, Senders, Receiving
<1> QED BY <1>1, <1>2, <1>3, <1>4, OtherStepsStill DEF Next, SendStep

\* No ring is longer than the pool, and what the counts bound.
LEMMA Bounds ==
    ASSUME NEW a0 \in Nat, NEW u0 \in Nat, NEW s0 \in Nat, NEW r0 \in Nat,
           NEW a1 \in Nat, NEW u1 \in Nat, NEW s1 \in Nat, NEW r1 \in Nat, NEW free \in Nat,
           Balanced(a0, u0, s0, r0, a1, u1, s1, r1, free)
    PROVE  /\ a0 <= Pool /\ u0 <= Pool /\ a1 <= Pool /\ u1 <= Pool
           /\ a0 + s0 + u0 <= NEntries
           /\ a1 + r1 + u1 + s1 <= Pool - NEntries
BY RingAssumption DEF Balanced

\* Neither ring ever holds more than its share of the buffers.
LEMMA RingBounds ==
    ASSUME TypeInv, RingCount
    PROVE  /\ \A r \in {0, 1} : Len(avail[r]) <= Pool /\ Len(used[r]) <= Pool
           /\ Len(avail[0]) + Senders(Slave) + Len(used[0]) <= NEntries
           /\ Len(avail[1]) + Receiving(Slave) + Len(used[1]) + Senders(Master) <= Pool - NEntries
<1> DEFINE a0 == Len(avail[0])
           u0 == Len(used[0])
           s0 == Senders(Slave)
           r0 == Receiving(Master)
           a1 == Len(avail[1])
           u1 == Len(used[1])
           s1 == Senders(Master)
           r1 == Receiving(Slave)
<1>1. /\ a0 \in Nat /\ u0 \in Nat /\ s0 \in Nat /\ r0 \in Nat
      /\ a1 \in Nat /\ u1 \in Nat /\ s1 \in Nat /\ r1 \in Nat /\ pool_avail \in Nat
  BY CountTypes
<1>2. Balanced(a0, u0, s0, r0, a1, u1, s1, r1, pool_avail)
  BY DEF RingCount
<1> HIDE DEF a0, u0, s0, r0, a1, u1, s1, r1
<1>3. /\ a0 <= Pool /\ u0 <= Pool /\ a1 <= Pool /\ u1 <= Pool
      /\ a0 + s0 + u0 <= NEntries
      /\ a1 + r1 + u1 + s1 <= Pool - NEntries
  BY <1>1, <1>2, Bounds
<1> QED BY <1>3 DEF a0, u0, s0, r0, a1, u1, s1, r1

\* The places of a buffer, one by one.
LEMMA InPlace ==
    ASSUME TypeInv, RingCount, NEW b \in Buffers, NEW p
    PROVE  p \in Places(b) <=>
             \/ \E r \in {0, 1} : \E i \in 1..Len(avail[r]) : avail[r][i] = b /\ p = <<"avail", <<r, i>>>>
             \/ \E r \in {0, 1} : \E i \in 1..Len(used[r]) : used[r][i] = b /\ p = <<"used", <<r, i>>>>
             \/ \E t \in Contexts : tx_buf[t] = b /\ p = <<"tx", t>>
             \/ \E c \in Cores : rx_buf[c] = b /\ p = <<"rx", c>>
             \/ b > Pool - pool_avail /\ p = <<"pool", b>>
<1> DEFINE A == {q \in {0, 1} \X (1..Pool) : q[2] <= Len(avail[q[1]]) /\ avail[q[1]][q[2]] = b}
           U == {q \in {0, 1} \X (1..Pool) : q[2] <= Len(used[q[1]]) /\ used[q[1]][q[2]] = b}
<1>1. /\ avail[0] \in Seq(Buffers) /\ avail[1] \in Seq(Buffers)
      /\ used[0] \in Seq(Buffers) /\ used[1] \in Seq(Buffers)
  BY DEF TypeInv, RingTypes
<1>2. \A r \in {0, 1} : /\ Len(avail[r]) \in Nat /\ Len(avail[r]) <= Pool
                        /\ Len(used[r]) \in Nat /\ Len(used[r]) <= Pool
  BY CountTypes, RingBounds
<1>3. \A q : q \in A <=> \E r \in {0, 1} : \E i \in 1..Len(avail[r]) : avail[r][i] = b /\ q = <<r, i>>
  BY <1>2, RingAssumption
<1>4. \A q : q \in U <=> \E r \in {0, 1} : \E i \in 1..Len(used[r]) : used[r][i] = b /\ q = <<r, i>>
  BY <1>2, RingAssumption
<1> DEFINE TX == {x \in Contexts : tx_buf[x] = b}
           RX == {x \in Cores : rx_buf[x] = b}
           PL == {b} \cap {y \in Buffers : y > Pool - pool_avail}
<1>5. p \in Places(b) <=>
        \/ \E q \in A : p = <<"avail", q>>
        \/ \E q \in U : p = <<"used", q>>
        \/ \E t \in TX : p = <<"tx", t>>
        \/ \E c \in RX : p = <<"rx", c>>
        \/ \E x \in PL : p = <<"pool", x>>
  BY Zenon DEF Places
<1>6. \A x : x \in PL <=> x = b /\ b > Pool - pool_avail
  OBVIOUS
<1> HIDE DEF A, U, PL
<1>7. (\E q \in A : p = <<"avail", q>>)
        <=> \E r \in {0, 1} : \E i \in 1..Len(avail[r]) : avail[r][i] = b /\ p = <<"avail", <<r, i>>>>
  BY <1>3
<1>8. (\E q \in U : p = <<"used", q>>)
        <=> \E r \in {0, 1} : \E i \in 1..Len(used[r]) : used[r][i] = b /\ p = <<"used", <<r, i>>>>
  BY <1>4
<1>9. (\E x \in PL : p = <<"pool", x>>) <=> b > Pool - pool_avail /\ p = <<"pool", b>>
  BY <1>6
<1>10. /\ (\E t \in TX : p = <<"tx", t>>) <=> \E t \in Contexts : tx_buf[t] = b /\ p = <<"tx", t>>
       /\ (\E c \in RX : p = <<"rx", c>>) <=> \E c \in Cores : rx_buf[c] = b /\ p = <<"rx", c>>
  OBVIOUS
<1> QED BY <1>5, <1>7, <1>8, <1>9, <1>10

\* Every buffer is at one spot l: it is somewhere, and wherever it is, is l.
AtOne(b, l) ==
    /\ Has(avail[0], b) => l = <<"queue", "avail0">>
    /\ Has(avail[1], b) => l = <<"queue", "avail1">>
    /\ Has(used[0], b) => l = <<"queue", "used0">>
    /\ Has(used[1], b) => l = <<"queue", "used1">>
    /\ \A t \in Contexts : tx_buf[t] = b => l = <<"holder", <<"tx", t>>>>
    /\ \A c \in Cores : rx_buf[c] = b => l = <<"holder", <<"rx", c>>>>
    /\ b > Pool - pool_avail => l = <<"pool", "pool">>

AtSome(b) ==
    \/ \E r \in {0, 1} : Has(avail[r], b) \/ Has(used[r], b)
    \/ \E t \in Contexts : tx_buf[t] = b
    \/ \E c \in Cores : rx_buf[c] = b
    \/ b > Pool - pool_avail

\* Every buffer is at one spot, and only there.
LEMMA OneSpot ==
    ASSUME TypeInv, OwnedInv, NEW b \in Buffers
    PROVE  AtSome(b) /\ \E l : AtOne(b, l)
<1> DEFINE qs == QueuesOf(avail, used)
           hold == HoldingOf(tx_buf, rx_buf)
<1>1. Owned(qs, hold, pool_avail)
  BY DEF OwnedInv, OwnedBy
<1>2. /\ qs["avail0"] = avail[0] /\ qs["avail1"] = avail[1]
      /\ qs["used0"] = used[0] /\ qs["used1"] = used[1]
      /\ QueueNames = {"avail0", "avail1", "used0", "used1"}
  BY QueueUpdates DEF TypeInv, RingTypes, Rings, QueueNames
<1>3. /\ \A t \in Contexts : <<"tx", t>> \in Holders /\ hold[<<"tx", t>>] = tx_buf[t]
      /\ \A c \in Cores : <<"rx", c>> \in Holders /\ hold[<<"rx", c>>] = rx_buf[c]
  BY SenderUpdates, ReceiverUpdates DEF TypeInv, TxTypes, RxTypes, TxBufs, RxBufs
<1>4. \A h \in Holders : \/ \E t \in Contexts : h = <<"tx", t>>
                         \/ \E c \in Cores : h = <<"rx", c>>
  BY DEF Holders
<1> HIDE DEF qs, hold
<1>5. PICK l \in Spots : IsAt(qs, hold, pool_avail, l, b)
  BY <1>1 DEF Owned
<1>6. AllAt(qs, hold, pool_avail, b, l)
  BY <1>1, <1>5 DEF AllAt, Owned
<1>7. /\ \A n \in QueueNames : Has(qs[n], b) => <<"queue", n>> = l
      /\ \A h \in Holders : hold[h] = b => <<"holder", h>> = l
      /\ b > Pool - pool_avail => <<"pool", "pool">> = l
  BY <1>6, OnlyAt
<1>8. AtOne(b, l)
  BY <1>2, <1>3, <1>7 DEF AtOne
<1>9. AtSome(b)
  <2>1. ASSUME NEW n \in QueueNames, l = <<"queue", n>> PROVE Has(qs[n], b)
    BY <1>5, <2>1, AtSpot
  <2>2. ASSUME NEW h \in Holders, l = <<"holder", h>> PROVE hold[h] = b
    BY <1>5, <2>2 DEF IsAt
  <2>3. ASSUME l = <<"pool", "pool">> PROVE b > Pool - pool_avail
    BY <1>5, <2>3, AtSpot
  <2>4. CASE \E n \in QueueNames : Has(qs[n], b)
    BY <1>2, <2>4 DEF AtSome
  <2>5. CASE \E h \in Holders : hold[h] = b
    BY <1>3, <1>4, <2>5 DEF AtSome
  <2> QED BY <2>1, <2>2, <2>3, <2>4, <2>5, SpotCases DEF AtSome
<1> QED BY <1>8, <1>9

\* A buffer that is somewhere has a place.
LEMMA SomePlace ==
    ASSUME TypeInv, RingCount, NEW b \in Buffers, AtSome(b)
    PROVE  \E p : p \in Places(b)
<1>1. ASSUME NEW r \in {0, 1}, Has(avail[r], b) PROVE \E p : p \in Places(b)
  <2>1. PICK i \in 1..Len(avail[r]) : avail[r][i] = b
    BY <1>1 DEF Has
  <2>2. <<"avail", <<r, i>>>> \in Places(b)
    BY <2>1, InPlace
  <2> QED BY <2>2
<1>2. ASSUME NEW r \in {0, 1}, Has(used[r], b) PROVE \E p : p \in Places(b)
  <2>1. PICK i \in 1..Len(used[r]) : used[r][i] = b
    BY <1>2 DEF Has
  <2>2. <<"used", <<r, i>>>> \in Places(b)
    BY <2>1, InPlace
  <2> QED BY <2>2
<1>3. ASSUME NEW t \in Contexts, tx_buf[t] = b PROVE <<"tx", t>> \in Places(b)
  BY <1>3, InPlace
<1>4. ASSUME NEW c \in Cores, rx_buf[c] = b PROVE <<"rx", c>> \in Places(b)
  BY <1>4, InPlace
<1>5. ASSUME b > Pool - pool_avail PROVE <<"pool", b>> \in Places(b)
  BY <1>5, InPlace
<1> QED BY <1>1, <1>2, <1>3, <1>4, <1>5 DEF AtSome

\* The spot of a place, and that a place at a spot is the only one there.
SpotAt(p) ==
    IF p[1] = "avail" THEN <<"queue", IF p[2][1] = 0 THEN "avail0" ELSE "avail1">>
    ELSE IF p[1] = "used" THEN <<"queue", IF p[2][1] = 0 THEN "used0" ELSE "used1">>
    ELSE IF p[1] = "pool" THEN <<"pool", "pool">>
    ELSE <<"holder", p>>

\* A place of BufferConserved, without its position in a queue, is the spot of its buffer.
LEMMA PlaceSpot ==
    ASSUME TypeInv, RingCount, NEW b \in Buffers, NEW l, AtOne(b, l), NEW p \in Places(b)
    PROVE  SpotAt(p) = l
<1>1. ASSUME NEW r \in {0, 1}, NEW i \in 1..Len(avail[r]), avail[r][i] = b, p = <<"avail", <<r, i>>>>
      PROVE  SpotAt(p) = l
  <2>1. Has(avail[r], b)
    BY <1>1 DEF Has
  <2> QED BY <1>1, <2>1 DEF SpotAt, AtOne
<1>2. ASSUME NEW r \in {0, 1}, NEW i \in 1..Len(used[r]), used[r][i] = b, p = <<"used", <<r, i>>>>
      PROVE  SpotAt(p) = l
  <2>1. Has(used[r], b)
    BY <1>2 DEF Has
  <2> QED BY <1>2, <2>1 DEF SpotAt, AtOne
<1>3. ASSUME NEW t \in Contexts, tx_buf[t] = b, p = <<"tx", t>> PROVE SpotAt(p) = l
  BY <1>3 DEF SpotAt, AtOne
<1>4. ASSUME NEW c \in Cores, rx_buf[c] = b, p = <<"rx", c>> PROVE SpotAt(p) = l
  BY <1>4 DEF SpotAt, AtOne
<1>5. ASSUME b > Pool - pool_avail, p = <<"pool", b>> PROVE SpotAt(p) = l
  BY <1>5 DEF SpotAt, AtOne
<1> QED BY <1>1, <1>2, <1>3, <1>4, <1>5, InPlace

\* A buffer that is at one spot has one place there: no queue holds it twice.
LEMMA SamePlace ==
    ASSUME TypeInv, OwnedInv, RingCount, NEW b \in Buffers, NEW p \in Places(b), NEW q \in Places(b),
           SpotAt(p) = SpotAt(q)
    PROVE  p = q
<1>1. \A r \in {0, 1} : Distinct(avail[r]) /\ Distinct(used[r])
  <2>1. \A n \in QueueNames : Distinct(QueuesOf(avail, used)[n])
    BY DEF OwnedInv, OwnedBy, Owned
  <2> QED BY <2>1, QueueUpdates DEF TypeInv, RingTypes, Rings
<1> DEFINE InAvail(x) == \E r \in {0, 1} : \E i \in 1..Len(avail[r]) :
                           avail[r][i] = b /\ x = <<"avail", <<r, i>>>>
           InUsed(x) == \E r \in {0, 1} : \E i \in 1..Len(used[r]) :
                          used[r][i] = b /\ x = <<"used", <<r, i>>>>
           WithHolder(x) == \/ \E t \in Contexts : x = <<"tx", t>>
                            \/ \E c \in Cores : x = <<"rx", c>>
           InPool(x) == x = <<"pool", b>>
<1>2. \A x \in Places(b) : InAvail(x) \/ InUsed(x) \/ WithHolder(x) \/ InPool(x)
  BY InPlace
<1>3. /\ \A x : InAvail(x) => SpotAt(x) \in {<<"queue", "avail0">>, <<"queue", "avail1">>}
      /\ \A x : InUsed(x) => SpotAt(x) \in {<<"queue", "used0">>, <<"queue", "used1">>}
      /\ \A x : WithHolder(x) => SpotAt(x) = <<"holder", x>>
      /\ \A x : InPool(x) => SpotAt(x) = <<"pool", "pool">>
  BY DEF SpotAt
<1>4. ASSUME InAvail(p), InAvail(q) PROVE p = q
  <2>1. PICK r \in {0, 1} : \E i \in 1..Len(avail[r]) : avail[r][i] = b /\ p = <<"avail", <<r, i>>>>
    BY <1>4
  <2>2. PICK i \in 1..Len(avail[r]) : avail[r][i] = b /\ p = <<"avail", <<r, i>>>>
    BY <2>1
  <2>3. PICK s \in {0, 1} : \E j \in 1..Len(avail[s]) : avail[s][j] = b /\ q = <<"avail", <<s, j>>>>
    BY <1>4
  <2>4. PICK j \in 1..Len(avail[s]) : avail[s][j] = b /\ q = <<"avail", <<s, j>>>>
    BY <2>3
  <2>5. r = s
    BY <2>2, <2>4 DEF SpotAt
  <2>6. i = j
    BY <1>1, <2>2, <2>4, <2>5 DEF Distinct
  <2> QED BY <2>2, <2>4, <2>5, <2>6
<1>5. ASSUME InUsed(p), InUsed(q) PROVE p = q
  <2>1. PICK r \in {0, 1} : \E i \in 1..Len(used[r]) : used[r][i] = b /\ p = <<"used", <<r, i>>>>
    BY <1>5
  <2>2. PICK i \in 1..Len(used[r]) : used[r][i] = b /\ p = <<"used", <<r, i>>>>
    BY <2>1
  <2>3. PICK s \in {0, 1} : \E j \in 1..Len(used[s]) : used[s][j] = b /\ q = <<"used", <<s, j>>>>
    BY <1>5
  <2>4. PICK j \in 1..Len(used[s]) : used[s][j] = b /\ q = <<"used", <<s, j>>>>
    BY <2>3
  <2>5. r = s
    BY <2>2, <2>4 DEF SpotAt
  <2>6. i = j
    BY <1>1, <2>2, <2>4, <2>5 DEF Distinct
  <2> QED BY <2>2, <2>4, <2>5, <2>6
<1> HIDE DEF InAvail, InUsed, WithHolder
<1>6. ASSUME WithHolder(p), WithHolder(q) PROVE p = q
  BY <1>3, <1>6
<1> QED BY <1>2, <1>3, <1>4, <1>5, <1>6

\* Whatever sends race or fail, every buffer of the shared pool is in exactly
\* one place: no descriptor, sender or callback shares one and none is lost.
THEOREM EveryBufferConserved == Spec => []BufferConserved
<1>1. TypeInv /\ OwnedInv /\ RingCount => BufferConserved
  <2> SUFFICES ASSUME TypeInv, OwnedInv, RingCount, NEW b \in Buffers
               PROVE  Cardinality(Places(b)) = 1
    BY DEF BufferConserved
  <2>1. PICK l : AtOne(b, l)
    BY OneSpot
  <2>2. PICK p : p \in Places(b)
    BY OneSpot, SomePlace
  <2>3. \A q \in Places(b) : q = p
    BY <2>1, <2>2, PlaceSpot, SamePlace
  <2>4. Places(b) = {p}
    BY <2>2, <2>3
  <2> QED BY <2>4, FS_Singleton
<1> QED BY <1>1, TypeInit, TypeStep, OwnedInit, CountInit, ConservedStep, PTL DEF Spec

\* The descriptors of a ring that are in use are among the counted buffers.
LEMMA DescsCounted ==
    ASSUME TypeInv
    PROVE  /\ DescsInUse(0) = Len(avail[0]) + Senders(Slave) + Len(used[0])
           /\ DescsInUse(1) = Len(avail[1]) + Receiving(Slave) + Len(used[1])
<1>1. WithSlave(0) = SendersIn(tx_buf, Slave)
  BY DEF WithSlave, SendersIn
<1>2. Cardinality(WithSlave(1)) = Receiving(Slave)
  <2>1. CASE rx_buf[Slave] # NoBuffer
    <3>1. WithSlave(1) = {Slave}
      BY <2>1 DEF WithSlave
    <3> QED BY <2>1, <3>1, FS_Singleton DEF Receiving
  <2>2. CASE rx_buf[Slave] = NoBuffer
    <3>1. WithSlave(1) = {}
      BY <2>2 DEF WithSlave
    <3> QED BY <2>2, <3>1, FS_EmptySet DEF Receiving
  <2> QED BY <2>1, <2>2
<1> QED BY <1>1, <1>2 DEF DescsInUse, Senders

\* With a pool of at most twice the ring's size, as the zynqmp and rv64_virt
\* platforms configure it (0x40000 bytes, 512 buffers, for two vrings of 256), the
\* master's enqueue always finds a free descriptor, and so does a buffer it gives
\* back: "failed to enqueue buffer" cannot happen, however many threads send.
THEOREM EnqueueAlwaysFits == Pool <= 2 * NEntries => (Spec => []EnqueueNeverFails)
<1> SUFFICES ASSUME Pool <= 2 * NEntries PROVE Spec => []EnqueueNeverFails
  OBVIOUS
<1>1. TypeInv /\ RingCount => EnqueueNeverFails
  <2> SUFFICES ASSUME TypeInv, RingCount PROVE EnqueueNeverFails
    OBVIOUS
  <2>1. DescsInUse(0) <= NEntries
    BY DescsCounted, RingBounds
  <2>2. ASSUME NEW t \in Contexts, At(t, "enqueue"), CoreOf(t) = Master
        PROVE  DescsInUse(1) < NEntries
    <3>1. tx_buf[t] # NoBuffer
      BY <2>2 DEF TypeInv, TxHolds, At
    <3>2. t \in SendersIn(tx_buf, Master)
      BY <2>2, <3>1 DEF SendersIn
    <3>3. Senders(Master) # 0
      BY <3>2, FiniteSenders, FS_EmptySet DEF Senders
    <3> DEFINE n == Len(avail[1]) + Receiving(Slave) + Len(used[1])
               m == Senders(Master)
    <3>4. m \in Nat /\ n \in Nat /\ m # 0 /\ n + m <= Pool - NEntries /\ DescsInUse(1) = n
      BY <3>3, CountTypes, RingBounds, DescsCounted
    <3> HIDE DEF n, m
    <3> QED BY <3>4, RingAssumption
  <2> QED BY <2>1, <2>2 DEF EnqueueNeverFails, EnqueueSucceeds
<1> QED BY <1>1, TypeInit, TypeStep, CountInit, OwnedInit, ConservedStep, PTL DEF Spec

(***************************************************************************)
(* Contents. With callers that send oversized messages only on the master, *)
(* whose size check is never skipped, every copy stays within its buffer,  *)
(* and a buffer with a message is written by nobody until it was received. *)
(***************************************************************************)
FitsInv ==
    \A t \in Contexts : /\ tx_big[t] => CoreOf(t) \in BigFrom
                        /\ tx_pc[t] \in {"get", "fill", "enqueue"} => ~tx_big[t]

FilledInv ==
    \A t \in Contexts : /\ tx_pc[t] # "idle" => tx_data[t] \in Payloads
                        /\ tx_pc[t] = "enqueue" => content[tx_buf[t]] = tx_data[t]

\* A buffer with a holder is nowhere else.
LEMMA HeldApart ==
    ASSUME TypeInv, OwnedInv
    PROVE  /\ \A t \in Contexts : tx_buf[t] # NoBuffer =>
                /\ \A r \in {0, 1} : ~Has(avail[r], tx_buf[t]) /\ ~Has(used[r], tx_buf[t])
                /\ \A v \in Contexts : tx_buf[v] = tx_buf[t] => v = t
                /\ \A c \in Cores : rx_buf[c] # tx_buf[t]
           /\ \A c \in Cores : rx_buf[c] # NoBuffer =>
                /\ \A r \in {0, 1} : ~Has(avail[r], rx_buf[c]) /\ ~Has(used[r], rx_buf[c])
                /\ \A d \in Cores : rx_buf[d] = rx_buf[c] => d = c
                /\ \A t \in Contexts : tx_buf[t] # rx_buf[c]
<1>1. ASSUME NEW t \in Contexts, tx_buf[t] # NoBuffer
      PROVE  /\ \A r \in {0, 1} : ~Has(avail[r], tx_buf[t]) /\ ~Has(used[r], tx_buf[t])
             /\ \A v \in Contexts : tx_buf[v] = tx_buf[t] => v = t
             /\ \A c \in Cores : rx_buf[c] # tx_buf[t]
  <2>1. tx_buf[t] \in Buffers
    BY <1>1 DEF TypeInv, TxTypes
  <2>2. PICK l : AtOne(tx_buf[t], l)
    BY <2>1, OneSpot
  <2>3. l = <<"holder", <<"tx", t>>>>
    BY <2>2 DEF AtOne
  <2> QED BY <2>2, <2>3 DEF AtOne
<1>2. ASSUME NEW c \in Cores, rx_buf[c] # NoBuffer
      PROVE  /\ \A r \in {0, 1} : ~Has(avail[r], rx_buf[c]) /\ ~Has(used[r], rx_buf[c])
             /\ \A d \in Cores : rx_buf[d] = rx_buf[c] => d = c
             /\ \A t \in Contexts : tx_buf[t] # rx_buf[c]
  <2>1. rx_buf[c] \in Buffers
    BY <1>2 DEF TypeInv, RxTypes
  <2>2. PICK l : AtOne(rx_buf[c], l)
    BY <2>1, OneSpot
  <2>3. l = <<"holder", <<"rx", c>>>>
    BY <2>2 DEF AtOne
  <2> QED BY <2>2, <2>3 DEF AtOne
<1> QED BY <1>1, <1>2

\* No send has begun, so nothing is too long and nothing is filled.
LEMMA FitsInit == Init => FitsInv /\ FilledInv
BY DEF Init, FitsInv, FilledInv

\* A message too long for a buffer never gets past the size check.
LEMMA FitsStep ==
    ASSUME BigFrom \subseteq {Master}, TypeInv, FitsInv, [Next]_vars
    PROVE  FitsInv'
<1> USE DEF ringVars, txLocals, txVars, rxVars
<1>1. ASSUME NEW t \in Contexts, NEW data \in Payloads, NEW big \in BOOLEAN, NEW wait \in BOOLEAN,
             Send(t, data, big, wait)
      PROVE  FitsInv'
  BY <1>1 DEF TypeInv, TxTypes, FitsInv, Send, At, Goto
<1>2. ASSUME NEW t \in Contexts, Return(t) PROVE FitsInv'
  BY <1>2 DEF TypeInv, TxTypes, FitsInv, Return, Goto
<1>3. ASSUME NEW t \in Contexts, SendSizeOK(t) PROVE FitsInv'
  <2>1. ~tx_big[t]
    BY <1>3 DEF FitsInv, SendSizeOK, BufferSizeKnown
  <2> QED BY <1>3, <2>1 DEF TypeInv, TxTypes, FitsInv, SendSizeOK, Goto
<1>4. ASSUME NEW t \in Contexts, SendGotBuffer(t) \/ SendSleep(t) \/ SendFill(t) PROVE FitsInv'
  BY <1>4 DEF TypeInv, TxTypes, FitsInv, SendGotBuffer, SendSleep, SendFill, At, Goto
<1>5. CASE UNCHANGED <<tx_pc, tx_big>>
  BY <1>5 DEF FitsInv
<1> QED BY <1>1, <1>2, <1>3, <1>4, <1>5 DEF Next, SendStep, SendTooBig, SendNoBuffer,
             SendSizeKnown, SendEnqueue, RxNotified, RxFirst, RxNext, vars

\* The copy of a message that fits changes its own buffer only.
LEMMA FillsOwn ==
    ASSUME FitsInv, NEW t \in Contexts, SendFill(t)
    PROVE  content' = [b \in Buffers |-> IF b = tx_buf[t] THEN tx_data[t] ELSE content[b]]
<1>1. Overrun(t) = {}
  BY DEF FitsInv, SendFill, At, Overrun
<1> QED BY <1>1 DEF SendFill

\* What a sender has copied stays there until it enqueues the buffer.
LEMMA FilledStep ==
    ASSUME TypeInv, OwnedInv, FitsInv, FilledInv, [Next]_vars
    PROVE  FilledInv'
<1> USE DEF ringVars, txLocals, txVars, rxVars
<1>1. ASSUME NEW t \in Contexts, NEW data \in Payloads, NEW big \in BOOLEAN, NEW wait \in BOOLEAN,
             Send(t, data, big, wait)
      PROVE  FilledInv'
  BY <1>1 DEF TypeInv, TxTypes, FilledInv, Send, At, Goto
<1>2. ASSUME NEW t \in Contexts, Return(t), content' = content PROVE FilledInv'
  BY <1>2 DEF TypeInv, TxTypes, FilledInv, Return, Goto
<1>3. ASSUME NEW t \in Contexts, SendSizeOK(t) \/ SendSleep(t) PROVE FilledInv'
  BY <1>3 DEF TypeInv, TxTypes, FilledInv, SendSizeOK, SendSleep, At, Goto
<1>4. ASSUME NEW t \in Contexts, SendGotBuffer(t) PROVE FilledInv'
  BY <1>4 DEF TypeInv, TxTypes, FilledInv, SendGotBuffer, At, Goto
<1>5. ASSUME NEW t \in Contexts, SendFill(t) PROVE FilledInv'
  <2>1. content' = [b \in Buffers |-> IF b = tx_buf[t] THEN tx_data[t] ELSE content[b]]
    BY <1>5, FillsOwn
  <2>2. tx_buf[t] \in Buffers /\ tx_pc[t] = "fill" /\ tx_pc' = [tx_pc EXCEPT ![t] = "enqueue"]
        /\ UNCHANGED <<tx_buf, tx_data>>
    BY <1>5 DEF TypeInv, TxTypes, TxHolds, SendFill, At, Goto
  <2>3. ASSUME NEW v \in Contexts, tx_pc'[v] = "enqueue" PROVE content'[tx_buf[v]] = tx_data[v]
    <3>1. CASE v = t
      BY <2>1, <2>2, <3>1
    <3>2. CASE v # t
      <4>1. tx_pc[v] = "enqueue"
        BY <2>2, <2>3, <3>2 DEF TypeInv, TxTypes
      <4>2. tx_buf[v] \in Buffers /\ content[tx_buf[v]] = tx_data[v]
        BY <4>1 DEF TypeInv, TxTypes, TxHolds, FilledInv
      <4>3. tx_buf[v] # tx_buf[t]
        BY <2>2, <3>2, <4>1, HeldApart DEF TypeInv, TxHolds
      <4> QED BY <2>1, <4>2, <4>3
    <3> QED BY <3>1, <3>2
  <2> QED BY <2>2, <2>3 DEF FilledInv, TypeInv, TxTypes
<1>6. ASSUME NEW c \in Cores, RxNext(c) PROVE FilledInv'
  <2>1. content' = [content EXCEPT ![rx_buf[c]] = NoMsg] /\ rx_buf[c] # NoBuffer
        /\ UNCHANGED <<tx_pc, tx_buf, tx_data>>
    BY <1>6 DEF RxNext, TypeInv, RxHolds
  <2>2. ASSUME NEW v \in Contexts, tx_pc[v] = "enqueue" PROVE content'[tx_buf[v]] = tx_data[v]
    <3>1. tx_buf[v] \in Buffers /\ content[tx_buf[v]] = tx_data[v]
      BY <2>2 DEF TypeInv, TxTypes, TxHolds, FilledInv
    <3>2. tx_buf[v] # rx_buf[c]
      BY <2>1, HeldApart
    <3> QED BY <2>1, <3>1, <3>2 DEF TypeInv, SharedTypes
  <2> QED BY <2>1, <2>2 DEF FilledInv
<1>7. CASE UNCHANGED <<tx_pc, tx_data, tx_buf, content>>
  BY <1>7 DEF FilledInv
<1> QED BY <1>1, <1>2, <1>3, <1>4, <1>5, <1>6, <1>7 DEF Next, SendStep, SendTooBig, SendNoBuffer,
             SendSizeKnown, SendEnqueue, RxNotified, RxFirst, vars

\* A receive callback that goes on to the next message gets another buffer than
\* the one it gives back.
LEMMA NextDiffers ==
    ASSUME TypeInv, OwnedInv, NEW c \in Cores, RxNext(c)
    PROVE  rx_buf'[c] # rx_buf[c]
<1>1. rx_buf[c] # NoBuffer /\ rx_buf \in RxBufs
  BY DEF RxNext, TypeInv, RxHolds, RxTypes, RxBufs
<1>2. ~Has(used[0], rx_buf[c]) /\ ~Has(avail[1], rx_buf[c])
  BY <1>1, HeldApart
<1> DEFINE q == IF c = Master THEN used[0] ELSE avail[1]
<1>3. q \in Seq(Buffers) /\ ~Has(q, rx_buf[c])
  BY <1>2 DEF TypeInv, RingTypes
<1>4. rx_buf' = [rx_buf EXCEPT ![c] = IF q = <<>> THEN NoBuffer ELSE Head(q)]
  <2>1. CASE c = Master
    BY <2>1 DEF RxNext, GetRx, RxQueue
  <2>2. CASE c # Master
    BY <2>2 DEF RxNext, GetRx, RxQueue
  <2> QED BY <2>1, <2>2
<1> HIDE DEF q
<1>5. q # <<>> => Has(q, Head(q))
  <2>1. q # <<>> => 1 \in 1..Len(q) /\ q[1] = Head(q)
    BY <1>3
  <2> QED BY <2>1 DEF Has
<1> QED BY <1>1, <1>3, <1>4, <1>5 DEF RxBufs

\* As long as the master's callers alone send oversized messages: what an
\* endpoint callback looks at does not change under its hands until it returns,
\* whoever sends or receives meanwhile.
THEOREM CallbackReadsStable == BigFrom \subseteq {Master} => (Spec => CallbackDataStable)
<1> SUFFICES ASSUME BigFrom \subseteq {Master} PROVE Spec => CallbackDataStable
  OBVIOUS
<1>1. ASSUME TypeInv, OwnedInv, FitsInv, [Next]_vars
      PROVE  [\A c \in Cores :
                rx_pc[c] = "callback" /\ rx_buf'[c] = rx_buf[c]
                  => content'[rx_buf[c]] = content[rx_buf[c]]]_vars
  <2> SUFFICES ASSUME NEW c \in Cores, rx_pc[c] = "callback", rx_buf'[c] = rx_buf[c]
               PROVE  content'[rx_buf[c]] = content[rx_buf[c]]
    OBVIOUS
  <2>1. rx_buf[c] \in Buffers /\ rx_buf[c] # NoBuffer
    BY <1>1 DEF TypeInv, RxTypes, RxHolds
  <2>2. ASSUME NEW t \in Contexts, SendFill(t) PROVE content'[rx_buf[c]] = content[rx_buf[c]]
    <3>1. content' = [b \in Buffers |-> IF b = tx_buf[t] THEN tx_data[t] ELSE content[b]]
      BY <1>1, <2>2, FillsOwn
    <3>2. tx_buf[t] # rx_buf[c]
      BY <1>1, <2>1, HeldApart
    <3> QED BY <2>1, <3>1, <3>2
  <2>3. ASSUME NEW d \in Cores, RxNext(d) PROVE content'[rx_buf[c]] = content[rx_buf[c]]
    <3>1. c # d
      BY <1>1, <2>3, NextDiffers
    <3>2. rx_buf[d] # rx_buf[c]
      BY <1>1, <2>1, <3>1, HeldApart
    <3> QED BY <1>1, <2>1, <2>3, <3>2 DEF RxNext, TypeInv, SharedTypes
  <2>4. CASE content' = content
    BY <2>4
  <2> QED BY <1>1, <2>2, <2>3, <2>4 DEF Next, SendStep, Send, SendTooBig, SendSizeOK, SendGotBuffer,
               SendNoBuffer, SendSizeKnown, SendSleep, SendEnqueue, RxNotified, RxFirst, vars
<1> QED BY <1>1, TypeInit, TypeStep, OwnedInit, CountInit, ConservedStep, FitsInit, FitsStep, PTL
        DEF Spec, CallbackDataStable

(***************************************************************************)
(* The transport implements the channel. The messages on their way to core *)
(* c are the contents of the buffers in the ring it receives from.         *)
(***************************************************************************)
Contents(f, q) == [i \in 1..Len(q) |-> f[q[i]]]
ChanOf(f, a, u) == [c \in Cores |-> Contents(f, RxQueue(c, a, u))]
CurOf(f, pc, buf) == [c \in Cores |-> IF pc[c] = "callback" THEN f[buf[c]] ELSE NoMsg]

\* The contents of a ring follow the ring, and do not depend on other buffers.
LEMMA ContentsMove ==
    ASSUME NEW q \in Seq(Buffers), NEW f \in [Buffers -> Payloads \cup {NoMsg}]
    PROVE  /\ Contents(f, q) \in Seq(Payloads \cup {NoMsg})
           /\ \A b \in Buffers : Contents(f, Append(q, b)) = Append(Contents(f, q), f[b])
           /\ q # <<>> => /\ Contents(f, q) # <<>> /\ Head(Contents(f, q)) = f[Head(q)]
                          /\ Tail(Contents(f, q)) = Contents(f, Tail(q))
<1> DEFINE M == Payloads \cup {NoMsg}
<1>1. Len(q) \in Nat /\ \A i \in 1..Len(q) : q[i] \in Buffers
  OBVIOUS
<1>2. Contents(f, q) \in Seq(M) /\ Len(Contents(f, q)) = Len(q)
  BY <1>1 DEF Contents
<1>3. ASSUME NEW b \in Buffers PROVE Contents(f, Append(q, b)) = Append(Contents(f, q), f[b])
  <2>1. f[b] \in M /\ Len(Append(q, b)) = Len(q) + 1 /\ Append(q, b) \in Seq(Buffers)
    OBVIOUS
  <2> DEFINE l == Contents(f, Append(q, b))
             r == Append(Contents(f, q), f[b])
  <2>2. r \in Seq(M) /\ Len(r) = Len(q) + 1
    BY <1>2, <2>1, AppendProperties
  <2>3. l \in Seq(M) /\ Len(l) = Len(q) + 1
    BY <2>1 DEF Contents
  <2>4. \A i \in 1..(Len(q) + 1) : l[i] = r[i]
    <3> SUFFICES ASSUME NEW i \in 1..(Len(q) + 1) PROVE l[i] = r[i]
      OBVIOUS
    <3>1. l[i] = f[Append(q, b)[i]]
      BY <2>1 DEF Contents
    <3>2. CASE i \in 1..Len(q)
      <4>1. Append(q, b)[i] = q[i] /\ r[i] = Contents(f, q)[i]
        BY <1>2, <2>1, <3>2, AppendProperties
      <4> QED BY <3>1, <3>2, <4>1 DEF Contents
    <3>3. CASE i = Len(q) + 1
      BY <1>2, <2>1, <3>1, <3>3, AppendProperties
    <3>4. i \in 1..Len(q) \/ i = Len(q) + 1
      BY <1>1
    <3> QED BY <3>2, <3>3, <3>4
  <2> HIDE DEF l, r
  <2>5. l = r
    BY <2>2, <2>3, <2>4, SeqEqual
  <2> QED BY <2>5 DEF l, r
<1>4. ASSUME q # <<>>
      PROVE  /\ Contents(f, q) # <<>> /\ Head(Contents(f, q)) = f[Head(q)]
             /\ Tail(Contents(f, q)) = Contents(f, Tail(q))
  <2>1. Len(q) >= 1 /\ Head(q) = q[1] /\ Tail(q) \in Seq(Buffers) /\ Len(Tail(q)) = Len(q) - 1
    BY <1>4
  <2>2. Contents(f, q) # <<>>
    BY <1>1, <1>2, <2>1
  <2>3. Head(Contents(f, q)) = f[Head(q)]
    BY <1>1, <1>2, <2>1, <2>2 DEF Contents
  <2> DEFINE l == Tail(Contents(f, q))
             r == Contents(f, Tail(q))
  <2>4. l \in Seq(M) /\ Len(l) = Len(q) - 1
    BY <1>2, <2>2, HeadTailProperties
  <2>5. r \in Seq(M) /\ Len(r) = Len(q) - 1
    BY <2>1 DEF Contents
  <2>6. \A i \in 1..(Len(q) - 1) : l[i] = r[i]
    <3> SUFFICES ASSUME NEW i \in 1..(Len(q) - 1) PROVE l[i] = r[i]
      OBVIOUS
    <3>1. l[i] = Contents(f, q)[i + 1]
      BY <1>2, <2>2
    <3>2. i + 1 \in 1..Len(q) /\ Tail(q)[i] = q[i + 1]
      BY <1>1, <1>4
    <3> QED BY <2>1, <3>1, <3>2 DEF Contents
  <2> HIDE DEF l, r
  <2>7. l = r
    BY <2>4, <2>5, <2>6, SeqEqual
  <2> QED BY <2>2, <2>3, <2>7 DEF l, r
<1> QED BY <1>2, <1>3, <1>4

\* The contents of a queue depend on its buffers only.
LEMMA ContentsAgree ==
    ASSUME NEW q \in Seq(Buffers), NEW f, NEW g, \A b \in Buffers : Has(q, b) => f[b] = g[b]
    PROVE  Contents(f, q) = Contents(g, q)
<1>1. \A i \in 1..Len(q) : f[q[i]] = g[q[i]]
  BY DEF Has
<1> QED BY <1>1 DEF Contents

\* The refinement mapping in these terms.
LEMMA Mapping ==
    ASSUME TypeInv
    PROVE  /\ RxQueue(Master, avail, used) = used[0] /\ RxQueue(Slave, avail, used) = avail[1]
           /\ used[0] \in Seq(Buffers) /\ avail[1] \in Seq(Buffers)
           /\ content \in [Buffers -> Payloads \cup {NoMsg}]
BY DEF RxQueue, Master, Slave, TypeInv, RingTypes, SharedTypes

\* A step after which the same messages are under way and at the callbacks.
LEMMA ChannelStill ==
    ASSUME ChanOf(content, avail, used)' = ChanOf(content, avail, used),
           CurOf(content, rx_pc, rx_buf)' = CurOf(content, rx_pc, rx_buf)
    PROVE  UNCHANGED Channel!chanVars
BY DEF Channel!chanVars, ChanOf, CurOf, Contents

\* The channels begin empty.
LEMMA ChannelInit == Init => Channel!Init
<1> SUFFICES ASSUME Init PROVE Channel!Init
  OBVIOUS
<1>1. RxQueue(Master, avail, used) = <<>> /\ RxQueue(Slave, avail, used) = <<>>
  BY DEF Init, RxQueue, Master, Slave
<1>2. \A c \in Cores : RxQueue(c, avail, used) = <<>>
  BY <1>1 DEF Cores
<1>3. \A c \in Cores : [i \in 1..Len(RxQueue(c, avail, used)) |->
                          content[RxQueue(c, avail, used)[i]]] = <<>>
  BY <1>2
<1>4. \A c \in Cores : rx_pc[c] # "callback"
  BY DEF Init
<1> QED BY <1>3, <1>4 DEF Channel!Init

\* Steps of a send up to the enqueue: nobody sees what it does.
LEMMA SendHidden ==
    ASSUME TypeInv, OwnedInv, FitsInv,
           \/ \E t \in Contexts, data \in Payloads, big, wait \in BOOLEAN : Send(t, data, big, wait)
           \/ \E t \in Contexts : SendTooBig(t) \/ SendSizeOK(t) \/ SendGotBuffer(t)
                                  \/ SendNoBuffer(t) \/ SendSizeKnown(t) \/ SendSleep(t) \/ SendFill(t)
           \/ \E c \in Cores : RxNotified(c)
           \/ UNCHANGED vars
    PROVE  UNCHANGED Channel!chanVars
<1> USE DEF ringVars, txLocals, txVars, rxVars
<1>1. CASE UNCHANGED <<avail, used, content, rx_pc, rx_buf>>
  BY <1>1, ChannelStill DEF ChanOf, CurOf
<1>2. ASSUME NEW t \in Contexts, SendGotBuffer(t) PROVE UNCHANGED Channel!chanVars
  <2>1. UNCHANGED <<content, rx_pc, rx_buf>> /\ TakeTxSource(CoreOf(t))
    BY <1>2 DEF SendGotBuffer
  <2>2. used'[0] = used[0] /\ avail'[1] = avail[1]
    BY <2>1 DEF TakeTxSource, TypeInv, RingTypes
  <2>3. \A c \in Cores : RxQueue(c, avail', used') = RxQueue(c, avail, used)
    BY <2>2 DEF RxQueue
  <2>4. ChanOf(content, avail, used)' = ChanOf(content, avail, used)
    BY <2>1, <2>3 DEF ChanOf
  <2>5. CurOf(content, rx_pc, rx_buf)' = CurOf(content, rx_pc, rx_buf)
    BY <2>1 DEF CurOf
  <2> QED BY <2>4, <2>5, ChannelStill
<1>3. ASSUME NEW t \in Contexts, SendFill(t) PROVE UNCHANGED Channel!chanVars
  <2>1. /\ content' = [b \in Buffers |-> IF b = tx_buf[t] THEN tx_data[t] ELSE content[b]]
        /\ UNCHANGED <<avail, used, rx_pc, rx_buf>> /\ tx_buf[t] # NoBuffer
    BY <1>3, FillsOwn DEF SendFill, TypeInv, TxHolds, At
  <2>2. /\ ~Has(used[0], tx_buf[t]) /\ ~Has(avail[1], tx_buf[t])
        /\ \A c \in Cores : rx_buf[c] # tx_buf[t]
    BY <2>1, HeldApart
  <2>3. \A b \in Buffers : b # tx_buf[t] => content'[b] = content[b]
    BY <2>1
  <2>4. Contents(content', used[0]) = Contents(content, used[0])
    BY <2>2, <2>3, Mapping, ContentsAgree
  <2>5. Contents(content', avail[1]) = Contents(content, avail[1])
    BY <2>2, <2>3, Mapping, ContentsAgree
  <2>6. \A c \in Cores : Contents(content', RxQueue(c, avail, used))
                          = Contents(content, RxQueue(c, avail, used))
    BY <2>4, <2>5, Mapping DEF Cores
  <2>7. ChanOf(content, avail, used)' = ChanOf(content, avail, used)
    BY <2>1, <2>6 DEF ChanOf
  <2>8. \A c \in Cores : rx_pc[c] = "callback" => content'[rx_buf[c]] = content[rx_buf[c]]
    BY <2>2, <2>3 DEF TypeInv, RxTypes, RxHolds
  <2>9. CurOf(content, rx_pc, rx_buf)' = CurOf(content, rx_pc, rx_buf)
    BY <2>1, <2>8 DEF CurOf
  <2> QED BY <2>7, <2>9, ChannelStill
<1>4. ASSUME NEW c \in Cores, RxNotified(c) PROVE UNCHANGED Channel!chanVars
  <2>1. /\ UNCHANGED <<avail, used, content, rx_buf>>
        /\ \A d \in Cores : rx_pc'[d] = "callback" <=> rx_pc[d] = "callback"
    BY <1>4 DEF RxNotified, TypeInv, RxTypes
  <2> QED BY <2>1, ChannelStill DEF ChanOf, CurOf
<1> QED BY <1>1, <1>2, <1>3, <1>4 DEF Send, SendTooBig, SendSizeOK, SendNoBuffer, SendSizeKnown,
             SendSleep, vars

\* The enqueue posts the message to the peer, the one the caller passed.
LEMMA EnqueuePosts ==
    ASSUME TypeInv, FilledInv, NEW t \in Contexts, SendEnqueue(t),
           NEW peer \in Cores, peer = Peer(CoreOf(t)), NEW m \in Payloads, m = tx_data[t]
    PROVE  Channel!Post(peer, m)
<1> DEFINE c == CoreOf(t)
           b == tx_buf[t]
<1>1. /\ peer = Peer(c) /\ content[b] = m /\ b \in Buffers /\ c \in Cores
      /\ UNCHANGED <<content, rx_pc, rx_buf>>
  BY CoreOfType DEF SendEnqueue, FilledInv, At, TypeInv, TxTypes, TxHolds, rxVars
<1>2. \/ c = Master /\ avail' = [avail EXCEPT ![1] = Append(@, b)] /\ used' = used
      \/ c = Slave /\ used' = [used EXCEPT ![0] = Append(@, b)] /\ avail' = avail
  BY <1>1 DEF SendEnqueue, Cores
<1> HIDE DEF c, b
<1>3. \A d \in Cores : RxQueue(d, avail', used')
        = IF d = peer THEN Append(RxQueue(d, avail, used), b) ELSE RxQueue(d, avail, used)
  BY <1>1, <1>2 DEF RxQueue, Peer, Cores, Master, Slave, TypeInv, RingTypes
<1>4. \A d \in Cores : Contents(content, Append(RxQueue(d, avail, used), b))
                        = Append(Contents(content, RxQueue(d, avail, used)), m)
  <2>1. \A d \in Cores : RxQueue(d, avail, used) \in Seq(Buffers)
    BY Mapping DEF Cores
  <2> QED BY <1>1, <2>1, Mapping, ContentsMove
<1>5. \A d \in Cores : Contents(content', RxQueue(d, avail', used'))
        = IF d = peer THEN Append(Contents(content, RxQueue(d, avail, used)), m)
          ELSE Contents(content, RxQueue(d, avail, used))
  BY <1>1, <1>3, <1>4
<1>6. ChanOf(content, avail, used)'
        = [ChanOf(content, avail, used) EXCEPT ![peer] = Append(@, m)]
  BY <1>5 DEF ChanOf
<1> QED BY <1>1, <1>6 DEF Channel!Post, ChanOf, Contents

\* What the receive callback of c does to the rings messages arrive on, and to
\* the contents of the buffers that are not its own.
LEMMA ReceiveEffect ==
    ASSUME TypeInv, OwnedInv, NEW c \in Cores, RxFirst(c) \/ RxNext(c)
    PROVE  /\ \A d \in Cores : RxQueue(d, avail', used')
                = IF d = c /\ RxQueue(c, avail, used) # <<>> THEN Tail(RxQueue(d, avail, used))
                  ELSE RxQueue(d, avail, used)
           /\ rx_pc' = [rx_pc EXCEPT ![c] = IF RxQueue(c, avail, used) = <<>> THEN "idle" ELSE "callback"]
           /\ rx_buf' = [rx_buf EXCEPT ![c] = IF RxQueue(c, avail, used) = <<>> THEN NoBuffer
                                              ELSE Head(RxQueue(c, avail, used))]
           /\ \A b \in Buffers : b = rx_buf[c] \/ content'[b] = content[b]
<1>1. \/ GetRx(c, avail, used)
      \/ c = Master /\ GetRx(c, [avail EXCEPT ![0] = Append(@, rx_buf[c])], used)
      \/ c = Slave /\ GetRx(c, avail, [used EXCEPT ![1] = Append(@, rx_buf[c])])
  BY DEF RxFirst, RxNext, Cores
<1>2. PICK a, u : /\ GetRx(c, a, u) /\ a \in [{0, 1} -> Seq(Buffers)] /\ a[1] = avail[1]
                  /\ u \in [{0, 1} -> Seq(Buffers)] /\ u[0] = used[0]
  <2>1. CASE GetRx(c, avail, used)
    BY <2>1 DEF TypeInv, RingTypes
  <2>2. CASE RxNext(c)
    <3>1. rx_buf[c] \in Buffers
      BY <2>2 DEF RxNext, TypeInv, RxTypes, RxHolds
    <3> DEFINE a2 == [avail EXCEPT ![0] = Append(@, rx_buf[c])]
               u2 == [used EXCEPT ![1] = Append(@, rx_buf[c])]
    <3>2. /\ a2 \in [{0, 1} -> Seq(Buffers)] /\ a2[1] = avail[1]
          /\ u2 \in [{0, 1} -> Seq(Buffers)] /\ u2[0] = used[0]
          /\ avail \in [{0, 1} -> Seq(Buffers)] /\ used \in [{0, 1} -> Seq(Buffers)]
      BY <3>1, QueueTypes DEF TypeInv, RingTypes
    <3>3. GetRx(c, a2, used) \/ GetRx(c, avail, u2)
      BY <2>2 DEF RxNext
    <3> HIDE DEF a2, u2
    <3> QED BY <3>2, <3>3
  <2> QED BY <2>1, <2>2 DEF RxFirst
<1>3. \A d \in Cores : RxQueue(d, a, u) = RxQueue(d, avail, used)
  BY <1>2 DEF RxQueue
<1>4. /\ rx_pc' = [rx_pc EXCEPT ![c] = IF RxQueue(c, avail, used) = <<>> THEN "idle" ELSE "callback"]
      /\ rx_buf' = [rx_buf EXCEPT ![c] = IF RxQueue(c, avail, used) = <<>> THEN NoBuffer
                                         ELSE Head(RxQueue(c, avail, used))]
  BY <1>2, <1>3 DEF GetRx
<1>5. \A d \in Cores : RxQueue(d, avail', used')
        = IF d = c /\ RxQueue(c, avail, used) # <<>> THEN Tail(RxQueue(d, avail, used))
          ELSE RxQueue(d, avail, used)
  <2>1. CASE RxQueue(c, avail, used) = <<>>
    <3>1. avail' = a /\ used' = u
      BY <1>2, <1>3, <2>1 DEF GetRx
    <3> QED BY <1>3, <2>1, <3>1
  <2>2. CASE RxQueue(c, avail, used) # <<>>
    <3>1. /\ avail' = IF c = Slave THEN [a EXCEPT ![1] = Tail(@)] ELSE a
          /\ used' = IF c = Master THEN [u EXCEPT ![0] = Tail(@)] ELSE u
      BY <1>2, <1>3, <2>2 DEF GetRx
    <3> QED BY <1>2, <2>2, <3>1 DEF RxQueue, Cores, Master, Slave
  <2> QED BY <2>1, <2>2
<1>6. \A b \in Buffers : b = rx_buf[c] \/ content'[b] = content[b]
  BY DEF RxFirst, RxNext, TypeInv, SharedTypes
<1> QED BY <1>4, <1>5, <1>6

\* The receive callback delivers the next message, or is done with the last.
LEMMA ReceiveDelivers ==
    ASSUME TypeInv, OwnedInv, NEW c \in Cores, RxFirst(c) \/ RxNext(c)
    PROVE  Channel!Deliver(c) \/ Channel!Done(c)
<1> DEFINE Q(d) == RxQueue(d, avail, used)
<1>1. /\ \A d \in Cores : RxQueue(d, avail', used')
                = IF d = c /\ Q(c) # <<>> THEN Tail(Q(d)) ELSE Q(d)
      /\ rx_pc' = [rx_pc EXCEPT ![c] = IF Q(c) = <<>> THEN "idle" ELSE "callback"]
      /\ rx_buf' = [rx_buf EXCEPT ![c] = IF Q(c) = <<>> THEN NoBuffer ELSE Head(Q(c))]
      /\ \A b \in Buffers : b = rx_buf[c] \/ content'[b] = content[b]
  BY ReceiveEffect
<1>2. \A d \in Cores : Q(d) \in Seq(Buffers)
  BY Mapping DEF Cores
<1>3. \A d \in Cores, b \in Buffers : Has(Q(d), b) => b # rx_buf[c]
  <2>1. ASSUME NEW d \in Cores, NEW b \in Buffers, Has(Q(d), b), b = rx_buf[c] PROVE FALSE
    <3>1. rx_buf[c] # NoBuffer
      BY <2>1, RingAssumption DEF Buffers, NoBuffer
    <3>2. ~Has(used[0], b) /\ ~Has(avail[1], b)
      BY <2>1, <3>1, HeldApart
    <3> QED BY <2>1, <3>2, Mapping DEF Cores
  <2> QED BY <2>1
<1>4. \A d \in Cores : d # c /\ rx_pc[d] = "callback" => content'[rx_buf[d]] = content[rx_buf[d]]
  <2>1. ASSUME NEW d \in Cores, d # c, rx_pc[d] = "callback" PROVE content'[rx_buf[d]] = content[rx_buf[d]]
    <3>1. rx_buf[d] \in Buffers /\ rx_buf[d] # NoBuffer
      BY <2>1 DEF TypeInv, RxTypes, RxHolds
    <3>2. rx_buf[d] # rx_buf[c]
      BY <2>1, <3>1, HeldApart
    <3> QED BY <1>1, <3>1, <3>2
  <2> QED BY <2>1
<1>5. rx_pc \in [Cores -> {"idle", "first", "callback"}] /\ rx_buf \in [Cores -> Buffers \cup {NoBuffer}]
  BY DEF TypeInv, RxTypes
<1>6. content \in [Buffers -> Payloads \cup {NoMsg}]
  BY Mapping
<1> HIDE DEF Q
<1>7. \A d \in Cores : Contents(content', Q(d)) = Contents(content, Q(d))
  <2> SUFFICES ASSUME NEW d \in Cores PROVE Contents(content', Q(d)) = Contents(content, Q(d))
    OBVIOUS
  <2>1. \A b \in Buffers : Has(Q(d), b) => content'[b] = content[b]
    BY <1>1, <1>3
  <2> QED BY <1>2, <2>1, ContentsAgree
<1>8. CASE Q(c) = <<>>
  <2>1. ChanOf(content, avail, used)' = ChanOf(content, avail, used)
    <3>1. \A d \in Cores : Contents(content', RxQueue(d, avail', used')) = Contents(content, Q(d))
      BY <1>1, <1>7, <1>8
    <3> QED BY <3>1 DEF ChanOf, Q
  <2>2. CurOf(content, rx_pc, rx_buf)' = [CurOf(content, rx_pc, rx_buf) EXCEPT ![c] = NoMsg]
    BY <1>1, <1>4, <1>5, <1>8 DEF CurOf
  <2>3. Channel!Done(c)
    BY <2>1, <2>2 DEF Channel!Done, ChanOf, CurOf, Contents
  <2> QED BY <2>3
<1>9. CASE Q(c) # <<>>
  <2>1. Contents(content, Q(c)) # <<>> /\ Head(Contents(content, Q(c))) = content[Head(Q(c))]
        /\ Tail(Contents(content, Q(c))) = Contents(content, Tail(Q(c)))
    BY <1>2, <1>6, <1>9, ContentsMove
  <2>2. Head(Q(c)) \in Buffers /\ Tail(Q(c)) \in Seq(Buffers)
    BY <1>2, <1>9, QueueTypes
  <2>3. Has(Q(c), Head(Q(c))) /\ \A b \in Buffers : Has(Tail(Q(c)), b) => Has(Q(c), b)
    <3>1. /\ Len(Q(c)) \in Nat /\ Len(Q(c)) >= 1 /\ Head(Q(c)) = Q(c)[1]
          /\ Len(Tail(Q(c))) = Len(Q(c)) - 1
          /\ \A i \in 1..(Len(Q(c)) - 1) : Tail(Q(c))[i] = Q(c)[i + 1]
      BY <1>2, <1>9
    <3> QED BY <3>1 DEF Has
  <2>4. content'[Head(Q(c))] = content[Head(Q(c))]
    BY <1>1, <1>3, <2>2, <2>3
  <2>5. Contents(content', Tail(Q(c))) = Contents(content, Tail(Q(c)))
    <3>1. \A b \in Buffers : Has(Tail(Q(c)), b) => content'[b] = content[b]
      BY <1>1, <1>3, <2>3
    <3> QED BY <2>2, <3>1, ContentsAgree
  <2>6. ChanOf(content, avail, used)' = [ChanOf(content, avail, used) EXCEPT ![c] = Tail(@)]
    <3>1. \A d \in Cores : Contents(content', RxQueue(d, avail', used'))
                            = IF d = c THEN Tail(Contents(content, Q(d))) ELSE Contents(content, Q(d))
      BY <1>1, <1>7, <1>9, <2>1, <2>5
    <3> QED BY <3>1 DEF ChanOf, Q
  <2>7. ChanOf(content, avail, used)[c] = Contents(content, Q(c))
    BY DEF ChanOf, Q
  <2>8. CurOf(content, rx_pc, rx_buf)'
          = [CurOf(content, rx_pc, rx_buf) EXCEPT ![c] = Head(ChanOf(content, avail, used)[c])]
    BY <1>1, <1>4, <1>5, <1>9, <2>1, <2>4, <2>7 DEF CurOf
  <2>9. ChanOf(content, avail, used)[c] # <<>>
    BY <2>1, <2>7
  <2>10. Channel!Deliver(c)
    BY <2>6, <2>8, <2>9 DEF Channel!Deliver, ChanOf, CurOf, Contents
  <2> QED BY <2>10
<1> QED BY <1>8, <1>9

\* As long as the master's callers alone send oversized messages, the transport
\* implements the channel: whatever threads send on either core and however they
\* interleave with the receive callbacks, messages arrive in the order they were
\* enqueued, exactly once and as they were sent.
THEOREM TransportImplementsChannel == BigFrom \subseteq {Master} => (Spec => ImplementsChannel)
<1> SUFFICES ASSUME BigFrom \subseteq {Master} PROVE Spec => ImplementsChannel
  OBVIOUS
<1>1. ASSUME TypeInv, OwnedInv, FitsInv, FilledInv, [Next]_vars
      PROVE  [Channel!Next]_(Channel!chanVars)
  <2>1. ASSUME NEW t \in Contexts, SendEnqueue(t) PROVE Channel!Next
    <3>1. PICK peer \in Cores : peer = Peer(CoreOf(t))
      BY DEF Peer, Cores
    <3>2. PICK m \in Payloads : m = tx_data[t]
      BY <1>1, <2>1 DEF FilledInv, SendEnqueue, At
    <3>3. Channel!Post(peer, m)
      BY <1>1, <2>1, <3>1, <3>2, EnqueuePosts
    <3> QED BY <3>3 DEF Channel!Next
  <2>2. ASSUME NEW c \in Cores, RxFirst(c) \/ RxNext(c) PROVE Channel!Next
    BY <1>1, <2>2, ReceiveDelivers DEF Channel!Next
  <2> QED BY <1>1, <2>1, <2>2, SendHidden DEF Next, SendStep
<1> QED BY <1>1, ChannelInit, TypeInit, TypeStep, OwnedInit, CountInit, ConservedStep, FitsInit,
           FitsStep, FilledStep, PTL DEF Spec, ImplementsChannel, Channel!Spec

================================================================================
