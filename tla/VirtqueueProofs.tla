---------------------------- MODULE VirtqueueProofs ----------------------------
(***************************************************************************)
(* Theorems about Virtqueue, for every ring size N, index modulus M and    *)
(* set of buffers.                                                         *)
(***************************************************************************)
EXTENDS Virtqueue, Sequences, FiniteSetTheorems, WellFoundedInduction, NaturalsInduction, TLAPS

\* uint16_t arithmetic stays in range, and the ring slot of an index exists.
LEMMA IndexArithmetic ==
    /\ \A a \in Index : Inc(a) \in Index /\ Slot(a) \in Desc
    /\ \A a, b \in Index : Sub(a, b) \in Index
<1>1. \A a, b \in Index : Inc(a) \in Index /\ Sub(a, b) \in Index
  BY SizeAssumption DEF Index, Inc, Sub
<1>2. \A a \in Index : Slot(a) \in Desc
  BY SizeAssumption DEF Index, Desc, Slot
<1> QED BY <1>1, <1>2

\* The constants that occur as indices and links are in range.
LEMMA SmallIndices ==
    /\ 0 \in Desc /\ 0 \in Index /\ 0 \in Link /\ N + 1 \in Index
    /\ Desc \subseteq Link /\ Desc \subseteq Nat
    /\ \A d \in Link : d # CHAIN_END => d \in Desc
BY SizeAssumption DEF Desc, Index, Link, CHAIN_END

\* What a call in progress knows: the slot of virtqueue_get_buffer exists, and
\* there is room in vq_queued_cnt for the entry being added.
CallInv ==
    /\ m_pc = "get" => m_i \in Desc
    /\ m_pc \in {"add", "slot", "publish"} => m_queued_cnt < MaxBatch
    /\ s_pc = "return" => s_queued_cnt < MaxBatch

TypeInv == TypeOK /\ CallInv

\* virtqueue_create leaves every variable in its type.
LEMMA TypeInit == Init => TypeInv
<1> SUFFICES ASSUME Init PROVE TypeInv
  OBVIOUS
<1> USE DEF Init
<1>1. 0 \in Desc /\ 0 \in Index /\ 0 \in Link /\ N \in Int
  BY SmallIndices, SizeAssumption
<1>2. next \in [Desc -> Link] /\ more \in [Desc -> BOOLEAN]
  BY SizeAssumption DEF Desc, Link, CHAIN_END
<1>3. addr \in [Desc -> Bufs \cup {NoBuf}] /\ cookie \in [Desc -> Bufs \cup {NoBuf}]
  OBVIOUS
<1>4. avail_ring \in [Desc -> Desc] /\ used_ring \in [Desc -> Desc] /\ ndescs \in [Desc -> Int]
  BY <1>1
<1>5. m_queued_cnt \in 0..MaxBatch /\ s_queued_cnt \in 0..MaxBatch
  BY SizeAssumption, BatchAssumption
<1>6. TypeOK
  BY <1>1, <1>2, <1>3, <1>4, <1>5 DEF TypeOK
<1>7. CallInv
  BY DEF CallInv
<1> QED BY <1>6, <1>7 DEF TypeInv

\* No step of either core leaves the types.
LEMMA TypeStep == TypeInv /\ [Next]_vars => TypeInv'
<1> SUFFICES ASSUME TypeInv, [Next]_vars PROVE TypeInv'
  OBVIOUS
<1> USE DEF TypeInv, TypeOK, CallInv, descVars, availVars, usedVars, eventVars, freeVars,
            mLocals, mVars, sVars, pendVars
<1>1. ASSUME NEW needed \in 1..MaxChain, NEW buf \in Bufs, M_AddStart(needed, buf)
      PROVE  TypeInv'
  BY <1>1, ChainAssumption DEF M_AddStart, AssertHead, Desc, Link
<1>2. CASE M_AddDesc
  <2>1. m_idx \in Desc
    BY <1>2, SmallIndices DEF M_AddDesc, AssertNotEnd
  <2>2. m_idx' \in Link /\ m_i' \in Nat /\ m_pc' \in {"add", "slot"}
    BY <1>2, <2>1 DEF M_AddDesc
  <2>3. addr' \in [Desc -> Bufs \cup {NoBuf}] /\ more' \in [Desc -> BOOLEAN]
    <3>1. cookie[m_head] \in Bufs \cup {NoBuf} /\ NextFlag \in BOOLEAN
      BY <1>2 DEF M_AddDesc, NextFlag
    <3> QED BY <1>2, <3>1 DEF M_AddDesc
  <2> QED BY <1>2, <2>2, <2>3 DEF M_AddDesc
<1>3. CASE M_AddSlot
  <2>1. avail_ring' \in [Desc -> Desc]
    BY <1>3 DEF M_AddSlot
  <2>2. vq_free_cnt' \in Int
    BY <1>3 DEF M_AddSlot
  <2> QED BY <1>3, <2>1, <2>2 DEF M_AddSlot
<1>4. CASE M_AddPublish
  <2>1. avail_idx' \in Index /\ m_queued_cnt' \in 0..MaxBatch
    BY <1>4, IndexArithmetic, BatchAssumption DEF M_AddPublish
  <2> QED BY <1>4, <2>1, SmallIndices DEF M_AddPublish, M_Leave
<1>5. CASE M_Get
  <2>1. vq_used_cons_idx' \in Index /\ m_i' \in Desc /\ m_i' \in Nat
    BY <1>5, IndexArithmetic, SmallIndices DEF M_Get
  <2> QED BY <1>5, <2>1 DEF M_Get
<1>6. CASE M_FreeStart
  <2>1. used_ring[m_i] \in Desc
    BY <1>6 DEF M_FreeStart
  <2>2. m_head' \in Desc /\ m_idx' \in Link /\ vq_free_cnt' \in Int /\ m_i' \in Nat
    BY <1>6, <2>1, SmallIndices DEF M_FreeStart
  <2>3. ndescs' \in [Desc -> Int]
    BY <1>6, <2>1 DEF M_FreeStart
  <2> QED BY <1>6, <2>2, <2>3 DEF M_FreeStart
<1>7. CASE M_FreeStep
  <2>1. m_idx' \in Link
    BY <1>7, SmallIndices DEF M_FreeStep
  <2>2. ndescs' \in [Desc -> Int]
    BY <1>7 DEF M_FreeStep
  <2> QED BY <1>7, <2>1, <2>2 DEF M_FreeStep
<1>8. CASE M_FreeEnd
  <2>1. next' \in [Desc -> Link] /\ cookie' \in [Desc -> Bufs \cup {NoBuf}]
    BY <1>8 DEF M_FreeEnd
  <2>2. vq_desc_head_idx' \in Link
    BY <1>8, SmallIndices DEF M_FreeEnd
  <2> QED BY <1>8, <2>1, <2>2, SmallIndices DEF M_FreeEnd, M_Leave
<1>9. CASE M_Kick
  <2>1. s_pending' \in BOOLEAN
    BY <1>9, Zenon DEF M_Kick
  <2>2. m_queued_cnt' \in 0..MaxBatch
    BY <1>9, BatchAssumption, SizeAssumption DEF M_Kick
  <2> QED BY <1>9, <2>1, <2>2 DEF M_Kick
<1>10. CASE M_GetEmpty
  BY <1>10 DEF M_GetEmpty
<1>11. CASE M_DisableCb
  <2>1. used_event' \in Index /\ no_interrupt' \in BOOLEAN
    BY <1>11, IndexArithmetic, SmallIndices DEF M_DisableCb
  <2> QED BY <1>11, <2>1 DEF M_DisableCb
<1>12. CASE M_EnableCb
  <2>1. used_event' \in Index /\ no_interrupt' \in BOOLEAN
    BY <1>12 DEF M_EnableCb
  <2> QED BY <1>12, <2>1 DEF M_EnableCb
<1>13. CASE M_EnableCheck
  BY <1>13 DEF M_EnableCheck
<1>14. CASE M_Notification
  BY <1>14 DEF M_Notification
<1>15. CASE S_Take
  <2>1. vq_available_idx' \in Index /\ s_slot' \in Desc
    BY <1>15, IndexArithmetic DEF S_Take
  <2> QED BY <1>15, <2>1 DEF S_Take
<1>16. CASE S_TakeRead
  <2>1. held' \subseteq Desc \X (Bufs \cup {NoBuf})
    BY <1>16 DEF S_TakeRead
  <2> QED BY <1>16, <2>1, SmallIndices DEF S_TakeRead
<1>17. ASSUME NEW h \in held, S_ReturnSlot(h) PROVE TypeInv'
  <2>1. h[1] \in Desc
    BY <1>17
  <2>2. used_ring' \in [Desc -> Desc] /\ held' \subseteq Desc \X (Bufs \cup {NoBuf})
    BY <1>17, <2>1 DEF S_ReturnSlot
  <2> QED BY <1>17, <2>1, <2>2 DEF S_ReturnSlot
<1>18. CASE S_ReturnPublish
  <2>1. used_idx' \in Index /\ s_queued_cnt' \in 0..MaxBatch
    BY <1>18, IndexArithmetic, BatchAssumption DEF S_ReturnPublish
  <2> QED BY <1>18, <2>1, SmallIndices DEF S_ReturnPublish
<1>19. CASE S_Kick
  <2>1. m_pending' \in BOOLEAN
    BY <1>19, Zenon DEF S_Kick
  <2>2. s_queued_cnt' \in 0..MaxBatch
    BY <1>19, BatchAssumption, SizeAssumption DEF S_Kick
  <2> QED BY <1>19, <2>1, <2>2 DEF S_Kick
<1>20. CASE S_TakeEmpty
  BY <1>20 DEF S_TakeEmpty
<1>21. CASE S_DisableCb
  <2>1. avail_event' \in Index /\ no_notify' \in BOOLEAN
    BY <1>21, IndexArithmetic, SmallIndices DEF S_DisableCb
  <2> QED BY <1>21, <2>1 DEF S_DisableCb
<1>22. CASE S_EnableCb
  <2>1. avail_event' \in Index /\ no_notify' \in BOOLEAN
    BY <1>22 DEF S_EnableCb
  <2> QED BY <1>22, <2>1 DEF S_EnableCb
<1>23. CASE S_EnableCheck
  BY <1>23 DEF S_EnableCheck
<1>24. CASE S_Notification
  BY <1>24 DEF S_Notification
<1>25. CASE UNCHANGED vars
  BY <1>25 DEF vars
<1> QED
  BY <1>1, <1>2, <1>3, <1>4, <1>5, <1>6, <1>7, <1>8, <1>9, <1>10, <1>11, <1>12, <1>13, <1>14,
      <1>15, <1>16, <1>17, <1>18, <1>19, <1>20, <1>21, <1>22, <1>23, <1>24, <1>25 DEF Next

\* Every variable of the virtqueue stays in its type, for every ring size.
THEOREM TypeCorrect == Spec => []TypeOK
<1>1. Spec => []TypeInv
  BY TypeInit, TypeStep, PTL DEF Spec
<1> QED BY <1>1, PTL DEF TypeInv

--------------------------------------------------------------------------------
(***************************************************************************)
(* No wakeup is lost. A waiting side is armed: its suppression field lets  *)
(* the next kick through. Unless a notification is latched, every entry in *)
(* its ring was added since the other side's last kick, so vq_queued_cnt   *)
(* counts at least as many.                                                *)
(***************************************************************************)
SlaveArmed == IF EventIdx THEN avail_event = vq_available_idx ELSE ~no_notify
MasterArmed == IF EventIdx THEN used_event = vq_used_cons_idx ELSE ~no_interrupt

SlaveWaits ==
    /\ s_wait \/ s_pc = "arm" => SlaveArmed
    /\ s_wait => s_pc \in {"idle", "return"}
    /\ s_wait /\ ~s_pending => virtqueue_navail <= m_queued_cnt

MasterWaits ==
    /\ m_wait \/ m_pc = "arm" => MasterArmed
    /\ m_wait => m_pc \notin {"get", "arm"}
    /\ m_wait /\ ~m_pending => virtqueue_nused <= s_queued_cnt

WaitInv == TypeInv /\ SlaveWaits /\ MasterWaits

slaveWaitVars == <<avail_idx, vq_available_idx, m_queued_cnt, avail_event, no_notify,
                   s_wait, s_pending, s_pc>>
masterWaitVars == <<used_idx, vq_used_cons_idx, s_queued_cnt, used_event, no_interrupt,
                    m_wait, m_pending>>

\* Steps that leave what a waiting side depends on alone keep it waiting safely.
LEMMA SlaveFrame == SlaveWaits /\ UNCHANGED slaveWaitVars => SlaveWaits'
BY DEF SlaveWaits, SlaveArmed, slaveWaitVars, virtqueue_navail

\* The same for the master, whose waiting state m_pc is not part of the tuple.
LEMMA MasterFrame ==
    /\ MasterWaits /\ UNCHANGED masterWaitVars
    /\ m_wait => m_pc' \notin {"get", "arm"}
    /\ m_pc' = "arm" => m_pc = "arm"
    => MasterWaits'
BY DEF MasterWaits, MasterArmed, masterWaitVars, virtqueue_nused

\* Adding one entry to a ring that holds at most q of them: the distance of
\* its indices grows by one and does not wrap.
LEMMA OneMore ==
    ASSUME NEW a \in Index, NEW b \in Index, NEW q \in 0..(MaxBatch - 1), Sub(a, b) <= q
    PROVE  Sub(Inc(a), b) <= q + 1
BY SizeAssumption, BatchAssumption DEF Sub, Inc, Index

\* A kick after q adds, with 1..q entries in the ring and the event index at
\* the consumer's position, notifies.
LEMMA KickReaches ==
    ASSUME NEW a \in Index, NEW b \in Index, NEW q \in 0..MaxBatch, Sub(a, b) <= q,
           ~vring_need_event(b, a, Sub(a, q))
    PROVE  Sub(a, b) = 0
BY SizeAssumption, BatchAssumption DEF Sub, Index, vring_need_event

\* Equal indices and an empty ring are the same thing.
LEMMA EmptyRing ==
    ASSUME NEW a \in Index, NEW b \in Index
    PROVE  /\ Sub(a, b) \in 0..(M - 1)
           /\ Sub(a, b) = 0 <=> a = b
BY SizeAssumption DEF Sub, Index

\* After virtqueue_create both sides wait, armed, on empty rings.
LEMMA WaitInit == Init => WaitInv
<1> SUFFICES ASSUME Init PROVE SlaveWaits /\ MasterWaits
  BY TypeInit DEF WaitInv
<1>1. virtqueue_navail = 0 /\ virtqueue_nused = 0
  BY SizeAssumption DEF Init, virtqueue_navail, virtqueue_nused, Sub
<1>2. SlaveArmed /\ MasterArmed
  BY DEF Init, SlaveArmed, MasterArmed
<1> QED BY <1>1, <1>2 DEF Init, SlaveWaits, MasterWaits

\* Every step keeps a waiting slave armed and its unannounced entries counted.
LEMMA SlaveStep ==
    ASSUME EventIdx => Rearm, TypeInv, SlaveWaits, [Next]_vars
    PROVE  SlaveWaits'
<1> USE DEF TypeInv, TypeOK
<1>1. CASE M_AddPublish
  <2>1. m_queued_cnt \in 0..(MaxBatch - 1) /\ m_queued_cnt' = m_queued_cnt + 1
    BY <1>1, BatchAssumption DEF M_AddPublish, CallInv
  <2>2. virtqueue_navail <= m_queued_cnt => virtqueue_navail' <= m_queued_cnt'
    BY <1>1, <2>1, OneMore DEF M_AddPublish, sVars, virtqueue_navail
  <2>3. UNCHANGED <<vq_available_idx, avail_event, no_notify, s_wait, s_pending, s_pc>>
    BY <1>1 DEF M_AddPublish, sVars, eventVars, pendVars
  <2> QED BY <2>2, <2>3 DEF SlaveWaits, SlaveArmed
<1>2. CASE M_Kick
  <2>1. UNCHANGED <<avail_idx, vq_available_idx, avail_event, no_notify, s_wait, s_pc>>
    BY <1>2 DEF M_Kick, sVars, eventVars, availVars
  <2>2. m_queued_cnt' = 0 /\ (~s_pending' => ~s_pending /\ ~MustNotifySlave)
    BY <1>2 DEF M_Kick
  <2>3. ASSUME s_wait', ~s_pending' PROVE virtqueue_navail' <= m_queued_cnt'
    <3>1. virtqueue_navail <= m_queued_cnt /\ SlaveArmed /\ ~MustNotifySlave
      BY <2>1, <2>2, <2>3 DEF SlaveWaits
    <3>2. virtqueue_navail = 0
      BY <3>1, KickReaches DEF SlaveArmed, MustNotifySlave, virtqueue_navail
    <3> QED BY <2>1, <2>2, <3>2 DEF virtqueue_navail
  <2> QED BY <2>1, <2>3 DEF SlaveWaits, SlaveArmed
<1>3. CASE S_TakeEmpty
  <2>1. SlaveArmed' /\ s_pc' = "idle"
    BY <1>3 DEF S_TakeEmpty, SlaveArmed, eventVars
  <2>2. virtqueue_navail' = 0
    BY <1>3, EmptyRing DEF S_TakeEmpty, AvailPending, virtqueue_navail, availVars
  <2> QED BY <1>3, <2>1, <2>2 DEF S_TakeEmpty, SlaveWaits, mVars
<1>4. CASE S_EnableCb
  <2>1. SlaveArmed'
    BY <1>4 DEF S_EnableCb, SlaveArmed
  <2> QED BY <1>4, <2>1 DEF S_EnableCb, SlaveWaits
<1>5. CASE S_EnableCheck
  <2>1. SlaveArmed' /\ s_pc' = "idle"
    BY <1>5 DEF S_EnableCheck, SlaveWaits, SlaveArmed, eventVars
  <2>2. s_wait' => virtqueue_navail' = 0
    <3>1. s_wait' => ~(virtqueue_navail > 0)
      BY <1>5, Zenon DEF S_EnableCheck
    <3>2. virtqueue_navail \in 0..(M - 1)
      BY EmptyRing DEF virtqueue_navail
    <3>3. virtqueue_navail' = virtqueue_navail
      BY <1>5 DEF S_EnableCheck, virtqueue_navail, availVars
    <3> QED BY <3>1, <3>2, <3>3
  <2> QED BY <1>5, <2>1, <2>2 DEF S_EnableCheck, SlaveWaits, mVars
<1>6. CASE S_Take \/ S_DisableCb \/ S_Notification
  BY <1>6 DEF S_Take, S_DisableCb, S_Notification, SlaveWaits, sVars
<1>7. CASE S_TakeRead \/ S_ReturnPublish \/ \E h \in held : S_ReturnSlot(h)
  BY <1>7 DEF S_TakeRead, S_ReturnPublish, S_ReturnSlot, SlaveWaits, SlaveArmed,
     virtqueue_navail, availVars, eventVars, mVars, pendVars
<1>8. CASE \/ \E needed \in 1..MaxChain, buf \in Bufs : M_AddStart(needed, buf)
           \/ M_AddDesc \/ M_AddSlot \/ M_Get \/ M_FreeStart \/ M_FreeStep \/ M_FreeEnd
           \/ M_GetEmpty \/ M_DisableCb \/ M_EnableCb \/ M_EnableCheck \/ M_Notification
           \/ S_Kick \/ UNCHANGED vars
  <2>1. UNCHANGED slaveWaitVars
    BY <1>8 DEF M_AddStart, M_AddDesc, M_AddSlot, M_Get, M_FreeStart, M_FreeStep, M_FreeEnd,
       M_GetEmpty, M_DisableCb, M_EnableCb, M_EnableCheck, M_Notification, S_Kick, vars,
       slaveWaitVars, availVars, eventVars, mVars, sVars, pendVars
  <2> QED BY <2>1, SlaveFrame
<1> QED BY <1>1, <1>2, <1>3, <1>4, <1>5, <1>6, <1>7, <1>8 DEF Next

\* Every step keeps a waiting master armed and its unannounced entries counted.
LEMMA MasterStep ==
    ASSUME EventIdx => Rearm, TypeInv, MasterWaits, [Next]_vars
    PROVE  MasterWaits'
<1> USE DEF TypeInv, TypeOK
<1>1. CASE S_ReturnPublish
  <2>1. s_queued_cnt \in 0..(MaxBatch - 1) /\ s_queued_cnt' = s_queued_cnt + 1
    BY <1>1, BatchAssumption DEF S_ReturnPublish, CallInv
  <2>2. virtqueue_nused <= s_queued_cnt => virtqueue_nused' <= s_queued_cnt'
    BY <1>1, <2>1, OneMore DEF S_ReturnPublish, mVars, virtqueue_nused
  <2>3. UNCHANGED <<vq_used_cons_idx, used_event, no_interrupt, m_wait, m_pending, m_pc>>
    BY <1>1 DEF S_ReturnPublish, mVars, eventVars, pendVars
  <2> QED BY <2>2, <2>3 DEF MasterWaits, MasterArmed
<1>2. CASE S_Kick
  <2>1. UNCHANGED <<used_idx, vq_used_cons_idx, used_event, no_interrupt, m_wait, m_pc>>
    BY <1>2 DEF S_Kick, mVars, eventVars, usedVars
  <2>2. s_queued_cnt' = 0 /\ (~m_pending' => ~m_pending /\ ~MustNotifyMaster)
    BY <1>2 DEF S_Kick
  <2>3. ASSUME m_wait', ~m_pending' PROVE virtqueue_nused' <= s_queued_cnt'
    <3>1. virtqueue_nused <= s_queued_cnt /\ MasterArmed /\ ~MustNotifyMaster
      BY <2>1, <2>2, <2>3 DEF MasterWaits
    <3>2. virtqueue_nused = 0
      BY <3>1, KickReaches DEF MasterArmed, MustNotifyMaster, virtqueue_nused
    <3> QED BY <2>1, <2>2, <3>2 DEF virtqueue_nused
  <2> QED BY <2>1, <2>3 DEF MasterWaits, MasterArmed
<1>3. CASE M_GetEmpty
  <2>1. MasterArmed' /\ m_pc' = "idle"
    BY <1>3 DEF M_GetEmpty, MasterArmed, eventVars
  <2>2. virtqueue_nused' = 0
    BY <1>3, EmptyRing DEF M_GetEmpty, UsedPending, virtqueue_nused, usedVars
  <2> QED BY <1>3, <2>1, <2>2 DEF M_GetEmpty, MasterWaits, sVars
<1>4. CASE M_EnableCb
  <2>1. MasterArmed'
    BY <1>4 DEF M_EnableCb, MasterArmed
  <2> QED BY <1>4, <2>1 DEF M_EnableCb, MasterWaits
<1>5. CASE M_EnableCheck
  <2>1. MasterArmed' /\ m_pc' = "idle"
    BY <1>5 DEF M_EnableCheck, MasterWaits, MasterArmed, eventVars
  <2>2. m_wait' => virtqueue_nused' = 0
    <3>1. m_wait' => ~(virtqueue_nused > 0)
      BY <1>5, Zenon DEF M_EnableCheck
    <3>2. virtqueue_nused \in 0..(M - 1)
      BY EmptyRing DEF virtqueue_nused
    <3>3. virtqueue_nused' = virtqueue_nused
      BY <1>5 DEF M_EnableCheck, virtqueue_nused, usedVars
    <3> QED BY <3>1, <3>2, <3>3
  <2> QED BY <1>5, <2>1, <2>2 DEF M_EnableCheck, MasterWaits, sVars
<1>6. CASE M_Get \/ M_DisableCb \/ M_Notification
  BY <1>6 DEF M_Get, M_DisableCb, M_Notification, MasterWaits, mVars
<1>7. CASE \/ \E needed \in 1..MaxChain, buf \in Bufs : M_AddStart(needed, buf)
           \/ M_AddDesc \/ M_AddSlot \/ M_AddPublish \/ M_Kick
           \/ M_FreeStart \/ M_FreeStep \/ M_FreeEnd
  <2>1. UNCHANGED masterWaitVars
    BY <1>7 DEF M_AddStart, M_AddDesc, M_AddSlot, M_AddPublish, M_Kick, M_FreeStart, M_FreeStep,
       M_FreeEnd, masterWaitVars, usedVars, eventVars, sVars, pendVars
  <2>2. m_pc' # "arm" /\ (m_wait => m_pc' # "get")
    BY <1>7 DEF M_AddStart, M_AddDesc, M_AddSlot, M_AddPublish, M_Kick, M_FreeStart, M_FreeStep,
       M_FreeEnd, M_Leave
  <2> QED BY <2>1, <2>2, MasterFrame
<1>8. CASE \/ S_Take \/ S_TakeRead \/ (\E h \in held : S_ReturnSlot(h))
           \/ S_TakeEmpty \/ S_DisableCb \/ S_EnableCb \/ S_EnableCheck \/ S_Notification
           \/ UNCHANGED vars
  <2>1. UNCHANGED <<masterWaitVars, m_pc>>
    BY <1>8 DEF S_Take, S_TakeRead, S_ReturnSlot, S_TakeEmpty, S_DisableCb, S_EnableCb,
       S_EnableCheck, S_Notification, vars, masterWaitVars, usedVars, eventVars, mVars, sVars,
       pendVars
  <2> QED BY <2>1, MasterFrame DEF MasterWaits
<1> QED BY <1>1, <1>2, <1>3, <1>4, <1>5, <1>6, <1>7, <1>8 DEF Next

\* No wakeup is lost, with either way of suppressing notifications: whenever a
\* side waits for its callback with entries in its ring, the notification is
\* latched or the other side has still to kick. With EVENT_IDX this needs
\* callers that re-arm before they wait.
THEOREM WakeupsReachWaiters == (EventIdx => Rearm) => (Spec => []NoLostWakeup)
<1> SUFFICES ASSUME EventIdx => Rearm PROVE Spec => []NoLostWakeup
  OBVIOUS
<1>1. WaitInv /\ [Next]_vars => WaitInv'
  BY TypeStep, SlaveStep, MasterStep DEF WaitInv
<1>2. WaitInv => NoLostWakeup
  <2> SUFFICES ASSUME WaitInv PROVE NoLostWakeup
    OBVIOUS
  <2> USE DEF WaitInv, TypeInv, TypeOK
  <2>1. ASSUME s_wait, avail_idx # vq_available_idx, ~s_pending PROVE m_queued_cnt # 0
    BY <2>1, EmptyRing DEF SlaveWaits, virtqueue_navail
  <2>2. ASSUME m_wait, used_idx # vq_used_cons_idx, ~m_pending PROVE s_queued_cnt # 0
    BY <2>2, EmptyRing DEF MasterWaits, virtqueue_nused
  <2> QED BY <2>1, <2>2 DEF NoLostWakeup
<1> QED BY WaitInit, <1>1, <1>2, PTL DEF Spec

--------------------------------------------------------------------------------
(***************************************************************************)
(* Slots of the rings. An index is N times something and its slot, so less *)
(* than N indices in a row have slots that differ.                         *)
(***************************************************************************)
\* Division with remainder.
LEMMA Division ==
    ASSUME NEW n \in Nat \ {0}, NEW a \in Nat
    PROVE  (a \div n) \in Int /\ a = n * (a \div n) + (a % n)
OBVIOUS

\* No multiple of n lies between 0 and n.
LEMMA NoMultiple == ASSUME NEW n \in Nat \ {0}, NEW k \in Int PROVE ~(0 < n * k /\ n * k < n)
<1>1. CASE k <= 0
  <2>1. n * k <= 0
    BY <1>1
  <2> QED BY <2>1
<1>2. CASE k >= 1
  <2>1. n * k >= n
    BY <1>2
  <2> QED BY <2>1
<1> QED BY <1>1, <1>2

\* Differences of multiples are multiples.
LEMMA Distribute ==
    ASSUME NEW n \in Int, NEW x \in Int, NEW y \in Int, NEW z \in Int
    PROVE  n * (x - y) = n * x - n * y /\ n * (x - y + z) = n * x - n * y + n * z
OBVIOUS

\* An index and the modulus, as multiples of N and a slot.
LEMMA Multiples ==
    /\ \A a \in Index : \E x \in Int : a = N * x + Slot(a)
    /\ \E z \in Int : M = N * z
<1>1. ASSUME NEW a \in Nat PROVE \E x \in Int : a = N * x + (a % N)
  BY Division, SizeAssumption
<1>2. \A a \in Index : \E x \in Int : a = N * x + Slot(a)
  <2> TAKE a \in Index
  <2>1. a \in Nat
    BY SizeAssumption DEF Index
  <2> QED BY <1>1, <2>1 DEF Slot
<1>3. PICK z \in Int : M = N * z + (M % N)
  BY <1>1, SizeAssumption
<1>4. M = N * z
  <2> DEFINE p == N * z
  <2>1. p \in Int /\ M = p + 0
    BY <1>3, SizeAssumption
  <2> HIDE DEF p
  <2>2. M = p
    BY <2>1
  <2> QED BY <2>2 DEF p
<1> QED BY <1>2, <1>4

\* Indices less than N apart have different slots: a ring of N slots holds N
\* entries in a row.
LEMMA SlotDiffer ==
    ASSUME NEW a \in Index, NEW b \in Index, Sub(a, b) \in 1..(N - 1)
    PROVE  Slot(a) # Slot(b)
<1> SUFFICES ASSUME Slot(a) = Slot(b) PROVE FALSE
  OBVIOUS
<1>1. PICK x \in Int : a = N * x + Slot(a)
  BY Multiples
<1>2. PICK y \in Int : b = N * y + Slot(b)
  BY Multiples
<1>3. PICK z \in Int : M = N * z
  BY Multiples
<1>4. Slot(a) \in Int
  <2>1. Slot(a) \in Desc
    BY IndexArithmetic
  <2> QED BY <2>1, SizeAssumption DEF Desc
<1>5. \/ Sub(a, b) = N * x - N * y
      \/ Sub(a, b) = N * x - N * y + N * z
  <2> DEFINE p == N * x
             q == N * y
             s == Slot(a)
  <2>1. p \in Int /\ q \in Int /\ s \in Int /\ a = p + s /\ b = q + s
    BY <1>1, <1>2, <1>4, SizeAssumption
  <2>2. a - b = p - q
    <3> HIDE DEF p, q, s
    <3> QED BY <2>1
  <2> QED BY <2>2, <1>3, SizeAssumption DEF Sub, Index
<1>6. \E k \in Int : Sub(a, b) = N * k
  BY <1>5, Distribute, SizeAssumption
<1> QED BY <1>6, NoMultiple, SizeAssumption

\* The producer's index p moves on, in a ring that is not full of indices: p
\* itself joins the entries from c on.
LEMMA Produced ==
    ASSUME NEW p \in Index, NEW c \in Index, Sub(p, c) < M - 1
    PROVE  /\ Sub(Inc(p), c) = Sub(p, c) + 1
           /\ \A i \in Index : Sub(i, c) < Sub(Inc(p), c) <=> Sub(i, c) < Sub(p, c) \/ i = p
BY SizeAssumption DEF Sub, Inc, Index

\* The consumer's index c moves on: c leaves the entries.
LEMMA Consumed ==
    ASSUME NEW p \in Index, NEW c \in Index, p # c
    PROVE  /\ Sub(p, Inc(c)) = Sub(p, c) - 1 /\ Sub(Inc(c), 1) = c
           /\ \A i \in Index : Sub(i, Inc(c)) < Sub(p, Inc(c)) <=> Sub(i, c) < Sub(p, c) /\ i # c
BY SizeAssumption DEF Sub, Inc, Index

\* Where the k-th entry from c on is.
LEMMA Positions ==
    ASSUME NEW c \in Index, NEW n \in 0..(M - 1)
    PROVE  /\ \A k \in 0..n : Ahead(c, k) \in Index /\ Sub(Ahead(c, k), c) = k
           /\ \A i \in Index : Ahead(c, Sub(i, c)) = i
BY SizeAssumption DEF Sub, Ahead, Index

\* There are N descriptors.
LEMMA Descriptors ==
    /\ IsFiniteSet(Desc) /\ Cardinality(Desc) = N
    /\ \A d \in Desc : IsFiniteSet(Desc \ {d}) /\ Cardinality(Desc \ {d}) = N - 1
<1>1. IsFiniteSet(Desc) /\ Cardinality(Desc) = N
  BY FS_Interval, SizeAssumption DEF Desc
<1> QED BY <1>1, FS_RemoveElement

--------------------------------------------------------------------------------
(***************************************************************************)
(* Every chain has one owner. A head is at a place: a position of the      *)
(* avail or of the used ring that was not consumed yet, with the slave's   *)
(* caller, or in a call of either side. Every step moves one head from one *)
(* place to another, or takes one from the free chain, or gives it back.   *)
(***************************************************************************)
AvailPos(i) == i \in Index /\ Sub(i, vq_available_idx) < virtqueue_navail
UsedPos(i) == i \in Index /\ Sub(i, vq_used_cons_idx) < virtqueue_nused

\* Head d is at place s; x is the position in a ring, or the buffer held.
IsAt(s, x, d) ==
    \/ s = "avail" /\ AvailPos(x) /\ avail_ring[Slot(x)] = d
    \/ s = "used" /\ UsedPos(x) /\ used_ring[Slot(x)] = d
    \/ s = "held" /\ <<d, x>> \in held
    \/ s = "take" /\ x = 0 /\ s_pc = "take" /\ avail_ring[s_slot] = d
    \/ s = "return" /\ x = 0 /\ s_pc = "return" /\ s_head = d
    \/ s = "get" /\ x = 0 /\ m_pc = "get" /\ used_ring[m_i] = d
    \/ s = "master" /\ x = 0 /\ m_pc \in {"add", "slot", "publish", "free"} /\ m_head = d

OnePlace ==
    \A d \in Desc : \A s, t, x, y : IsAt(s, x, d) /\ IsAt(t, y, d) => s = t /\ x = y
CookieKept ==
    \A d \in Desc : cookie[d] # NoBuf <=> \E s, x : IsAt(s, x, d)

\* The slot a call has claimed is that of the index it moved, or is going to.
SlotInv ==
    /\ s_pc = "take" => s_slot = Slot(Sub(vq_available_idx, 1))
    /\ m_pc = "get" => m_i = Slot(Sub(vq_used_cons_idx, 1))
    /\ m_pc = "publish" => avail_ring[Slot(avail_idx)] = m_head
    /\ s_pc = "return" => used_ring[Slot(used_idx)] = s_head

OwnerInv == SlotInv /\ OnePlace /\ CookieKept

\* A row of entries whose heads differ and are in a set T of descriptors is no
\* longer than T.
Distinct(ring, b, n, T) ==
    \A i, j \in Index :
      /\ Sub(i, b) < n => ring[Slot(i)] \in T
      /\ Sub(i, b) < n /\ Sub(j, b) < n /\ ring[Slot(i)] = ring[Slot(j)] => i = j

\* A row of different entries from a set is not longer than the set is large.
LEMMA RowFits ==
    ASSUME NEW ring, NEW b \in Index, NEW n \in 0..(M - 1), NEW T, IsFiniteSet(T),
           Distinct(ring, b, n, T)
    PROVE  n <= Cardinality(T)
<1> DEFINE S == 0..(n - 1)
           f == [k \in S |-> ring[Slot(Ahead(b, k))]]
<1>1. IsFiniteSet(S) /\ Cardinality(S) = n
  <2>1. 0 \in Int /\ n - 1 \in Int /\ n \in Nat
    BY SizeAssumption
  <2>2. IsFiniteSet(S) /\ Cardinality(S) = IF 0 > n - 1 THEN 0 ELSE n - 1 - 0 + 1
    BY <2>1, FS_Interval
  <2> QED BY <2>1, <2>2
<1>2. \A k \in S : Ahead(b, k) \in Index /\ Sub(Ahead(b, k), b) = k /\ k < n
  BY Positions
<1>3. f \in [S -> T]
  BY <1>2 DEF Distinct
<1>4. \A k, l \in S : f[k] = f[l] => k = l
  BY <1>2 DEF Distinct
<1>5. Cardinality(T) \in Nat
  BY FS_CardinalityType
<1> SUFFICES ASSUME Cardinality(T) < Cardinality(S) PROVE FALSE
  BY <1>1, <1>5
<1> HIDE DEF S, f
<1>6. \E k, l \in S : k # l /\ f[k] = f[l]
  BY <1>1, <1>3, FS_PigeonHole
<1> QED BY <1>4, <1>6

\* The entries from the one before c on, up to p.
LEMMA OneBefore ==
    ASSUME NEW p \in Index, NEW c \in Index, Sub(p, c) < M - 1
    PROVE  /\ Sub(c, 1) \in Index /\ Sub(p, Sub(c, 1)) = Sub(p, c) + 1
           /\ ~(Sub(Sub(c, 1), c) < Sub(p, c))
           /\ \A i \in Index : Sub(i, Sub(c, 1)) < Sub(p, c) + 1
                                 <=> i = Sub(c, 1) \/ Sub(i, c) < Sub(p, c)
BY SizeAssumption DEF Sub, Index

\* The entries up to p have other slots than p, if there are less than N.
LEMMA SlotFree ==
    ASSUME NEW p \in Index, NEW c \in Index, Sub(p, c) <= N - 1
    PROVE  \A i \in Index : Sub(i, c) < Sub(p, c) => Slot(i) # Slot(p)
<1> SUFFICES ASSUME NEW i \in Index, Sub(i, c) < Sub(p, c) PROVE Slot(p) # Slot(i)
  OBVIOUS
<1>1. Sub(p, i) \in 1..(N - 1)
  BY SizeAssumption DEF Sub, Index
<1> QED BY <1>1, SlotDiffer

\* The distances of the indices are below M.
LEMMA Distances ==
    ASSUME TypeInv
    PROVE  virtqueue_navail \in 0..(M - 1) /\ virtqueue_nused \in 0..(M - 1)
BY EmptyRing DEF TypeInv, TypeOK, virtqueue_navail, virtqueue_nused

\* While a head is somewhere else, the avail ring and the slot being read have
\* room for it: writing avail->ring[avail->idx] overwrites nothing.
LEMMA AvailRoom ==
    ASSUME TypeInv, SlotInv, OnePlace, NEW d \in Desc, NEW s, NEW x, IsAt(s, x, d),
           s \notin {"avail", "take"}
    PROVE  /\ virtqueue_navail <= N - 1
           /\ s_pc = "take" => virtqueue_navail + 1 <= N - 1 /\ Slot(avail_idx) # s_slot
           /\ \A i : AvailPos(i) => Slot(i) # Slot(avail_idx)
<1> DEFINE c == vq_available_idx
           n == virtqueue_navail
<1>t. /\ avail_idx \in Index /\ c \in Index /\ avail_ring \in [Desc -> Desc]
      /\ n \in 0..(M - 1) /\ n = Sub(avail_idx, c)
  BY Distances DEF TypeInv, TypeOK, virtqueue_navail
<1>d. IsFiniteSet(Desc \ {d}) /\ Cardinality(Desc \ {d}) = N - 1
  BY Descriptors
<1>1. \A i \in Index : Sub(i, c) < n => IsAt("avail", i, avail_ring[Slot(i)])
  BY DEF IsAt, AvailPos
<1>2. \A i \in Index : avail_ring[Slot(i)] \in Desc
  BY <1>t, IndexArithmetic
<1>3. Distinct(avail_ring, c, n, Desc \ {d})
  <2>1. ASSUME NEW i \in Index, Sub(i, c) < n PROVE avail_ring[Slot(i)] \in Desc \ {d}
    BY <1>1, <1>2, <2>1 DEF OnePlace
  <2>2. ASSUME NEW i \in Index, NEW j \in Index, Sub(i, c) < n, Sub(j, c) < n,
               avail_ring[Slot(i)] = avail_ring[Slot(j)]
        PROVE  i = j
    <3>1. IsAt("avail", i, avail_ring[Slot(i)]) /\ IsAt("avail", j, avail_ring[Slot(i)])
      BY <1>1, <2>2
    <3> QED BY <3>1, <1>2 DEF OnePlace
  <2> QED BY <2>1, <2>2 DEF Distinct
<1>4. n <= N - 1
  BY <1>t, <1>d, <1>3, RowFits
<1>5. ASSUME s_pc = "take" PROVE n + 1 <= N - 1
  <2>1. n + 1 \in 0..(M - 1) /\ n < M - 1
    BY <1>4, <1>t, SizeAssumption
  <2> DEFINE b == Sub(c, 1)
  <2>2. /\ b \in Index /\ ~(Sub(b, c) < n)
        /\ \A i \in Index : Sub(i, b) < n + 1 <=> i = b \/ Sub(i, c) < n
    BY <2>1, <1>t, OneBefore
  <2>3. IsAt("take", 0, avail_ring[Slot(b)])
    BY <1>5 DEF IsAt, SlotInv
  <2> HIDE DEF b, n, c
  <2>4. ASSUME NEW i \in Index, Sub(i, b) < n + 1
        PROVE  avail_ring[Slot(i)] \in Desc \ {d}
    BY <1>1, <1>2, <2>2, <2>3, <2>4 DEF OnePlace
  <2>5. ASSUME NEW i \in Index, NEW j \in Index, Sub(i, b) < n + 1, Sub(j, b) < n + 1,
               avail_ring[Slot(i)] = avail_ring[Slot(j)]
        PROVE  i = j
    <3>1. CASE i = b /\ j = b
      BY <3>1
    <3>2. CASE i = b /\ j # b
      BY <3>2, <1>1, <1>2, <2>2, <2>3, <2>5 DEF OnePlace
    <3>3. CASE i # b /\ j = b
      BY <3>3, <1>1, <1>2, <2>2, <2>3, <2>5 DEF OnePlace
    <3>4. CASE i # b /\ j # b
      <4>1. IsAt("avail", i, avail_ring[Slot(i)]) /\ IsAt("avail", j, avail_ring[Slot(i)])
        BY <3>4, <1>1, <2>2, <2>5
      <4> QED BY <4>1, <1>2 DEF OnePlace
    <3> QED BY <3>1, <3>2, <3>3, <3>4
  <2>6. Distinct(avail_ring, b, n + 1, Desc \ {d})
    BY <2>4, <2>5 DEF Distinct
  <2> QED BY <2>1, <2>2, <2>6, <1>d, RowFits
<1>6. ASSUME s_pc = "take" PROVE Slot(avail_idx) # s_slot
  <2>1. Sub(avail_idx, Sub(c, 1)) \in 1..(N - 1) /\ Sub(c, 1) \in Index
    BY <1>t, <1>4, <1>5, <1>6, OneBefore, SizeAssumption
  <2>2. s_slot = Slot(Sub(c, 1))
    BY <1>6 DEF SlotInv
  <2> QED BY <2>1, <2>2, <1>t, SlotDiffer
<1>7. \A i : AvailPos(i) => Slot(i) # Slot(avail_idx)
  BY <1>t, <1>4, SlotFree DEF AvailPos
<1> QED BY <1>4, <1>5, <1>6, <1>7

\* The same for the used ring and the entry virtqueue_get_buffer is reading.
LEMMA UsedRoom ==
    ASSUME TypeInv, SlotInv, OnePlace, NEW d \in Desc, NEW s, NEW x, IsAt(s, x, d),
           s \notin {"used", "get"}
    PROVE  /\ virtqueue_nused <= N - 1
           /\ m_pc = "get" => virtqueue_nused + 1 <= N - 1 /\ Slot(used_idx) # m_i
           /\ \A i : UsedPos(i) => Slot(i) # Slot(used_idx)
<1> DEFINE c == vq_used_cons_idx
           n == virtqueue_nused
<1>t. /\ used_idx \in Index /\ c \in Index /\ used_ring \in [Desc -> Desc]
      /\ n \in 0..(M - 1) /\ n = Sub(used_idx, c)
  BY Distances DEF TypeInv, TypeOK, virtqueue_nused
<1>d. IsFiniteSet(Desc \ {d}) /\ Cardinality(Desc \ {d}) = N - 1
  BY Descriptors
<1>1. \A i \in Index : Sub(i, c) < n => IsAt("used", i, used_ring[Slot(i)])
  BY DEF IsAt, UsedPos
<1>2. \A i \in Index : used_ring[Slot(i)] \in Desc
  BY <1>t, IndexArithmetic
<1>3. Distinct(used_ring, c, n, Desc \ {d})
  <2>1. ASSUME NEW i \in Index, Sub(i, c) < n PROVE used_ring[Slot(i)] \in Desc \ {d}
    BY <1>1, <1>2, <2>1 DEF OnePlace
  <2>2. ASSUME NEW i \in Index, NEW j \in Index, Sub(i, c) < n, Sub(j, c) < n,
               used_ring[Slot(i)] = used_ring[Slot(j)]
        PROVE  i = j
    <3>1. IsAt("used", i, used_ring[Slot(i)]) /\ IsAt("used", j, used_ring[Slot(i)])
      BY <1>1, <2>2
    <3> QED BY <3>1, <1>2 DEF OnePlace
  <2> QED BY <2>1, <2>2 DEF Distinct
<1>4. n <= N - 1
  BY <1>t, <1>d, <1>3, RowFits
<1>5. ASSUME m_pc = "get" PROVE n + 1 <= N - 1
  <2>1. n + 1 \in 0..(M - 1) /\ n < M - 1
    BY <1>4, <1>t, SizeAssumption
  <2> DEFINE b == Sub(c, 1)
  <2>2. /\ b \in Index /\ ~(Sub(b, c) < n)
        /\ \A i \in Index : Sub(i, b) < n + 1 <=> i = b \/ Sub(i, c) < n
    BY <2>1, <1>t, OneBefore
  <2>3. IsAt("get", 0, used_ring[Slot(b)])
    BY <1>5 DEF IsAt, SlotInv
  <2> HIDE DEF b, n, c
  <2>4. ASSUME NEW i \in Index, Sub(i, b) < n + 1
        PROVE  used_ring[Slot(i)] \in Desc \ {d}
    BY <1>1, <1>2, <2>2, <2>3, <2>4 DEF OnePlace
  <2>5. ASSUME NEW i \in Index, NEW j \in Index, Sub(i, b) < n + 1, Sub(j, b) < n + 1,
               used_ring[Slot(i)] = used_ring[Slot(j)]
        PROVE  i = j
    <3>1. CASE i = b /\ j = b
      BY <3>1
    <3>2. CASE i = b /\ j # b
      BY <3>2, <1>1, <1>2, <2>2, <2>3, <2>5 DEF OnePlace
    <3>3. CASE i # b /\ j = b
      BY <3>3, <1>1, <1>2, <2>2, <2>3, <2>5 DEF OnePlace
    <3>4. CASE i # b /\ j # b
      <4>1. IsAt("used", i, used_ring[Slot(i)]) /\ IsAt("used", j, used_ring[Slot(i)])
        BY <3>4, <1>1, <2>2, <2>5
      <4> QED BY <4>1, <1>2 DEF OnePlace
    <3> QED BY <3>1, <3>2, <3>3, <3>4
  <2>6. Distinct(used_ring, b, n + 1, Desc \ {d})
    BY <2>4, <2>5 DEF Distinct
  <2> QED BY <2>1, <2>2, <2>6, <1>d, RowFits
<1>6. ASSUME m_pc = "get" PROVE Slot(used_idx) # m_i
  <2>1. Sub(used_idx, Sub(c, 1)) \in 1..(N - 1) /\ Sub(c, 1) \in Index
    BY <1>t, <1>4, <1>5, <1>6, OneBefore, SizeAssumption
  <2>2. m_i = Slot(Sub(c, 1))
    BY <1>6 DEF SlotInv
  <2> QED BY <2>1, <2>2, <1>t, SlotDiffer
<1>7. \A i : UsedPos(i) => Slot(i) # Slot(used_idx)
  BY <1>t, <1>4, SlotFree DEF UsedPos
<1> QED BY <1>4, <1>5, <1>6, <1>7

\* Head d0 goes from place s0, x0 to place t0, y0.
Moved(s0, x0, t0, y0, d0) ==
    \A d \in Desc : \A s, x :
      IsAt(s, x, d)' <=> \/ IsAt(s, x, d) /\ ~(s = s0 /\ x = x0 /\ d = d0)
                         \/ s = t0 /\ x = y0 /\ d = d0
NothingMoved == \A d \in Desc : \A s, x : IsAt(s, x, d)' <=> IsAt(s, x, d)

\* A head that moves is in one place still.
LEMMA MoveKeeps ==
    ASSUME OnePlace, CookieKept, NEW d0 \in Desc, NEW s0, NEW x0, NEW t0, NEW y0,
           IsAt(s0, x0, d0), cookie' = cookie, Moved(s0, x0, t0, y0, d0)
    PROVE  OnePlace' /\ CookieKept'
<1>1. ASSUME NEW d \in Desc, NEW s, NEW t, NEW x, NEW y, IsAt(s, x, d)', IsAt(t, y, d)'
      PROVE  s = t /\ x = y
  <2>1. CASE d # d0
    BY <1>1, <2>1 DEF Moved, OnePlace
  <2>2. CASE d = d0
    BY <1>1, <2>2 DEF Moved, OnePlace
  <2> QED BY <2>1, <2>2
<1>2. ASSUME NEW d \in Desc PROVE cookie'[d] # NoBuf <=> \E s, x : IsAt(s, x, d)'
  <2>1. CASE d # d0
    BY <2>1 DEF Moved, CookieKept
  <2>2. CASE d = d0
    BY <2>2 DEF Moved, CookieKept
  <2> QED BY <2>1, <2>2
<1> QED BY <1>1, <1>2 DEF OnePlace, CookieKept

\* When no head changes its place and no cookie its value, both invariants stay.
LEMMA NothingKeeps ==
    ASSUME OnePlace, CookieKept, cookie' = cookie, NothingMoved
    PROVE  OnePlace' /\ CookieKept'
BY DEF OnePlace, CookieKept, NothingMoved

\* What the places of the heads depend on.
placeVars == <<avail_ring, avail_idx, vq_available_idx, used_ring, used_idx, vq_used_cons_idx,
               held, s_pc, s_slot, s_head, m_pc, m_head, m_i, cookie>>

\* Steps that leave the rings, the held chains and the locals alone move nothing.
LEMMA OwnerFrame == OwnerInv /\ UNCHANGED placeVars => OwnerInv'
<1> SUFFICES ASSUME OwnerInv, UNCHANGED placeVars PROVE OwnerInv'
  OBVIOUS
<1> USE DEF placeVars, OwnerInv
<1>1. NothingMoved
  BY DEF NothingMoved, IsAt, AvailPos, UsedPos, virtqueue_navail, virtqueue_nused
<1>2. SlotInv'
  BY DEF SlotInv
<1> QED BY <1>1, <1>2, NothingKeeps

\* virtqueue_create: all descriptors are free.
LEMMA OwnerInit == Init => OwnerInv
<1> SUFFICES ASSUME Init PROVE OwnerInv
  OBVIOUS
<1>1. virtqueue_navail = 0 /\ virtqueue_nused = 0 /\ vq_available_idx = 0 /\ vq_used_cons_idx = 0
  BY SizeAssumption DEF Init, virtqueue_navail, virtqueue_nused, Sub
<1>2. \A i \in Index : ~(Sub(i, 0) < 0)
  BY SizeAssumption DEF Sub, Index
<1>3. \A s, x, d : ~IsAt(s, x, d)
  BY <1>1, <1>2 DEF Init, IsAt, AvailPos, UsedPos
<1> QED BY <1>3 DEF OwnerInv, OnePlace, CookieKept, SlotInv, Init

\* The steps of the master.
LEMMA OwnerAddStart ==
    ASSUME TypeInv, OwnerInv, NEW needed \in 1..MaxChain, NEW buf \in Bufs,
           M_AddStart(needed, buf)
    PROVE  OwnerInv'
<1> DEFINE h == vq_desc_head_idx
<1>1. /\ h \in Desc /\ cookie[h] = NoBuf /\ m_pc = "idle" /\ m_pc' = "add" /\ m_head' = h
      /\ cookie' = [cookie EXCEPT ![h] = buf] /\ buf # NoBuf
      /\ UNCHANGED <<avail_ring, avail_idx, vq_available_idx, used_ring, used_idx,
                     vq_used_cons_idx, held, s_pc, s_slot, s_head>>
  BY BufsAssumption DEF M_AddStart, AssertHead, availVars, usedVars, sVars
<1>2. \A d, s, x : IsAt(s, x, d)' <=> IsAt(s, x, d) \/ (s = "master" /\ x = 0 /\ d = h)
  BY <1>1 DEF IsAt, AvailPos, UsedPos, virtqueue_navail, virtqueue_nused
<1>3. \A s, x : ~IsAt(s, x, h)
  BY <1>1 DEF OwnerInv, CookieKept
<1>4. \A d \in Desc : cookie'[d] = IF d = h THEN buf ELSE cookie[d]
  BY <1>1 DEF TypeInv, TypeOK
<1> HIDE DEF h
<1>5. OnePlace'
  BY <1>2, <1>3 DEF OwnerInv, OnePlace
<1>6. CookieKept'
  BY <1>1, <1>2, <1>4 DEF OwnerInv, CookieKept
<1>7. SlotInv'
  BY <1>1 DEF OwnerInv, SlotInv
<1> QED BY <1>5, <1>6, <1>7 DEF OwnerInv

\* A head is being added: the slot written is one no entry of the ring has.
LEMMA OwnerAdd ==
    ASSUME TypeInv, OwnerInv, M_AddDesc \/ M_AddSlot \/ M_AddPublish
    PROVE  OwnerInv'
<1> USE DEF OwnerInv
<1>t. /\ avail_ring \in [Desc -> Desc] /\ avail_idx \in Index /\ vq_available_idx \in Index
      /\ m_head \in Desc /\ s_slot \in Desc
  BY DEF TypeInv, TypeOK
<1>p. m_pc \in {"add", "slot", "publish"}
  BY DEF M_AddDesc, M_AddSlot, M_AddPublish
<1>m. IsAt("master", 0, m_head)
  BY <1>p DEF IsAt
<1>r. /\ virtqueue_navail <= N - 1
      /\ s_pc = "take" => Slot(avail_idx) # s_slot
      /\ \A i : AvailPos(i) => Slot(i) # Slot(avail_idx)
  BY <1>t, <1>m, AvailRoom
<1>1. CASE M_AddDesc
  <2>1. /\ m_pc' \in {"add", "slot"} /\ m_head' = m_head /\ cookie' = cookie
        /\ UNCHANGED <<avail_ring, avail_idx, vq_available_idx, used_ring, used_idx,
                       vq_used_cons_idx, held, s_pc, s_slot, s_head>>
    BY <1>1 DEF M_AddDesc, availVars, usedVars, sVars, freeVars
  <2>2. NothingMoved
    BY <2>1, <1>p DEF NothingMoved, IsAt, AvailPos, UsedPos, virtqueue_navail, virtqueue_nused
  <2>3. SlotInv'
    BY <2>1 DEF SlotInv
  <2> QED BY <2>1, <2>2, <2>3, NothingKeeps
<1>2. CASE M_AddSlot
  <2>1. /\ m_pc' = "publish" /\ m_head' = m_head /\ cookie' = cookie
        /\ avail_ring' = [avail_ring EXCEPT ![Slot(avail_idx)] = m_head]
        /\ UNCHANGED <<avail_idx, vq_available_idx, used_ring, used_idx,
                       vq_used_cons_idx, held, s_pc, s_slot, s_head>>
    BY <1>2 DEF M_AddSlot, mLocals, usedVars, sVars
  <2>2. \A i \in Desc : avail_ring'[i] = IF i = Slot(avail_idx) THEN m_head ELSE avail_ring[i]
    BY <2>1, <1>t
  <2>3. \A i : AvailPos(i)' <=> AvailPos(i)
    BY <2>1 DEF AvailPos, virtqueue_navail
  <2>4. \A i : AvailPos(i) => avail_ring'[Slot(i)] = avail_ring[Slot(i)]
    BY <2>2, <1>r, IndexArithmetic DEF AvailPos
  <2>5. s_pc = "take" => avail_ring'[s_slot] = avail_ring[s_slot]
    BY <2>2, <1>t, <1>r
  <2>6. NothingMoved
    BY <2>1, <2>3, <2>4, <2>5, <1>p DEF NothingMoved, IsAt, UsedPos, virtqueue_nused
  <2>7. SlotInv'
    <3>1. avail_ring'[Slot(avail_idx)] = m_head
      BY <2>2, <1>t, IndexArithmetic
    <3> QED BY <2>1, <3>1 DEF SlotInv
  <2> QED BY <2>1, <2>6, <2>7, NothingKeeps
<1>3. CASE M_AddPublish
  <2>1. /\ m_pc = "publish" /\ m_pc' = "idle" /\ cookie' = cookie /\ avail_idx' = Inc(avail_idx)
        /\ UNCHANGED <<avail_ring, vq_available_idx, used_ring, used_idx,
                       vq_used_cons_idx, held, s_pc, s_slot, s_head>>
    BY <1>3 DEF M_AddPublish, M_Leave, usedVars, sVars, freeVars
  <2>2. virtqueue_navail = Sub(avail_idx, vq_available_idx) /\ virtqueue_navail < M - 1
    BY <1>r, Distances, SizeAssumption DEF virtqueue_navail
  <2>3. \A i : AvailPos(i)' <=> AvailPos(i) \/ i = avail_idx
    BY <2>1, <2>2, <1>t, Produced DEF AvailPos, virtqueue_navail
  <2>4. avail_ring[Slot(avail_idx)] = m_head
    BY <2>1 DEF SlotInv
  <2>5. \A d : IsAt("master", 0, d) => d = m_head
    BY DEF IsAt
  <2>6. Moved("master", 0, "avail", avail_idx, m_head)
    BY <2>1, <2>3, <2>4 DEF Moved, IsAt, UsedPos, virtqueue_nused
  <2>7. SlotInv'
    BY <2>1 DEF SlotInv
  <2> QED BY <1>m, <1>t, <2>1, <2>6, <2>7, MoveKeeps
<1> QED BY <1>1, <1>2, <1>3

\* virtqueue_get_buffer takes the head of its entry.
LEMMA OwnerGet ==
    ASSUME TypeInv, OwnerInv, M_Get \/ M_FreeStart \/ M_FreeStep \/ M_FreeEnd
    PROVE  OwnerInv'
<1> USE DEF OwnerInv
<1>t. /\ used_ring \in [Desc -> Desc] /\ used_idx \in Index /\ vq_used_cons_idx \in Index
      /\ m_head \in Desc /\ (m_pc = "get" => m_i \in Desc)
      /\ cookie \in [Desc -> Bufs \cup {NoBuf}]
  BY DEF TypeInv, TypeOK, CallInv
<1>1. CASE M_Get
  <2> DEFINE c == vq_used_cons_idx
             h == used_ring[Slot(c)]
  <2>1. /\ m_pc = "idle" /\ m_pc' = "get" /\ cookie' = cookie /\ used_idx # c
        /\ vq_used_cons_idx' = Inc(c) /\ m_i' = Slot(c)
        /\ UNCHANGED <<avail_ring, avail_idx, vq_available_idx, used_ring, used_idx, held, s_pc,
                       s_slot, s_head, m_head>>
    BY <1>1 DEF M_Get, UsedPending, usedVars, availVars, sVars, freeVars
  <2>2. \A i : UsedPos(i)' <=> UsedPos(i) /\ i # c
    BY <2>1, <1>t, Consumed DEF UsedPos, virtqueue_nused
  <2>3. UsedPos(c)
    BY <2>1, <1>t, SizeAssumption DEF UsedPos, virtqueue_nused, Sub, Index
  <2>4. h \in Desc /\ IsAt("used", c, h)
    BY <1>t, <2>3, IndexArithmetic DEF IsAt
  <2>5. Moved("used", c, "get", 0, h)
    BY <2>1, <2>2, <2>3 DEF Moved, IsAt, AvailPos, virtqueue_navail
  <2>6. SlotInv'
    BY <2>1, <1>t, Consumed DEF SlotInv
  <2> HIDE DEF h, c
  <2> QED BY <2>1, <2>4, <2>5, <2>6, MoveKeeps
<1>2. CASE M_FreeStart
  <2> DEFINE h == used_ring[m_i]
  <2>1. /\ m_pc = "get" /\ m_pc' = "free" /\ cookie' = cookie /\ m_head' = h
        /\ UNCHANGED <<avail_ring, avail_idx, vq_available_idx, used_ring, used_idx,
                       vq_used_cons_idx, held, s_pc, s_slot, s_head>>
    BY <1>2 DEF M_FreeStart, usedVars, availVars, sVars
  <2>2. h \in Desc /\ IsAt("get", 0, h)
    BY <1>t, <2>1 DEF IsAt
  <2>3. Moved("get", 0, "master", 0, h)
    BY <2>1 DEF Moved, IsAt, AvailPos, UsedPos, virtqueue_navail, virtqueue_nused
  <2>4. SlotInv'
    BY <2>1 DEF SlotInv
  <2> HIDE DEF h
  <2> QED BY <2>1, <2>2, <2>3, <2>4, MoveKeeps
<1>3. CASE M_FreeStep
  <2>1. UNCHANGED placeVars
    BY <1>3 DEF M_FreeStep, placeVars, usedVars, availVars, sVars
  <2> QED BY <2>1, OwnerFrame
<1>4. CASE M_FreeEnd
  <2>1. /\ m_pc = "free" /\ m_pc' = "idle" /\ cookie' = [cookie EXCEPT ![m_head] = NoBuf]
        /\ UNCHANGED <<avail_ring, avail_idx, vq_available_idx, used_ring, used_idx,
                       vq_used_cons_idx, held, s_pc, s_slot, s_head>>
    BY <1>4 DEF M_FreeEnd, M_Leave, usedVars, availVars, sVars
  <2>2. \A d, s, x : IsAt(s, x, d)' <=> IsAt(s, x, d) /\ ~(s = "master" /\ x = 0 /\ d = m_head)
    BY <2>1 DEF IsAt, AvailPos, UsedPos, virtqueue_navail, virtqueue_nused
  <2>3. IsAt("master", 0, m_head)
    BY <2>1 DEF IsAt
  <2>4. \A d \in Desc : cookie'[d] = IF d = m_head THEN NoBuf ELSE cookie[d]
    BY <2>1, <1>t
  <2>5. OnePlace'
    BY <2>2 DEF OnePlace
  <2>6. \A d, s, x : d = m_head => ~IsAt(s, x, d)'
    BY <2>2, <2>3, <1>t DEF OnePlace
  <2>7. CookieKept'
    <3> SUFFICES ASSUME NEW d \in Desc PROVE cookie'[d] # NoBuf <=> \E s, x : IsAt(s, x, d)'
      BY DEF CookieKept
    <3>1. CASE d = m_head
      BY <3>1, <2>4, <2>6
    <3>2. CASE d # m_head
      BY <3>2, <2>2, <2>4 DEF CookieKept
    <3> QED BY <3>1, <3>2
  <2>8. SlotInv'
    BY <2>1 DEF SlotInv
  <2> QED BY <2>5, <2>7, <2>8
<1> QED BY <1>1, <1>2, <1>3, <1>4

\* The steps of the slave.
LEMMA OwnerSlave ==
    ASSUME TypeInv, OwnerInv,
           S_Take \/ S_TakeRead \/ (\E h \in held : S_ReturnSlot(h)) \/ S_ReturnPublish
    PROVE  OwnerInv'
<1> USE DEF OwnerInv
<1>t. /\ avail_ring \in [Desc -> Desc] /\ avail_idx \in Index /\ vq_available_idx \in Index
      /\ used_ring \in [Desc -> Desc] /\ used_idx \in Index /\ vq_used_cons_idx \in Index
      /\ held \subseteq Desc \X (Bufs \cup {NoBuf}) /\ s_slot \in Desc /\ s_head \in Desc
      /\ (m_pc = "get" => m_i \in Desc)
  BY DEF TypeInv, TypeOK, CallInv
<1>1. CASE S_Take
  <2> DEFINE c == vq_available_idx
             h == avail_ring[Slot(c)]
  <2>1. /\ s_pc = "idle" /\ s_pc' = "take" /\ cookie' = cookie /\ avail_idx # c
        /\ vq_available_idx' = Inc(c) /\ s_slot' = Slot(c)
        /\ UNCHANGED <<avail_ring, avail_idx, used_ring, used_idx, vq_used_cons_idx, held,
                       s_head, m_head, m_pc, m_i>>
    BY <1>1 DEF S_Take, AvailPending, usedVars, availVars, mVars, mLocals, freeVars
  <2>2. \A i : AvailPos(i)' <=> AvailPos(i) /\ i # c
    BY <2>1, <1>t, Consumed DEF AvailPos, virtqueue_navail
  <2>3. AvailPos(c)
    BY <2>1, <1>t, SizeAssumption DEF AvailPos, virtqueue_navail, Sub, Index
  <2>4. h \in Desc /\ IsAt("avail", c, h)
    BY <1>t, <2>3, IndexArithmetic DEF IsAt
  <2>5. Moved("avail", c, "take", 0, h)
    BY <2>1, <2>2, <2>3 DEF Moved, IsAt, UsedPos, virtqueue_nused
  <2>6. SlotInv'
    BY <2>1, <1>t, Consumed DEF SlotInv
  <2> HIDE DEF h, c
  <2> QED BY <2>1, <2>4, <2>5, <2>6, MoveKeeps
<1>2. CASE S_TakeRead
  <2> DEFINE h == avail_ring[s_slot]
             b == addr[h]
  <2>1. /\ s_pc = "take" /\ s_pc' = "idle" /\ cookie' = cookie
        /\ held' = held \cup {<<h, b>>}
        /\ UNCHANGED <<avail_ring, avail_idx, vq_available_idx, used_ring, used_idx,
                       vq_used_cons_idx, s_head, m_head, m_pc, m_i>>
    BY <1>2 DEF S_TakeRead, usedVars, availVars, mVars, mLocals, freeVars
  <2>2. h \in Desc /\ IsAt("take", 0, h)
    BY <1>t, <2>1 DEF IsAt
  <2> HIDE DEF b
  <2>3. Moved("take", 0, "held", b, h)
    BY <2>1 DEF Moved, IsAt, AvailPos, UsedPos, virtqueue_navail, virtqueue_nused
  <2>4. SlotInv'
    BY <2>1 DEF SlotInv
  <2> HIDE DEF h
  <2> QED BY <2>1, <2>2, <2>3, <2>4, MoveKeeps
<1>3. ASSUME NEW g \in held, S_ReturnSlot(g) PROVE OwnerInv'
  <2>1. PICK h \in Desc, b \in Bufs \cup {NoBuf} : g = <<h, b>>
    BY <1>t
  <2>2. /\ s_pc = "idle" /\ s_pc' = "return" /\ cookie' = cookie /\ s_head' = h
        /\ held' = held \ {<<h, b>>} /\ <<h, b>> \in held
        /\ used_ring' = [used_ring EXCEPT ![Slot(used_idx)] = h]
        /\ UNCHANGED <<avail_ring, avail_idx, vq_available_idx, used_idx, vq_used_cons_idx,
                       m_head, m_pc, m_i>>
    BY <1>3, <2>1 DEF S_ReturnSlot, usedVars, availVars, mVars, mLocals, freeVars
  <2>3. IsAt("held", b, h)
    BY <2>2 DEF IsAt
  <2>4. /\ m_pc = "get" => Slot(used_idx) # m_i
        /\ \A i : UsedPos(i) => Slot(i) # Slot(used_idx)
    BY <2>3, UsedRoom
  <2>5. \A i \in Desc : used_ring'[i] = IF i = Slot(used_idx) THEN h ELSE used_ring[i]
    BY <2>2, <1>t
  <2>6. \A i : UsedPos(i)' <=> UsedPos(i)
    BY <2>2 DEF UsedPos, virtqueue_nused
  <2>7. \A i : UsedPos(i) => used_ring'[Slot(i)] = used_ring[Slot(i)]
    BY <2>4, <2>5, IndexArithmetic DEF UsedPos
  <2>8. m_pc = "get" => used_ring'[m_i] = used_ring[m_i]
    BY <2>4, <2>5, <1>t
  <2>9. Moved("held", b, "return", 0, h)
    BY <2>2, <2>6, <2>7, <2>8 DEF Moved, IsAt, AvailPos, virtqueue_navail
  <2>10. SlotInv'
    <3>1. used_ring'[Slot(used_idx)] = h
      BY <2>5, <1>t, IndexArithmetic
    <3> QED BY <2>2, <3>1 DEF SlotInv
  <2> QED BY <2>2, <2>3, <2>9, <2>10, MoveKeeps
<1>4. CASE S_ReturnPublish
  <2>1. /\ s_pc = "return" /\ s_pc' = "idle" /\ cookie' = cookie /\ used_idx' = Inc(used_idx)
        /\ UNCHANGED <<avail_ring, avail_idx, vq_available_idx, used_ring, vq_used_cons_idx,
                       held, s_slot, m_head, m_pc, m_i>>
    BY <1>4 DEF S_ReturnPublish, availVars, mVars, mLocals, freeVars
  <2>2. IsAt("return", 0, s_head)
    BY <2>1 DEF IsAt
  <2>3. virtqueue_nused <= N - 1
    BY <2>2, <1>t, UsedRoom
  <2>4. virtqueue_nused = Sub(used_idx, vq_used_cons_idx) /\ virtqueue_nused < M - 1
    BY <2>3, Distances, SizeAssumption DEF virtqueue_nused
  <2>5. \A i : UsedPos(i)' <=> UsedPos(i) \/ i = used_idx
    BY <2>1, <2>4, <1>t, Produced DEF UsedPos, virtqueue_nused
  <2>6. used_ring[Slot(used_idx)] = s_head
    BY <2>1 DEF SlotInv
  <2>7. Moved("return", 0, "used", used_idx, s_head)
    BY <2>1, <2>5, <2>6 DEF Moved, IsAt, AvailPos, virtqueue_navail
  <2>8. SlotInv'
    BY <2>1 DEF SlotInv
  <2> QED BY <2>1, <2>2, <2>7, <2>8, <1>t, MoveKeeps
<1> QED BY <1>1, <1>2, <1>3, <1>4

\* Every step keeps the places of the heads apart.
LEMMA OwnerStep == TypeInv /\ OwnerInv /\ [Next]_vars => OwnerInv'
<1> SUFFICES ASSUME TypeInv, OwnerInv, [Next]_vars PROVE OwnerInv'
  OBVIOUS
<1>1. CASE M_AddDesc \/ M_AddSlot \/ M_AddPublish
  BY <1>1, OwnerAdd
<1>2. CASE M_Get \/ M_FreeStart \/ M_FreeStep \/ M_FreeEnd
  BY <1>2, OwnerGet
<1>3. CASE S_Take \/ S_TakeRead \/ (\E h \in held : S_ReturnSlot(h)) \/ S_ReturnPublish
  BY <1>3, OwnerSlave
<1>4. CASE \E needed \in 1..MaxChain, buf \in Bufs : M_AddStart(needed, buf)
  BY <1>4, OwnerAddStart
<1>5. CASE M_Kick \/ M_GetEmpty \/ M_DisableCb \/ M_Notification \/ S_Kick \/ S_TakeEmpty
           \/ S_DisableCb \/ S_Notification \/ UNCHANGED vars
  <2>1. UNCHANGED placeVars
    BY <1>5 DEF M_Kick, M_GetEmpty, M_DisableCb, M_Notification, S_Kick, S_TakeEmpty,
       S_DisableCb, S_Notification, vars, placeVars, availVars, usedVars, mVars, mLocals,
       freeVars, sVars
  <2> QED BY <2>1, OwnerFrame
<1>6. CASE M_EnableCb \/ M_EnableCheck \/ S_EnableCb \/ S_EnableCheck
  <2>1. /\ UNCHANGED <<avail_ring, avail_idx, vq_available_idx, used_ring, used_idx,
                       vq_used_cons_idx, held, s_slot, s_head, m_head, m_i, cookie>>
        /\ m_pc' = m_pc \/ (m_pc \in {"idle", "arm"} /\ m_pc' \in {"idle", "arm"})
        /\ s_pc' = s_pc \/ (s_pc \in {"idle", "arm"} /\ s_pc' \in {"idle", "arm"})
    BY <1>6 DEF M_EnableCb, M_EnableCheck, S_EnableCb, S_EnableCheck, availVars, usedVars,
       mVars, mLocals, freeVars, sVars
  <2>2. NothingMoved
    BY <2>1 DEF NothingMoved, IsAt, AvailPos, UsedPos, virtqueue_navail, virtqueue_nused
  <2>3. SlotInv'
    BY <2>1 DEF SlotInv, OwnerInv
  <2> QED BY <2>1, <2>2, <2>3, NothingKeeps DEF OwnerInv
<1> QED BY <1>1, <1>2, <1>3, <1>4, <1>5, <1>6 DEF Next

\* Claims of OneOwner are the heads at their places, counted from the index of
\* the consumer.
FromConsumer(s, x) ==
    IF s = "avail" THEN Sub(x, vq_available_idx)
    ELSE IF s = "used" THEN Sub(x, vq_used_cons_idx) ELSE 0

\* Every claim of OneOwner is a place of its head.
LEMMA ClaimHasPlace ==
    ASSUME TypeInv, NEW c \in Claims
    PROVE  c[3] \in Desc /\ \E x : IsAt(c[1], x, c[3]) /\ c = <<c[1], FromConsumer(c[1], x), c[3]>>
<1>t. /\ avail_ring \in [Desc -> Desc] /\ avail_idx \in Index /\ vq_available_idx \in Index
      /\ used_ring \in [Desc -> Desc] /\ used_idx \in Index /\ vq_used_cons_idx \in Index
      /\ held \subseteq Desc \X (Bufs \cup {NoBuf}) /\ s_slot \in Desc /\ s_head \in Desc
      /\ (m_pc = "get" => m_i \in Desc) /\ m_head \in Desc
      /\ virtqueue_navail \in 0..(M - 1) /\ virtqueue_nused \in 0..(M - 1)
  BY Distances DEF TypeInv, TypeOK, CallInv
<1>1. ASSUME NEW k \in 0..(virtqueue_navail - 1), c = <<"avail", k, AvailAt(k)>>
      PROVE  c[3] \in Desc /\ \E x : IsAt(c[1], x, c[3]) /\ c = <<c[1], FromConsumer(c[1], x), c[3]>>
  <2> DEFINE i == Ahead(vq_available_idx, k)
  <2>1. k \in 0..(M - 1) /\ k < virtqueue_navail
    BY <1>t, SizeAssumption
  <2>2. i \in Index /\ Sub(i, vq_available_idx) = k
    BY <1>t, <2>1, Positions
  <2>3. c[1] = "avail" /\ c[3] = avail_ring[Slot(i)]
    BY <1>1 DEF AvailAt
  <2> HIDE DEF i
  <2>4. IsAt(c[1], i, c[3]) /\ c = <<c[1], FromConsumer(c[1], i), c[3]>> /\ c[3] \in Desc
    BY <1>1, <1>t, <2>1, <2>2, <2>3, IndexArithmetic DEF IsAt, AvailPos, FromConsumer
  <2> QED BY <2>4
<1>2. ASSUME NEW k \in 0..(virtqueue_nused - 1), c = <<"used", k, UsedAt(k)>>
      PROVE  c[3] \in Desc /\ \E x : IsAt(c[1], x, c[3]) /\ c = <<c[1], FromConsumer(c[1], x), c[3]>>
  <2> DEFINE i == Ahead(vq_used_cons_idx, k)
  <2>1. k \in 0..(M - 1) /\ k < virtqueue_nused
    BY <1>t, SizeAssumption
  <2>2. i \in Index /\ Sub(i, vq_used_cons_idx) = k
    BY <1>t, <2>1, Positions
  <2>3. c[1] = "used" /\ c[3] = used_ring[Slot(i)]
    BY <1>2 DEF UsedAt
  <2> HIDE DEF i
  <2>4. IsAt(c[1], i, c[3]) /\ c = <<c[1], FromConsumer(c[1], i), c[3]>> /\ c[3] \in Desc
    BY <1>2, <1>t, <2>1, <2>2, <2>3, IndexArithmetic DEF IsAt, UsedPos, FromConsumer
  <2> QED BY <2>4
<1>3. ASSUME NEW h \in held, c = <<"held", 0, h[1]>>
      PROVE  c[3] \in Desc /\ \E x : IsAt(c[1], x, c[3]) /\ c = <<c[1], FromConsumer(c[1], x), c[3]>>
  <2>1. h = <<h[1], h[2]>> /\ h[1] \in Desc
    BY <1>t
  <2>2. IsAt(c[1], h[2], c[3]) /\ c = <<c[1], FromConsumer(c[1], h[2]), c[3]>>
    BY <1>3, <2>1 DEF IsAt, FromConsumer
  <2> QED BY <1>3, <2>1, <2>2
<1>4. ASSUME \/ c = <<"take", 0, avail_ring[s_slot]>> /\ s_pc = "take"
             \/ c = <<"return", 0, s_head>> /\ s_pc = "return"
             \/ c = <<"get", 0, used_ring[m_i]>> /\ m_pc = "get"
             \/ c = <<"master", 0, m_head>> /\ m_pc \in {"add", "slot", "publish", "free"}
      PROVE  c[3] \in Desc /\ \E x : IsAt(c[1], x, c[3]) /\ c = <<c[1], FromConsumer(c[1], x), c[3]>>
  <2>1. IsAt(c[1], 0, c[3]) /\ c = <<c[1], FromConsumer(c[1], 0), c[3]>> /\ c[3] \in Desc
    BY <1>4, <1>t DEF IsAt, FromConsumer
  <2> QED BY <2>1
<1> QED BY <1>1, <1>2, <1>3, <1>4 DEF Claims

\* Every place of a head is a claim of OneOwner.
LEMMA PlaceIsClaimed ==
    ASSUME TypeInv, NEW d \in Desc, NEW s, NEW x, IsAt(s, x, d)
    PROVE  <<s, FromConsumer(s, x), d>> \in Claims
<1>t. /\ vq_available_idx \in Index /\ vq_used_cons_idx \in Index
      /\ virtqueue_navail \in 0..(M - 1) /\ virtqueue_nused \in 0..(M - 1)
  BY Distances DEF TypeInv, TypeOK
<1>1. CASE s = "avail"
  <2> DEFINE k == Sub(x, vq_available_idx)
  <2>1. x \in Index /\ k < virtqueue_navail /\ avail_ring[Slot(x)] = d
    BY <1>1 DEF IsAt, AvailPos
  <2>2. k \in 0..(virtqueue_navail - 1) /\ Ahead(vq_available_idx, k) = x
    BY <1>t, <2>1, Positions, EmptyRing
  <2>3. d = AvailAt(k)
    BY <2>1, <2>2 DEF AvailAt
  <2>4. FromConsumer(s, x) = k
    BY <1>1 DEF FromConsumer
  <2> HIDE DEF k
  <2> QED BY <1>1, <2>2, <2>3, <2>4 DEF Claims
<1>2. CASE s = "used"
  <2> DEFINE k == Sub(x, vq_used_cons_idx)
  <2>1. x \in Index /\ k < virtqueue_nused /\ used_ring[Slot(x)] = d
    BY <1>2 DEF IsAt, UsedPos
  <2>2. k \in 0..(virtqueue_nused - 1) /\ Ahead(vq_used_cons_idx, k) = x
    BY <1>t, <2>1, Positions, EmptyRing
  <2>3. d = UsedAt(k)
    BY <2>1, <2>2 DEF UsedAt
  <2>4. FromConsumer(s, x) = k
    BY <1>2 DEF FromConsumer
  <2> HIDE DEF k
  <2> QED BY <1>2, <2>2, <2>3, <2>4 DEF Claims
<1>3. CASE s = "held"
  <2>1. <<d, x>> \in held /\ <<d, x>>[1] = d /\ FromConsumer(s, x) = 0
    BY <1>3 DEF IsAt, FromConsumer
  <2>2. <<"held", 0, <<d, x>>[1]>> \in Claims
    BY <2>1 DEF Claims
  <2> QED BY <1>3, <2>1, <2>2
<1>4. CASE s \notin {"avail", "used", "held"}
  BY <1>4 DEF IsAt, FromConsumer, Claims
<1> QED BY <1>1, <1>2, <1>3, <1>4

\* A chain is in one place at a time, and none is lost: the heads somewhere are
\* exactly those whose cookie virtqueue_get_buffer has still to return. For
\* every ring size, every modulus of the indices and chains of any length.
THEOREM ChainsHaveOneOwner == Spec => []OneOwner
<1>1. TypeInv /\ OwnerInv => OneOwner
  <2> SUFFICES ASSUME TypeInv, OwnerInv PROVE OneOwner
    OBVIOUS
  <2>1. ASSUME NEW c \in Claims, NEW e \in Claims, c[3] = e[3] PROVE c = e
    <3>1. PICK x : IsAt(c[1], x, c[3]) /\ c = <<c[1], FromConsumer(c[1], x), c[3]>>
      BY ClaimHasPlace
    <3>2. PICK y : IsAt(e[1], y, e[3]) /\ e = <<e[1], FromConsumer(e[1], y), e[3]>>
      BY ClaimHasPlace
    <3>3. c[3] \in Desc
      BY ClaimHasPlace
    <3>4. c[1] = e[1] /\ x = y
      BY <2>1, <3>1, <3>2, <3>3 DEF OwnerInv, OnePlace
    <3> QED BY <2>1, <3>1, <3>2, <3>4
  <2>2. ASSUME NEW c \in Claims PROVE c[3] \in {d \in Desc : cookie[d] # NoBuf}
    BY ClaimHasPlace DEF OwnerInv, CookieKept
  <2>3. ASSUME NEW d \in Desc, cookie[d] # NoBuf PROVE \E c \in Claims : c[3] = d
    <3>1. PICK s, x : IsAt(s, x, d)
      BY <2>3 DEF OwnerInv, CookieKept
    <3>2. <<s, FromConsumer(s, x), d>> \in Claims /\ <<s, FromConsumer(s, x), d>>[3] = d
      BY <3>1, PlaceIsClaimed
    <3> QED BY <3>2
  <2>4. {c[3] : c \in Claims} = {d \in Desc : cookie[d] # NoBuf}
    BY <2>2, <2>3
  <2> QED BY <2>1, <2>4 DEF OneOwner
<1>2. TypeInv /\ OwnerInv /\ [Next]_vars => (TypeInv /\ OwnerInv)'
  BY TypeStep, OwnerStep
<1> QED BY <1>1, <1>2, TypeInit, OwnerInit, PTL DEF Spec

--------------------------------------------------------------------------------
(***************************************************************************)
(* Descriptors. Every one is in a chain: the free chain, or that of a head *)
(* in flight; own says in which, with CHAIN_END for the free one, pos at   *)
(* which place of it, and len how long each chain is. The invariant says   *)
(* that there are such functions.                                          *)
(***************************************************************************)
Building == m_pc \in {"add", "slot"}

\* A head whose chain is complete.
Flying(d) == d \in Desc /\ cookie[d] # NoBuf /\ ~(Building /\ d = m_head)

ChainTypes(own, pos, len) ==
    own \in [Desc -> Link] /\ pos \in [Desc -> Nat] /\ len \in [Link -> Nat]

\* A descriptor is at one place of one chain, and no place is empty.
Partitioned(own, pos, len) ==
    /\ \A d \in Desc : /\ 1 <= pos[d] /\ pos[d] <= len[own[d]]
                       /\ own[d] # CHAIN_END => Flying(own[d])
    /\ \A d, e \in Desc : own[d] = own[e] /\ pos[d] = pos[e] => d = e
    /\ \A k \in Link : k = CHAIN_END \/ Flying(k) =>
         \A j \in 1..len[k] : \E d \in Desc : own[d] = k /\ pos[d] = j

\* next leads from one place to the one after it.
Linked(own, pos, len) ==
    \A d \in Desc :
      /\ pos[d] < len[own[d]] =>
           next[d] \in Desc /\ own[next[d]] = own[d] /\ pos[next[d]] = pos[d] + 1
      /\ own[d] = CHAIN_END /\ pos[d] = len[CHAIN_END] => next[d] = CHAIN_END

\* Where the chains begin, and how long they are.
Begins(own, pos, len) ==
    /\ IF len[CHAIN_END] = 0 THEN vq_desc_head_idx = CHAIN_END
       ELSE /\ vq_desc_head_idx \in Desc
            /\ own[vq_desc_head_idx] = CHAIN_END /\ pos[vq_desc_head_idx] = 1
    /\ \A h \in Desc : Flying(h) =>
         /\ own[h] = h /\ pos[h] = 1
         /\ ~(m_pc = "free" /\ h = m_head) => len[h] = ndescs[h]
    /\ vq_free_cnt = len[CHAIN_END] + (IF m_pc = "free" THEN len[m_head] ELSE 0)

\* A complete chain carries its buffer, and its NEXT flags end it.
Filled(own, pos, len) ==
    \A d \in Desc : own[d] # CHAIN_END =>
      more[d] = (pos[d] < len[own[d]]) /\ addr[d] = cookie[own[d]]

\* vq_ring_add_buffer: the first m_i free descriptors are filled.
Adding(own, pos, len) ==
    Building =>
      /\ cookie[m_head] # NoBuf /\ m_head = vq_desc_head_idx
      /\ 1 <= ndescs[m_head] /\ ndescs[m_head] <= len[CHAIN_END]
      /\ m_pc = "add" => m_i < ndescs[m_head]
      /\ m_pc = "slot" => m_i = ndescs[m_head]
      /\ IF m_i < len[CHAIN_END]
         THEN m_idx \in Desc /\ own[m_idx] = CHAIN_END /\ pos[m_idx] = m_i + 1
         ELSE m_idx = CHAIN_END
      /\ \A d \in Desc : own[d] = CHAIN_END /\ pos[d] <= m_i =>
           more[d] = (pos[d] < ndescs[m_head]) /\ addr[d] = cookie[m_head]

\* vq_ring_free_chain: m_idx is in the chain, and ndescs counts the rest of it.
Freeing(own, pos, len) ==
    m_pc = "free" =>
      /\ Flying(m_head) /\ m_idx \in Desc /\ own[m_idx] = m_head
      /\ ndescs[m_head] = len[m_head] - pos[m_idx]

Chains(own, pos, len) ==
    /\ ChainTypes(own, pos, len) /\ Partitioned(own, pos, len) /\ Linked(own, pos, len)
    /\ Begins(own, pos, len) /\ Filled(own, pos, len)
    /\ Adding(own, pos, len) /\ Freeing(own, pos, len)

ChainInv == \E own, pos, len : Chains(own, pos, len)

\* The address the slave's caller got is the buffer of the head.
HeldCookie == \A h \in held : cookie[h[1]] = h[2]

\* virtqueue_create: all descriptors are on the free chain, in order.
LEMMA ChainInit == Init => ChainInv
<1> SUFFICES ASSUME Init PROVE ChainInv
  OBVIOUS
<1> DEFINE own == [d \in Desc |-> CHAIN_END]
           pos == [d \in Desc |-> d + 1]
           len == [k \in Link |-> IF k = CHAIN_END THEN N ELSE 0]
<1>1. \A d \in Desc : cookie[d] = NoBuf
  BY DEF Init
<1>2. \A d : ~Flying(d)
  BY <1>1 DEF Flying
<1>3. ChainTypes(own, pos, len)
  BY SizeAssumption DEF ChainTypes, Desc, Link, CHAIN_END
<1>4. /\ \A d \in Desc : own[d] = CHAIN_END /\ pos[d] = d + 1 /\ next[d] = d + 1
      /\ len[CHAIN_END] = N /\ CHAIN_END = N
  BY DEF Init, Link, CHAIN_END
<1> HIDE DEF own, pos, len
<1>5. Partitioned(own, pos, len)
  <2>1. \A d \in Desc : 1 <= pos[d] /\ pos[d] <= len[own[d]]
    BY <1>4, SizeAssumption DEF Desc
  <2>2. \A d, e \in Desc : pos[d] = pos[e] => d = e
    BY <1>4, SizeAssumption DEF Desc
  <2>3. ASSUME NEW j \in 1..N PROVE \E d \in Desc : own[d] = CHAIN_END /\ pos[d] = j
    <3>1. j - 1 \in Desc /\ (j - 1) + 1 = j
      BY SizeAssumption DEF Desc
    <3> QED BY <3>1, <1>4
  <2> QED BY <1>2, <1>4, <2>1, <2>2, <2>3 DEF Partitioned
<1>6. Linked(own, pos, len)
  <2>1. \A d \in Desc : d + 1 < N => d + 1 \in Desc
    BY SizeAssumption DEF Desc
  <2> QED BY <1>4, <2>1 DEF Linked
<1>7. Begins(own, pos, len)
  BY <1>2, <1>4, SmallIndices, SizeAssumption DEF Begins, Init
<1>8. Filled(own, pos, len) /\ Adding(own, pos, len) /\ Freeing(own, pos, len)
  BY <1>4 DEF Filled, Adding, Freeing, Building, Init
<1> QED BY <1>3, <1>5, <1>6, <1>7, <1>8 DEF ChainInv, Chains

\* A step outside of the calls that touch the descriptors leaves the chains.
LEMMA ChainFrame ==
    ASSUME NEW own, NEW pos, NEW len, Chains(own, pos, len), UNCHANGED <<descVars, freeVars>>,
           \/ UNCHANGED <<m_pc, mLocals>>
           \/ m_pc \notin {"add", "slot", "free"} /\ m_pc' \notin {"add", "slot", "free"}
    PROVE  Chains(own, pos, len)'
<1> USE DEF descVars, freeVars, mLocals
<1>1. \A d : Flying(d)' <=> Flying(d)
  BY DEF Flying, Building
<1>2. ChainTypes(own, pos, len)' /\ Linked(own, pos, len)' /\ Filled(own, pos, len)'
  BY DEF Chains, ChainTypes, Linked, Filled
<1>3. Partitioned(own, pos, len)'
  BY <1>1 DEF Chains, Partitioned
<1>4. Begins(own, pos, len)'
  <2>1. (m_pc = "free") = (m_pc = "free")' /\ (m_pc = "free" => m_head' = m_head)
    OBVIOUS
  <2> QED BY <1>1, <2>1 DEF Chains, Begins
<1>5. Adding(own, pos, len)' /\ Freeing(own, pos, len)'
  <2>1. CASE UNCHANGED <<m_pc, mLocals>>
    BY <1>1, <2>1 DEF Chains, Adding, Freeing, Building
  <2>2. CASE m_pc' \notin {"add", "slot", "free"}
    BY <2>2 DEF Chains, Adding, Freeing, Building
  <2> QED BY <2>1, <2>2
<1> QED BY <1>2, <1>3, <1>4, <1>5 DEF Chains

\* virtqueue_add_buffer begins: the free chain is long enough.
LEMMA ChainAddStart ==
    ASSUME TypeInv, CallerCounts, NEW own, NEW pos, NEW len, Chains(own, pos, len),
           NEW needed \in 1..MaxChain, NEW buf \in Bufs, M_AddStart(needed, buf)
    PROVE  Chains(own, pos, len)'
<1> DEFINE h == vq_desc_head_idx
<1>1. /\ h \in Desc /\ cookie[h] = NoBuf /\ buf # NoBuf /\ m_pc = "idle" /\ m_pc' = "add"
      /\ m_head' = h /\ m_idx' = h /\ m_i' = 0 /\ h' = h
      /\ vq_free_cnt # 0 /\ needed <= vq_free_cnt
      /\ UNCHANGED <<next, more, addr, vq_free_cnt>>
  BY BufsAssumption DEF M_AddStart, AssertHead, RoomFor, descVars
<1>2. /\ \A d \in Desc : cookie'[d] = IF d = h THEN buf ELSE cookie[d]
      /\ \A d \in Desc : ndescs'[d] = IF d = h THEN needed ELSE ndescs[d]
  BY <1>1 DEF M_AddStart, TypeInv, TypeOK
<1>3. needed \in Nat /\ 1 <= needed
  BY ChainAssumption, SizeAssumption
<1> HIDE DEF h
<1>4. \A d : (Flying(d)' <=> Flying(d)) /\ (Flying(d) => d \in Desc /\ d # h)
  BY <1>1, <1>2 DEF Flying, Building
<1>5. ChainTypes(own, pos, len)' /\ Linked(own, pos, len)'
  BY <1>1 DEF Chains, ChainTypes, Linked
<1>6. Partitioned(own, pos, len)'
  BY <1>4 DEF Chains, Partitioned
<1>7. /\ len[CHAIN_END] = vq_free_cnt /\ own[h] = CHAIN_END /\ pos[h] = 1
      /\ len[CHAIN_END] \in Nat /\ len[CHAIN_END] > 0
  BY <1>1 DEF Chains, Begins, h, ChainTypes, Link
<1>8. Begins(own, pos, len)'
  <2>1. \A g \in Desc : Flying(g)' => own[g] = g /\ pos[g] = 1 /\ len[g] = ndescs'[g]
    BY <1>1, <1>2, <1>4 DEF Chains, Begins
  <2> QED BY <1>1, <1>7, <2>1 DEF Begins, h
<1>9. Filled(own, pos, len)'
  <2>1. \A d \in Desc : own[d] # CHAIN_END => own[d] \in Desc /\ cookie'[own[d]] = cookie[own[d]]
    BY <1>2, <1>4 DEF Chains, Partitioned
  <2> QED BY <1>1, <2>1 DEF Chains, Filled
<1>10. Adding(own, pos, len)'
  <2>1. \A d \in Desc : ~(pos[d] <= 0)
    BY DEF Chains, Partitioned, ChainTypes
  <2> QED BY <1>1, <1>2, <1>3, <1>7, <2>1 DEF Adding, Building, h
<1>11. Freeing(own, pos, len)'
  BY <1>1 DEF Freeing
<1> QED BY <1>5, <1>6, <1>8, <1>9, <1>10, <1>11 DEF Chains

\* One descriptor of the free chain is filled.
LEMMA ChainAddDesc ==
    ASSUME TypeInv, NEW own, NEW pos, NEW len, Chains(own, pos, len), M_AddDesc
    PROVE  Chains(own, pos, len)'
<1>1. /\ m_pc = "add" /\ m_pc' \in {"add", "slot"} /\ m_i' = m_i + 1 /\ m_idx' = next[m_idx]
      /\ m_pc' = IF m_i + 1 < ndescs[m_head] THEN "add" ELSE "slot"
      /\ addr' = [addr EXCEPT ![m_idx] = cookie[m_head]]
      /\ more' = [more EXCEPT ![m_idx] = m_i < ndescs[m_head] - 1]
      /\ UNCHANGED <<next, vq_desc_head_idx, vq_free_cnt, cookie, ndescs, m_head>>
  BY DEF M_AddDesc, NextFlag, freeVars
<1>2. /\ 1 <= ndescs[m_head] /\ ndescs[m_head] <= len[CHAIN_END] /\ m_i < ndescs[m_head]
      /\ m_head = vq_desc_head_idx /\ cookie[m_head] # NoBuf
      /\ m_i \in Nat /\ ndescs[m_head] \in Int /\ len[CHAIN_END] \in Nat /\ m_head \in Desc
  BY <1>1 DEF Chains, Adding, Building, ChainTypes, Link, TypeInv, TypeOK
<1>3. m_idx \in Desc /\ own[m_idx] = CHAIN_END /\ pos[m_idx] = m_i + 1
  BY <1>1, <1>2 DEF Chains, Adding, Building
<1>4. \A d \in Desc : d # m_idx => more'[d] = more[d] /\ addr'[d] = addr[d]
  BY <1>1 DEF TypeInv, TypeOK
<1>5. more'[m_idx] = (m_i < ndescs[m_head] - 1) /\ addr'[m_idx] = cookie[m_head]
  BY <1>1, <1>3 DEF TypeInv, TypeOK
<1>6. \A d : Flying(d)' <=> Flying(d)
  BY <1>1 DEF Flying, Building
<1>7. ChainTypes(own, pos, len)' /\ Linked(own, pos, len)'
  BY <1>1 DEF Chains, ChainTypes, Linked
<1>8. Partitioned(own, pos, len)'
  BY <1>6 DEF Chains, Partitioned
<1>9. Begins(own, pos, len)'
  BY <1>1, <1>6 DEF Chains, Begins
<1>10. Filled(own, pos, len)'
  BY <1>1, <1>3, <1>4 DEF Chains, Filled
<1>11. Adding(own, pos, len)'
  <2>1. m_pc' = "add" => m_i' < ndescs'[m_head']
    BY <1>1, <1>2
  <2>2. m_pc' = "slot" => m_i' = ndescs'[m_head']
    BY <1>1, <1>2
  <2>3. IF m_i' < len[CHAIN_END]
        THEN m_idx' \in Desc /\ own[m_idx'] = CHAIN_END /\ pos[m_idx'] = m_i' + 1
        ELSE m_idx' = CHAIN_END
    BY <1>1, <1>2, <1>3 DEF Chains, Linked
  <2>4. ASSUME NEW d \in Desc, own[d] = CHAIN_END, pos[d] <= m_i'
        PROVE  more'[d] = (pos[d] < ndescs[m_head]) /\ addr'[d] = cookie[m_head]
    <3>1. pos[d] \in Nat
      BY DEF Chains, ChainTypes
    <3>2. CASE pos[d] = m_i + 1
      <4>1. d = m_idx
        BY <1>3, <2>4, <3>2 DEF Chains, Partitioned
      <4>2. (m_i < ndescs[m_head] - 1) <=> (pos[d] < ndescs[m_head])
        BY <1>2, <3>2
      <4>3. (m_i < ndescs[m_head] - 1) = (pos[d] < ndescs[m_head])
        BY <4>2
      <4> QED BY <1>5, <4>1, <4>3
    <3>3. CASE pos[d] # m_i + 1
      <4>1. d # m_idx /\ pos[d] <= m_i
        BY <1>1, <1>2, <1>3, <2>4, <3>1, <3>3
      <4> QED BY <1>1, <1>4, <2>4, <4>1 DEF Chains, Adding, Building
    <3> QED BY <3>2, <3>3
  <2> QED BY <1>1, <1>2, <2>1, <2>2, <2>3, <2>4 DEF Adding, Building
<1>12. Freeing(own, pos, len)'
  BY <1>1 DEF Freeing
<1> QED BY <1>7, <1>8, <1>9, <1>10, <1>11, <1>12 DEF Chains

\* The first descriptors of the free chain become the chain of the head.
LEMMA ChainAddSlot ==
    ASSUME TypeInv, NEW own, NEW pos, NEW len, Chains(own, pos, len), M_AddSlot
    PROVE  ChainInv'
<1>1. PICK n, h : n = ndescs[m_head] /\ h = m_head
  OBVIOUS
<1>2. /\ m_pc = "slot" /\ m_pc' = "publish" /\ vq_desc_head_idx' = m_idx
      /\ vq_free_cnt' = vq_free_cnt - n
      /\ UNCHANGED <<next, more, addr, cookie, ndescs, m_head>>
  BY <1>1 DEF M_AddSlot, descVars, mLocals
<1>3. /\ 1 <= n /\ n <= len[CHAIN_END] /\ h = vq_desc_head_idx /\ cookie[h] # NoBuf
      /\ n \in Nat /\ len[CHAIN_END] \in Nat /\ h \in Desc /\ CHAIN_END \in Link /\ h # CHAIN_END
      /\ h \in Link
  BY <1>1, <1>2, SizeAssumption
     DEF Chains, Adding, Building, ChainTypes, Link, TypeInv, TypeOK, CHAIN_END, Desc
<1>4. IF n < len[CHAIN_END]
      THEN m_idx \in Desc /\ own[m_idx] = CHAIN_END /\ pos[m_idx] = n + 1
      ELSE m_idx = CHAIN_END
  BY <1>1, <1>2 DEF Chains, Adding, Building
<1>5. \A d \in Desc : own[d] = CHAIN_END /\ pos[d] <= n =>
        more[d] = (pos[d] < n) /\ addr[d] = cookie[h]
  BY <1>1, <1>2 DEF Chains, Adding, Building
<1>6. \A d : /\ Flying(d)' <=> Flying(d) \/ d = h
             /\ Flying(d) => d # h /\ d \in Desc /\ d # CHAIN_END
  BY <1>1, <1>2, <1>3, SizeAssumption DEF Flying, Building, Desc, CHAIN_END
<1>7. own[h] = CHAIN_END /\ pos[h] = 1
  BY <1>3 DEF Chains, Begins
<1> DEFINE own2 == [d \in Desc |-> IF own[d] = CHAIN_END /\ pos[d] <= n THEN h ELSE own[d]]
           pos2 == [d \in Desc |-> IF own[d] = CHAIN_END /\ pos[d] > n THEN pos[d] - n ELSE pos[d]]
           len2 == [k \in Link |-> IF k = CHAIN_END THEN len[CHAIN_END] - n
                                   ELSE IF k = h THEN n ELSE len[k]]
<1>8. \A d \in Desc : own[d] \in Link /\ pos[d] \in Nat /\ len[own[d]] \in Nat
  BY DEF Chains, ChainTypes
<1>9. ChainTypes(own2, pos2, len2)'
  BY <1>3, <1>8 DEF Chains, ChainTypes
<1>10. ASSUME NEW d \in Desc PROVE
        /\ own2[d] = IF own[d] = CHAIN_END /\ pos[d] <= n THEN h ELSE own[d]
        /\ pos2[d] = IF own[d] = CHAIN_END /\ pos[d] > n THEN pos[d] - n ELSE pos[d]
  OBVIOUS
<1>11. /\ len2[CHAIN_END] = len[CHAIN_END] - n /\ len2[h] = n
       /\ \A k \in Link : k # CHAIN_END /\ k # h => len2[k] = len[k]
  BY <1>3
<1>12. \A d \in Desc : own[d] # h /\ (own[d] # CHAIN_END => Flying(own[d]))
  BY <1>3, <1>6 DEF Chains, Partitioned
<1> HIDE DEF own2, pos2, len2
<1>13. Partitioned(own2, pos2, len2)'
  <2>1. ASSUME NEW d \in Desc
        PROVE  /\ 1 <= pos2[d] /\ pos2[d] <= len2[own2[d]]
               /\ own2[d] # CHAIN_END => Flying(own2[d])'
    <3>1. 1 <= pos[d] /\ pos[d] <= len[own[d]]
      BY DEF Chains, Partitioned
    <3>2. CASE own[d] = CHAIN_END /\ pos[d] <= n
      BY <1>3, <1>6, <1>8, <1>10, <1>11, <3>1, <3>2
    <3>3. CASE own[d] = CHAIN_END /\ pos[d] > n
      BY <1>3, <1>8, <1>10, <1>11, <3>1, <3>3
    <3>4. CASE own[d] # CHAIN_END
      BY <1>6, <1>8, <1>10, <1>11, <1>12, <3>1, <3>4
    <3> QED BY <1>3, <1>8, <3>2, <3>3, <3>4
  <2>2. ASSUME NEW d \in Desc, NEW e \in Desc, own2[d] = own2[e], pos2[d] = pos2[e]
        PROVE  d = e
    <3>1. own[d] = own[e] => (pos[d] = pos[e] => d = e)
      BY DEF Chains, Partitioned
    <3>2. own[d] = own[e]
      BY <1>3, <1>10, <1>12, <2>2
    <3>3. pos[d] = pos[e]
      <4>1. CASE own[d] = CHAIN_END
        BY <1>3, <1>8, <1>10, <2>2, <3>2, <4>1
      <4>2. CASE own[d] # CHAIN_END
        BY <1>10, <2>2, <3>2, <4>2
      <4> QED BY <4>1, <4>2
    <3> QED BY <3>1, <3>2, <3>3
  <2>3. ASSUME NEW k \in Link, k = CHAIN_END \/ Flying(k)', NEW j \in 1..len2[k]
        PROVE  \E d \in Desc : own2[d] = k /\ pos2[d] = j
    <3>0. \A i \in 1..len[CHAIN_END] : \E d \in Desc : own[d] = CHAIN_END /\ pos[d] = i
      BY <1>3 DEF Chains, Partitioned
    <3>1. CASE k = CHAIN_END
      <4>1. j + n \in 1..len[CHAIN_END] /\ j + n > n /\ (j + n) - n = j
        BY <1>3, <1>11, <3>1
      <4>2. PICK d \in Desc : own[d] = CHAIN_END /\ pos[d] = j + n
        BY <3>0, <4>1
      <4>3. own2[d] = CHAIN_END /\ pos2[d] = j
        BY <1>3, <1>10, <4>1, <4>2
      <4> QED BY <4>3, <3>1
    <3>2. CASE k = h
      <4>1. j \in 1..len[CHAIN_END] /\ j <= n
        BY <1>3, <1>11, <3>2
      <4>2. PICK d \in Desc : own[d] = CHAIN_END /\ pos[d] = j
        BY <3>0, <4>1
      <4>3. own2[d] = h /\ pos2[d] = j
        BY <1>3, <1>10, <4>1, <4>2
      <4> QED BY <4>3, <3>2
    <3>3. CASE k # CHAIN_END /\ k # h
      <4>1. Flying(k) /\ j \in 1..len[k]
        BY <1>6, <1>11, <2>3, <3>3
      <4>2. PICK d \in Desc : own[d] = k /\ pos[d] = j
        BY <4>1 DEF Chains, Partitioned
      <4> QED BY <1>10, <3>3, <4>2
    <3> QED BY <3>1, <3>2, <3>3
  <2> QED BY <2>1, <2>2, <2>3 DEF Partitioned
<1>14. Linked(own2, pos2, len2)'
  <2>1. ASSUME NEW d \in Desc, pos2[d] < len2[own2[d]]
        PROVE  next[d] \in Desc /\ own2[next[d]] = own2[d] /\ pos2[next[d]] = pos2[d] + 1
    <3>1. pos[d] < len[own[d]]
      <4>1. CASE own[d] = CHAIN_END
        BY <1>3, <1>8, <1>10, <1>11, <2>1, <4>1
      <4>2. CASE own[d] # CHAIN_END
        BY <1>8, <1>10, <1>11, <1>12, <2>1, <4>2
      <4> QED BY <4>1, <4>2
    <3>2. next[d] \in Desc /\ own[next[d]] = own[d] /\ pos[next[d]] = pos[d] + 1
      BY <3>1 DEF Chains, Linked
    <3>3. CASE own[d] = CHAIN_END /\ pos[d] <= n
      BY <1>3, <1>8, <1>10, <1>11, <2>1, <3>2, <3>3
    <3>4. CASE own[d] = CHAIN_END /\ pos[d] > n
      BY <1>3, <1>8, <1>10, <1>11, <2>1, <3>2, <3>4
    <3>5. CASE own[d] # CHAIN_END
      BY <1>10, <3>2, <3>5
    <3> QED BY <1>3, <1>8, <3>3, <3>4, <3>5
  <2>2. ASSUME NEW d \in Desc, own2[d] = CHAIN_END, pos2[d] = len2[CHAIN_END]
        PROVE  next[d] = CHAIN_END
    <3>1. own[d] = CHAIN_END /\ pos[d] = len[CHAIN_END]
      BY <1>3, <1>8, <1>10, <1>11, <2>2
    <3> QED BY <3>1 DEF Chains, Linked
  <2> QED BY <1>2, <2>1, <2>2 DEF Linked
<1>15. Begins(own2, pos2, len2)'
  <2>3. IF len2[CHAIN_END] = 0 THEN vq_desc_head_idx' = CHAIN_END
        ELSE /\ vq_desc_head_idx' \in Desc
             /\ own2[vq_desc_head_idx'] = CHAIN_END /\ pos2[vq_desc_head_idx'] = 1
    <3>1. CASE n < len[CHAIN_END]
      BY <1>2, <1>3, <1>4, <1>10, <1>11, <3>1
    <3>2. CASE ~(n < len[CHAIN_END])
      BY <1>2, <1>3, <1>4, <1>11, <3>2
    <3> QED BY <3>1, <3>2
  <2>4. ASSUME NEW g \in Desc, Flying(g)'
        PROVE  own2[g] = g /\ pos2[g] = 1 /\ len2[g] = ndescs[g]
    <3>1. CASE g = h
      BY <1>1, <1>3, <1>7, <1>10, <1>11, <3>1
    <3>2. CASE g # h
      <4>1. Flying(g) /\ g # CHAIN_END /\ g \in Link
        BY <1>6, <2>4, <3>2 DEF Link
      <4>2. own[g] = g /\ pos[g] = 1 /\ len[g] = ndescs[g]
        BY <1>2, <4>1 DEF Chains, Begins
      <4> QED BY <1>10, <1>11, <3>2, <4>1, <4>2
    <3> QED BY <3>1, <3>2
  <2>5. vq_free_cnt' = len2[CHAIN_END]
    <3>1. vq_free_cnt = len[CHAIN_END]
      BY <1>2, <1>3 DEF Chains, Begins
    <3> QED BY <1>2, <1>11, <3>1
  <2> QED BY <1>2, <1>3, <1>11, <2>3, <2>4, <2>5 DEF Begins
<1>16. Filled(own2, pos2, len2)'
  <2>1. ASSUME NEW d \in Desc, own2[d] # CHAIN_END
        PROVE  more[d] = (pos2[d] < len2[own2[d]]) /\ addr[d] = cookie[own2[d]]
    <3>1. CASE own[d] = CHAIN_END /\ pos[d] <= n
      <4>1. own2[d] = h /\ pos2[d] = pos[d] /\ len2[own2[d]] = n
        BY <1>3, <1>8, <1>10, <1>11, <3>1
      <4> QED BY <1>5, <3>1, <4>1
    <3>2. CASE own[d] # CHAIN_END
      <4>1. own2[d] = own[d] /\ pos2[d] = pos[d] /\ len2[own2[d]] = len[own[d]]
        BY <1>8, <1>10, <1>11, <1>12, <3>2
      <4> QED BY <3>2, <4>1 DEF Chains, Filled
    <3> QED BY <1>10, <2>1, <3>1, <3>2
  <2> QED BY <1>2, <2>1 DEF Filled
<1>17. Adding(own2, pos2, len2)' /\ Freeing(own2, pos2, len2)'
  BY <1>2 DEF Adding, Freeing, Building
<1>18. Chains(own2, pos2, len2)'
  BY <1>9, <1>13, <1>14, <1>15, <1>16, <1>17 DEF Chains
<1> QED BY <1>18 DEF ChainInv

\* virtqueue_get_buffer begins to free a chain that is in flight.
LEMMA ChainFreeStart ==
    ASSUME TypeInv, OwnerInv, NEW own, NEW pos, NEW len, Chains(own, pos, len), M_FreeStart
    PROVE  Chains(own, pos, len)'
<1>1. PICK h : h = used_ring[m_i]
  OBVIOUS
<1>2. /\ m_pc = "get" /\ m_pc' = "free" /\ m_head' = h /\ m_idx' = h
      /\ vq_free_cnt' = vq_free_cnt + ndescs[h]
      /\ ndescs' = [ndescs EXCEPT ![h] = @ - 1]
      /\ UNCHANGED <<next, more, addr, vq_desc_head_idx, cookie>>
  BY <1>1 DEF M_FreeStart, descVars
<1>3. h \in Desc
  BY <1>1, <1>2 DEF TypeInv, TypeOK, CallInv
<1>4. IsAt("get", 0, h)
  BY <1>1, <1>2 DEF IsAt
<1>5. Flying(h)
  BY <1>2, <1>3, <1>4 DEF OwnerInv, CookieKept, Flying, Building
<1>6. /\ \A d \in Desc : ndescs'[d] = IF d = h THEN ndescs[h] - 1 ELSE ndescs[d]
      /\ ndescs[h] \in Int
  BY <1>2, <1>3 DEF TypeInv, TypeOK
<1>7. \A d : Flying(d)' <=> Flying(d)
  BY <1>2 DEF Flying, Building
<1>8. ChainTypes(own, pos, len)' /\ Linked(own, pos, len)' /\ Filled(own, pos, len)'
  BY <1>2 DEF Chains, ChainTypes, Linked, Filled
<1>9. Partitioned(own, pos, len)'
  BY <1>7 DEF Chains, Partitioned
<1>10. \A g \in Desc : Flying(g) => own[g] = g /\ pos[g] = 1 /\ len[g] = ndescs[g]
  BY <1>2 DEF Chains, Begins
<1>11. vq_free_cnt = len[CHAIN_END] /\ len[CHAIN_END] \in Nat
  <2>1. len[CHAIN_END] \in Nat
    BY DEF Chains, ChainTypes, Link
  <2> QED BY <1>2, <2>1 DEF Chains, Begins
<1>12. Begins(own, pos, len)'
  <2>1. IF len[CHAIN_END] = 0 THEN vq_desc_head_idx = CHAIN_END
        ELSE /\ vq_desc_head_idx \in Desc
             /\ own[vq_desc_head_idx] = CHAIN_END /\ pos[vq_desc_head_idx] = 1
    BY DEF Chains, Begins
  <2>2. vq_free_cnt' = len[CHAIN_END] + len[h]
    BY <1>2, <1>3, <1>5, <1>10, <1>11
  <2>3. \A g \in Desc : Flying(g)' =>
          own[g] = g /\ pos[g] = 1 /\ (g # h => len[g] = ndescs'[g])
    BY <1>6, <1>7, <1>10
  <2> QED BY <1>2, <2>1, <2>2, <2>3 DEF Begins
<1>13. Adding(own, pos, len)'
  BY <1>2 DEF Adding, Building
<1>14. Freeing(own, pos, len)'
  BY <1>2, <1>3, <1>5, <1>6, <1>7, <1>10 DEF Freeing
<1> QED BY <1>8, <1>9, <1>12, <1>13, <1>14 DEF Chains

\* The loop of vq_ring_free_chain follows the chain.
LEMMA ChainFreeStep ==
    ASSUME TypeInv, NEW own, NEW pos, NEW len, Chains(own, pos, len), M_FreeStep
    PROVE  Chains(own, pos, len)'
<1>1. /\ m_pc = "free" /\ m_pc' = "free" /\ more[m_idx] /\ m_idx' = next[m_idx]
      /\ ndescs' = [ndescs EXCEPT ![m_head] = @ - 1]
      /\ UNCHANGED <<next, more, addr, vq_desc_head_idx, vq_free_cnt, cookie, m_head>>
  BY DEF M_FreeStep, descVars
<1>2. /\ Flying(m_head) /\ m_idx \in Desc /\ own[m_idx] = m_head /\ m_head \in Desc
      /\ ndescs[m_head] = len[m_head] - pos[m_idx]
      /\ pos[m_idx] \in Nat /\ len[m_head] \in Nat
  BY <1>1 DEF Chains, Freeing, Flying, ChainTypes, Link
<1>3. own[m_idx] # CHAIN_END
  BY <1>2, SizeAssumption DEF Desc, CHAIN_END
<1>4. more[m_idx] = (pos[m_idx] < len[m_head])
  BY <1>2, <1>3 DEF Chains, Filled
<1>5. pos[m_idx] < len[m_head]
  BY <1>1, <1>4
<1>6. next[m_idx] \in Desc /\ own[next[m_idx]] = m_head /\ pos[next[m_idx]] = pos[m_idx] + 1
  BY <1>2, <1>5 DEF Chains, Linked
<1>7. \A d \in Desc : ndescs'[d] = IF d = m_head THEN ndescs[m_head] - 1 ELSE ndescs[d]
  BY <1>1, <1>2 DEF TypeInv, TypeOK
<1>8. \A d : Flying(d)' <=> Flying(d)
  BY <1>1 DEF Flying, Building
<1>9. ChainTypes(own, pos, len)' /\ Linked(own, pos, len)' /\ Filled(own, pos, len)'
  BY <1>1 DEF Chains, ChainTypes, Linked, Filled
<1>10. Partitioned(own, pos, len)'
  BY <1>8 DEF Chains, Partitioned
<1>11. Begins(own, pos, len)'
  <2>1. \A g \in Desc : Flying(g)' =>
          own[g] = g /\ pos[g] = 1 /\ (g # m_head => len[g] = ndescs'[g])
    BY <1>7, <1>8 DEF Chains, Begins
  <2> QED BY <1>1, <2>1 DEF Chains, Begins
<1>12. Adding(own, pos, len)'
  BY <1>1 DEF Adding, Building
<1>13. Freeing(own, pos, len)'
  BY <1>1, <1>2, <1>6, <1>7, <1>8 DEF Freeing
<1> QED BY <1>9, <1>10, <1>11, <1>12, <1>13 DEF Chains

\* The freed chain goes before the free chain.
LEMMA ChainFreeEnd ==
    ASSUME TypeInv, NEW own, NEW pos, NEW len, Chains(own, pos, len), M_FreeEnd
    PROVE  ChainInv'
<1>1. PICK h, z, n : h = m_head /\ z = m_idx /\ n = len[h]
  OBVIOUS
<1>2. /\ m_pc = "free" /\ m_pc' = "idle" /\ ~more[z] /\ vq_desc_head_idx' = h
      /\ next' = [next EXCEPT ![z] = vq_desc_head_idx]
      /\ cookie' = [cookie EXCEPT ![h] = NoBuf]
      /\ UNCHANGED <<more, addr, vq_free_cnt, ndescs>>
  BY <1>1 DEF M_FreeEnd, M_Leave
<1>3. /\ Flying(h) /\ h \in Desc /\ z \in Desc /\ own[z] = h /\ pos[z] \in Nat
      /\ n \in Nat /\ len[CHAIN_END] \in Nat /\ CHAIN_END \in Link /\ h # CHAIN_END
      /\ h \in Link /\ pos[z] <= n /\ 1 <= n
  <2>1. Flying(h) /\ z \in Desc /\ own[z] = h
    BY <1>1, <1>2 DEF Chains, Freeing
  <2>2. h \in Desc /\ h \in Link /\ CHAIN_END \in Link /\ h # CHAIN_END
    BY <2>1, SizeAssumption DEF Flying, Link, CHAIN_END, Desc
  <2>3. pos[z] \in Nat /\ n \in Nat /\ len[CHAIN_END] \in Nat
    BY <1>1, <2>1, <2>2 DEF Chains, ChainTypes
  <2>4. 1 <= pos[z] /\ pos[z] <= n
    BY <1>1, <2>1 DEF Chains, Partitioned
  <2> QED BY <2>1, <2>2, <2>3, <2>4
<1>4. pos[z] = n
  <2>1. more[z] = (pos[z] < n)
    BY <1>1, <1>3 DEF Chains, Filled
  <2>2. ~(pos[z] < n)
    BY <1>2, <2>1
  <2> QED BY <1>3, <2>2
<1>5. /\ \A d \in Desc : next'[d] = IF d = z THEN vq_desc_head_idx ELSE next[d]
      /\ \A d \in Desc : cookie'[d] = IF d = h THEN NoBuf ELSE cookie[d]
  BY <1>2, <1>3 DEF TypeInv, TypeOK
<1>6. \A d : /\ Flying(d)' <=> Flying(d) /\ d # h
             /\ Flying(d) => d \in Desc /\ d # CHAIN_END /\ d \in Link
  BY <1>2, <1>5, SizeAssumption DEF Flying, Building, Desc, CHAIN_END, Link
<1>7. own[h] = h /\ pos[h] = 1 /\ vq_free_cnt = len[CHAIN_END] + n
  BY <1>1, <1>2, <1>3 DEF Chains, Begins
<1> DEFINE own2 == [d \in Desc |-> IF own[d] = h THEN CHAIN_END ELSE own[d]]
           pos2 == [d \in Desc |-> IF own[d] = CHAIN_END THEN pos[d] + n ELSE pos[d]]
           len2 == [k \in Link |-> IF k = CHAIN_END THEN len[CHAIN_END] + n ELSE len[k]]
<1>8. \A d \in Desc : own[d] \in Link /\ pos[d] \in Nat /\ len[own[d]] \in Nat
  BY DEF Chains, ChainTypes
<1>9. ChainTypes(own2, pos2, len2)'
  BY <1>3, <1>8 DEF Chains, ChainTypes
<1>10. ASSUME NEW d \in Desc PROVE
        /\ own2[d] = IF own[d] = h THEN CHAIN_END ELSE own[d]
        /\ pos2[d] = IF own[d] = CHAIN_END THEN pos[d] + n ELSE pos[d]
  OBVIOUS
<1>11. /\ len2[CHAIN_END] = len[CHAIN_END] + n
       /\ \A k \in Link : k # CHAIN_END => len2[k] = len[k]
  BY <1>3
<1>12. \A d \in Desc : /\ 1 <= pos[d] /\ pos[d] <= len[own[d]]
                       /\ own[d] # CHAIN_END => Flying(own[d])
  BY DEF Chains, Partitioned
<1> HIDE DEF own2, pos2, len2
<1>13. Partitioned(own2, pos2, len2)'
  <2>1. ASSUME NEW d \in Desc
        PROVE  /\ 1 <= pos2[d] /\ pos2[d] <= len2[own2[d]]
               /\ own2[d] # CHAIN_END => Flying(own2[d])'
    <3>1. CASE own[d] = h
      BY <1>1, <1>3, <1>8, <1>10, <1>11, <1>12, <3>1
    <3>2. CASE own[d] = CHAIN_END
      BY <1>3, <1>8, <1>10, <1>11, <1>12, <3>2
    <3>3. CASE own[d] # CHAIN_END /\ own[d] # h
      BY <1>6, <1>8, <1>10, <1>11, <1>12, <3>3
    <3> QED BY <3>1, <3>2, <3>3
  <2>2. ASSUME NEW d \in Desc, NEW e \in Desc, own2[d] = own2[e], pos2[d] = pos2[e]
        PROVE  d = e
    <3>1. own[d] = own[e] /\ pos[d] = pos[e] => d = e
      BY DEF Chains, Partitioned
    <3>2. CASE own[d] = own[e]
      BY <1>3, <1>8, <1>10, <2>2, <3>1, <3>2
    <3>3. CASE own[d] # own[e]
      <4>1. (own[d] = h /\ own[e] = CHAIN_END) \/ (own[e] = h /\ own[d] = CHAIN_END)
        BY <1>3, <1>10, <2>2, <3>3
      <4> QED BY <1>1, <1>3, <1>8, <1>10, <1>12, <2>2, <4>1
    <3> QED BY <3>2, <3>3
  <2>3. ASSUME NEW k \in Link, k = CHAIN_END \/ Flying(k)', NEW j \in 1..len2[k]
        PROVE  \E d \in Desc : own2[d] = k /\ pos2[d] = j
    <3>1. CASE k = CHAIN_END /\ j <= n
      <4>1. j \in 1..len[h]
        BY <1>1, <1>3, <3>1
      <4>2. PICK d \in Desc : own[d] = h /\ pos[d] = j
        BY <1>3, <4>1 DEF Chains, Partitioned
      <4> QED BY <1>3, <1>10, <3>1, <4>2
    <3>2. CASE k = CHAIN_END /\ ~(j <= n)
      <4>1. j - n \in 1..len[CHAIN_END] /\ (j - n) + n = j
        BY <1>3, <1>11, <3>2
      <4>2. PICK d \in Desc : own[d] = CHAIN_END /\ pos[d] = j - n
        BY <1>3, <4>1 DEF Chains, Partitioned
      <4> QED BY <1>3, <1>10, <3>2, <4>1, <4>2
    <3>3. CASE k # CHAIN_END
      <4>1. Flying(k) /\ k # h /\ j \in 1..len[k]
        BY <1>6, <1>11, <2>3, <3>3
      <4>2. PICK d \in Desc : own[d] = k /\ pos[d] = j
        BY <4>1 DEF Chains, Partitioned
      <4> QED BY <1>10, <3>3, <4>1, <4>2
    <3> QED BY <3>1, <3>2, <3>3
  <2> QED BY <2>1, <2>2, <2>3 DEF Partitioned
<1>14. IF len[CHAIN_END] = 0 THEN vq_desc_head_idx = CHAIN_END
       ELSE /\ vq_desc_head_idx \in Desc
            /\ own[vq_desc_head_idx] = CHAIN_END /\ pos[vq_desc_head_idx] = 1
  BY DEF Chains, Begins
<1>15. Linked(own2, pos2, len2)'
  <2>1. ASSUME NEW d \in Desc, pos2[d] < len2[own2[d]]
        PROVE  next'[d] \in Desc /\ own2[next'[d]] = own2[d] /\ pos2[next'[d]] = pos2[d] + 1
    <3>1. CASE d = z
      <4>1. own2[d] = CHAIN_END /\ pos2[d] = n
        BY <1>3, <1>4, <1>10, <3>1
      <4>2. len[CHAIN_END] # 0
        BY <1>3, <1>11, <2>1, <4>1
      <4> QED BY <1>3, <1>5, <1>10, <1>14, <3>1, <4>1, <4>2
    <3>2. CASE d # z
      <4>1. pos[d] < len[own[d]]
        <5>1. CASE own[d] = h
          <6>1. pos[d] # n
            BY <1>3, <1>4, <3>2, <5>1 DEF Chains, Partitioned
          <6> QED BY <1>1, <1>3, <1>8, <1>12, <5>1, <6>1
        <5>2. CASE own[d] = CHAIN_END
          BY <1>3, <1>8, <1>10, <1>11, <2>1, <5>2
        <5>3. CASE own[d] # CHAIN_END /\ own[d] # h
          BY <1>8, <1>10, <1>11, <2>1, <5>3
        <5> QED BY <5>1, <5>2, <5>3
      <4>2. next[d] \in Desc /\ own[next[d]] = own[d] /\ pos[next[d]] = pos[d] + 1
        BY <4>1 DEF Chains, Linked
      <4> QED BY <1>3, <1>5, <1>8, <1>10, <3>2, <4>2
    <3> QED BY <3>1, <3>2
  <2>2. ASSUME NEW d \in Desc, own2[d] = CHAIN_END, pos2[d] = len2[CHAIN_END]
        PROVE  next'[d] = CHAIN_END
    <3>1. CASE own[d] = CHAIN_END
      <4>1. pos[d] = len[CHAIN_END] /\ d # z
        BY <1>3, <1>8, <1>10, <1>11, <2>2, <3>1
      <4> QED BY <1>5, <3>1, <4>1 DEF Chains, Linked
    <3>2. CASE own[d] = h
      <4>1. pos[d] = n /\ len[CHAIN_END] = 0
        BY <1>1, <1>3, <1>8, <1>10, <1>11, <1>12, <2>2, <3>2
      <4>2. d = z
        BY <1>3, <1>4, <3>2, <4>1 DEF Chains, Partitioned
      <4> QED BY <1>5, <1>14, <4>1, <4>2
    <3> QED BY <1>10, <2>2, <3>1, <3>2
  <2> QED BY <2>1, <2>2 DEF Linked
<1>16. Begins(own2, pos2, len2)'
  <2>1. own2[h] = CHAIN_END /\ pos2[h] = 1 /\ len2[CHAIN_END] # 0
    BY <1>3, <1>7, <1>10, <1>11
  <2>2. ASSUME NEW g \in Desc, Flying(g)'
        PROVE  own2[g] = g /\ pos2[g] = 1 /\ len2[g] = ndescs[g]
    <3>1. Flying(g) /\ g # h /\ g # CHAIN_END /\ g \in Link
      BY <1>6, <2>2
    <3>2. own[g] = g /\ pos[g] = 1 /\ len[g] = ndescs[g]
      BY <1>1, <3>1 DEF Chains, Begins
    <3> QED BY <1>10, <1>11, <3>1, <3>2
  <2> QED BY <1>2, <1>3, <1>7, <1>11, <2>1, <2>2 DEF Begins
<1>17. Filled(own2, pos2, len2)'
  <2>1. ASSUME NEW d \in Desc, own2[d] # CHAIN_END
        PROVE  more[d] = (pos2[d] < len2[own2[d]]) /\ addr[d] = cookie'[own2[d]]
    <3>1. own[d] # CHAIN_END /\ own[d] # h
      BY <1>10, <2>1
    <3>2. own2[d] = own[d] /\ pos2[d] = pos[d] /\ len2[own2[d]] = len[own[d]] /\ own[d] \in Desc
      BY <1>6, <1>8, <1>10, <1>11, <1>12, <3>1
    <3>3. more[d] = (pos[d] < len[own[d]]) /\ addr[d] = cookie[own[d]]
      BY <3>1 DEF Chains, Filled
    <3> QED BY <1>5, <3>1, <3>2, <3>3
  <2> QED BY <1>2, <2>1 DEF Filled
<1>18. Adding(own2, pos2, len2)' /\ Freeing(own2, pos2, len2)'
  BY <1>2 DEF Adding, Freeing, Building
<1>19. Chains(own2, pos2, len2)'
  BY <1>9, <1>13, <1>15, <1>16, <1>17, <1>18 DEF Chains
<1> QED BY <1>19 DEF ChainInv

\* Every step keeps the descriptors in chains.
LEMMA ChainStep == CallerCounts /\ TypeInv /\ OwnerInv /\ ChainInv /\ [Next]_vars => ChainInv'
<1> SUFFICES ASSUME CallerCounts, TypeInv, OwnerInv, ChainInv, [Next]_vars PROVE ChainInv'
  OBVIOUS
<1>0. PICK own, pos, len : Chains(own, pos, len)
  BY DEF ChainInv
<1>s. Chains(own, pos, len)' => ChainInv'
  BY DEF ChainInv
<1>1. CASE \E needed \in 1..MaxChain, buf \in Bufs : M_AddStart(needed, buf)
  BY <1>0, <1>1, <1>s, ChainAddStart
<1>2. CASE M_AddDesc
  BY <1>0, <1>2, <1>s, ChainAddDesc
<1>3. CASE M_AddSlot
  BY <1>0, <1>3, ChainAddSlot
<1>4. CASE M_FreeStart
  BY <1>0, <1>4, <1>s, ChainFreeStart
<1>5. CASE M_FreeStep
  BY <1>0, <1>5, <1>s, ChainFreeStep
<1>6. CASE M_FreeEnd
  BY <1>0, <1>6, ChainFreeEnd
<1>7. CASE M_AddPublish \/ M_Get \/ M_EnableCb \/ M_EnableCheck
  <2>1. /\ UNCHANGED <<descVars, freeVars>>
        /\ m_pc \notin {"add", "slot", "free"} /\ m_pc' \notin {"add", "slot", "free"}
    BY <1>7 DEF M_AddPublish, M_Get, M_EnableCb, M_EnableCheck, M_Leave, descVars, freeVars
  <2> QED BY <1>0, <1>s, <2>1, ChainFrame
<1>8. CASE M_Kick \/ M_GetEmpty \/ M_DisableCb \/ M_Notification \/ S_Kick \/ S_TakeEmpty
           \/ S_DisableCb \/ S_Notification \/ S_Take \/ S_TakeRead
           \/ (\E h \in held : S_ReturnSlot(h)) \/ S_ReturnPublish \/ S_EnableCb
           \/ S_EnableCheck \/ UNCHANGED vars
  <2>1. UNCHANGED <<descVars, freeVars, m_pc, mLocals>>
    BY <1>8 DEF M_Kick, M_GetEmpty, M_DisableCb, M_Notification, S_Kick, S_TakeEmpty,
       S_DisableCb, S_Notification, S_Take, S_TakeRead, S_ReturnSlot, S_ReturnPublish,
       S_EnableCb, S_EnableCheck, vars, mVars
  <2> QED BY <1>0, <1>s, <2>1, ChainFrame
<1> QED BY <1>1, <1>2, <1>3, <1>4, <1>5, <1>6, <1>7, <1>8 DEF Next

\* Every step leaves the slave's caller with the buffers of the heads it holds.
LEMMA HeldStep ==
    ASSUME TypeInv, OwnerInv, ChainInv, HeldCookie, [Next]_vars PROVE HeldCookie'
<1>1. \A h \in held : /\ h[1] \in Desc /\ IsAt("held", h[2], h[1])
                      /\ cookie[h[1]] # NoBuf /\ cookie[h[1]] = h[2]
  <2>1. \A h \in held : h[1] \in Desc /\ h = <<h[1], h[2]>>
    BY DEF TypeInv, TypeOK
  <2>2. \A h \in held : IsAt("held", h[2], h[1])
    BY <2>1 DEF IsAt
  <2> QED BY <2>1, <2>2 DEF OwnerInv, CookieKept, HeldCookie
<1>2. CASE \E needed \in 1..MaxChain, buf \in Bufs : M_AddStart(needed, buf)
  <2>1. held' = held /\ \A d \in Desc : cookie[d] # NoBuf => cookie'[d] = cookie[d]
    BY <1>2 DEF M_AddStart, AssertHead, TypeInv, TypeOK, sVars
  <2> QED BY <1>1, <2>1 DEF HeldCookie
<1>3. CASE M_FreeEnd
  <2>1. held' = held /\ \A d \in Desc : d # m_head => cookie'[d] = cookie[d]
    BY <1>3 DEF M_FreeEnd, TypeInv, TypeOK, sVars
  <2>2. IsAt("master", 0, m_head)
    BY <1>3 DEF M_FreeEnd, IsAt
  <2>3. \A h \in held : h[1] # m_head
    BY <1>1, <2>2 DEF OwnerInv, OnePlace
  <2> QED BY <1>1, <2>1, <2>3 DEF HeldCookie
<1>4. CASE S_TakeRead
  <2>1. PICK d : d = avail_ring[s_slot]
    OBVIOUS
  <2>2. s_pc = "take" /\ held' = held \cup {<<d, addr[d]>>} /\ cookie' = cookie /\ d \in Desc
    BY <1>4, <2>1 DEF S_TakeRead, mVars, freeVars, TypeInv, TypeOK
  <2>3. IsAt("take", 0, d)
    BY <2>1, <2>2 DEF IsAt
  <2>4. Building => m_head # d
    BY <2>2, <2>3 DEF OwnerInv, OnePlace, Building, IsAt
  <2>5. Flying(d)
    BY <2>2, <2>3, <2>4 DEF Flying, OwnerInv, CookieKept
  <2>6. addr[d] = cookie[d]
    <3>1. PICK own, pos, len : Chains(own, pos, len)
      BY DEF ChainInv
    <3>2. own[d] = d /\ d # CHAIN_END
      BY <2>2, <2>5, <3>1, SizeAssumption DEF Chains, Begins, Desc, CHAIN_END
    <3> QED BY <2>2, <3>1, <3>2 DEF Chains, Filled
  <2> QED BY <2>2, <2>6 DEF HeldCookie
<1>5. CASE \E h \in held : S_ReturnSlot(h)
  BY <1>5 DEF S_ReturnSlot, HeldCookie, mVars, freeVars
<1>6. CASE held' = held /\ cookie' = cookie
  BY <1>6 DEF HeldCookie
<1>7. CASE M_AddDesc \/ M_AddSlot \/ M_AddPublish \/ M_Get \/ M_FreeStart \/ M_FreeStep
           \/ M_Kick \/ M_GetEmpty \/ M_DisableCb \/ M_EnableCb \/ M_EnableCheck
           \/ M_Notification
  <2>1. held' = held /\ cookie' = cookie
    BY <1>7 DEF M_AddDesc, M_AddSlot, M_AddPublish, M_Get, M_FreeStart, M_FreeStep, M_Kick,
       M_GetEmpty, M_DisableCb, M_EnableCb, M_EnableCheck, M_Notification, mVars, freeVars, sVars
  <2> QED BY <1>6, <2>1
<1>8. CASE S_Take \/ S_ReturnPublish \/ S_Kick \/ S_TakeEmpty \/ S_DisableCb \/ S_EnableCb
           \/ S_EnableCheck \/ S_Notification \/ UNCHANGED vars
  <2>1. held' = held /\ cookie' = cookie
    BY <1>8 DEF S_Take, S_ReturnPublish, S_Kick, S_TakeEmpty, S_DisableCb, S_EnableCb,
       S_EnableCheck, S_Notification, vars, mVars, freeVars, sVars
  <2> QED BY <1>6, <2>1
<1> QED BY <1>2, <1>3, <1>4, <1>5, <1>7, <1>8 DEF Next

\* All that is invariant when callers count the free descriptors.
DescInv == TypeInv /\ OwnerInv /\ ChainInv /\ HeldCookie

\* The chains invariant holds in every reachable state when callers count descriptors.
LEMMA DescInvariant == CallerCounts => (Spec => []DescInv)
<1> SUFFICES ASSUME CallerCounts PROVE Spec => []DescInv
  OBVIOUS
<1>1. Init => DescInv
  BY TypeInit, OwnerInit, ChainInit DEF DescInv, HeldCookie, Init
<1>2. DescInv /\ [Next]_vars => DescInv'
  BY TypeStep, OwnerStep, ChainStep, HeldStep DEF DescInv
<1> QED BY <1>1, <1>2, PTL DEF Spec

\* The buffer the slave's caller got with a head is the one the master offered,
\* and the master does not touch the descriptor before it gets it back: a chain
\* is filled before its head is published, and freed after it was returned.
THEOREM HeldBuffersStay == CallerCounts => (Spec => []HeldIntact)
<1>1. DescInv => HeldIntact
  <2> SUFFICES ASSUME DescInv, NEW h \in held PROVE cookie[h[1]] = h[2] /\ addr[h[1]] = h[2]
    BY DEF HeldIntact
  <2>1. PICK own, pos, len : Chains(own, pos, len)
    BY DEF DescInv, ChainInv
  <2>2. PICK d : d = h[1] /\ d \in Desc /\ h = <<d, h[2]>> /\ cookie[d] = h[2]
    BY DEF DescInv, TypeInv, TypeOK, HeldCookie
  <2>3. IsAt("held", h[2], d)
    BY <2>2 DEF IsAt
  <2>4. Building => m_head # d
    BY <2>2, <2>3 DEF DescInv, OwnerInv, OnePlace, Building, IsAt
  <2>5. Flying(d)
    BY <2>2, <2>3, <2>4 DEF Flying, DescInv, OwnerInv, CookieKept
  <2>6. own[d] = d /\ d # CHAIN_END
    BY <2>1, <2>2, <2>5, SizeAssumption DEF Chains, Begins, Desc, CHAIN_END
  <2>7. addr[d] = cookie[d]
    BY <2>1, <2>2, <2>6 DEF Chains, Filled
  <2> QED BY <2>2, <2>7
<1> QED BY <1>1, DescInvariant, PTL

\* No VQASSERT of virtqueue.c fails when callers count the free descriptors
\* (RPMsg asks for one at a time): the free chain does not end too early, the
\* counters agree with the chains, and no ring overflows.
THEOREM NoAssertionFails == CallerCounts => (Spec => []AssertionsHold)
<1>1. DescInv => AssertionsHold
  <2> SUFFICES ASSUME DescInv PROVE AssertionsHold
    OBVIOUS
  <2>1. PICK own, pos, len : Chains(own, pos, len)
    BY DEF DescInv, ChainInv
  <2>2. CHAIN_END \notin Desc /\ len[CHAIN_END] \in Nat
    BY <2>1, SizeAssumption DEF Desc, CHAIN_END, Chains, ChainTypes, Link
  <2>3. m_pc # "free" => vq_free_cnt = len[CHAIN_END]
    BY <2>1, <2>2 DEF Chains, Begins
  <2>4. ASSUME m_pc = "idle", vq_free_cnt # 0 PROVE AssertHead
    <3>1. vq_desc_head_idx \in Desc /\ own[vq_desc_head_idx] = CHAIN_END
      BY <2>1, <2>3, <2>4 DEF Chains, Begins
    <3>2. ~Flying(vq_desc_head_idx)
      BY <2>1, <2>2, <3>1 DEF Chains, Begins
    <3> QED BY <2>4, <3>1, <3>2 DEF AssertHead, Flying, Building
  <2>5. m_pc = "add" => AssertNotEnd
    <3>1. m_i \in Nat /\ (m_head \in Desc => ndescs[m_head] \in Int) /\ m_head \in Desc
      BY DEF DescInv, TypeInv, TypeOK
    <3> QED BY <2>1, <2>2, <3>1 DEF Chains, Adding, Building, AssertNotEnd
  <2>6. m_pc = "slot" => AssertNewHead
    <3>1. m_i \in Nat /\ (m_head \in Desc => ndescs[m_head] \in Int) /\ m_head \in Desc
      BY DEF DescInv, TypeInv, TypeOK
    <3> QED BY <2>1, <2>2, <2>3, <3>1 DEF Chains, Adding, Building, AssertNewHead
  <2>7. m_pc = "get" => AssertChainTerm
    BY <2>1, <2>2, <2>3 DEF Chains, Begins, AssertChainTerm
  <2>8. ASSUME m_pc = "free" PROVE IF more[m_idx] THEN next[m_idx] \in Desc ELSE ndescs[m_head] = 0
    <3>1. /\ m_idx \in Desc /\ own[m_idx] = m_head /\ m_head \in Desc /\ m_head # CHAIN_END
          /\ ndescs[m_head] = len[m_head] - pos[m_idx]
      BY <2>1, <2>2, <2>8 DEF Chains, Freeing, Flying
    <3>2. pos[m_idx] \in Nat /\ len[m_head] \in Nat /\ pos[m_idx] <= len[m_head]
      BY <2>1, <3>1 DEF Chains, ChainTypes, Link, Partitioned
    <3>3. more[m_idx] = (pos[m_idx] < len[m_head])
      BY <2>1, <3>1 DEF Chains, Filled
    <3>4. CASE more[m_idx]
      <4>1. pos[m_idx] < len[m_head]
        BY <3>3, <3>4
      <4> QED BY <2>1, <3>1, <3>4, <4>1 DEF Chains, Linked
    <3>5. CASE ~more[m_idx]
      <4>1. ~(pos[m_idx] < len[m_head])
        BY <3>3, <3>5
      <4> QED BY <3>1, <3>2, <3>5, <4>1
    <3> QED BY <3>4, <3>5
  <2>9. virtqueue_navail <= N
    <3>1. Distinct(avail_ring, vq_available_idx, virtqueue_navail, Desc)
      <4>1. ASSUME NEW i \in Index, Sub(i, vq_available_idx) < virtqueue_navail
            PROVE  avail_ring[Slot(i)] \in Desc /\ IsAt("avail", i, avail_ring[Slot(i)])
        BY <4>1, IndexArithmetic DEF DescInv, TypeInv, TypeOK, IsAt, AvailPos
      <4> QED BY <4>1 DEF Distinct, DescInv, OwnerInv, OnePlace
    <3>2. virtqueue_navail \in 0..(M - 1) /\ vq_available_idx \in Index
      BY Distances DEF DescInv, TypeInv, TypeOK
    <3> QED BY <3>1, <3>2, Descriptors, RowFits
  <2>10. virtqueue_nused <= N
    <3>1. Distinct(used_ring, vq_used_cons_idx, virtqueue_nused, Desc)
      <4>1. ASSUME NEW i \in Index, Sub(i, vq_used_cons_idx) < virtqueue_nused
            PROVE  used_ring[Slot(i)] \in Desc /\ IsAt("used", i, used_ring[Slot(i)])
        BY <4>1, IndexArithmetic DEF DescInv, TypeInv, TypeOK, IsAt, UsedPos
      <4> QED BY <4>1 DEF Distinct, DescInv, OwnerInv, OnePlace
    <3>2. virtqueue_nused \in 0..(M - 1) /\ vq_used_cons_idx \in Index
      BY Distances DEF DescInv, TypeInv, TypeOK
    <3> QED BY <3>1, <3>2, Descriptors, RowFits
  <2> QED BY <2>4, <2>5, <2>6, <2>7, <2>8, <2>9, <2>10 DEF AssertionsHold
<1> QED BY <1>1, DescInvariant, PTL

--------------------------------------------------------------------------------
(***************************************************************************)
(* The walk along next from the head of a chain. Walk is a recursive       *)
(* function: what it computes is shown by a least counterexample.          *)
(***************************************************************************)
\* A set of numbers has a least member: what the proofs by least counterexample
\* rest on.
LEMMA Least == ASSUME NEW S \in SUBSET Nat, S # {} PROVE \E a \in S : \A b \in S : a <= b
<1>1. PICK a \in S : \A b \in S : <<b, a>> \notin OpToRel(<, Nat)
  BY NatLessThanWellFounded, WFMin
<1>2. \A b \in S : ~(b < a)
  BY <1>1 DEF OpToRel
<1> QED BY <1>2

\* One step of Walk, and that w walks n steps from d.
Onward(x) == IF x \in Desc THEN next[x] ELSE CHAIN_END
Walks(w, d, n) == w = [k \in 0..n |-> IF k = 0 THEN d ELSE Onward(w[k - 1])]

\* The recursion of Walk has a solution: there are walks of any length.
LEMMA WalkDefined ==
    ASSUME NEW d
    PROVE  /\ Walk(d)[0] = d
           /\ \A k \in 1..N : Walk(d)[k] = Onward(Walk(d)[k - 1])
<1> DEFINE bad == {n \in Nat : ~ \E w : Walks(w, d, n)}
<1>1. bad = {}
  <2> SUFFICES ASSUME bad # {} PROVE FALSE
    OBVIOUS
  <2>1. PICK n \in bad : \A m \in bad : n <= m
    BY Least
  <2>2. CASE n = 0
    <3> DEFINE w == [k \in 0..0 |-> d]
    <3>1. w = [k \in 0..0 |-> IF k = 0 THEN d ELSE Onward(w[k - 1])]
      OBVIOUS
    <3>2. Walks(w, d, n)
      BY <2>2, <3>1 DEF Walks
    <3> QED BY <3>2
  <2>3. CASE n # 0
    <3>1. n - 1 \in Nat /\ n - 1 \notin bad
      BY <2>1, <2>3
    <3>2. PICK v : Walks(v, d, n - 1)
      BY <3>1
    <3> DEFINE w == [k \in 0..n |-> IF k = n THEN Onward(v[n - 1]) ELSE v[k]]
    <3>3. ASSUME NEW k \in 0..n PROVE w[k] = IF k = 0 THEN d ELSE Onward(w[k - 1])
      <4>1. CASE k = n
        BY <2>1, <2>3, <4>1
      <4>2. CASE k # n
        <5>1. k \in 0..(n - 1) /\ (k # 0 => k - 1 \in 0..n /\ k - 1 # n)
          BY <2>1, <4>2
        <5>2. v[k] = IF k = 0 THEN d ELSE Onward(v[k - 1])
          BY <3>2, <5>1 DEF Walks
        <5> QED BY <4>2, <5>1, <5>2
      <4> QED BY <4>1, <4>2
    <3>4. Walks(w, d, n)
      BY <3>3 DEF Walks
    <3> QED BY <2>1, <3>4
  <2> QED BY <2>2, <2>3
<1>2. PICK v : Walks(v, d, N)
  BY <1>1, SizeAssumption
<1>3. Walk(d) = CHOOSE w : Walks(w, d, N)
  BY DEF Walk, Walks, Onward
<1>4. Walks(Walk(d), d, N)
  BY <1>2, <1>3
<1>5. 0 \in 0..N /\ \A k \in 1..N : k \in 0..N /\ k # 0
  BY SizeAssumption
<1> HIDE DEF bad
<1> QED BY <1>4, <1>5 DEF Walks

\* A chain of the partition has as many members as its length says.
LEMMA ChainSize ==
    ASSUME NEW own, NEW pos, NEW len, ChainTypes(own, pos, len), Partitioned(own, pos, len),
           NEW c \in Link, c = CHAIN_END \/ Flying(c)
    PROVE  Cardinality({e \in Desc : own[e] = c}) = len[c] /\ len[c] <= N
<1> DEFINE C == {e \in Desc : own[e] = c}
           f == [e \in C |-> pos[e]]
<1>1. len[c] \in Nat
  BY DEF ChainTypes
<1>2. f \in [C -> 1..len[c]]
  BY DEF Partitioned, ChainTypes
<1>3. \A d, e \in C : f[d] = f[e] => d = e
  BY DEF Partitioned
<1>4. \A j \in 1..len[c] : \E e \in C : f[e] = j
  BY DEF Partitioned
<1>5. IsFiniteSet(C) /\ Cardinality(C) <= N
  BY Descriptors, FS_Subset
<1> HIDE DEF C, f
<1>6. f \in Bijection(C, 1..len[c])
  BY <1>2, <1>3, <1>4 DEF Bijection, Injection, Surjection, IsInjective
<1>7. Cardinality(1..len[c]) = Cardinality(C)
  BY <1>5, <1>6, FS_Bijection DEF ExistsBijection
<1>8. Cardinality(1..len[c]) = len[c]
  BY <1>1, FS_Interval
<1> QED BY <1>1, <1>5, <1>7, <1>8 DEF C

\* Walking from the head of a chain meets its members in their order.
LEMMA WalkChain ==
    ASSUME NEW own, NEW pos, NEW len, Chains(own, pos, len), NEW c \in Link,
           c = CHAIN_END \/ Flying(c), NEW d \in Desc, own[d] = c, pos[d] = 1
    PROVE  \A k \in 0..(len[c] - 1) :
             Walk(d)[k] \in Desc /\ own[Walk(d)[k]] = c /\ pos[Walk(d)[k]] = k + 1
<1> DEFINE Good(k) == Walk(d)[k] \in Desc /\ own[Walk(d)[k]] = c /\ pos[Walk(d)[k]] = k + 1
           bad == {k \in 0..(len[c] - 1) : ~Good(k)}
<1>1. len[c] \in Nat /\ len[c] <= N
  BY ChainSize DEF Chains, ChainTypes
<1> SUFFICES ASSUME bad # {} PROVE FALSE
  OBVIOUS
<1>2. bad \in SUBSET Nat
  BY <1>1
<1>3. PICK k \in bad : \A m \in bad : k <= m
  BY <1>2, Least
<1>4. k # 0
  BY WalkDefined
<1>5. k - 1 \in 0..(len[c] - 1) /\ k \in 1..N /\ k - 1 \notin bad /\ (k - 1) + 1 = k
  BY <1>1, <1>3, <1>4, SizeAssumption
<1>6. Good(k - 1)
  BY <1>5
<1>7. Walk(d)[k] = next[Walk(d)[k - 1]]
  BY <1>5, <1>6, WalkDefined DEF Onward
<1>8. k < len[c]
  BY <1>1, <1>3
<1>9. PICK e : e = Walk(d)[k - 1] /\ e \in Desc /\ own[e] = c /\ pos[e] = k
  BY <1>5, <1>6
<1>10. next[e] \in Desc /\ own[next[e]] = c /\ pos[next[e]] = k + 1
  BY <1>8, <1>9 DEF Chains, Linked
<1> QED BY <1>3, <1>7, <1>9, <1>10

\* The descriptors met are the members of the chain.
LEMMA ChainDescs ==
    ASSUME NEW own, NEW pos, NEW len, Chains(own, pos, len), NEW c \in Link,
           c = CHAIN_END \/ Flying(c), NEW d \in Desc, own[d] = c, pos[d] = 1
    PROVE  Descs(d, len[c]) = {e \in Desc : own[e] = c}
<1>1. len[c] \in Nat
  BY DEF Chains, ChainTypes
<1>2. ASSUME NEW e \in Desc, own[e] = c PROVE \E k \in 0..(len[c] - 1) : Walk(d)[k] = e
  <2>1. pos[e] - 1 \in 0..(len[c] - 1) /\ (pos[e] - 1) + 1 = pos[e]
    BY <1>1, <1>2 DEF Chains, ChainTypes, Partitioned
  <2>2. PICK k \in 0..(len[c] - 1) : k + 1 = pos[e]
    BY <2>1
  <2>3. Walk(d)[k] \in Desc /\ own[Walk(d)[k]] = c /\ pos[Walk(d)[k]] = pos[e]
    BY <2>2, WalkChain
  <2>4. Walk(d)[k] = e
    BY <1>2, <2>3 DEF Chains, Partitioned
  <2> QED BY <2>4
<1>3. \A k \in 0..(len[c] - 1) : Walk(d)[k] \in Desc /\ own[Walk(d)[k]] = c
  BY WalkChain
<1> QED BY <1>2, <1>3 DEF Descs

\* Between calls every descriptor is on the free chain, as many as vq_free_cnt
\* says, or in the chain of one head in flight, filled with its buffer and ended
\* by its flags: no descriptor leaks and none is in two chains, for rings of any
\* size and chains of any length.
THEOREM DescriptorsPartitioned == CallerCounts => (Spec => []DescPartition)
<1>1. DescInv => DescPartition
  <2> SUFFICES ASSUME DescInv, m_pc \in {"idle", "publish", "get", "arm"} PROVE DescPartition
    BY DEF DescPartition
  <2> DEFINE heads == {d \in Desc : cookie[d] # NoBuf}
             free == Descs(vq_desc_head_idx, vq_free_cnt)
  <2>1. PICK own, pos, len : Chains(own, pos, len)
    BY DEF DescInv, ChainInv
  <2>2. /\ CHAIN_END \notin Desc /\ CHAIN_END \in Link /\ Desc \subseteq Link
        /\ len[CHAIN_END] \in Nat /\ len[CHAIN_END] <= N
    <3>1. CHAIN_END \notin Desc /\ CHAIN_END \in Link /\ Desc \subseteq Link
      BY SizeAssumption DEF Desc, CHAIN_END, Link
    <3> QED BY <2>1, <3>1, ChainSize DEF Chains, ChainTypes
  <2>3. \A h \in Desc : h \in heads <=> Flying(h)
    BY DEF Flying, Building
  <2>4. vq_free_cnt = len[CHAIN_END]
    BY <2>1, <2>2 DEF Chains, Begins
  <2>5. free = {e \in Desc : own[e] = CHAIN_END}
    <3>1. CASE len[CHAIN_END] = 0
      <4>1. free = {}
        BY <2>4, <3>1 DEF Descs
      <4>2. \A e \in Desc : own[e] # CHAIN_END
        BY <2>1, <3>1 DEF Chains, Partitioned, ChainTypes
      <4> QED BY <4>1, <4>2
    <3>2. CASE len[CHAIN_END] # 0
      <4>1. PICK d \in Desc : d = vq_desc_head_idx /\ own[d] = CHAIN_END /\ pos[d] = 1
        BY <2>1, <3>2 DEF Chains, Begins
      <4>2. Descs(d, len[CHAIN_END]) = {e \in Desc : own[e] = CHAIN_END}
        BY <2>1, <2>2, <4>1, ChainDescs
      <4> QED BY <2>4, <4>1, <4>2
    <3> QED BY <3>1, <3>2
  <2>6. Walk(vq_desc_head_idx)[vq_free_cnt] = CHAIN_END
    <3>1. CASE len[CHAIN_END] = 0
      BY <2>1, <2>4, <3>1, WalkDefined DEF Chains, Begins
    <3>2. CASE len[CHAIN_END] # 0
      <4>1. PICK d \in Desc : d = vq_desc_head_idx /\ own[d] = CHAIN_END /\ pos[d] = 1
        BY <2>1, <3>2 DEF Chains, Begins
      <4>2. PICK n : n = len[CHAIN_END] /\ n \in 1..N /\ n - 1 \in 0..(n - 1) /\ (n - 1) + 1 = n
        BY <2>2, <3>2, SizeAssumption
      <4>3. PICK e : e = Walk(d)[n - 1] /\ e \in Desc /\ own[e] = CHAIN_END /\ pos[e] = n
        BY <2>1, <2>2, <4>1, <4>2, WalkChain
      <4>4. Walk(d)[n] = next[e]
        BY <4>2, <4>3, WalkDefined DEF Onward
      <4>5. next[e] = CHAIN_END
        BY <2>1, <4>2, <4>3 DEF Chains, Linked
      <4> QED BY <2>4, <4>1, <4>2, <4>4, <4>5
    <3> QED BY <3>1, <3>2
  <2>7. Cardinality(free) = vq_free_cnt
    BY <2>1, <2>2, <2>4, <2>5, ChainSize DEF Chains
  <2>8. ASSUME NEW h \in heads
        PROVE  /\ own[h] = h /\ pos[h] = 1 /\ len[h] = ndescs[h] /\ ndescs[h] \in 1..N
               /\ Descs(h, ndescs[h]) = {e \in Desc : own[e] = h}
    <3>1. h \in Desc /\ h \in Link /\ Flying(h)
      BY <2>2, <2>3
    <3>2. own[h] = h /\ pos[h] = 1 /\ len[h] = ndescs[h]
      BY <2>1, <3>1 DEF Chains, Begins
    <3>3. len[h] \in Nat /\ 1 <= len[h]
      BY <2>1, <3>1, <3>2 DEF Chains, ChainTypes, Partitioned
    <3>4. len[h] <= N
      BY <2>1, <3>1, ChainSize DEF Chains
    <3>5. Descs(h, len[h]) = {e \in Desc : own[e] = h}
      BY <2>1, <3>1, <3>2, ChainDescs
    <3> QED BY <3>2, <3>3, <3>4, <3>5, SizeAssumption
  <2>9. ASSUME NEW h \in heads, NEW k \in 0..(ndescs[h] - 1)
        PROVE  /\ more[Walk(h)[k]] = (k < ndescs[h] - 1)
               /\ addr[Walk(h)[k]] = cookie[h]
    <3>1. h \in Desc /\ h \in Link /\ Flying(h) /\ h # CHAIN_END
      BY <2>2, <2>3
    <3>2. PICK e : e = Walk(h)[k] /\ e \in Desc /\ own[e] = h /\ pos[e] = k + 1
      BY <2>1, <2>8, <2>9, <3>1, WalkChain
    <3>3. more[e] = (pos[e] < ndescs[h]) /\ addr[e] = cookie[h]
      BY <2>1, <2>8, <3>1, <3>2 DEF Chains, Filled
    <3>4. (k + 1 < ndescs[h]) <=> (k < ndescs[h] - 1)
      BY <2>8
    <3>5. (k + 1 < ndescs[h]) = (k < ndescs[h] - 1)
      BY <3>4
    <3> QED BY <3>2, <3>3, <3>5
  <2>10. \A d \in Desc : own[d] = CHAIN_END \/ own[d] \in heads
    BY <2>1, <2>3 DEF Chains, Partitioned, Flying
  <2>11. free \cup UNION {Descs(h, ndescs[h]) : h \in heads} = Desc
    <3>1. free \subseteq Desc /\ \A h \in heads : Descs(h, ndescs[h]) \subseteq Desc
      BY <2>5, <2>8
    <3>2. \A d \in Desc : d \in free \/ \E h \in heads : d \in Descs(h, ndescs[h])
      BY <2>5, <2>8, <2>10
    <3> HIDE DEF free, heads
    <3> QED BY <3>1, <3>2
  <2>12. \A h \in heads : Descs(h, ndescs[h]) \cap free = {}
    BY <2>2, <2>5, <2>8
  <2>13. \A h \in heads : \A g \in heads \ {h} : Descs(h, ndescs[h]) \cap Descs(g, ndescs[g]) = {}
    BY <2>8
  <2>14. vq_free_cnt \in 0..N
    BY <2>2, <2>4, SizeAssumption
  <2> QED BY <2>6, <2>7, <2>8, <2>9, <2>11, <2>12, <2>13, <2>14 DEF DescPartition
<1> QED BY <1>1, DescInvariant, PTL

--------------------------------------------------------------------------------
(***************************************************************************)
(* The virtqueue implements the queue of VirtqueueAbs. The entries of a    *)
(* ring, from the consumer's index on, are a sequence of buffers: the      *)
(* producer appends to it and the consumer takes its head.                 *)
(***************************************************************************)
Row(ring, c, n, ck) == [k \in 1..n |-> ck[ring[Slot(Ahead(c, k - 1))]]]

\* A row is a sequence, with a member for every position.
LEMMA RowIsSeq ==
    ASSUME NEW ring \in [Desc -> Desc], NEW c \in Index, NEW n \in 0..(M - 1),
           NEW ck \in [Desc -> Bufs \cup {NoBuf}]
    PROVE  /\ Row(ring, c, n, ck) \in Seq(Bufs \cup {NoBuf}) /\ Len(Row(ring, c, n, ck)) = n
           /\ \A b : b \in Abs!Members(Row(ring, c, n, ck))
                       <=> \E i \in Index : Sub(i, c) < n /\ ck[ring[Slot(i)]] = b
<1>1. n \in Nat
  BY SizeAssumption
<1>2. \A k \in 1..n : Ahead(c, k - 1) \in Index /\ Sub(Ahead(c, k - 1), c) = k - 1 /\ k - 1 < n
  BY <1>1, SizeAssumption DEF Ahead, Sub, Index
<1>3. \A k \in 1..n : ck[ring[Slot(Ahead(c, k - 1))]] \in Bufs \cup {NoBuf}
  BY <1>2, IndexArithmetic
<1>4. Row(ring, c, n, ck) \in Seq(Bufs \cup {NoBuf}) /\ Len(Row(ring, c, n, ck)) = n
  BY <1>1, <1>3 DEF Row
<1>5. \A k \in 1..n : Row(ring, c, n, ck)[k] = ck[ring[Slot(Ahead(c, k - 1))]]
  BY DEF Row
<1>6. ASSUME NEW i \in Index, Sub(i, c) < n
      PROVE  \E k \in 1..n : Row(ring, c, n, ck)[k] = ck[ring[Slot(i)]]
  <2>1. PICK k \in 1..n : k - 1 = Sub(i, c)
    <3>1. Sub(i, c) \in 0..(n - 1)
      BY <1>1, <1>6, IndexArithmetic, SizeAssumption DEF Index
    <3>2. Sub(i, c) + 1 \in 1..n /\ (Sub(i, c) + 1) - 1 = Sub(i, c)
      BY <1>1, <3>1
    <3> QED BY <3>2
  <2>2. Ahead(c, k - 1) = i
    BY <2>1, Positions
  <2> QED BY <1>5, <2>2
<1>7. Abs!Members(Row(ring, c, n, ck)) = {Row(ring, c, n, ck)[k] : k \in 1..n}
  BY <1>4 DEF Abs!Members
<1>8. ASSUME NEW k \in 1..n PROVE \E i \in Index : Sub(i, c) < n /\ ck[ring[Slot(i)]] = Row(ring, c, n, ck)[k]
  <2>1. Ahead(c, k - 1) \in Index /\ Sub(Ahead(c, k - 1), c) < n
    BY <1>2
  <2> QED BY <1>5, <2>1
<1>9. ASSUME NEW b
      PROVE  b \in Abs!Members(Row(ring, c, n, ck))
               <=> \E i \in Index : Sub(i, c) < n /\ ck[ring[Slot(i)]] = b
  <2>1. ASSUME b \in Abs!Members(Row(ring, c, n, ck))
        PROVE  \E i \in Index : Sub(i, c) < n /\ ck[ring[Slot(i)]] = b
    <3>1. PICK k \in 1..n : b = Row(ring, c, n, ck)[k]
      BY <1>7, <2>1
    <3> QED BY <1>8, <3>1, Zenon
  <2>2. ASSUME NEW i \in Index, Sub(i, c) < n, ck[ring[Slot(i)]] = b
        PROVE  b \in Abs!Members(Row(ring, c, n, ck))
    BY <1>6, <1>7, <2>2, Zenon
  <2> QED BY <2>1, <2>2
<1> QED BY <1>4, <1>9

\* Rows with the same buffers at the same positions are the same.
Agree(ring, ring2, c, n, ck, ck2) ==
    \A i \in Index : Sub(i, c) < n => ck2[ring2[Slot(i)]] = ck[ring[Slot(i)]]

\* A row of cookies stays when its entries and their cookies stay.
LEMMA RowSame ==
    ASSUME NEW ring, NEW ring2, NEW c \in Index, NEW n \in 0..(M - 1), NEW ck, NEW ck2,
           Agree(ring, ring2, c, n, ck, ck2)
    PROVE  Row(ring2, c, n, ck2) = Row(ring, c, n, ck)
<1>1. n \in Nat
  BY SizeAssumption
<1>2. \A k \in 1..n : Ahead(c, k - 1) \in Index /\ Sub(Ahead(c, k - 1), c) < n
  BY <1>1, SizeAssumption DEF Ahead, Sub, Index
<1>3. \A k \in 1..n : ck2[ring2[Slot(Ahead(c, k - 1))]] = ck[ring[Slot(Ahead(c, k - 1))]]
  BY <1>2 DEF Agree
<1> QED BY <1>3 DEF Row

\* The producer's index moves on.
LEMMA RowAppend ==
    ASSUME NEW ring \in [Desc -> Desc], NEW p \in Index, NEW c \in Index, Sub(p, c) < M - 1,
           NEW ck \in [Desc -> Bufs \cup {NoBuf}]
    PROVE  Row(ring, c, Sub(Inc(p), c), ck) = Append(Row(ring, c, Sub(p, c), ck), ck[ring[Slot(p)]])
<1>1. PICK n : n = Sub(p, c) /\ n \in Nat /\ n \in 0..(M - 1) /\ Sub(Inc(p), c) = n + 1
               /\ n + 1 \in 0..(M - 1)
  BY Produced, IndexArithmetic, SizeAssumption DEF Index
<1>2. Ahead(c, n) = p
  BY <1>1, Positions
<1>3. Row(ring, c, n, ck) \in Seq(Bufs \cup {NoBuf}) /\ Len(Row(ring, c, n, ck)) = n
  BY <1>1, RowIsSeq
<1>4. Row(ring, c, n + 1, ck) \in Seq(Bufs \cup {NoBuf}) /\ Len(Row(ring, c, n + 1, ck)) = n + 1
  BY <1>1, RowIsSeq
<1>5. \A k \in 1..(n + 1) : Row(ring, c, n + 1, ck)[k] =
        IF k = n + 1 THEN ck[ring[Slot(p)]] ELSE Row(ring, c, n, ck)[k]
  BY <1>1, <1>2 DEF Row
<1> HIDE DEF Row
<1>6. PICK r, q, b : /\ r = Row(ring, c, n, ck) /\ q = Row(ring, c, n + 1, ck)
                     /\ b = ck[ring[Slot(p)]] /\ b \in Bufs \cup {NoBuf}
  BY IndexArithmetic
<1>7. q = Append(r, b)
  <2>1. /\ Append(r, b) \in Seq(Bufs \cup {NoBuf}) /\ Len(Append(r, b)) = n + 1
        /\ \A k \in 1..(n + 1) : Append(r, b)[k] = IF k = n + 1 THEN b ELSE r[k]
    BY <1>1, <1>3, <1>6
  <2> QED BY <1>1, <1>4, <1>5, <1>6, <2>1
<1> QED BY <1>1, <1>6, <1>7

\* The consumer's index moves on.
LEMMA RowTail ==
    ASSUME NEW ring \in [Desc -> Desc], NEW p \in Index, NEW c \in Index, p # c,
           NEW ck \in [Desc -> Bufs \cup {NoBuf}]
    PROVE  /\ Row(ring, c, Sub(p, c), ck) # <<>>
           /\ Head(Row(ring, c, Sub(p, c), ck)) = ck[ring[Slot(c)]]
           /\ Row(ring, Inc(c), Sub(p, Inc(c)), ck) = Tail(Row(ring, c, Sub(p, c), ck))
<1>1. PICK n : n = Sub(p, c) /\ n \in Nat /\ n \in 0..(M - 1) /\ Sub(p, Inc(c)) = n - 1
               /\ n - 1 \in 0..(M - 1) /\ n >= 1
  BY SizeAssumption DEF Sub, Inc, Index
<1>2. Inc(c) \in Index /\ Ahead(c, 0) = c
  BY IndexArithmetic, SizeAssumption DEF Ahead, Index
<1>3. \A k \in 1..(n - 1) : Ahead(Inc(c), k - 1) = Ahead(c, k) /\ (k + 1) - 1 = k /\ k + 1 \in 1..n
  BY <1>1, SizeAssumption DEF Ahead, Inc, Index
<1>4. Row(ring, c, n, ck) \in Seq(Bufs \cup {NoBuf}) /\ Len(Row(ring, c, n, ck)) = n
  BY <1>1, RowIsSeq
<1>5. /\ Row(ring, Inc(c), n - 1, ck) \in Seq(Bufs \cup {NoBuf})
      /\ Len(Row(ring, Inc(c), n - 1, ck)) = n - 1
  BY <1>1, <1>2, RowIsSeq
<1>6. \A k \in 1..(n - 1) : Row(ring, Inc(c), n - 1, ck)[k] = Row(ring, c, n, ck)[k + 1]
  BY <1>3 DEF Row
<1>7. Row(ring, c, n, ck)[1] = ck[ring[Slot(c)]]
  BY <1>1, <1>2 DEF Row
<1> HIDE DEF Row
<1>8. Row(ring, c, n, ck) # <<>> /\ Head(Row(ring, c, n, ck)) = ck[ring[Slot(c)]]
  BY <1>1, <1>4, <1>7
<1>9. Row(ring, Inc(c), n - 1, ck) = Tail(Row(ring, c, n, ck))
  BY <1>1, <1>4, <1>5, <1>6
<1> QED BY <1>1, <1>8, <1>9

\* No buffer is in flight twice: virtqueue_add_buffer is not given one that is.
CookiesDiffer ==
    \A d, e \in Desc : cookie[d] # NoBuf /\ cookie[d] = cookie[e] => d = e

QueueInv == DescInv /\ CookiesDiffer

\* The buffers with the slave, by the heads it has.
SlaveCookies ==
    {cookie[h[1]] : h \in held}
    \cup {cookie[avail_ring[s_slot]] : x \in {s_pc} \cap {"take"}}
    \cup {cookie[s_head] : x \in {s_pc} \cap {"return"}}

\* The address in the descriptor of a head the slave has is its buffer.
LEMMA SlaveHasCookies ==
    ASSUME DescInv
    PROVE  SlaveHas = SlaveCookies /\ (s_pc = "take" => addr[avail_ring[s_slot]] = cookie[avail_ring[s_slot]])
<1>1. ASSUME s_pc = "take" PROVE addr[avail_ring[s_slot]] = cookie[avail_ring[s_slot]]
  <2>1. PICK d : d = avail_ring[s_slot] /\ d \in Desc
    BY DEF DescInv, TypeInv, TypeOK
  <2>2. IsAt("take", 0, d)
    BY <1>1, <2>1 DEF IsAt
  <2>3. Building => m_head # d
    BY <2>1, <2>2 DEF DescInv, OwnerInv, OnePlace, Building, IsAt
  <2>4. Flying(d)
    BY <2>1, <2>2, <2>3 DEF Flying, DescInv, OwnerInv, CookieKept
  <2>5. PICK own, pos, len : Chains(own, pos, len)
    BY DEF DescInv, ChainInv
  <2>6. own[d] = d /\ d # CHAIN_END
    BY <2>1, <2>4, <2>5, SizeAssumption DEF Chains, Begins, Desc, CHAIN_END
  <2> QED BY <2>1, <2>5, <2>6 DEF Chains, Filled
<1>2. {h[2] : h \in held} = {cookie[h[1]] : h \in held}
  BY DEF DescInv, HeldCookie
<1>3. {addr[avail_ring[s_slot]] : x \in {s_pc} \cap {"take"}}
        = {cookie[avail_ring[s_slot]] : x \in {s_pc} \cap {"take"}}
  BY <1>1
<1> QED BY <1>1, <1>2, <1>3 DEF SlaveHas, SlaveCookies

\* Offered and Returned are the rows of the two rings.
LEMMA Rows ==
    ASSUME TypeInv
    PROVE  /\ Offered = Row(avail_ring, vq_available_idx, virtqueue_navail, cookie)
           /\ Returned = Row(used_ring, vq_used_cons_idx, virtqueue_nused, cookie)
BY DEF Offered, Returned, AvailAt, UsedAt, Row

\* Where the buffers of VirtqueueAbs are: their heads are at these places.
LEMMA Whereabouts ==
    ASSUME TypeInv, OwnerInv, NEW b
    PROVE  /\ b \in Abs!Members(Offered) => \E d \in Desc : \E x : IsAt("avail", x, d) /\ cookie[d] = b
           /\ b \in SlaveCookies => \E d \in Desc : \E s \in {"take", "held", "return"} : \E x :
                                      IsAt(s, x, d) /\ cookie[d] = b
           /\ b \in Abs!Members(Returned) => \E d \in Desc : \E x : IsAt("used", x, d) /\ cookie[d] = b
<1>t. /\ avail_ring \in [Desc -> Desc] /\ used_ring \in [Desc -> Desc] /\ s_slot \in Desc
      /\ vq_available_idx \in Index /\ vq_used_cons_idx \in Index /\ s_head \in Desc
      /\ cookie \in [Desc -> Bufs \cup {NoBuf}]
      /\ virtqueue_navail \in 0..(M - 1) /\ virtqueue_nused \in 0..(M - 1)
      /\ \A h \in held : h[1] \in Desc /\ h = <<h[1], h[2]>>
  BY Distances DEF TypeInv, TypeOK
<1>1. ASSUME b \in Abs!Members(Offered)
      PROVE  \E d \in Desc : \E x : IsAt("avail", x, d) /\ cookie[d] = b
  <2>1. PICK i \in Index : /\ Sub(i, vq_available_idx) < virtqueue_navail
                           /\ cookie[avail_ring[Slot(i)]] = b
    <3>1. \A q : q \in Abs!Members(Row(avail_ring, vq_available_idx, virtqueue_navail, cookie))
                    <=> \E i \in Index : Sub(i, vq_available_idx) < virtqueue_navail
                                         /\ cookie[avail_ring[Slot(i)]] = q
      BY <1>t, RowIsSeq
    <3>2. b \in Abs!Members(Row(avail_ring, vq_available_idx, virtqueue_navail, cookie))
      BY <1>1, Rows
    <3> QED BY <3>1, <3>2
  <2>2. avail_ring[Slot(i)] \in Desc /\ IsAt("avail", i, avail_ring[Slot(i)])
    BY <1>t, <2>1, IndexArithmetic DEF IsAt, AvailPos
  <2> QED BY <2>1, <2>2
<1>2. ASSUME b \in Abs!Members(Returned)
      PROVE  \E d \in Desc : \E x : IsAt("used", x, d) /\ cookie[d] = b
  <2>1. PICK i \in Index : /\ Sub(i, vq_used_cons_idx) < virtqueue_nused
                           /\ cookie[used_ring[Slot(i)]] = b
    <3>1. \A q : q \in Abs!Members(Row(used_ring, vq_used_cons_idx, virtqueue_nused, cookie))
                    <=> \E i \in Index : Sub(i, vq_used_cons_idx) < virtqueue_nused
                                         /\ cookie[used_ring[Slot(i)]] = q
      BY <1>t, RowIsSeq
    <3>2. b \in Abs!Members(Row(used_ring, vq_used_cons_idx, virtqueue_nused, cookie))
      BY <1>2, Rows
    <3> QED BY <3>1, <3>2
  <2>2. used_ring[Slot(i)] \in Desc /\ IsAt("used", i, used_ring[Slot(i)])
    BY <1>t, <2>1, IndexArithmetic DEF IsAt, UsedPos
  <2> QED BY <2>1, <2>2
<1>3. ASSUME b \in SlaveCookies
      PROVE  \E d \in Desc : \E s \in {"take", "held", "return"} : \E x : IsAt(s, x, d) /\ cookie[d] = b
  <2>1. ASSUME NEW h \in held, b = cookie[h[1]]
        PROVE  \E d \in Desc : \E x : IsAt("held", x, d) /\ cookie[d] = b
    <3>1. h[1] \in Desc /\ IsAt("held", h[2], h[1])
      BY <1>t, <2>1 DEF IsAt
    <3> QED BY <2>1, <3>1
  <2>2. ASSUME s_pc = "take", b = cookie[avail_ring[s_slot]]
        PROVE  \E d \in Desc : \E x : IsAt("take", x, d) /\ cookie[d] = b
    <3>1. avail_ring[s_slot] \in Desc /\ IsAt("take", 0, avail_ring[s_slot])
      BY <1>t, <2>2 DEF IsAt
    <3> QED BY <2>2, <3>1
  <2>3. ASSUME s_pc = "return", b = cookie[s_head]
        PROVE  \E d \in Desc : \E x : IsAt("return", x, d) /\ cookie[d] = b
    <3>1. IsAt("return", 0, s_head)
      BY <2>3 DEF IsAt
    <3> QED BY <1>t, <2>3, <3>1
  <2> QED BY <1>3, <2>1, <2>2, <2>3 DEF SlaveCookies
<1> QED BY <1>1, <1>2, <1>3

\* What the buffers' places depend on, but for the call the slave is in.
queueVars == <<avail_ring, avail_idx, vq_available_idx, used_ring, used_idx, vq_used_cons_idx,
               cookie, held, s_slot, s_head>>

\* Steps that leave what the queues are made of alone stutter in VirtqueueAbs.
LEMMA QueueFrame ==
    ASSUME UNCHANGED queueVars,
           s_pc' = s_pc \/ (s_pc \in {"idle", "arm"} /\ s_pc' \in {"idle", "arm"})
    PROVE  UNCHANGED <<Offered, SlaveCookies, Returned>>
<1> USE DEF queueVars
<1>1. Offered' = Offered /\ Returned' = Returned
  BY DEF Offered, Returned, AvailAt, UsedAt, virtqueue_navail, virtqueue_nused
<1>2. /\ ({s_pc} \cap {"take"})' = {s_pc} \cap {"take"}
      /\ ({s_pc} \cap {"return"})' = {s_pc} \cap {"return"}
  OBVIOUS
<1>3. SlaveCookies' = SlaveCookies
  BY <1>2 DEF SlaveCookies
<1> QED BY <1>1, <1>3

\* The head being published is in no other place, and neither is its buffer.
LEMMA Elsewhere ==
    ASSUME QueueInv, NEW d \in Desc, NEW s, NEW x, IsAt(s, x, d)
    PROVE  /\ cookie[d] \in Bufs
           /\ s # "avail" => cookie[d] \notin Abs!Members(Offered)
           /\ s # "used" => cookie[d] \notin Abs!Members(Returned)
           /\ s \notin {"take", "held", "return"} => cookie[d] \notin SlaveCookies
<1>1. cookie[d] # NoBuf /\ cookie[d] \in Bufs
  BY DEF QueueInv, DescInv, OwnerInv, CookieKept, TypeInv, TypeOK
<1>2. \A e \in Desc : \A t, y : IsAt(t, y, e) /\ cookie[e] = cookie[d] => t = s /\ y = x
  BY <1>1 DEF QueueInv, CookiesDiffer, DescInv, OwnerInv, OnePlace
<1> QED BY <1>1, <1>2, Whereabouts DEF QueueInv, DescInv

\* avail->idx++: the buffer joins the offered ones.
LEMMA QueueOffer ==
    ASSUME QueueInv, M_AddPublish
    PROVE  \E b \in Bufs : /\ b \in Bufs \ (Abs!Members(Offered) \cup SlaveCookies \cup Abs!Members(Returned))
                           /\ Offered' = Append(Offered, b)
                           /\ SlaveCookies' = SlaveCookies /\ Returned' = Returned
<1>1. /\ m_pc = "publish" /\ avail_idx' = Inc(avail_idx)
      /\ UNCHANGED <<avail_ring, vq_available_idx, used_ring, used_idx, vq_used_cons_idx,
                     cookie, held, s_pc, s_slot, s_head>>
  BY DEF M_AddPublish, usedVars, sVars, freeVars
<1>t. /\ avail_ring \in [Desc -> Desc] /\ avail_idx \in Index /\ vq_available_idx \in Index
      /\ cookie \in [Desc -> Bufs \cup {NoBuf}] /\ m_head \in Desc
  BY DEF QueueInv, DescInv, TypeInv, TypeOK
<1>2. IsAt("master", 0, m_head)
  BY <1>1 DEF IsAt
<1>3. virtqueue_navail = Sub(avail_idx, vq_available_idx) /\ virtqueue_navail < M - 1
  BY <1>2, <1>t, AvailRoom, Distances, SizeAssumption
     DEF virtqueue_navail, QueueInv, DescInv, OwnerInv
<1>4. avail_ring[Slot(avail_idx)] = m_head
  BY <1>1 DEF QueueInv, DescInv, OwnerInv, SlotInv
<1>5. Offered = Row(avail_ring, vq_available_idx, Sub(avail_idx, vq_available_idx), cookie)
  BY DEF Offered, AvailAt, Row, virtqueue_navail
<1>6. Offered' = Row(avail_ring, vq_available_idx, Sub(Inc(avail_idx), vq_available_idx), cookie)
  BY <1>1 DEF Offered, AvailAt, Row, virtqueue_navail
<1>7. Offered' = Append(Offered, cookie[m_head])
  BY <1>3, <1>4, <1>5, <1>6, <1>t, RowAppend
<1>8. SlaveCookies' = SlaveCookies
  BY <1>1 DEF SlaveCookies
<1>9. Returned' = Returned
  BY <1>1 DEF Returned, UsedAt, virtqueue_nused
<1>10. /\ cookie[m_head] \in Bufs /\ cookie[m_head] \notin Abs!Members(Offered)
       /\ cookie[m_head] \notin SlaveCookies /\ cookie[m_head] \notin Abs!Members(Returned)
  BY <1>2, <1>t, Elsewhere
<1> QED BY <1>7, <1>8, <1>9, <1>10

\* The slave claims the first entry: the buffer is with it.
LEMMA QueueTake ==
    ASSUME QueueInv, S_Take
    PROVE  /\ Offered # <<>> /\ SlaveCookies' = SlaveCookies \cup {Head(Offered)}
           /\ Offered' = Tail(Offered) /\ Returned' = Returned
<1>1. /\ s_pc = "idle" /\ s_pc' = "take" /\ avail_idx # vq_available_idx
      /\ vq_available_idx' = Inc(vq_available_idx) /\ s_slot' = Slot(vq_available_idx)
      /\ UNCHANGED <<avail_ring, avail_idx, used_ring, used_idx, vq_used_cons_idx, cookie, held,
                     s_head>>
  BY DEF S_Take, AvailPending, usedVars, availVars, mVars, freeVars
<1>t. /\ avail_ring \in [Desc -> Desc] /\ avail_idx \in Index /\ vq_available_idx \in Index
      /\ cookie \in [Desc -> Bufs \cup {NoBuf}]
  BY DEF QueueInv, DescInv, TypeInv, TypeOK
<1>2. Offered = Row(avail_ring, vq_available_idx, Sub(avail_idx, vq_available_idx), cookie)
  BY DEF Offered, AvailAt, Row, virtqueue_navail
<1>3. Offered' = Row(avail_ring, Inc(vq_available_idx), Sub(avail_idx, Inc(vq_available_idx)), cookie)
  BY <1>1 DEF Offered, AvailAt, Row, virtqueue_navail
<1>4. /\ Offered # <<>> /\ Offered' = Tail(Offered)
      /\ Head(Offered) = cookie[avail_ring[Slot(vq_available_idx)]]
  BY <1>1, <1>2, <1>3, <1>t, RowTail
<1>5. SlaveCookies = {cookie[h[1]] : h \in held}
  BY <1>1 DEF SlaveCookies
<1>6. SlaveCookies' = {cookie[h[1]] : h \in held} \cup {cookie[avail_ring[Slot(vq_available_idx)]]}
  BY <1>1 DEF SlaveCookies
<1>7. Returned' = Returned
  BY <1>1 DEF Returned, UsedAt, virtqueue_nused
<1> QED BY <1>4, <1>5, <1>6, <1>7

\* The slave's caller gets it.
LEMMA QueueTakeRead ==
    ASSUME QueueInv, S_TakeRead PROVE UNCHANGED <<Offered, SlaveCookies, Returned>>
<1>1. /\ s_pc = "take" /\ s_pc' = "idle"
      /\ held' = held \cup {<<avail_ring[s_slot], addr[avail_ring[s_slot]]>>}
      /\ UNCHANGED <<avail_ring, avail_idx, vq_available_idx, used_ring, used_idx,
                     vq_used_cons_idx, cookie>>
  BY DEF S_TakeRead, usedVars, availVars, mVars, freeVars
<1>2. Offered' = Offered /\ Returned' = Returned
  BY <1>1 DEF Offered, Returned, AvailAt, UsedAt, virtqueue_navail, virtqueue_nused
<1>3. SlaveCookies = {cookie[h[1]] : h \in held} \cup {cookie[avail_ring[s_slot]]}
  BY <1>1 DEF SlaveCookies
<1>4. SlaveCookies' = {cookie[h[1]] : h \in held'}
  BY <1>1 DEF SlaveCookies
<1>5. {cookie[h[1]] : h \in held'} = {cookie[h[1]] : h \in held} \cup {cookie[avail_ring[s_slot]]}
  <2> DEFINE g == <<avail_ring[s_slot], addr[avail_ring[s_slot]]>>
  <2>1. g[1] = avail_ring[s_slot] /\ held' = held \cup {g}
    BY <1>1
  <2> HIDE DEF g
  <2> QED BY <2>1
<1> QED BY <1>2, <1>3, <1>4, <1>5

\* It gives the buffer back, in a slot no entry has.
LEMMA QueueReturnSlot ==
    ASSUME QueueInv, NEW g \in held, S_ReturnSlot(g)
    PROVE  UNCHANGED <<Offered, SlaveCookies, Returned>>
<1>t. /\ used_ring \in [Desc -> Desc] /\ used_idx \in Index /\ vq_used_cons_idx \in Index
      /\ virtqueue_nused \in 0..(M - 1) /\ g[1] \in Desc /\ g = <<g[1], g[2]>>
  BY Distances DEF QueueInv, DescInv, TypeInv, TypeOK
<1>1. /\ s_pc = "idle" /\ s_pc' = "return" /\ held' = held \ {g} /\ s_head' = g[1]
      /\ used_ring' = [used_ring EXCEPT ![Slot(used_idx)] = g[1]]
      /\ UNCHANGED <<avail_ring, avail_idx, vq_available_idx, used_idx, vq_used_cons_idx, cookie>>
  BY DEF S_ReturnSlot, availVars, mVars, freeVars
<1>2. Offered' = Offered
  BY <1>1 DEF Offered, AvailAt, virtqueue_navail
<1>3. SlaveCookies = {cookie[h[1]] : h \in held}
  BY <1>1 DEF SlaveCookies
<1>4. SlaveCookies' = {cookie[h[1]] : h \in held \ {g}} \cup {cookie[g[1]]}
  BY <1>1 DEF SlaveCookies
<1>5. IsAt("held", g[2], g[1])
  BY <1>t DEF IsAt
<1>6. \A i : UsedPos(i) => Slot(i) # Slot(used_idx)
  BY <1>5, <1>t, UsedRoom DEF QueueInv, DescInv, OwnerInv
<1>7. Agree(used_ring, used_ring', vq_used_cons_idx, virtqueue_nused, cookie, cookie)
  BY <1>1, <1>6, <1>t, IndexArithmetic DEF UsedPos, Agree
<1>8. Row(used_ring', vq_used_cons_idx, virtqueue_nused, cookie)
        = Row(used_ring, vq_used_cons_idx, virtqueue_nused, cookie)
  BY <1>7, <1>t, RowSame
<1>9. Returned' = Row(used_ring', vq_used_cons_idx, virtqueue_nused, cookie)
  BY <1>1 DEF Returned, UsedAt, Row, virtqueue_nused
<1>10. Returned = Row(used_ring, vq_used_cons_idx, virtqueue_nused, cookie)
  BY DEF Returned, UsedAt, Row
<1> QED BY <1>2, <1>3, <1>4, <1>8, <1>9, <1>10

\* used->idx++: the buffer joins the returned ones.
LEMMA QueueReturn ==
    ASSUME QueueInv, S_ReturnPublish
    PROVE  \E b \in Bufs : /\ b \in SlaveCookies /\ SlaveCookies' = SlaveCookies \ {b}
                           /\ Returned' = Append(Returned, b) /\ Offered' = Offered
<1>1. /\ s_pc = "return" /\ s_pc' = "idle" /\ used_idx' = Inc(used_idx)
      /\ UNCHANGED <<avail_ring, avail_idx, vq_available_idx, used_ring, vq_used_cons_idx,
                     cookie, held>>
  BY DEF S_ReturnPublish, availVars, mVars, freeVars
<1>t. /\ used_ring \in [Desc -> Desc] /\ used_idx \in Index /\ vq_used_cons_idx \in Index
      /\ cookie \in [Desc -> Bufs \cup {NoBuf}] /\ s_head \in Desc
      /\ \A h \in held : h[1] \in Desc /\ h = <<h[1], h[2]>>
  BY DEF QueueInv, DescInv, TypeInv, TypeOK
<1>2. IsAt("return", 0, s_head)
  BY <1>1 DEF IsAt
<1>3. virtqueue_nused = Sub(used_idx, vq_used_cons_idx) /\ virtqueue_nused < M - 1
  BY <1>2, <1>t, UsedRoom, Distances, SizeAssumption
     DEF virtqueue_nused, QueueInv, DescInv, OwnerInv
<1>4. used_ring[Slot(used_idx)] = s_head
  BY <1>1 DEF QueueInv, DescInv, OwnerInv, SlotInv
<1>5. Returned = Row(used_ring, vq_used_cons_idx, Sub(used_idx, vq_used_cons_idx), cookie)
  BY DEF Returned, UsedAt, Row, virtqueue_nused
<1>6. Returned' = Row(used_ring, vq_used_cons_idx, Sub(Inc(used_idx), vq_used_cons_idx), cookie)
  BY <1>1 DEF Returned, UsedAt, Row, virtqueue_nused
<1>7. Returned' = Append(Returned, cookie[s_head])
  BY <1>3, <1>4, <1>5, <1>6, <1>t, RowAppend
<1>8. SlaveCookies = {cookie[h[1]] : h \in held} \cup {cookie[s_head]}
  BY <1>1 DEF SlaveCookies
<1>9. SlaveCookies' = {cookie[h[1]] : h \in held}
  BY <1>1 DEF SlaveCookies
<1>10. cookie[s_head] # NoBuf /\ cookie[s_head] \in Bufs
  BY <1>2, <1>t DEF QueueInv, DescInv, OwnerInv, CookieKept
<1>11. \A h \in held : cookie[h[1]] # cookie[s_head]
  <2>1. \A h \in held : IsAt("held", h[2], h[1])
    BY <1>t DEF IsAt
  <2>2. \A h \in held : h[1] # s_head
    BY <1>2, <1>t, <2>1 DEF QueueInv, DescInv, OwnerInv, OnePlace
  <2> QED BY <1>10, <1>t, <2>2 DEF QueueInv, CookiesDiffer
<1>12. Offered' = Offered
  BY <1>1 DEF Offered, AvailAt, virtqueue_navail
<1>13. SlaveCookies' = SlaveCookies \ {cookie[s_head]} /\ cookie[s_head] \in SlaveCookies
  BY <1>8, <1>9, <1>11
<1> QED BY <1>7, <1>10, <1>12, <1>13

\* The master claims the first entry of the used ring.
LEMMA QueueReclaim ==
    ASSUME QueueInv, M_Get
    PROVE  /\ Returned # <<>> /\ Returned' = Tail(Returned)
           /\ Offered' = Offered /\ SlaveCookies' = SlaveCookies
<1>1. /\ used_idx # vq_used_cons_idx /\ vq_used_cons_idx' = Inc(vq_used_cons_idx)
      /\ UNCHANGED <<avail_ring, avail_idx, vq_available_idx, used_ring, used_idx, cookie, held,
                     s_pc, s_slot, s_head>>
  BY DEF M_Get, UsedPending, usedVars, availVars, sVars, freeVars
<1>t. /\ used_ring \in [Desc -> Desc] /\ used_idx \in Index /\ vq_used_cons_idx \in Index
      /\ cookie \in [Desc -> Bufs \cup {NoBuf}]
  BY DEF QueueInv, DescInv, TypeInv, TypeOK
<1>2. Returned = Row(used_ring, vq_used_cons_idx, Sub(used_idx, vq_used_cons_idx), cookie)
  BY DEF Returned, UsedAt, Row, virtqueue_nused
<1>3. Returned' = Row(used_ring, Inc(vq_used_cons_idx), Sub(used_idx, Inc(vq_used_cons_idx)), cookie)
  BY <1>1 DEF Returned, UsedAt, Row, virtqueue_nused
<1>4. Returned # <<>> /\ Returned' = Tail(Returned)
  BY <1>1, <1>2, <1>3, <1>t, RowTail
<1>5. SlaveCookies' = SlaveCookies
  BY <1>1 DEF SlaveCookies
<1>6. Offered' = Offered
  BY <1>1 DEF Offered, AvailAt, virtqueue_navail
<1> QED BY <1>4, <1>5, <1>6

\* The steps that write a cookie write that of a head that is in no ring and not
\* with the slave, before it is offered or after it was reclaimed.
LEMMA QueueCookie ==
    ASSUME QueueInv, NEW h \in Desc, UNCHANGED <<avail_ring, avail_idx, vq_available_idx, used_ring,
             used_idx, vq_used_cons_idx, held, s_pc, s_slot, s_head>>,
           \A d \in Desc : d # h => cookie'[d] = cookie[d],
           \A s, x : IsAt(s, x, h) => s = "master"
    PROVE  UNCHANGED <<Offered, SlaveCookies, Returned>>
<1>t. /\ used_ring \in [Desc -> Desc] /\ avail_ring \in [Desc -> Desc]
      /\ vq_used_cons_idx \in Index /\ vq_available_idx \in Index
      /\ virtqueue_nused \in 0..(M - 1) /\ virtqueue_navail \in 0..(M - 1)
      /\ s_slot \in Desc /\ s_head \in Desc
      /\ \A g \in held : g[1] \in Desc /\ g = <<g[1], g[2]>>
  BY Distances DEF QueueInv, DescInv, TypeInv, TypeOK
<1>1. Agree(avail_ring, avail_ring, vq_available_idx, virtqueue_navail, cookie, cookie')
  <2> SUFFICES ASSUME NEW i \in Index, Sub(i, vq_available_idx) < virtqueue_navail
               PROVE  cookie'[avail_ring[Slot(i)]] = cookie[avail_ring[Slot(i)]]
    BY DEF Agree
  <2>1. IsAt("avail", i, avail_ring[Slot(i)]) /\ avail_ring[Slot(i)] \in Desc
    BY <1>t, IndexArithmetic DEF IsAt, AvailPos
  <2> QED BY <2>1
<1>2. Agree(used_ring, used_ring, vq_used_cons_idx, virtqueue_nused, cookie, cookie')
  <2> SUFFICES ASSUME NEW i \in Index, Sub(i, vq_used_cons_idx) < virtqueue_nused
               PROVE  cookie'[used_ring[Slot(i)]] = cookie[used_ring[Slot(i)]]
    BY DEF Agree
  <2>1. IsAt("used", i, used_ring[Slot(i)]) /\ used_ring[Slot(i)] \in Desc
    BY <1>t, IndexArithmetic DEF IsAt, UsedPos
  <2> QED BY <2>1
<1>3. Offered' = Offered
  <2>1. Offered' = Row(avail_ring, vq_available_idx, virtqueue_navail, cookie')
    BY DEF Offered, AvailAt, Row, virtqueue_navail
  <2>2. Offered = Row(avail_ring, vq_available_idx, virtqueue_navail, cookie)
    BY DEF Offered, AvailAt, Row
  <2> QED BY <1>1, <1>t, <2>1, <2>2, RowSame
<1>4. Returned' = Returned
  <2>1. Returned' = Row(used_ring, vq_used_cons_idx, virtqueue_nused, cookie')
    BY DEF Returned, UsedAt, Row, virtqueue_nused
  <2>2. Returned = Row(used_ring, vq_used_cons_idx, virtqueue_nused, cookie)
    BY DEF Returned, UsedAt, Row
  <2> QED BY <1>2, <1>t, <2>1, <2>2, RowSame
<1>5. \A g \in held : cookie'[g[1]] = cookie[g[1]]
  <2>1. \A g \in held : IsAt("held", g[2], g[1])
    BY <1>t DEF IsAt
  <2> QED BY <1>t, <2>1
<1>6. s_pc = "take" => cookie'[avail_ring[s_slot]] = cookie[avail_ring[s_slot]]
  <2>1. s_pc = "take" => IsAt("take", 0, avail_ring[s_slot])
    BY DEF IsAt
  <2> QED BY <1>t, <2>1
<1>7. s_pc = "return" => cookie'[s_head] = cookie[s_head]
  <2>1. s_pc = "return" => IsAt("return", 0, s_head)
    BY DEF IsAt
  <2> QED BY <1>t, <2>1
<1>8. SlaveCookies' = SlaveCookies
  BY <1>5, <1>6, <1>7 DEF SlaveCookies
<1> QED BY <1>3, <1>4, <1>8

\* vq_ring_update_avail writes a slot no entry has.
LEMMA QueueAddSlot == ASSUME QueueInv, M_AddSlot PROVE UNCHANGED <<Offered, SlaveCookies, Returned>>
<1>1. /\ m_pc = "slot" /\ avail_ring' = [avail_ring EXCEPT ![Slot(avail_idx)] = m_head]
      /\ UNCHANGED <<avail_idx, vq_available_idx, used_ring, used_idx, vq_used_cons_idx, cookie,
                     held, s_pc, s_slot, s_head>>
  BY DEF M_AddSlot, usedVars, sVars
<1>t. /\ avail_ring \in [Desc -> Desc] /\ vq_available_idx \in Index /\ avail_idx \in Index
      /\ virtqueue_navail \in 0..(M - 1) /\ s_slot \in Desc /\ m_head \in Desc
  BY Distances DEF QueueInv, DescInv, TypeInv, TypeOK
<1>2. IsAt("master", 0, m_head)
  BY <1>1 DEF IsAt
<1>3. /\ s_pc = "take" => Slot(avail_idx) # s_slot
      /\ \A i : AvailPos(i) => Slot(i) # Slot(avail_idx)
  BY <1>2, <1>t, AvailRoom DEF QueueInv, DescInv, OwnerInv
<1>4. Agree(avail_ring, avail_ring', vq_available_idx, virtqueue_navail, cookie, cookie)
  BY <1>1, <1>3, <1>t, IndexArithmetic DEF AvailPos, Agree
<1>5. Offered' = Offered
  <2>1. Offered' = Row(avail_ring', vq_available_idx, virtqueue_navail, cookie)
    BY <1>1 DEF Offered, AvailAt, Row, virtqueue_navail
  <2>2. Offered = Row(avail_ring, vq_available_idx, virtqueue_navail, cookie)
    BY DEF Offered, AvailAt, Row
  <2> QED BY <1>4, <1>t, <2>1, <2>2, RowSame
<1>6. s_pc = "take" => avail_ring'[s_slot] = avail_ring[s_slot]
  BY <1>1, <1>3, <1>t
<1>7. SlaveCookies' = SlaveCookies
  BY <1>1, <1>6 DEF SlaveCookies
<1>8. Returned' = Returned
  BY <1>1 DEF Returned, UsedAt, virtqueue_nused
<1> QED BY <1>5, <1>7, <1>8

\* No buffer is offered twice.
LEMMA CookiesStep == ASSUME QueueInv, [Next]_vars PROVE CookiesDiffer'
<1>1. CASE \E needed \in 1..MaxChain, buf \in Bufs : M_AddStart(needed, buf)
  <2>1. PICK needed \in 1..MaxChain, buf \in Bufs : M_AddStart(needed, buf)
    BY <1>1
  <2>2. \A d \in Desc : cookie[d] # buf
    BY <2>1, BufsAssumption DEF M_AddStart, InFlight
  <2>3. \A d \in Desc : cookie'[d] = IF d = vq_desc_head_idx THEN buf ELSE cookie[d]
    BY <2>1 DEF M_AddStart, QueueInv, DescInv, TypeInv, TypeOK
  <2> QED BY <2>2, <2>3 DEF QueueInv, CookiesDiffer
<1>2. CASE M_FreeEnd
  <2>1. \A d \in Desc : cookie'[d] = IF d = m_head THEN NoBuf ELSE cookie[d]
    BY <1>2 DEF M_FreeEnd, QueueInv, DescInv, TypeInv, TypeOK
  <2> QED BY <2>1 DEF QueueInv, CookiesDiffer
<1>3. CASE cookie' = cookie
  BY <1>3 DEF QueueInv, CookiesDiffer
<1>4. CASE M_AddDesc \/ M_AddSlot \/ M_AddPublish \/ M_Get \/ M_FreeStart \/ M_FreeStep
           \/ M_Kick \/ M_GetEmpty \/ M_DisableCb \/ M_EnableCb \/ M_EnableCheck
           \/ M_Notification
  <2>1. cookie' = cookie
    BY <1>4 DEF M_AddDesc, M_AddSlot, M_AddPublish, M_Get, M_FreeStart, M_FreeStep, M_Kick,
       M_GetEmpty, M_DisableCb, M_EnableCb, M_EnableCheck, M_Notification, mVars, freeVars
  <2> QED BY <1>3, <2>1
<1>5. CASE S_Take \/ S_TakeRead \/ (\E h \in held : S_ReturnSlot(h)) \/ S_ReturnPublish \/ S_Kick
           \/ S_TakeEmpty \/ S_DisableCb \/ S_EnableCb \/ S_EnableCheck \/ S_Notification
           \/ UNCHANGED vars
  <2>1. cookie' = cookie
    BY <1>5 DEF S_Take, S_TakeRead, S_ReturnSlot, S_ReturnPublish, S_Kick, S_TakeEmpty,
       S_DisableCb, S_EnableCb, S_EnableCheck, S_Notification, vars, mVars, freeVars
  <2> QED BY <1>3, <2>1
<1> QED BY <1>1, <1>2, <1>4, <1>5 DEF Next

\* Every step is a step of the abstract queue, or none.
QueueStep ==
    \/ \E b \in Bufs : /\ b \notin Abs!Members(Offered) \cup SlaveCookies \cup Abs!Members(Returned)
                       /\ Offered' = Append(Offered, b)
                       /\ SlaveCookies' = SlaveCookies /\ Returned' = Returned
    \/ \E b \in Bufs : /\ b \in SlaveCookies /\ SlaveCookies' = SlaveCookies \ {b}
                       /\ Returned' = Append(Returned, b) /\ Offered' = Offered
    \/ /\ Offered # <<>> /\ SlaveCookies' = SlaveCookies \cup {Head(Offered)}
       /\ Offered' = Tail(Offered) /\ Returned' = Returned
    \/ /\ Returned # <<>> /\ Returned' = Tail(Returned)
       /\ Offered' = Offered /\ SlaveCookies' = SlaveCookies
    \/ UNCHANGED <<Offered, SlaveCookies, Returned>>

\* Every step of either core is a step of the two queues or a stutter.
LEMMA StepsAreQueueSteps == ASSUME QueueInv, [Next]_vars PROVE QueueStep
<1> USE DEF QueueStep
<1>1. CASE M_AddPublish
  BY <1>1, QueueOffer
<1>2. CASE S_ReturnPublish
  BY <1>2, QueueReturn
<1>3. CASE S_Take
  BY <1>3, QueueTake
<1>4. CASE M_Get
  BY <1>4, QueueReclaim
<1>5. CASE S_TakeRead \/ (\E h \in held : S_ReturnSlot(h)) \/ M_AddSlot
  BY <1>5, QueueTakeRead, QueueReturnSlot, QueueAddSlot
<1>6. CASE \E needed \in 1..MaxChain, buf \in Bufs : M_AddStart(needed, buf)
  <2>1. PICK needed \in 1..MaxChain, buf \in Bufs : M_AddStart(needed, buf)
    BY <1>6
  <2>2. PICK h \in Desc : h = vq_desc_head_idx /\ cookie[h] = NoBuf
    BY <2>1 DEF M_AddStart, AssertHead
  <2>3. \A d \in Desc : d # h => cookie'[d] = cookie[d]
    BY <2>1, <2>2 DEF M_AddStart, QueueInv, DescInv, TypeInv, TypeOK
  <2>4. \A s, x : ~IsAt(s, x, h)
    BY <2>2 DEF QueueInv, DescInv, OwnerInv, CookieKept
  <2>5. UNCHANGED <<avail_ring, avail_idx, vq_available_idx, used_ring, used_idx,
                    vq_used_cons_idx, held, s_pc, s_slot, s_head>>
    BY <2>1 DEF M_AddStart, availVars, usedVars, sVars
  <2> QED BY <2>3, <2>4, <2>5, QueueCookie
<1>7. CASE M_FreeEnd
  <2>1. PICK h \in Desc : h = m_head
    BY DEF QueueInv, DescInv, TypeInv, TypeOK
  <2>2. \A d \in Desc : d # h => cookie'[d] = cookie[d]
    BY <1>7, <2>1 DEF M_FreeEnd, QueueInv, DescInv, TypeInv, TypeOK
  <2>3. IsAt("master", 0, h)
    BY <1>7, <2>1 DEF M_FreeEnd, IsAt
  <2>4. \A s, x : IsAt(s, x, h) => s = "master"
    BY <2>3 DEF QueueInv, DescInv, OwnerInv, OnePlace
  <2>5. UNCHANGED <<avail_ring, avail_idx, vq_available_idx, used_ring, used_idx,
                    vq_used_cons_idx, held, s_pc, s_slot, s_head>>
    BY <1>7 DEF M_FreeEnd, availVars, usedVars, sVars
  <2> QED BY <2>2, <2>4, <2>5, QueueCookie
<1>8. CASE M_AddDesc \/ M_FreeStart \/ M_FreeStep \/ M_Kick \/ M_GetEmpty \/ M_DisableCb
           \/ M_EnableCb \/ M_EnableCheck \/ M_Notification
  <2>1. UNCHANGED queueVars /\ s_pc' = s_pc
    BY <1>8 DEF M_AddDesc, M_FreeStart, M_FreeStep, M_Kick, M_GetEmpty, M_DisableCb, M_EnableCb,
       M_EnableCheck, M_Notification, queueVars, availVars, usedVars, mVars, freeVars, sVars
  <2> QED BY <2>1, QueueFrame
<1>9. CASE S_Kick \/ S_TakeEmpty \/ S_DisableCb \/ S_EnableCb \/ S_EnableCheck \/ S_Notification
           \/ UNCHANGED vars
  <2>1. /\ UNCHANGED queueVars
        /\ s_pc' = s_pc \/ (s_pc \in {"idle", "arm"} /\ s_pc' \in {"idle", "arm"})
    BY <1>9 DEF S_Kick, S_TakeEmpty, S_DisableCb, S_EnableCb, S_EnableCheck, S_Notification, vars,
       queueVars, availVars, usedVars, mVars, freeVars, sVars
  <2> QED BY <2>1, QueueFrame
<1> QED BY <1>1, <1>2, <1>3, <1>4, <1>5, <1>6, <1>7, <1>8, <1>9 DEF Next

\* The virtqueue implements the queue of VirtqueueAbs: buffers are taken in the
\* order they were offered and reclaimed in the order they were returned, and
\* none is lost, duplicated or changed, for every ring size and whatever the two
\* cores interleave.
THEOREM VirtqueueImplementsQueue == CallerCounts => (Spec => ImplementsQueue)
<1> SUFFICES ASSUME CallerCounts PROVE Spec => ImplementsQueue
  OBVIOUS
<1> DEFINE Same == SlaveHas = SlaveCookies
<1>1. Init => CookiesDiffer
  BY DEF Init, CookiesDiffer
<1>2. QueueInv /\ [Next]_vars => CookiesDiffer'
  BY CookiesStep
<1>3. QueueInv => Same
  BY SlaveHasCookies DEF QueueInv
<1>4. Init => Abs!Init
  <2> SUFFICES ASSUME Init PROVE Abs!Init
    OBVIOUS
  <2>1. virtqueue_navail = 0 /\ virtqueue_nused = 0
    BY SizeAssumption DEF Init, virtqueue_navail, virtqueue_nused, Sub
  <2>2. Offered = <<>> /\ Returned = <<>>
    BY <2>1 DEF Offered, Returned
  <2>3. SlaveHas = {}
    BY DEF SlaveHas, Init
  <2> QED BY <2>2, <2>3 DEF Abs!Init
<1>5. QueueInv /\ Same /\ Same' /\ [Next]_vars => [Abs!Next]_(Abs!absVars)
  <2> SUFFICES ASSUME QueueInv, Same, Same', [Next]_vars PROVE [Abs!Next]_(Abs!absVars)
    OBVIOUS
  <2>1. QueueStep
    BY StepsAreQueueSteps
  <2>2. SlaveHas = SlaveCookies /\ SlaveHas' = SlaveCookies'
    OBVIOUS
  <2> QED BY <2>1, <2>2 DEF QueueStep, Abs!Next, Abs!Offer, Abs!Return, Abs!Take, Abs!Reclaim,
             Abs!Idle, Abs!absVars
<1>6. Spec => []DescInv
  BY DescInvariant
<1> QED BY <1>1, <1>2, <1>3, <1>4, <1>5, <1>6, PTL DEF Spec, ImplementsQueue, Abs!Spec, QueueInv
================================================================================
