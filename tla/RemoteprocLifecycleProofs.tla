----------------------- MODULE RemoteprocLifecycleProofs -----------------------
(***************************************************************************)
(* Theorems about RemoteprocLifecycle, for any sizes of the memories, any  *)
(* images and any number of loads, with or without a watchdog that keeps   *)
(* away from streamed loads.                                               *)
(***************************************************************************)
EXTENDS RemoteprocLifecycle, SequenceTheorems, WellFoundedInduction, TLAPS

Range3 == [da : Nat, size : Nat, pa : Nat]

Typed ==
    /\ plat \in Platforms /\ mems \in Seq(Range3) /\ seg \in Nat \ {0}

\* A load in progress holds the lock, in a state that allows it.
Held == pc = "segment" => lock = "held" /\ rstate \in {"READY", "CONFIGURED"}

\* The owner is at a segment of an image of the platform.
AtSegment ==
    /\ pc = "load" => seg = 1
    /\ pc \in {"segment", "write"} => seg <= Len(image)
    /\ pc \in {"load", "segment", "stream", "write", "start"} => image \in Images(plat)

\* As long as no mapping failed, regions are in tightly coupled memory and have
\* the physical address the hardware has them at.
Good(r) ==
    /\ plat # "APU" /\ r.da < 4 * Bank /\ r.da + r.size <= 4 * Bank
    /\ r.pa = Physical(r.da)
Regions ==
    pc \in {"config", "load", "segment", "stream", "write"} =>
        \A i \in DOMAIN mems : Good(mems[i])

\* What a load has placed so far. Once another state than READY was seen
\* between two calls of a streamed load, nothing is claimed.
PlacedBefore(n) ==
    \A i \in DOMAIN image : i < n => <<image, i, Physical(image[i].da)>> \in written
Loaded ==
    /\ pc = "segment" => PlacedBefore(seg)
    /\ pc \in {"stream", "write"} /\ rstate = "READY" => PlacedBefore(seg)
    /\ pc = "write" => at = Physical(image[seg].da)
    /\ pc = "start" /\ rstate = "READY" => Placed(image) \subseteq written
    /\ pc \in {"segment", "write", "start"} => hw = None

OffInv == Held /\ OfflineClean
LifeInv == OffInv /\ Typed /\ AtSegment /\ RunsFullImage /\ Regions /\ Loaded

USE DEF Platforms

--------------------------------------------------------------------------------
\* The facts about the constants the proofs need.
LEMMA Constants ==
    /\ Bank \in Nat \ {0} /\ Tcm0 \in Nat /\ Tcm1 \in Nat /\ OcmBase \in Nat
    /\ 4 * Bank < Tcm0 /\ Tcm0 + 4 * Bank < Tcm1 /\ Tcm1 + 4 * Bank < OcmBase
    /\ BAD_PHYS \in Nat /\ BAD_PHYS + 1 = OcmBase + 4 * Bank
BY LcmAssumption DEF BAD_PHYS

\* An image has segments of addresses.
LEMMA Segments ==
    ASSUME NEW p \in Platforms, NEW img \in Images(p)
    PROVE  /\ Len(img) \in Nat \ {0} /\ DOMAIN img = 1..Len(img)
           /\ \A i \in DOMAIN img : img[i].da \in Nat /\ img[i].size \in Nat
<1>1. img \in Seq([da : Addr, size : Addr]) /\ img # <<>>
  BY LifecycleAssumption
<1>2. Addr \subseteq Nat
  BY Constants DEF Addr
<1>3. Len(img) \in Nat \ {0} /\ DOMAIN img = 1..Len(img)
  BY <1>1
<1>4. \A i \in 1..Len(img) : img[i] \in [da : Addr, size : Addr]
  BY <1>1, ElementOfSeq
<1> QED BY <1>2, <1>3, <1>4

\* A small address does not wrap.
LEMMA NoWrap ==
    ASSUME NEW a \in Nat, a <= BAD_PHYS
    PROVE  Wrap(a) = a
BY Constants DEF Wrap

\* Where the tightly coupled memory of a core begins, and that the hardware has
\* all of it from there on.
Base == IF plat = "RPU_0" THEN Tcm0 ELSE Tcm1

\* What both tables give for an address of the tightly coupled memory.
LEMMA PhysicalTcm ==
    ASSUME plat \in Platforms, plat # "APU"
    PROVE  /\ Base \in Nat /\ Base + 4 * Bank <= BAD_PHYS
           /\ \A a \in Nat : a < 4 * Bank => Physical(a) = Base + a
           /\ \A a \in Nat : a <= 4 * Bank => mapped_pa(plat, a) = Base + a
<1>1. Base \in Nat /\ Base + 4 * Bank <= BAD_PHYS
  BY Constants DEF Base
<1>2. ASSUME NEW a \in Nat, a < 4 * Bank PROVE Physical(a) = Base + a
  <2>1. ~(plat = "APU" \/ a >= 4 * Bank)
    BY <1>2, Constants
  <2> QED BY <2>1 DEF Physical, Base
<1>3. ASSUME NEW a \in Nat, a <= 4 * Bank PROVE mapped_pa(plat, a) = Base + a
  <2>1. ~(a > 4 * Bank)
    BY <1>3, Constants
  <2> QED BY <2>1 DEF mapped_pa, rpu_pa, Base
<1> QED BY <1>1, <1>2, <1>3

\* A set of positions that is not empty has a first one.
LEMMA Smallest ==
    ASSUME NEW S \in SUBSET Nat, S # {}
    PROVE  First(S) \in S
<1> DEFINE R == OpToRel(<, Nat)
<1>1. IsWellFoundedOn(R, Nat)
  BY NatLessThanWellFounded
<1>2. PICK x \in S : \A y \in S : <<y, x>> \notin R
  <2> HIDE DEF R
  <2> QED BY <1>1, WFMin, Zenon
<1>3. ASSUME NEW y \in S PROVE x <= y
  <2>1. <<y, x>> \notin {ss \in Nat \X Nat : ss[1] < ss[2]}
    BY <1>2 DEF OpToRel
  <2>2. <<y, x>> \in Nat \X Nat /\ <<y, x>>[1] = y /\ <<y, x>>[2] = x
    OBVIOUS
  <2>3. ~(y < x)
    BY <2>1, <2>2
  <2> QED BY <2>2, <2>3
<1> QED BY <1>3 DEF First

\* A mapping that gives an address gives that of the hardware, and its region
\* has it too.
LEMMA MapsWell ==
    ASSUME SegmentsApart, Typed, \A i \in DOMAIN mems : Good(mems[i]), plat' = plat,
           NEW img \in Images(plat), NEW n \in DOMAIN img,
           Map(img[n], TRUE), MapPa(img[n]) # BAD_PHYS
    PROVE  /\ MapPa(img[n]) = Physical(img[n].da)
           /\ mems' \in Seq(Range3)
           /\ (\A i \in DOMAIN mems : Good(mems[i]))'
<1> DEFINE s == img[n]
<1>1. s.da \in Nat /\ s.size \in Nat
  BY Segments DEF Typed
<1>r. \A i \in DOMAIN mems : mems[i] \in Range3
  BY DEF Typed
<1>2. CASE Known(s)
  <2> DEFINE S == remoteproc_get_mem(s.da, s.size)
             k == First(S)
  <2>1. S # {} /\ S \subseteq 1..Len(mems)
    BY <1>2 DEF Known, remoteproc_get_mem, Typed
  <2>2. k \in S
    BY <2>1, Smallest
  <2>3. /\ Good(mems[k]) /\ mems[k] \in Range3
        /\ mems[k].da <= s.da /\ s.da + s.size <= mems[k].da + mems[k].size
    BY <2>2, <1>r DEF remoteproc_get_mem
  <2>4. MapPa(s) = Wrap(mems[k].pa + s.da - mems[k].da)
    BY <1>2 DEF MapPa
  <2>b. /\ Base \in Nat /\ Base + 4 * Bank <= BAD_PHYS
        /\ Physical(mems[k].da) = Base + mems[k].da /\ Physical(s.da) = Base + s.da
    <3>1. plat # "APU" /\ mems[k].da \in Nat /\ mems[k].da < 4 * Bank /\ s.da <= 4 * Bank
      BY <2>3, <1>1, Constants DEF Good, Range3
    <3>2. s.da < 4 * Bank
      BY <3>1, <1>1, Constants DEF SegmentsApart, Typed
    <3> QED BY <3>1, <3>2, <1>1, PhysicalTcm DEF Typed
  <2>5. mems[k].pa + s.da - mems[k].da = Physical(s.da)
    BY <2>3, <2>b, <1>1 DEF Good, Range3
  <2>6. Physical(s.da) \in Nat /\ Physical(s.da) <= BAD_PHYS
    BY <2>3, <2>b, <1>1, Constants DEF Good, Range3
  <2>7. mems' = mems
    BY <1>2 DEF Map
  <2> QED BY <2>4, <2>5, <2>6, <2>7, NoWrap DEF Typed, Good, Physical
<1>3. CASE ~Known(s)
  <2>1. MapPa(s) = mapped_pa(plat, s.da)
    BY <1>3 DEF MapPa
  <2>2. plat # "APU" /\ s.da <= 4 * Bank
    BY <2>1, <1>1, Constants DEF mapped_pa, rpu_pa, Typed
  <2>3. s.da < 4 * Bank /\ s.da + s.size <= 4 * Bank
    BY <2>2, <1>1, Constants DEF SegmentsApart, Typed
  <2>4. MapPa(s) = Physical(s.da) /\ MapPa(s) \in Nat
    BY <2>1, <2>2, <2>3, <1>1, PhysicalTcm, Constants DEF Typed
  <2> DEFINE r == [da |-> s.da, size |-> s.size, pa |-> mapped_pa(plat, s.da)]
  <2>5. mems' = Append(mems, r)
    BY <1>3 DEF Map
  <2>6. r \in Range3 /\ Good(r)
    BY <1>1, <2>1, <2>2, <2>3, <2>4 DEF Good, Range3
  <2>7. mems' \in Seq(Range3)
    BY <2>5, <2>6 DEF Typed
  <2>8. \A i \in DOMAIN mems' : mems'[i] = r \/ (i \in DOMAIN mems /\ mems'[i] = mems[i])
    BY <2>5, <2>6 DEF Typed
  <2> QED BY <2>4, <2>6, <2>7, <2>8 DEF Good, Physical
<1> QED BY <1>2, <1>3

\* Any mapping leaves a sequence of regions.
LEMMA MapsTyped ==
    ASSUME Typed, NEW img \in Images(plat), NEW n \in DOMAIN img, NEW ok, Map(img[n], ok)
    PROVE  mems' \in Seq(Range3)
<1> DEFINE s == img[n]
           r == [da |-> s.da, size |-> s.size, pa |-> mapped_pa(plat, s.da)]
<1>1. s.da \in Nat /\ s.size \in Nat
  BY Segments DEF Typed
<1>2. mapped_pa(plat, s.da) \in Nat
  <2>1. CASE plat = "APU"
    BY <2>1, Constants DEF mapped_pa
  <2>2. CASE plat # "APU" /\ s.da > 4 * Bank
    <3>1. mapped_pa(plat, s.da) = BAD_PHYS
      BY <2>2 DEF mapped_pa, rpu_pa
    <3> QED BY <3>1, Constants
  <2>3. CASE plat # "APU" /\ s.da <= 4 * Bank
    <3>1. mapped_pa(plat, s.da) = Base + s.da /\ Base \in Nat
      BY <2>3, <1>1, PhysicalTcm DEF Typed
    <3> QED BY <3>1, <1>1
  <2> QED BY <2>1, <2>2, <2>3, <1>1, Constants
<1>3. r \in Range3
  BY <1>1, <1>2 DEF Range3
<1>4. mems' = mems \/ mems' = Append(mems, r)
  BY DEF Map
<1> QED BY <1>3, <1>4 DEF Typed

\* What the two calls of the watchdog, which the owner makes too, can do.
LEMMA StopFacts ==
    ASSUME StopCall
    PROVE  /\ IF rstate = "OFFLINE" THEN rstate' = "OFFLINE" ELSE rstate' = "STOPPED"
           /\ UNCHANGED <<mems, hw, written>>
BY DEF StopCall, remoteproc_stop, Result, target

\* A shutdown that is not refused always drops the regions.
LEMMA ShutdownFacts ==
    ASSUME ShutdownCall
    PROVE  /\ rstate = "OFFLINE" => UNCHANGED <<rstate, mems, hw, written>>
           /\ rstate # "OFFLINE" =>
                /\ mems' = <<>>
                /\ \/ rstate' = "OFFLINE" /\ hw' = None
                   \/ UNCHANGED <<rstate, hw, written>>
<1>1. PICK r \in {Ok, Err} :
        LET s == remoteproc_shutdown(rstate, Ok, r)
            shuts == "shutdown" \in s.calls
        IN /\ rstate' = s.state
           /\ mems' = IF shuts THEN <<>> ELSE mems
           /\ hw' = IF shuts /\ r = Ok THEN None ELSE hw
           /\ written' \in (IF shuts /\ r = Ok THEN {written, {}} ELSE {written})
  BY DEF ShutdownCall
<1> DEFINE s == remoteproc_shutdown(rstate, Ok, r)
<1>2. CASE rstate = "OFFLINE"
  <2>1. s.state = rstate /\ s.calls = {}
    BY <1>2 DEF remoteproc_shutdown, Result
  <2> QED BY <1>1, <1>2, <2>1
<1>3. CASE rstate # "OFFLINE"
  <2>1. /\ "shutdown" \in s.calls
        /\ s.state = IF r = Ok THEN "OFFLINE" ELSE rstate
    BY <1>3 DEF remoteproc_shutdown, Result, Ok
  <2> QED BY <1>1, <1>3, <2>1
<1> QED BY <1>2, <1>3

--------------------------------------------------------------------------------
\* An instance that is OFFLINE is clean: only a shutdown that dropped the regions
\* and powered the processor down makes it OFFLINE, and nothing maps or starts
\* until a later remoteproc_config.
LEMMA OffInit == Init => OffInv
BY DEF Init, OffInv, Held, OfflineClean

\* Every step keeps OffInv.
LEMMA OffNext == OffInv /\ [Next]_vars => OffInv'
<1> SUFFICES ASSUME OffInv, [Next]_vars PROVE OffInv'
  OBVIOUS
<1> USE DEF OffInv, Held, OfflineClean
<1>1. CASE Configure
  <2>1. rstate' # "OFFLINE"
    BY <1>1 DEF Configure, remoteproc_config, Result
  <2> QED BY <1>1, <2>1 DEF Configure
<1>2. CASE LoadBegin
  BY <1>2 DEF LoadBegin, LoadAllowed, target
<1>3. CASE LoadSegment
  <2>1. rstate # "OFFLINE" /\ lock = "held" /\ rstate \in {"READY", "CONFIGURED"}
    BY <1>3 DEF LoadSegment
  <2>2. /\ rstate' # "OFFLINE"
        /\ pc' = "segment" => lock' = lock /\ rstate' = rstate
    BY <1>3, <2>1 DEF LoadSegment
  <2> QED BY <2>1, <2>2
<1>4. CASE Stream
  BY <1>4 DEF Stream, StreamAllowed
<1>5. CASE Write
  BY <1>5 DEF Write
<1>6. CASE Start
  <2>1. rstate' = "OFFLINE" => rstate = "OFFLINE" /\ hw' = hw
    BY <1>6 DEF Start, remoteproc_start, Result
  <2> QED BY <1>6, <2>1 DEF Start
<1>7. CASE Stop
  BY <1>7, StopFacts DEF Stop
<1>8. CASE Shutdown
  <2>1. rstate' = "OFFLINE" => hw' = None /\ mems' = <<>>
    BY <1>8, ShutdownFacts DEF Shutdown
  <2> QED BY <1>8, <2>1 DEF Shutdown
<1>9. CASE Remove
  BY <1>9 DEF Remove, target
<1>10. CASE Watchdog
  <2>1. pc' = pc /\ lock = "free" /\ pc # "segment"
    BY <1>10 DEF Watchdog, MayInterfere
  <2>2. rstate' = "OFFLINE" => hw' = None /\ mems' = <<>>
    BY <1>10, StopFacts, ShutdownFacts DEF Watchdog
  <2> QED BY <2>1, <2>2
<1>11. CASE UNCHANGED vars
  BY <1>11 DEF vars, target
<1> QED BY <1>1, <1>2, <1>3, <1>4, <1>5, <1>6, <1>7, <1>8, <1>9, <1>10, <1>11
        DEF Next, Ended

\* What remoteproc_shutdown promises to a later remoteproc_config: for any
\* images, any failures of the platform and any calls of the watchdog, an
\* instance that is OFFLINE has no region left and its processor is off.
THEOREM OfflineIsClean == Spec => []OfflineClean
<1>1. OffInv => OfflineClean
  BY DEF OffInv
<1> QED BY <1>1, OffInit, OffNext, PTL DEF Spec

--------------------------------------------------------------------------------
\* What the owner's write adds, and when all of an image is there.
LEMMA PlaceOne ==
    ASSUME NEW n \in Nat, PlacedBefore(n), DOMAIN image \subseteq Nat, n \in DOMAIN image,
           written' = Place(n, Physical(image[n].da))
    PROVE  \A i \in DOMAIN image : i <= n => <<image, i, Physical(image[i].da)>> \in written'
<1>1. SUFFICES ASSUME NEW i \in DOMAIN image, i <= n
               PROVE  <<image, i, Physical(image[i].da)>> \in written'
  OBVIOUS
<1>2. CASE i = n
  BY <1>2 DEF Place
<1>3. CASE i # n
  <2>1. i < n
    BY <1>1, <1>3
  <2>2. <<image, i, Physical(image[i].da)>> \in written
    BY <2>1 DEF PlacedBefore
  <2> QED BY <2>2 DEF Place
<1> QED BY <1>2, <1>3

\* Once every segment has been written the image is there.
LEMMA AllPlaced ==
    ASSUME NEW n \in Nat, PlacedBefore(n), \A i \in DOMAIN image : i < n
    PROVE  Placed(image) \subseteq written
BY DEF PlacedBefore, Placed

\* The instance remoteproc_init returns satisfies the invariant.
LEMMA LifeInit == Init => LifeInv
<1> SUFFICES ASSUME Init PROVE LifeInv
  OBVIOUS
<1>1. OffInv
  BY OffInit
<1>2. Typed
  BY EmptySeq DEF Init, Typed
<1>3. AtSegment /\ RunsFullImage /\ Regions /\ Loaded
  BY DEF Init, AtSegment, RunsFullImage, Regions, Loaded
<1> QED BY <1>1, <1>2, <1>3 DEF LifeInv

\* The steps of the owner up to the start.
LEMMA LoadSteps ==
    ASSUME SegmentsApart, LifeInv, Configure \/ LoadBegin \/ LoadSegment
    PROVE  (Typed /\ AtSegment /\ RunsFullImage /\ Regions /\ Loaded)'
<1> USE DEF LifeInv, OffInv
<1>0. plat' = plat /\ hw' = hw
  BY DEF Configure, LoadBegin, LoadSegment, target
<1>1. CASE Configure
  <2>1. /\ pc = "config" /\ pc' \in {"load", "stream"} /\ seg' = 1
        /\ image' \in Images(plat) /\ UNCHANGED <<mems, hw, written>>
        /\ rstate \in {"RUNNING", "STOPPED"} => rstate' = rstate
    BY <1>1 DEF Configure, target, remoteproc_config, Result
  <2>2. DOMAIN image' = 1..Len(image') /\ Len(image') \in Nat
    BY <2>1, Segments DEF Typed
  <2>3. PlacedBefore(1)'
    BY <2>2 DEF PlacedBefore
  <2>4. Typed' /\ AtSegment'
    BY <1>0, <2>1 DEF Typed, AtSegment
  <2>5. RunsFullImage'
    BY <1>0, <2>1 DEF RunsFullImage, Placed, Physical
  <2>6. Regions'
    BY <1>0, <2>1 DEF Regions, Good, Physical
  <2>7. Loaded'
    BY <2>1, <2>3 DEF Loaded
  <2> QED BY <2>4, <2>5, <2>6, <2>7
<1>2. CASE LoadBegin
  <2>1. /\ pc = "load" /\ UNCHANGED <<image, rstate, mems, hw, written, seg, at>>
        /\ \/ pc' = "failed"
           \/ rstate \in {"READY", "CONFIGURED"} /\ pc' = "segment"
    BY <1>2 DEF LoadBegin, LoadAllowed, target
  <2>2. image \in Images(plat) /\ seg = 1
    BY <2>1 DEF AtSegment
  <2>3. DOMAIN image = 1..Len(image) /\ Len(image) \in Nat \ {0}
    BY <2>2, Segments DEF Typed
  <2>4. PlacedBefore(seg)'
    BY <2>1, <2>2, <2>3 DEF PlacedBefore
  <2>5. pc' = "segment" => hw = None
    BY <2>1 DEF RunsFullImage
  <2>6. Typed' /\ AtSegment'
    BY <1>0, <2>1, <2>2, <2>3 DEF Typed, AtSegment
  <2>7. RunsFullImage' /\ Regions'
    BY <1>0, <2>1 DEF RunsFullImage, Placed, Physical, Regions, Good
  <2>8. Loaded'
    BY <2>1, <2>4, <2>5 DEF Loaded
  <2> QED BY <2>6, <2>7, <2>8
<1>3. CASE LoadSegment
  <2> DEFINE s == image[seg]
  <2>1. /\ pc = "segment" /\ UNCHANGED <<image, at>> /\ hw = None
        /\ rstate \in {"READY", "CONFIGURED"}
        /\ image \in Images(plat) /\ seg \in Nat \ {0} /\ seg <= Len(image)
        /\ PlacedBefore(seg) /\ \A i \in DOMAIN mems : Good(mems[i])
    BY <1>3 DEF LoadSegment, Held, AtSegment, Loaded, Regions, Typed
  <2>2. DOMAIN image = 1..Len(image) /\ Len(image) \in Nat /\ seg \in DOMAIN image
    BY <2>1, Segments DEF Typed
  <2>3. CASE pc' = "failed" /\ seg' = seg /\ rstate' = rstate
             /\ (Map(s, TRUE) \/ Map(s, FALSE))
    <3>1. mems' \in Seq(Range3)
      BY <2>1, <2>2, <2>3, MapsTyped
    <3> QED BY <1>0, <2>1, <2>3, <3>1
            DEF Typed, AtSegment, RunsFullImage, Regions, Loaded
  <2>4. CASE /\ Map(s, TRUE) /\ MapPa(s) # BAD_PHYS
             /\ written' = Place(seg, MapPa(s))
             /\ IF seg < Len(image)
                THEN seg' = seg + 1 /\ UNCHANGED <<pc, lock, rstate>>
                ELSE /\ pc' = "start" /\ lock' = "free" /\ rstate' = "READY"
                     /\ UNCHANGED seg
    <3>1. /\ MapPa(s) = Physical(s.da) /\ mems' \in Seq(Range3)
          /\ (\A i \in DOMAIN mems : Good(mems[i]))'
      BY <1>0, <2>1, <2>2, <2>4, MapsWell
    <3>2. \A i \in DOMAIN image : i <= seg => <<image, i, Physical(image[i].da)>> \in written'
      BY <2>1, <2>2, <2>4, <3>1, PlaceOne
    <3>3. CASE seg < Len(image)
      <4>1. seg' = seg + 1 /\ pc' = "segment" /\ rstate' = rstate
        BY <2>1, <2>4, <3>3
      <4>2. PlacedBefore(seg)'
        BY <1>0, <2>1, <2>2, <3>2, <4>1 DEF PlacedBefore, Physical
      <4> QED BY <1>0, <2>1, <2>2, <3>1, <3>3, <4>1, <4>2
              DEF Typed, AtSegment, RunsFullImage, Regions, Loaded
    <3>4. CASE ~(seg < Len(image))
      <4>1. seg' = seg /\ pc' = "start" /\ rstate' = "READY"
        BY <2>4, <3>4
      <4>2. (Placed(image) \subseteq written)'
        BY <1>0, <2>1, <2>2, <3>2, <3>4 DEF Placed, Physical
      <4> QED BY <1>0, <2>1, <3>1, <4>1, <4>2
              DEF Typed, AtSegment, RunsFullImage, Regions, Loaded
    <3> QED BY <3>3, <3>4
  <2> QED BY <1>3, <2>3, <2>4 DEF LoadSegment
<1> QED BY <1>1, <1>2, <1>3

\* The steps of a streamed load.
LEMMA StreamSteps ==
    ASSUME SegmentsApart, LifeInv, Stream \/ Write
    PROVE  (Typed /\ AtSegment /\ RunsFullImage /\ Regions /\ Loaded)'
<1> USE DEF LifeInv, OffInv
<1>0. UNCHANGED <<plat, image, rstate, hw>>
  BY DEF Stream, Write
<1>s. seg \in Nat \ {0}
  BY DEF Typed
<1>i. image \in Images(plat)
  BY DEF Stream, Write, AtSegment
<1>d. DOMAIN image = 1..Len(image) /\ Len(image) \in Nat
  BY <1>i, Segments DEF Typed
<1>1. CASE Stream
  <2>1. /\ pc = "stream" /\ UNCHANGED <<written, seg>>
        /\ \A i \in DOMAIN mems : Good(mems[i])
    BY <1>1 DEF Stream, Regions
  <2>2. RunsFullImage'
    BY <1>0, <2>1 DEF RunsFullImage, Placed, Physical
  <2>3. CASE pc' = "failed" /\ mems' \in Seq(Range3)
    BY <1>0, <2>1, <2>2, <2>3 DEF Typed, AtSegment, Regions, Loaded
  <2>4. CASE rstate = "READY" /\ seg > Len(image) /\ pc' = "start" /\ mems' = mems
    <3>1. hw = None
      BY <2>4 DEF RunsFullImage
    <3>2. Placed(image) \subseteq written
      BY <1>s, <1>d, <2>1, <2>4, AllPlaced DEF Loaded
    <3>3. (Placed(image) \subseteq written)'
      BY <1>0, <2>1, <3>2 DEF Placed, Physical
    <3> QED BY <1>0, <1>i, <2>1, <2>2, <2>4, <3>1, <3>3 DEF Typed, AtSegment, Regions, Loaded
  <2>5. CASE /\ rstate = "READY" /\ seg <= Len(image)
             /\ Map(image[seg], TRUE) /\ MapPa(image[seg]) # BAD_PHYS
             /\ pc' = "write" /\ at' = MapPa(image[seg])
    <3>1. hw = None
      BY <2>5 DEF RunsFullImage
    <3>2. /\ MapPa(image[seg]) = Physical(image[seg].da) /\ mems' \in Seq(Range3)
          /\ (\A i \in DOMAIN mems : Good(mems[i]))'
      <4>1. seg \in DOMAIN image
        BY <1>s, <1>d, <2>5
      <4> QED BY <1>0, <1>i, <2>1, <2>5, <4>1, MapsWell
    <3>3. PlacedBefore(seg)'
      BY <1>0, <2>1, <2>5 DEF Loaded, PlacedBefore, Physical
    <3>4. (at = Physical(image[seg].da))'
      BY <1>0, <2>1, <2>5, <3>2 DEF Physical
    <3> QED BY <1>0, <1>i, <2>1, <2>2, <2>5, <3>1, <3>2, <3>3, <3>4
            DEF Typed, AtSegment, Regions, Loaded
  <2>6. CASE /\ rstate = "READY" /\ seg <= Len(image) /\ pc' = "failed"
             /\ Map(image[seg], TRUE) \/ Map(image[seg], FALSE)
    <3>1. seg \in DOMAIN image
      BY <1>s, <1>d, <2>6
    <3>2. mems' \in Seq(Range3)
      BY <1>i, <2>6, <3>1, MapsTyped
    <3> QED BY <2>3, <2>6, <3>2
  <2>7. mems \in Seq(Range3)
    BY DEF Typed
  <2> QED BY <1>1, <2>3, <2>4, <2>5, <2>6, <2>7 DEF Stream, StreamAllowed
<1>2. CASE Write
  <2>1. pc = "write" /\ mems' = mems /\ hw = None /\ seg <= Len(image)
    BY <1>2 DEF Write, Loaded, AtSegment
  <2>2. CASE pc' = "failed" /\ seg' = seg
    BY <1>0, <2>1, <2>2 DEF Typed, AtSegment, RunsFullImage, Regions, Loaded
  <2>3. CASE pc' = "stream" /\ written' = Place(seg, at) /\ seg' = seg + 1
    <3>1. rstate = "READY" => PlacedBefore(seg)'
      <4> SUFFICES ASSUME rstate = "READY" PROVE PlacedBefore(seg)'
        OBVIOUS
      <4>1. PlacedBefore(seg) /\ at = Physical(image[seg].da)
        BY <2>1 DEF Loaded
      <4>2. \A i \in DOMAIN image : i <= seg => <<image, i, Physical(image[i].da)>> \in written'
        BY <1>s, <1>d, <2>1, <2>3, <4>1, PlaceOne
      <4> QED BY <1>0, <1>s, <1>d, <2>3, <4>2 DEF PlacedBefore, Physical
    <3>2. Regions'
      BY <1>0, <2>1 DEF Regions, Good, Physical
    <3> QED BY <1>0, <1>s, <1>i, <2>1, <2>3, <3>1, <3>2 DEF Typed, AtSegment, RunsFullImage, Loaded
  <2> QED BY <1>2, <2>2, <2>3 DEF Write
<1> QED BY <1>1, <1>2

\* The start, and the calls that stop and shut down.
LEMMA EndSteps ==
    ASSUME LifeInv, Start \/ Stop \/ Shutdown \/ Remove \/ Watchdog \/ UNCHANGED vars
    PROVE  (Typed /\ AtSegment /\ RunsFullImage /\ Regions /\ Loaded)'
<1> USE DEF LifeInv, OffInv
<1>0. UNCHANGED <<plat, image, seg, at>>
  BY DEF Start, Stop, Shutdown, Remove, Watchdog, vars
<1>e. <<>> \in Seq(Range3) /\ DOMAIN <<>> = {}
  OBVIOUS
<1>1. CASE Start
  <2>1. /\ pc = "start" /\ pc' \in {"run", "failed"} /\ hw = None
        /\ UNCHANGED <<mems, written>>
        /\ \/ hw' = hw
           \/ rstate = "READY" /\ rstate' = "RUNNING" /\ hw' = image
    BY <1>1 DEF Start, Loaded, remoteproc_start, Result, Ok, Err
  <2>2. RunsFullImage'
    BY <1>0, <2>1 DEF RunsFullImage, Loaded, Placed, Physical
  <2> QED BY <1>0, <2>1, <2>2 DEF Typed, AtSegment, Regions, Loaded
<1>2. CASE Stop
  <2>1. pc' = "shutdown" /\ UNCHANGED <<mems, hw, written>>
        /\ (rstate' = "STOPPED" \/ rstate = "OFFLINE")
    BY <1>2, StopFacts DEF Stop
  <2>2. RunsFullImage'
    BY <1>0, <2>1 DEF RunsFullImage, Placed, Physical
  <2> QED BY <1>0, <2>1, <2>2 DEF Typed, AtSegment, Regions, Loaded
<1>3. CASE Shutdown
  <2>1. /\ pc' \in {"config", "remove"} /\ mems' = <<>>
        /\ hw' = None \/ UNCHANGED <<rstate, hw, written>>
    BY <1>3, ShutdownFacts DEF Shutdown, OfflineClean
  <2>2. RunsFullImage'
    BY <1>0, <2>1 DEF RunsFullImage, Placed, Physical
  <2> QED BY <1>0, <1>e, <2>1, <2>2 DEF Typed, AtSegment, Regions, Loaded
<1>4. CASE Remove
  <2>1. pc' = "done" /\ UNCHANGED <<rstate, mems, hw, written>>
    BY <1>4 DEF Remove, target
  <2>2. RunsFullImage'
    BY <1>0, <2>1 DEF RunsFullImage, Placed, Physical
  <2> QED BY <1>0, <2>1, <2>2 DEF Typed, AtSegment, Regions, Loaded
<1>5. CASE Watchdog /\ StopCall
  <2>1. /\ pc' = pc /\ pc # "segment" /\ UNCHANGED <<mems, hw, written>>
        /\ rstate' = "STOPPED" \/ (rstate = "OFFLINE" /\ rstate' = "OFFLINE")
    BY <1>5, StopFacts DEF Watchdog, MayInterfere, Held
  <2>2. RunsFullImage'
    BY <1>0, <2>1 DEF RunsFullImage, Placed, Physical
  <2>3. Regions'
    BY <1>0, <2>1 DEF Regions, Good, Physical
  <2>4. Loaded'
    BY <1>0, <2>1 DEF Loaded, Physical
  <2> QED BY <1>0, <2>1, <2>2, <2>3, <2>4 DEF Typed, AtSegment
<1>6. CASE Watchdog /\ ShutdownCall
  <2>1. /\ pc' = pc /\ pc # "segment" /\ mems' = <<>>
        /\ \/ rstate' = "OFFLINE" /\ hw' = None
           \/ UNCHANGED <<rstate, hw, written>>
    BY <1>6, ShutdownFacts DEF Watchdog, MayInterfere, Held, OfflineClean
  <2>2. RunsFullImage'
    BY <1>0, <2>1 DEF RunsFullImage, Placed, Physical
  <2>3. Typed' /\ AtSegment' /\ Regions'
    BY <1>0, <1>e, <2>1 DEF Typed, AtSegment, Regions
  <2>4. Loaded'
    <3>1. CASE rstate' = "OFFLINE" /\ hw' = None
      BY <1>0, <2>1, <3>1 DEF Loaded, Physical
    <3>2. CASE UNCHANGED <<rstate, hw, written>>
      BY <1>0, <2>1, <3>2 DEF Loaded, PlacedBefore, Placed, Physical
    <3> QED BY <2>1, <3>1, <3>2
  <2> QED BY <2>2, <2>3, <2>4
<1>7. CASE UNCHANGED vars
  <2>1. UNCHANGED <<plat, image, rstate, lock, mems, hw, written, pc, seg, at>>
    BY <1>7 DEF vars, target
  <2> QED BY <2>1 DEF Typed, AtSegment, RunsFullImage, Regions, Good, Loaded, PlacedBefore,
                      Placed, Physical
<1> QED BY <1>1, <1>2, <1>3, <1>4, <1>5, <1>6, <1>7 DEF Watchdog

\* Every step keeps the invariant.
LEMMA LifeNext ==
    ASSUME SegmentsApart
    PROVE  LifeInv /\ [Next]_vars => LifeInv'
BY OffNext, LoadSteps, StreamSteps, EndSteps DEF LifeInv, Next, Ended

\* A processor that is powered runs an image that is there as a whole and where
\* the hardware has it: for any memory sizes, any images with SegmentsApart, any
\* failures, and with the watchdog's calls between any two steps of the owner,
\* those of a streamed load included.
THEOREM FullImageRuns ==
    ASSUME SegmentsApart
    PROVE  Spec => []RunsFullImage
<1>1. LifeInv /\ [Next]_vars => LifeInv'
  BY LifeNext
<1>2. LifeInv => RunsFullImage
  BY DEF LifeInv
<1> QED BY <1>1, <1>2, LifeInit, PTL DEF Spec

--------------------------------------------------------------------------------
\* The nodes requested for a range are those that power its addresses.
LEMMA RequestsCover ==
    ASSUME NEW p \in Platforms, NEW da \in Nat, NEW size \in Nat,
           da + size <= BAD_PHYS,
           p = "APU" => /\ da < DdrEnd => da + size <= DdrEnd
                        /\ da + size > OcmBase => da >= OcmBase,
           NEW a \in da..(da + size - 1), NEW n \in PowerNodes, Powers(p, n, a)
    PROVE  n \in requests(p, da, size)
<1>1. Wrap(da + size) = da + size
  BY NoWrap
<1>2. a \in Nat /\ da <= a /\ a < da + size
  OBVIOUS
<1>3. CASE p = "APU"
  <2>1. n \in OcmNodes \cup {"DDR"}
    BY <1>3 DEF Powers, OcmNodes
  <2>2. n \in apu_requests(da, da + size)
    BY <1>2, <1>3, <2>1, LcmAssumption, Constants DEF Powers, apu_requests
  <2> QED BY <1>1, <1>3, <2>2 DEF requests
<1>4. CASE p # "APU"
  <2>1. n \in TcmNodes /\ a < 4 * Bank
    BY <1>2, <1>4, Constants DEF Powers, TcmNodes
  <2>2. n \in rpu_requests(p, da, da + size)
    BY <1>2, <1>4, <2>1, LcmAssumption, Constants DEF Powers, rpu_requests
  <2> QED BY <1>1, <1>4, <2>2 DEF requests
<1> QED BY <1>3, <1>4

\* A mapping requests what its region needs and keeps what the others have.
LEMMA MapPowers ==
    ASSUME SegmentsWithin, Typed, BanksPowered, plat' = plat,
           NEW img \in Images(plat), NEW k \in DOMAIN img, NEW ok \in BOOLEAN, Map(img[k], ok)
    PROVE  BanksPowered'
<1> DEFINE s == img[k]
           r == [da |-> s.da, size |-> s.size, pa |-> mapped_pa(plat, s.da)]
<1>1. s.da \in Nat /\ s.size \in Nat
  BY Segments DEF Typed
<1>2. CASE mems' = mems
  <2>1. nodes \subseteq nodes'
    BY DEF Map
  <2> QED BY <1>2, <2>1 DEF BanksPowered
<1>3. CASE ~Known(s) /\ mems' = Append(mems, r)
  <2>1. nodes' = nodes \cup requests(plat, s.da, s.size)
    BY <1>3 DEF Map
  <2>2. ASSUME NEW a \in s.da..(s.da + s.size - 1), NEW n \in PowerNodes, Powers(plat, n, a)
        PROVE  n \in nodes'
    <3>1. /\ s.da + s.size <= BAD_PHYS
          /\ plat = "APU" => /\ s.da < DdrEnd => s.da + s.size <= DdrEnd
                             /\ s.da + s.size > OcmBase => s.da >= OcmBase
      BY DEF SegmentsWithin, Typed
    <3>2. n \in requests(plat, s.da, s.size)
      BY <1>1, <2>2, <3>1, RequestsCover DEF Typed
    <3> QED BY <2>1, <3>2
  <2>3. \A i \in DOMAIN mems' : mems'[i] = r \/ (i \in DOMAIN mems /\ mems'[i] = mems[i])
    BY <1>3 DEF Typed
  <2>4. r.da = s.da /\ r.size = s.size
    OBVIOUS
  <2>5. ASSUME NEW i \in DOMAIN mems',
               NEW a \in mems'[i].da..(mems'[i].da + mems'[i].size - 1),
               NEW n \in PowerNodes, Powers(plat, n, a)
        PROVE  n \in nodes'
    <3>1. CASE mems'[i] = r
      BY <2>2, <2>4, <2>5, <3>1
    <3>2. CASE i \in DOMAIN mems /\ mems'[i] = mems[i]
      BY <2>1, <2>5, <3>2 DEF BanksPowered
    <3> QED BY <2>3, <3>1, <3>2
  <2> QED BY <2>5 DEF BanksPowered, Powers
<1> QED BY <1>2, <1>3 DEF Map

\* Every step keeps mapped regions powered.
LEMMA PowerNext ==
    ASSUME SegmentsWithin, LifeInv, BanksPowered, [Next]_vars
    PROVE  BanksPowered'
<1> USE DEF LifeInv, OffInv
<1>1. CASE LoadSegment
  <2>1. image \in Images(plat) /\ seg \in Nat \ {0} /\ seg <= Len(image)
    BY <1>1 DEF LoadSegment, AtSegment, Typed
  <2>2. seg \in DOMAIN image
    BY <2>1, Segments DEF Typed
  <2>3. plat' = plat /\ \E ok \in BOOLEAN : Map(image[seg], ok)
    BY <1>1 DEF LoadSegment
  <2> QED BY <2>1, <2>2, <2>3, MapPowers
<1>2. CASE Stream
  <2>1. image \in Images(plat) /\ seg \in Nat \ {0} /\ plat' = plat
    BY <1>2 DEF Stream, AtSegment, Typed
  <2>2. CASE UNCHANGED <<mems, nodes>>
    BY <2>1, <2>2 DEF BanksPowered
  <2>3. CASE seg <= Len(image) /\ \E ok \in BOOLEAN : Map(image[seg], ok)
    <3>1. seg \in DOMAIN image
      BY <2>1, <2>3, Segments DEF Typed
    <3> QED BY <2>1, <2>3, <3>1, MapPowers
  <2> QED BY <1>2, <2>2, <2>3 DEF Stream
<1>3. CASE (Shutdown \/ Watchdog) /\ ShutdownCall
  <2>1. mems' = <<>>
    BY <1>3, ShutdownFacts DEF OfflineClean
  <2> QED BY <2>1 DEF BanksPowered
<1>4. CASE UNCHANGED <<plat, mems, nodes>>
  BY <1>4 DEF BanksPowered
<1> QED BY <1>1, <1>2, <1>3, <1>4
        DEF Next, Configure, LoadBegin, Write, Start, Stop, StopCall, Shutdown, Remove,
            Watchdog, Ended, vars, target

\* Every address of a mapped region is powered, for any banks and any images with
\* the two properties above, whatever regions were dropped before.
THEOREM BanksArePowered ==
    ASSUME SegmentsApart, SegmentsWithin
    PROVE  Spec => []BanksPowered
<1> DEFINE Inv == LifeInv /\ BanksPowered
<1>1. Init => Inv
  BY LifeInit DEF Init, BanksPowered
<1>2. Inv /\ [Next]_vars => Inv'
  BY LifeNext, PowerNext
<1>3. Inv => BanksPowered
  OBVIOUS
<1> QED BY <1>1, <1>2, <1>3, PTL DEF Spec

--------------------------------------------------------------------------------
\* The segment the owner is about to write is mapped, when nobody shuts the
\* processor down meanwhile.
WriteMapped == pc = "write" => Known(image[seg])

\* After a mapping that succeeded a region holds the segment.
LEMMA MapKnown ==
    ASSUME Typed, NEW img \in Images(plat), NEW k \in DOMAIN img, Map(img[k], TRUE)
    PROVE  \E i \in DOMAIN mems' : /\ mems'[i].da <= img[k].da
                                   /\ img[k].da + img[k].size <= mems'[i].da + mems'[i].size
<1> DEFINE s == img[k]
           r == [da |-> s.da, size |-> s.size, pa |-> mapped_pa(plat, s.da)]
<1>1. s.da \in Nat /\ s.size \in Nat
  BY Segments DEF Typed
<1>2. CASE Known(s)
  BY <1>2 DEF Map, Known, remoteproc_get_mem
<1>3. CASE ~Known(s)
  <2>1. mems' = Append(mems, r)
    BY <1>3 DEF Map
  <2>2. Len(mems) + 1 \in DOMAIN mems' /\ mems'[Len(mems) + 1] = r
    BY <2>1 DEF Typed
  <2>3. r.da = s.da /\ r.size = s.size
    OBVIOUS
  <2> QED BY <1>1, <2>2, <2>3
<1> QED BY <1>2, <1>3

\* With Exclusive every step keeps it mapped.
LEMMA WriteNext ==
    ASSUME Exclusive, LifeInv, WriteMapped, [Next]_vars
    PROVE  WriteMapped'
<1> USE DEF LifeInv, OffInv
<1> SUFFICES ASSUME pc' = "write" PROVE Known(image[seg])'
  BY DEF WriteMapped
<1>1. CASE Stream
  <2>1. image \in Images(plat) /\ seg \in Nat \ {0} /\ UNCHANGED <<image, seg>>
    BY <1>1 DEF Stream, AtSegment, Typed
  <2>2. seg <= Len(image) /\ Map(image[seg], TRUE)
    BY <1>1 DEF Stream
  <2>3. seg \in DOMAIN image
    BY <2>1, <2>2, Segments DEF Typed
  <2> QED BY <2>1, <2>2, <2>3, MapKnown DEF Known, remoteproc_get_mem
<1>2. CASE UNCHANGED vars
  <2>1. UNCHANGED <<pc, image, seg, mems>>
    BY <1>2 DEF vars
  <2> QED BY <2>1 DEF WriteMapped, Known, remoteproc_get_mem
<1>3. CASE Watchdog
  BY <1>3 DEF Watchdog
<1> QED BY <1>1, <1>2, <1>3
        DEF Next, Configure, LoadBegin, LoadSegment, Write, Start, Stop, Shutdown, Remove, Ended

\* A segment that is mapped and not empty is powered where it begins.
LEMMA WritePowered ==
    ASSUME SegmentsWithin, LifeInv, BanksPowered, WriteMapped
    PROVE  WritesLand
<1> SUFFICES ASSUME pc = "write" PROVE WritesLand
  BY DEF WritesLand
<1> DEFINE s == image[seg]
<1>1. hw = None /\ Known(s)
  BY DEF LifeInv, Loaded, WriteMapped
<1>2. image \in Images(plat) /\ seg \in DOMAIN image
  <2>1. image \in Images(plat) /\ seg \in Nat \ {0} /\ seg <= Len(image)
    BY DEF LifeInv, AtSegment, Typed
  <2> QED BY <2>1, Segments DEF LifeInv, Typed
<1>3. s.da \in Nat /\ s.size \in Nat /\ s.size > 0
  <2>1. s.da \in Nat /\ s.size \in Nat
    BY <1>2, Segments DEF LifeInv, Typed
  <2>2. s.size > 0
    BY <1>2 DEF SegmentsWithin, LifeInv, Typed
  <2> QED BY <2>1, <2>2
<1>4. PICK i \in DOMAIN mems : mems[i].da <= s.da /\ s.da + s.size <= mems[i].da + mems[i].size
  BY <1>1 DEF Known, remoteproc_get_mem
<1>5. mems[i].da \in Nat /\ mems[i].size \in Nat
  <2>1. mems[i] \in Range3
    BY DEF LifeInv, Typed
  <2> QED BY <2>1 DEF Range3
<1>6. s.da \in mems[i].da..(mems[i].da + mems[i].size - 1)
  BY <1>3, <1>4, <1>5
<1> QED BY <1>1, <1>6 DEF WritesLand, BanksPowered

\* A caller that streams an image without the lock writes to memory that is
\* mapped and powered, of a processor that is off, as long as nobody else calls
\* between its first segment and its last (Exclusive).
THEOREM StreamedWritesLand ==
    ASSUME SegmentsApart, SegmentsWithin, Exclusive
    PROVE  Spec => []WritesLand
<1> DEFINE Inv == LifeInv /\ BanksPowered /\ WriteMapped
<1>1. Init => Inv
  BY LifeInit DEF Init, BanksPowered, WriteMapped
<1>2. Inv /\ [Next]_vars => Inv'
  BY LifeNext, PowerNext, WriteNext
<1>3. Inv => WritesLand
  BY WritePowered
<1> QED BY <1>1, <1>2, <1>3, PTL DEF Spec
================================================================================
