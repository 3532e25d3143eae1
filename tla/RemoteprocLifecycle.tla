-------------------------- MODULE RemoteprocLifecycle --------------------------
(***************************************************************************)
(* The life cycle of a remote processor (lib/remoteproc/remoteproc.c) on   *)
(* the platforms of LcmPlatform, used by two threads: an owner that runs   *)
(* the steps of apps/examples/load_fw (configure, load an image with the   *)
(* blocking or the non-blocking function, start, stop, shut down) again    *)
(* and again, also after failures, and a watchdog that stops or shuts the  *)
(* processor down at any time. The calls of RemoteprocOps hold             *)
(* rproc->lock and are one step each; remoteproc_load holds it for one     *)
(* step per segment. remoteproc_load_noblock returns between segments, and *)
(* its caller writes to target memory without the lock.                    *)
(*                                                                         *)
(* The parser is left out (ImageLoad has it): an image is the sequence of  *)
(* its segments. Allocations, the image store and the power manager may    *)
(* fail at any time.                                                       *)
(***************************************************************************)
EXTENDS LcmPlatform, RemoteprocOps, Sequences

CONSTANTS Images(_),  \* images for a platform: sequences of [da, size]
          Exclusive,  \* the watchdog waits while the owner streams an image
          None        \* no image

ASSUME LifecycleAssumption ==
    /\ Exclusive \in BOOLEAN
    /\ \A p \in Platforms : /\ None \notin Images(p)
                            /\ \A img \in Images(p) :
                                 /\ img \in Seq([da : Addr, size : Addr])
                                 /\ img # <<>>

VARIABLES plat,       \* which platform
          image,      \* the image the owner works with
          rstate,     \* rproc->state
          lock,       \* rproc->lock: free, held by a load, or destroyed
          mems,       \* rproc->mems
          nodes,      \* power nodes requested
          hw,         \* the image the processor runs, None while it is off
          written,    \* what target memory holds: segments and where they are
          pc, seg,    \* where the owner is, and the segment it is at
          at          \* the physical address a streamed segment goes to

target == <<nodes, hw, written>>
vars == <<plat, image, rstate, lock, mems, target, pc, seg, at>>

Region == [da : Addr, size : Addr, pa : Addr]
Pcs == {"config", "load", "segment", "stream", "write", "start", "run", "shutdown",
        "failed", "remove", "done"}

--------------------------------------------------------------------------------
(* Target memory.                                                          *)

\* remoteproc_get_mem by device address.
remoteproc_get_mem(da, size) ==
    {i \in DOMAIN mems : mems[i].da <= da /\ da + size <= mems[i].da + mems[i].size}
First(S) == CHOOSE i \in S : \A j \in S : i <= j
Known(s) == remoteproc_get_mem(s.da, s.size) # {}

\* remoteproc_mmap of a segment: the region that holds it or, when the two
\* allocations of the platform succeed (ok), a new one. Power nodes are
\* requested before.
MapPa(s) == IF Known(s)
            THEN LET m == mems[First(remoteproc_get_mem(s.da, s.size))]
                 IN Wrap(m.pa + s.da - m.da)
            ELSE mapped_pa(plat, s.da)
Map(s, ok) ==
    /\ ~ok => ~Known(s)
    /\ nodes' = IF Known(s) THEN nodes ELSE nodes \cup requests(plat, s.da, s.size)
    /\ mems' = IF Known(s) \/ ~ok THEN mems
               ELSE Append(mems, [da |-> s.da, size |-> s.size, pa |-> mapped_pa(plat, s.da)])

\* A segment that is written takes the place of the segments of other images.
Place(i, pa) == {w \in written : w[1] = image} \cup {<<image, i, pa>>}
Torn == {w \in written : w[1] = image}

--------------------------------------------------------------------------------
(* The owner.                                                              *)

\* remoteproc_config, whose result the owner ignores, and the image it is
\* going to load.
Configure ==
    /\ pc = "config" /\ lock = "free"
    /\ rstate' = remoteproc_config(rstate, Ok).state
    /\ image' \in Images(plat)
    /\ seg' = 1
    /\ pc' \in {"load", "stream"}
    /\ UNCHANGED <<plat, lock, mems, target, at>>

\* remoteproc_load: the state is checked and the image opened, under the lock.
LoadAllowed(st) == st \in {"READY", "CONFIGURED"}
LoadBegin ==
    /\ pc = "load" /\ lock = "free"
    /\ \/ pc' = "failed" /\ UNCHANGED lock
       \/ LoadAllowed(rstate) /\ pc' = "segment" /\ lock' = "held"
    /\ UNCHANGED <<plat, image, rstate, mems, target, seg, at>>

\* One turn of its loop: the segment is mapped and written. An error releases
\* the lock and leaves the state; after the last segment the state is READY.
LoadSegment ==
    /\ pc = "segment"
    /\ LET s == image[seg] IN
       \/ /\ Map(s, FALSE) \/ (Map(s, TRUE) /\ MapPa(s) = BAD_PHYS)
          /\ pc' = "failed" /\ lock' = "free"
          /\ UNCHANGED <<rstate, written, seg>>
       \/ /\ Map(s, TRUE) /\ MapPa(s) # BAD_PHYS
          /\ pc' = "failed" /\ lock' = "free" /\ written' = Torn
          /\ UNCHANGED <<rstate, seg>>
       \/ /\ Map(s, TRUE) /\ MapPa(s) # BAD_PHYS
          /\ written' = Place(seg, MapPa(s))
          /\ IF seg < Len(image)
             THEN seg' = seg + 1 /\ UNCHANGED <<pc, lock, rstate>>
             ELSE /\ pc' = "start" /\ lock' = "free" /\ rstate' = "READY"
                  /\ UNCHANGED seg
    /\ UNCHANGED <<plat, image, hw, at>>

\* remoteproc_load_noblock: it maps the next segment and returns where the
\* caller has to write it.
StreamAllowed_Powered(st) == st # "OFFLINE"
StreamAllowed(st) == st = "READY"
Stream ==
    /\ pc = "stream" /\ lock = "free"
    /\ \/ /\ ~StreamAllowed(rstate) /\ pc' = "failed"
          /\ UNCHANGED <<mems, nodes, at>>
       \/ /\ StreamAllowed(rstate) /\ seg > Len(image) /\ pc' = "start"
          /\ UNCHANGED <<mems, nodes, at>>
       \/ /\ StreamAllowed(rstate) /\ seg <= Len(image)
          /\ LET s == image[seg] IN
             \/ /\ Map(s, FALSE) \/ (Map(s, TRUE) /\ MapPa(s) = BAD_PHYS)
                /\ pc' = "failed" /\ UNCHANGED at
             \/ /\ Map(s, TRUE) /\ MapPa(s) # BAD_PHYS
                /\ pc' = "write" /\ at' = MapPa(s)
    /\ UNCHANGED <<plat, image, rstate, lock, hw, written, seg>>

\* The caller's write between two calls, without the lock.
Write ==
    /\ pc = "write"
    /\ \/ pc' = "failed" /\ written' = Torn /\ UNCHANGED seg
       \/ pc' = "stream" /\ written' = Place(seg, at) /\ seg' = seg + 1
    /\ UNCHANGED <<plat, image, rstate, lock, mems, nodes, hw, at>>

\* remoteproc_start and rpu_rproc_start or apu_rproc_start.
Start ==
    /\ pc = "start" /\ lock = "free"
    /\ \E r \in {Ok, Err} :
        LET s == remoteproc_start(rstate, r)
        IN /\ rstate' = s.state
           /\ hw' = IF "start" \in s.calls /\ r = Ok THEN image ELSE hw
           /\ pc' = IF s.ret = Ok THEN "run" ELSE "failed"
    /\ UNCHANGED <<plat, image, lock, mems, nodes, written, seg, at>>

--------------------------------------------------------------------------------
(* Stop, shutdown and remove.                                              *)

\* remoteproc_stop; the platforms have no way to stop a processor.
StopCall == /\ rstate' = remoteproc_stop(rstate, Ok).state
            /\ UNCHANGED <<mems, target>>

\* remoteproc_shutdown: the regions are dropped and their nodes released, then
\* the processor is powered down, which may fail. Memory may keep what it
\* holds.
ShutdownCall ==
    \E r \in {Ok, Err} :
        LET s == remoteproc_shutdown(rstate, Ok, r)
            shuts == "shutdown" \in s.calls
        IN /\ rstate' = s.state
           /\ mems' = IF shuts THEN <<>> ELSE mems
           /\ nodes' = IF shuts THEN nodes \ UNION {releases(plat, mems[i].pa) : i \in DOMAIN mems}
                       ELSE nodes
           /\ hw' = IF shuts /\ r = Ok THEN None ELSE hw
           /\ written' \in (IF shuts /\ r = Ok THEN {written, {}} ELSE {written})

Stop ==
    /\ pc = "run" /\ lock = "free"
    /\ StopCall
    /\ pc' = "shutdown"
    /\ UNCHANGED <<plat, image, lock, seg, at>>

\* After the processor ran, or after a failure; the result is ignored. The
\* owner starts again or is done.
Shutdown ==
    /\ pc \in {"shutdown", "failed"} /\ lock = "free"
    /\ ShutdownCall
    /\ pc' \in {"config", "remove"}
    /\ UNCHANGED <<plat, image, lock, seg, at>>

\* remoteproc_remove: the lock is destroyed, also when the call is refused.
Remove ==
    /\ pc = "remove" /\ lock = "free"
    /\ lock' = "dead" /\ pc' = "done"
    /\ UNCHANGED <<plat, image, rstate, mems, target, seg, at>>

\* The watchdog. With Exclusive it waits for the end of a streamed load.
MayInterfere_Unlocked == lock # "dead"
MayInterfere == lock = "free"
Watchdog ==
    /\ MayInterfere
    /\ Exclusive => pc \notin {"stream", "write"}
    /\ StopCall \/ ShutdownCall
    /\ UNCHANGED <<plat, image, lock, pc, seg, at>>

\* The program has ended.
Ended == pc = "done" /\ UNCHANGED vars

\* remoteproc_init and rpu_rproc_init or apu_rproc_init: READY, no regions.
Init ==
    /\ plat \in Platforms /\ image = None
    /\ rstate = "READY" /\ lock = "free" /\ mems = <<>>
    /\ nodes = {} /\ hw = None /\ written = {}
    /\ pc = "config" /\ seg = 1 /\ at = BAD_PHYS

Next == \/ Configure \/ LoadBegin \/ LoadSegment \/ Stream \/ Write \/ Start
        \/ Stop \/ Shutdown \/ Remove \/ Watchdog \/ Ended

Spec == Init /\ [][Next]_vars

--------------------------------------------------------------------------------
(* Correctness.                                                            *)

\* Every variable has its type.
TypeOK ==
    /\ plat \in Platforms /\ image \in Images(plat) \cup {None}
    /\ rstate \in RprocStates /\ lock \in {"free", "held", "dead"}
    /\ mems \in Seq(Region) /\ nodes \subseteq PowerNodes
    /\ hw \in Images(plat) \cup {None}
    /\ pc \in Pcs /\ seg \in Nat \ {0} /\ at \in Addr

\* Where the hardware has a device address.
Physical(a) == IF plat = "APU" \/ a >= 4 * Bank THEN a
               ELSE IF plat = "RPU_0" THEN Tcm0 + a ELSE Tcm1 + a
Placed(img) == {<<img, i, Physical(img[i].da)>> : i \in DOMAIN img}

\* A processor that is powered runs an image that is in its memory as a whole
\* and in the right place, whatever loads, starts, stops and shutdowns failed
\* and however the watchdog's calls fell between the owner's: no load writes
\* under a running processor, and none that failed is ever started.
RunsFullImage ==
    hw # None => rstate \in {"RUNNING", "STOPPED"} /\ Placed(hw) \subseteq written

\* An instance that is OFFLINE has its processor powered down and no region
\* of target memory left.
OfflineClean == rstate = "OFFLINE" => hw = None /\ mems = <<>>

\* Every address of a mapped region is powered: its bank's node has been
\* requested and not been released by the shutdown of another region.
BanksPowered ==
    \A i \in DOMAIN mems : \A a \in mems[i].da..(mems[i].da + mems[i].size - 1) :
        \A n \in PowerNodes : Powers(plat, n, a) => n \in nodes

\* The write a streaming caller makes without the lock goes to memory that is
\* still mapped and powered, of a processor that is off.
WritesLand ==
    pc = "write" => /\ hw = None /\ Known(image[seg])
                    /\ \A n \in PowerNodes : Powers(plat, n, image[seg].da) => n \in nodes

\* What the comment of struct remoteproc_ops says of mmap: it maps by physical
\* or by destination address. A region it gave has a physical address.
MapsByDeviceAddress == \A i \in DOMAIN mems : mems[i].pa # BAD_PHYS

\* What the comments of the platforms' shutdown say: with the last region its
\* power nodes are released.
NodesReleased == rstate = "OFFLINE" => nodes = {}

--------------------------------------------------------------------------------
(* What the theorems assume of the images.                                 *)

\* The platforms of the real-time cores place every segment where it should be:
\* none begins exactly behind the tightly coupled memory, or reaches beyond its
\* end.
SegmentsApart ==
    \A p \in {"RPU_0", "RPU_1"} : \A img \in Images(p) : \A i \in DOMAIN img :
        \/ img[i].da > 4 * Bank
        \/ img[i].da < 4 * Bank /\ img[i].da + img[i].size <= 4 * Bank

\* No segment is empty, reaches the last address, or lies across a border of
\* the application cores' memories.
SegmentsWithin ==
    \A p \in Platforms : \A img \in Images(p) : \A i \in DOMAIN img :
        LET end == img[i].da + img[i].size
        IN /\ img[i].size > 0 /\ end <= BAD_PHYS
           /\ p = "APU" => /\ img[i].da < DdrEnd => end <= DdrEnd
                           /\ end > OcmBase => img[i].da >= OcmBase
================================================================================
