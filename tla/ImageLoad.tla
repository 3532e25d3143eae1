------------------------------- MODULE ImageLoad -------------------------------
(***************************************************************************)
(* Loading an image and starting the processor: remoteproc_load and        *)
(* remoteproc_load_noblock (lib/remoteproc/remoteproc.c) over the parser   *)
(* of ElfLoader, driven by apps/examples/load_fw: once with the blocking   *)
(* and once with the non-blocking function, each time followed by start,   *)
(* stop and shutdown. The platform is apps/examples/load_fw/               *)
(* zynqmp_r5_lcm_rproc_example.c for core 0: device addresses below Tcm    *)
(* are banks of tightly coupled memory at another physical address, each a *)
(* power node that has to be requested; the others are mapped one to one.  *)
(*                                                                         *)
(* One step is one turn of a loop or one call of the platform. The image   *)
(* store, the allocator and the power manager fail at most MaxFaults       *)
(* times; with Short the store may also deliver less than was asked for.   *)
(***************************************************************************)
EXTENDS ElfLoader, RemoteprocOps

CONSTANTS Images,     \* the files there are
          OpenLen(_), \* lengths store_ops->open may return for a file
          MaxFaults,  \* bound on the failures of the environment
          Short,      \* the store may deliver less than it was asked for
          Bank,       \* size of a TCM bank
          TcmBase,    \* physical address of device address 0
          Top,        \* device addresses are below Top
          Untouched   \* a unit of memory nothing was written to

ASSUME ImageAssumption ==
    /\ MaxFaults \in Nat /\ Bank \in Nat \ {0} /\ TcmBase \in Nat /\ Top \in Nat
    /\ TcmBase >= Top /\ Top > 4 * Bank /\ Short \in BOOLEAN
    /\ \A img \in Images : img \in ElfImage /\ OpenLen(img) \subseteq 1..img.size

VARIABLES image, seek,   \* the file, and whether the store has SUPPORT_SEEK
          pc, mode,      \* where the program is, and which function it uses
          rproc,         \* the remoteproc instance
          hw,            \* the processor: off, or started by which function
          nodes,         \* power nodes requested
          tmem,          \* target memory, by physical address
          store,         \* the image store is open
          info, last,    \* limg_info and last_load_state
          chunk, next,   \* the data at hand, and what is to be read next
          rsc, table,    \* the section found, and the local copy of the table
          lost,          \* allocations no pointer is left to
          ret, faults,   \* value returned, and failures so far
          budget         \* failures there may be in this behaviour

input == <<image, seek, budget>>
parse == <<info, last, chunk, next, rsc, table>>
target == <<hw, nodes, tmem>>
vars == <<input, pc, mode, rproc, target, store, parse, lost, ret, faults>>

Mem == [da : Nat, pa : Nat, size : Nat]
Request == [da : Nat \cup {ANY}, noffset : Nat, nlen : Nat, nmemsize : Nat]
Nothing == [da |-> ANY, noffset |-> 0, nlen |-> 0, nmemsize |-> 0]
NoSection == [da |-> 0, offset |-> 0, size |-> 0]

\* What a unit of the file, of padding and of the table with the assigned ids
\* looks like in memory.
FileUnit(o) == o + 1
Padding == 0
TableUnit(o) == image.size + FileUnit(o)

--------------------------------------------------------------------------------
(* The environment: what may fail.                                         *)

Outcome(f) == /\ f # "none" => faults < budget
              /\ faults' = IF f = "none" THEN faults ELSE faults + 1
NoFault == faults' = faults

Allocations == {"none", "info", "phdrs", "shdrs", "shstrtab"}

\* What store_ops->load may return for n units: a failure f is an error code
\* or, with Short, any smaller number.
Delivered(n, f) == IF f = "none" THEN {n}
                   ELSE {-1} \cup (IF Short THEN 0..(n - 1) ELSE {})

--------------------------------------------------------------------------------
(* Memory of the remote processor.                                         *)

PowerNodes == {"TCM_0_A", "TCM_1_A", "TCM_0_B", "TCM_1_B"}

\* remoteproc_get_mem by device address: the first region of the list that
\* holds it, and remoteproc_datopa on that region.
remoteproc_get_mem(da, size) ==
    {i \in DOMAIN rproc.mems : /\ rproc.mems[i].da <= da
                               /\ da + size <= rproc.mems[i].da + rproc.mems[i].size}
remoteproc_datopa(mem, da) == mem.pa + da - mem.da

\* r5_rproc_mmap for core 0: the nodes it requests and the region it adds. The
\* banks are requested with both ends of the range included.
RequestedNodes_First(da, size) ==
    {n \in PowerNodes : \/ n = "TCM_0_A" /\ da < Bank
                        \/ n = "TCM_1_A" /\ da >= Bank /\ da <= 2 * Bank
                        \/ n = "TCM_0_B" /\ da >= 2 * Bank /\ da <= 3 * Bank
                        \/ n = "TCM_1_B" /\ da >= 3 * Bank /\ da <= 4 * Bank}
RequestedNodes(da, size) ==
    IF da > 4 * Bank THEN {}
    ELSE {n \in PowerNodes :
            \/ n = "TCM_0_A" /\ da < Bank
            \/ n = "TCM_1_A" /\ da <= 2 * Bank /\ da + size >= Bank
            \/ n = "TCM_0_B" /\ da <= 3 * Bank /\ da + size >= 2 * Bank
            \/ n = "TCM_1_B" /\ da <= 4 * Bank /\ da + size >= 3 * Bank}
r5_rproc_mmap(da, size) == [da |-> da, size |-> size,
                            pa |-> IF da <= 4 * Bank THEN TcmBase + da ELSE da]

\* remoteproc_mmap: the physical address, from a known region or from the
\* platform; METAL_BAD_PHYS when the platform has no memory for a region (f).
Known(da, size) == remoteproc_get_mem(da, size) # {}
MapPa(da, size, f) ==
    IF Known(da, size)
    THEN remoteproc_datopa(rproc.mems[Min(remoteproc_get_mem(da, size))], da)
    ELSE IF f = "map" THEN ANY ELSE r5_rproc_mmap(da, size).pa
MapMems(da, size, f) ==
    IF Known(da, size) \/ f = "map" THEN rproc.mems
    ELSE Append(rproc.mems, r5_rproc_mmap(da, size))
MapNodes(da, size) == IF Known(da, size) THEN nodes ELSE nodes \cup RequestedNodes(da, size)

\* Target memory with n units of the file from off at pa, and then padding up
\* to size units.
Written_NoPadding(m, pa, off, n, size) ==
    [p \in DOMAIN m |-> IF p \in pa..(pa + n - 1) THEN FileUnit(off + (p - pa)) ELSE m[p]]
Written(m, pa, off, n, size) ==
    [p \in DOMAIN m |-> IF p \in pa..(pa + n - 1) THEN FileUnit(off + (p - pa))
                        ELSE IF p \in (pa + n)..(pa + size - 1) THEN Padding
                        ELSE m[p]]
\* Target memory with the updated table, section s, at pa.
TableAt(m, pa, s) ==
    [p \in DOMAIN m |-> IF p \in pa..(pa + s.size - 1)
                        THEN TableUnit(s.offset + (p - pa)) ELSE m[p]]

--------------------------------------------------------------------------------
(* remoteproc_load.                                                        *)

\* Its error exits: the copy of the table is freed (error3), limg_info is
\* released (error2), the store is closed (error1). Freeing an error pointer
\* is undefined: the program is taken to crash.
FailLoad_LeavesOpen(r) == /\ pc' = IF table = "errptr" THEN "crash" ELSE "load_ret"
                          /\ table' = "none" /\ info' = NoInfo /\ ret' = r
                          /\ UNCHANGED store
FailLoad(r) == /\ pc' = IF table = "errptr" THEN "crash" ELSE "load_ret"
               /\ table' = "none" /\ info' = NoInfo /\ store' = FALSE /\ ret' = r

\* The state is checked, the image opened and its format recognised. The
\* loader stays selected for later images.
OpenImage ==
    /\ pc = "load"
    /\ info' = NoInfo /\ last' = InitState /\ next' = Nothing
    /\ rsc' = NoSection /\ table' = "none"
    /\ \/ /\ rproc.state \notin {"READY", "CONFIGURED"}
          /\ pc' = "load_ret" /\ ret' = -1 /\ NoFault /\ UNCHANGED <<rproc, store, chunk>>
       \/ /\ rproc.state \in {"READY", "CONFIGURED"}
          /\ Outcome("open")
          /\ pc' = "load_ret" /\ ret' = -1 /\ UNCHANGED <<rproc, store, chunk>>
       \/ /\ rproc.state \in {"READY", "CONFIGURED"}
          /\ NoFault
          /\ \E len \in OpenLen(image) :
                /\ chunk' = [at |-> 0, offset |-> 0, len |-> len]
                /\ IF rproc.loader \/ elf_identify(image, len)
                   THEN /\ rproc' = [rproc EXCEPT !.loader = TRUE]
                        /\ pc' = "header" /\ store' = TRUE /\ UNCHANGED ret
                   ELSE pc' = "load_ret" /\ ret' = -1 /\ UNCHANGED <<rproc, store>>
    /\ UNCHANGED <<input, mode, target, lost>>

\* One turn of the loop over the headers. A store without seek ends it when
\* the next header lies behind the data at hand.
LoadHeader ==
    /\ pc = "header"
    /\ \E f \in Allocations \cup {"load"} :
        /\ Outcome(f)
        /\ LET h == elf_load_header(image, info, last, chunk, next, f)
               ready == h.ret # Failed /\ h.ret.ldr = "ready_to_load"
               stop == ready /\ \/ h.nlen = 0
                                \/ h.noffset > chunk.offset + chunk.len /\ ~seek
               got == Delivered(h.nlen, IF f = "load" THEN f ELSE "none")
           IN /\ f = "load" => h.ret # Failed /\ ~stop
              /\ f \in Allocations \ {"none"} => h.ret = Failed
              /\ last' = h.ret
              /\ next' = [next EXCEPT !.noffset = h.noffset, !.nlen = h.nlen]
              /\ \/ h.ret = Failed /\ FailLoad(-1) /\ UNCHANGED chunk
                 \/ /\ stop
                    /\ pc' = "locate" /\ info' = h.info
                    /\ UNCHANGED <<chunk, table, store, ret>>
                 \/ /\ h.ret # Failed /\ ~stop
                    /\ \E r \in got :
                        \/ r < h.nlen /\ FailLoad(r) /\ UNCHANGED chunk
                        \/ /\ r = h.nlen
                           /\ chunk' = [at |-> h.noffset, offset |-> h.noffset, len |-> h.nlen]
                           /\ info' = h.info /\ UNCHANGED <<pc, table, store, ret>>
    /\ UNCHANGED <<input, mode, rproc, target, rsc, lost>>

\* elf_locate_rsc_table and remoteproc_get_rsc_table: a copy of the table is
\* read and its entries handled. On a failure the pointer to the copy is
\* overwritten by an error code, which the function frees and the caller takes for
\* a table. What freeing it does is undefined: here the load survives it and
\* crashes when the pointer is read or freed once more (FailLoad, FinishLoad).
GetTable(f) ==
    LET loc == elf_locate_rsc_table(image, info, rsc)
    IN IF loc.ok /\ loc.rsc.size > 0
       THEN /\ rsc' = loc.rsc
            /\ table' = IF f = "none" THEN "live" ELSE "errptr"
            /\ lost' = IF f \in {"load", "parse"} THEN lost \cup {"table"} ELSE lost
       ELSE f = "none" /\ rsc' = loc.rsc /\ UNCHANGED <<table, lost>>

LocateTable ==
    /\ pc = "locate"
    /\ \E f \in {"none", "nomem", "load", "parse"} : Outcome(f) /\ GetTable(f)
    /\ pc' = "data"
    /\ chunk' = [chunk EXCEPT !.offset = 0, !.len = 0]
    /\ UNCHANGED <<input, mode, rproc, target, store, info, last, next, ret>>

\* One turn of the loop over the data: a segment goes to target memory, or
\* one more header is read, or the image is done.
LoadData ==
    /\ pc = "data"
    /\ \E f \in Allocations \cup {"map", "load"} :
        LET d == elf_load(image, info, last, chunk, Nothing, f)
            pa == MapPa(d.da, d.nmemsize, f)
        IN /\ Outcome(f)
           /\ last' = d.ret
           /\ next' = [da |-> d.da, noffset |-> d.noffset, nlen |-> d.nlen,
                       nmemsize |-> d.nmemsize]
           /\ \/ /\ d.ret = Failed
                 /\ FailLoad(-1) /\ UNCHANGED <<rproc, nodes, tmem, chunk>>
              \/ /\ d.ret # Failed /\ d.da # ANY
                 /\ nodes' = MapNodes(d.da, d.nmemsize)
                 /\ rproc' = [rproc EXCEPT !.mems = MapMems(d.da, d.nmemsize, f)]
                 /\ UNCHANGED chunk
                 /\ \/ /\ pa = ANY
                       /\ FailLoad(-1) /\ UNCHANGED tmem
                    \/ /\ pa # ANY /\ f = "load" /\ d.nlen > 0
                       /\ FailLoad(-1)
                       /\ \E r \in Delivered(d.nlen, f) :
                            tmem' = Written(tmem, pa, d.noffset, Max({r, 0}), Max({r, 0}))
                    \/ /\ pa # ANY /\ f # "load"
                       /\ \E at \in {pa}, s \in {d} :
                            tmem' = Written(tmem, at, s.noffset, s.nlen, s.nmemsize)
                       /\ info' = d.info /\ UNCHANGED <<pc, table, store, ret>>
              \/ /\ d.ret # Failed /\ d.da = ANY /\ d.nlen # 0
                 /\ UNCHANGED <<rproc, nodes, tmem>>
                 /\ \E r \in Delivered(d.nlen, IF f = "load" THEN f ELSE "none") :
                     \/ /\ r < d.nlen
                        /\ IF d.ret.ldr = "post_data_load"
                           THEN pc' = "finish" /\ info' = d.info /\ UNCHANGED <<table, store, ret>>
                           ELSE FailLoad(r)
                        /\ UNCHANGED chunk
                     \/ /\ r = d.nlen
                        /\ chunk' = [at |-> d.noffset, offset |-> d.noffset, len |-> d.nlen]
                        /\ info' = d.info /\ UNCHANGED <<pc, table, store, ret>>
              \/ /\ d.ret # Failed /\ d.da = ANY /\ d.nlen = 0
                 /\ pc' = "finish" /\ info' = d.info
                 /\ UNCHANGED <<rproc, nodes, tmem, chunk, table, store, ret>>
           /\ f \in Allocations \ {"none"} => d.ret = Failed
           /\ f = "map" => d.ret # Failed /\ d.da # ANY /\ ~Known(d.da, d.nmemsize)
           /\ f = "load" => d.ret # Failed /\ d.nlen > 0
    /\ UNCHANGED <<input, mode, hw, rsc, lost>>

\* The table, if it was not found before.
LocateLate ==
    /\ pc = "finish"
    /\ IF rsc.size = 0
       THEN \E f \in {"none", "nomem", "load", "parse"} : Outcome(f) /\ GetTable(f)
       ELSE NoFault /\ UNCHANGED <<rsc, table, lost>>
    /\ pc' = "update"
    /\ UNCHANGED <<input, mode, rproc, target, store, info, last, chunk, next, ret>>

\* The table with its ids goes to target memory, the entry point is kept, and
\* everything is released. An error pointer is read as if it were a table, or
\* at least freed: a crash.
FinishLoad ==
    /\ pc = "update"
    /\ \E f \in {"none", "map"} :
        LET pa == MapPa(rsc.da, rsc.size, f)
            mapped == table # "none" /\ pa # ANY
        IN /\ f = "map" => table # "none" /\ ~Known(rsc.da, rsc.size)
           /\ Outcome(f)
           /\ nodes' = IF table # "none" THEN MapNodes(rsc.da, rsc.size) ELSE nodes
           /\ \E at \in {pa} :
                tmem' = IF mapped /\ table = "live" THEN TableAt(tmem, at, rsc) ELSE tmem
           /\ rproc' = [rproc EXCEPT
                !.mems = IF table # "none" THEN MapMems(rsc.da, rsc.size, f) ELSE @,
                !.rsc_table = IF mapped THEN table ELSE @,
                !.bootaddr = elf_get_entry(image, info), !.state = "READY"]
    /\ pc' = IF table = "errptr" THEN "crash" ELSE "load_ret"
    /\ table' = "none" /\ info' = NoInfo /\ store' = FALSE /\ ret' = 0
    /\ UNCHANGED <<input, mode, hw, last, chunk, next, rsc, lost>>

--------------------------------------------------------------------------------
(* remoteproc_load_noblock and its caller in load_fw.                      *)

\* load_exectuable_noblock opens the image itself and starts from nothing.
NoblockOpen ==
    /\ pc = "nb_open"
    /\ info' = NoInfo /\ next' = Nothing
    /\ \/ Outcome("open") /\ pc' = "cleanup" /\ UNCHANGED <<store, chunk>>
       \/ /\ NoFault
          /\ \E len \in OpenLen(image) : chunk' = [at |-> 0, offset |-> 0, len |-> len]
          /\ pc' = "nb_call" /\ store' = TRUE
    /\ UNCHANGED <<input, mode, rproc, target, last, rsc, table, lost, ret>>

\* A call that returns r and has released limg_info. The caller looks at r and
\* then at nlen, which is 0: with r = 0 it takes the image for loaded.
NoblockFail(r) == /\ info' = NoInfo /\ ret' = r
                  /\ pc' = IF r = Ok THEN "start" ELSE "cleanup"

\* The end of the image: the resource table is copied from target memory,
\* handled and written back, and the entry point is kept.
NoblockTable(i, f) ==
    LET loc == elf_locate_rsc_table(image, i, rsc)
        some == loc.ok /\ loc.rsc.size > 0
        pa == MapPa(loc.rsc.da, loc.rsc.size, f)
    IN /\ f # "none" => some
       /\ f = "map" => ~Known(loc.rsc.da, loc.rsc.size)
       /\ rsc' = loc.rsc
       /\ nodes' = IF some /\ f # "nomem" THEN MapNodes(loc.rsc.da, loc.rsc.size) ELSE nodes
       /\ IF f = "none"
          THEN /\ rproc' = [rproc EXCEPT
                    !.mems = IF some THEN MapMems(loc.rsc.da, loc.rsc.size, f) ELSE @,
                    !.rsc_table = IF some THEN "live" ELSE @,
                    !.bootaddr = elf_get_entry(image, i)]
               /\ \E at \in {pa}, s \in {loc.rsc} :
                    tmem' = IF some THEN TableAt(tmem, at, s) ELSE tmem
               /\ info' = i /\ ret' = Ok /\ pc' = "start"
          ELSE /\ rproc' = [rproc EXCEPT !.mems = IF f = "parse"
                                THEN MapMems(loc.rsc.da, loc.rsc.size, f) ELSE @]
               /\ NoblockFail(IF f = "map" THEN Ok ELSE Err)
               /\ UNCHANGED tmem

\* The first part of a call: the headers that are missing, unless segments
\* can be loaded already.
NoblockHeaders(f) ==
    LET st == IF info = NoInfo THEN InitState ELSE info.state
        out == [next EXCEPT !.da = ANY, !.nlen = 0, !.nmemsize = 0]
    IN IF st.ldr \in {"ready_to_load", "load_complete"}
       THEN [ret |-> st, info |-> info, noffset |-> out.noffset, nlen |-> 0]
       ELSE elf_load_header(image, info, st, chunk, out, f)

\* The second part: the next segment, when the headers are there.
NoblockSegment(f) ==
    LET h == NoblockHeaders(f)
        data == /\ h.ret # Failed
                /\ h.nlen = 0 \/ h.ret.ldr = "ready_to_load"
                /\ h.ret.ldr \in {"ready_to_load", "post_data_load"}
        out == [da |-> ANY, noffset |-> h.noffset, nlen |-> h.nlen, nmemsize |-> 0]
    IN IF data THEN elf_load(image, h.info, h.ret, chunk, out, f)
       ELSE [ret |-> h.ret, info |-> h.info, da |-> ANY, noffset |-> h.noffset,
             nlen |-> h.nlen, nmemsize |-> 0]

\* One call: both parts, then the table. It returns what the caller has to
\* read next, and with nlen = 0 that there is nothing to read.
NoblockCall ==
    /\ pc = "nb_call"
    /\ \E f \in Allocations \cup {"map", "nomem", "parse"} :
        LET d == NoblockSegment(f)
            mapping == d.ret # Failed /\ d.da # ANY
            complete == d.ret # Failed /\ d.nlen = 0 /\ d.ret.ldr = "load_complete"
        IN /\ rproc.state = "READY"
           /\ Outcome(f)
           /\ f \in Allocations \ {"none"} => d.ret = Failed
           /\ f \in {"nomem", "parse"} => complete
           /\ f = "map" => (mapping /\ ~Known(d.da, d.nmemsize)) \/ complete
           /\ next' = [da |-> d.da, noffset |-> d.noffset, nlen |-> d.nlen,
                       nmemsize |-> d.nmemsize]
           /\ \/ complete /\ NoblockTable(d.info, f)
              \/ /\ ~complete
                 /\ nodes' = IF mapping THEN MapNodes(d.da, d.nmemsize) ELSE nodes
                 /\ rproc' = [rproc EXCEPT !.mems =
                                IF mapping THEN MapMems(d.da, d.nmemsize, f) ELSE @]
                 /\ UNCHANGED <<rsc, tmem>>
                 /\ IF d.ret = Failed \/ f = "map" THEN NoblockFail(Err)
                    ELSE /\ info' = d.info /\ ret' = Ok
                         /\ pc' = IF d.nlen = 0 THEN "start" ELSE "nb_store"
    /\ UNCHANGED <<input, mode, hw, store, last, chunk, table, lost>>

\* A call in any state but READY.
NoblockRefused ==
    /\ pc = "nb_call" /\ rproc.state # "READY"
    /\ pc' = "cleanup" /\ ret' = Err
    /\ UNCHANGED <<input, mode, rproc, target, store, parse, lost, faults>>

\* The caller reads what was asked for, to local memory or, with an address,
\* to target memory, where it adds the padding. In the second case img_data
\* still points to what was read before.
NoblockStore ==
    /\ pc = "nb_store"
    /\ \E f \in {"none", "load"} :
        /\ Outcome(f)
        /\ \E r \in Delivered(next.nlen, f) :
            LET n == Max({r, 0})
            IN /\ \/ next.da = ANY /\ UNCHANGED tmem
                  \/ /\ next.da # ANY
                     /\ \E pa \in {MapPa(next.da, next.nmemsize, "none")} :
                          tmem' = Written(tmem, pa, next.noffset, n,
                                          IF r = next.nlen THEN next.nmemsize ELSE n)
               /\ chunk' = [at |-> IF next.da = ANY THEN next.noffset ELSE chunk.at,
                            offset |-> next.noffset, len |-> next.nlen]
               /\ ret' = r
               /\ pc' = IF r = next.nlen THEN "nb_call"
                        ELSE IF r < 0 THEN "cleanup" ELSE "remove"
    /\ UNCHANGED <<input, mode, rproc, hw, nodes, store, info, last, next, rsc, table, lost>>

--------------------------------------------------------------------------------
(* The program load_fw and the platform operations it uses.                *)

Configure ==
    /\ pc = "config"
    /\ rproc' = [rproc EXCEPT !.state = remoteproc_config(@, Ok).state]
    /\ pc' = IF mode = "block" THEN "load" ELSE "nb_open"
    /\ UNCHANGED <<input, mode, target, store, parse, lost, ret, faults>>

\* load_exectuable_block after remoteproc_load: main treats a negative value
\* as a failure, and goes on after a positive one.
LoadReturned ==
    /\ pc = "load_ret"
    /\ pc' = IF ret = 0 THEN "start" ELSE IF ret < 0 THEN "cleanup" ELSE "config"
    /\ mode' = IF ret > 0 THEN "noblock" ELSE mode
    /\ UNCHANGED <<input, rproc, target, store, parse, lost, ret, faults>>

\* remoteproc_start and r5_rproc_start: the processor wakes up at bootaddr.
Start ==
    /\ pc = "start"
    /\ \E f \in {"none", "start"} :
        LET s == remoteproc_start(rproc.state, IF f = "none" THEN Ok ELSE Err)
        IN /\ f = "start" => "start" \in s.calls
           /\ Outcome(f)
           /\ rproc' = [rproc EXCEPT !.state = s.state]
           /\ hw' = IF "start" \in s.calls /\ s.ret = Ok THEN mode ELSE hw
           /\ pc' = IF s.ret = Ok THEN "stop" ELSE "cleanup"
    /\ UNCHANGED <<input, mode, nodes, tmem, store, parse, lost, ret>>

\* remoteproc_stop; r5_rproc_stop does nothing.
Stop ==
    /\ pc = "stop"
    /\ rproc' = [rproc EXCEPT !.state = remoteproc_stop(@, Ok).state]
    /\ pc' = "shutdown"
    /\ UNCHANGED <<input, mode, target, store, parse, lost, ret, faults>>

\* remoteproc_shutdown and r5_rproc_shutdown: the regions are freed, the power
\* nodes are requested once more, and the processor and its memory lose power.
Shutdown ==
    /\ pc \in {"shutdown", "cleanup"}
    /\ \E f \in {"none", "shutdown"} :
        LET s == remoteproc_shutdown(rproc.state, Ok, IF f = "none" THEN Ok ELSE Err)
            shuts == "shutdown" \in s.calls
        IN /\ f = "shutdown" => shuts
           /\ Outcome(f)
           /\ rproc' = [rproc EXCEPT !.state = s.state, !.mems = IF shuts THEN <<>> ELSE @]
           /\ hw' = IF shuts /\ s.ret = Ok THEN "off" ELSE hw
           /\ tmem' = IF shuts /\ s.ret = Ok THEN [p \in DOMAIN tmem |-> Untouched] ELSE tmem
    /\ pc' = IF pc = "cleanup" THEN "exit" ELSE IF mode = "block" THEN "config" ELSE "remove"
    /\ mode' = "noblock"
    /\ UNCHANGED <<input, nodes, store, parse, lost, ret>>

\* remoteproc_remove, which refuses unless the processor is OFFLINE.
Remove ==
    /\ pc = "remove"
    /\ ret' = remoteproc_remove(rproc.state).ret
    /\ pc' = "exit"
    /\ UNCHANGED <<input, mode, rproc, target, store, parse, lost, faults>>

\* The program has ended.
Ended == pc \in {"exit", "crash"} /\ UNCHANGED vars

\* r5_rproc_init leaves the instance READY, without memory regions.
Init ==
    /\ image \in Images /\ seek \in BOOLEAN
    /\ pc = "config" /\ mode = "block"
    /\ rproc = [state |-> "READY", loader |-> FALSE, mems |-> <<>>,
                bootaddr |-> ANY, rsc_table |-> "none"]
    /\ hw = "off" /\ nodes = {}
    /\ tmem = [p \in (0..(Top - 1)) \cup (TcmBase..(TcmBase + 4 * Bank + Top)) |-> Untouched]
    /\ store = FALSE /\ info = NoInfo /\ last = InitState
    /\ chunk = [at |-> 0, offset |-> 0, len |-> 0] /\ next = Nothing
    /\ rsc = NoSection /\ table = "none" /\ lost = {} /\ ret = 0
    /\ faults = 0 /\ budget \in 0..MaxFaults

Step == \/ Configure \/ OpenImage \/ LoadHeader \/ LocateTable \/ LoadData \/ LocateLate
        \/ FinishLoad \/ LoadReturned \/ NoblockOpen \/ NoblockCall \/ NoblockRefused
        \/ NoblockStore \/ Start \/ Stop \/ Shutdown \/ Remove

Next == Step \/ Ended

\* The program is sequential, and every operation of the store and of the
\* platform returns. No loop may count on a failure to end it: whatever failed
\* so far, there is a behaviour whose budget is used up.
Spec == Init /\ [][Next]_vars /\ WF_vars(Step)

--------------------------------------------------------------------------------
(* Correctness.                                                            *)

Pcs == {"config", "load", "header", "locate", "data", "finish", "update", "load_ret",
        "nb_open", "nb_call", "nb_store", "start", "stop", "shutdown", "cleanup",
        "remove", "exit", "crash"}

\* Every variable has its type.
TypeOK ==
    /\ image \in Images /\ seek \in BOOLEAN
    /\ pc \in Pcs /\ mode \in {"block", "noblock"}
    /\ rproc.state \in RprocStates /\ rproc.loader \in BOOLEAN
    /\ \A i \in DOMAIN rproc.mems : rproc.mems[i] \in Mem
    /\ rproc.rsc_table \in {"none", "live", "errptr"}
    /\ hw \in {"off", "block", "noblock"} /\ nodes \subseteq PowerNodes
    /\ store \in BOOLEAN /\ (info = NoInfo \/ info \in ElfInfo)
    /\ (last = Failed \/ last \in LoadState) /\ chunk \in Chunk /\ next \in Request
    /\ table \in {"none", "live", "errptr"} /\ lost \subseteq {"table"}
    /\ ret \in Int /\ faults \in 0..budget /\ budget \in 0..MaxFaults

\* What must be in memory for the image: each PT_LOAD segment, padded with
\* zeros to its size in memory, apart from a resource table that may have
\* been updated in place; and the processor starts at the entry point.
InTable(o) == /\ image.rsc.size > 0
              /\ o \in image.rsc.offset..(image.rsc.offset + image.rsc.size - 1)
SegmentInPlace(s) ==
    \A k \in 0..(s.memsz - 1) :
        LET unit == tmem[r5_rproc_mmap(s.da, s.memsz).pa + k]
        IN IF k < s.filesz
           THEN \/ unit = FileUnit(s.offset + k)
                \/ InTable(s.offset + k) /\ unit = TableUnit(s.offset + k)
           ELSE unit = Padding
Complete == /\ \A i \in DOMAIN image.segs : image.segs[i].load => SegmentInPlace(image.segs[i])
            /\ rproc.bootaddr = image.entry

\* An image the non-blocking path can load: its caller takes nlen = 0 for the
\* end, so no segment may be without bytes in the file, and no other header
\* may stand behind the last PT_LOAD.
Streamable ==
    /\ \A i \in DOMAIN image.segs : image.segs[i].load => image.segs[i].filesz > 0
    /\ image.segs[Len(image.segs)].load

\* An image that fits: something is to be loaded, what a segment has in the
\* file goes into its memory, and segments and table end below Top.
Loads(img) == \E i \in DOMAIN img.segs : img.segs[i].load
ImagesFit ==
    \A img \in Images :
      /\ Loads(img) /\ img.rsc.da + img.rsc.size <= Top
      /\ \A i \in DOMAIN img.segs : img.segs[i].load =>
           /\ img.segs[i].filesz <= img.segs[i].memsz
           /\ img.segs[i].da + img.segs[i].memsz <= Top

\* An image whose section headers and names are no part of a segment.
SectionsApart ==
    \A img \in Images :
      /\ Loads(img) /\ img.str.offset > 0
      /\ \A i \in DOMAIN img.segs : img.segs[i].load =>
           LET data == [offset |-> img.segs[i].offset, len |-> img.segs[i].filesz]
           IN  /\ img.shnum # 0 => ~Holds(data, img.shoff, img.shnum)
               /\ ~Holds(data, img.str.offset, img.str.size)

\* An image each part of which has a place of its own: the load state counts its
\* headers, neither a segment nor the table reaches across the end of the
\* tightly coupled memory, segments do not overlap, and the table lies outside
\* of a segment or where the segment has it.
WithinTcm(da, size) == da > 4 * Bank \/ da + size <= 4 * Bank
Overlap(s, t) == s.da < t.da + t.memsz /\ t.da < s.da + s.memsz
TableInside(img, s) ==
    \A k \in 0..(s.memsz - 1) :
        s.da + k \in img.rsc.da..(img.rsc.da + img.rsc.size - 1) =>
            k < s.filesz /\ s.offset + k = img.rsc.offset + (s.da + k - img.rsc.da)
ImagesRegular ==
    \A img \in Images :
      /\ Len(img.segs) <= NextSegmentMask /\ img.str.size > 0
      /\ WithinTcm(img.rsc.da, img.rsc.size)
      /\ \A i \in DOMAIN img.segs : img.segs[i].load =>
           /\ WithinTcm(img.segs[i].da, img.segs[i].memsz) /\ TableInside(img, img.segs[i])
           /\ \A j \in DOMAIN img.segs : img.segs[j].load /\ j # i =>
                ~Overlap(img.segs[i], img.segs[j])

\* A processor that was started runs the complete image, whatever failed
\* before: no error path of remoteproc_load ends in the start of a half-loaded
\* processor, and neither does the non-blocking path as long as nothing
\* failed and the image is one it can load.
StartedComplete ==
    pc = "stop" =>
        \/ hw = "noblock" /\ (faults > 0 \/ ~Streamable)
        \/ hw # "off" /\ Complete

\* Nothing is ever written to a bank of tightly coupled memory whose power
\* node has not been requested, wherever a segment starts and ends.
BankOf(pa) ==
    IF pa < TcmBase + Bank THEN "TCM_0_A"
    ELSE IF pa < TcmBase + 2 * Bank THEN "TCM_1_A"
    ELSE IF pa < TcmBase + 3 * Bank THEN "TCM_0_B" ELSE "TCM_1_B"
WrittenPowered ==
    \A pa \in TcmBase..(TcmBase + 4 * Bank - 1) :
        tmem[pa] # Untouched => BankOf(pa) \in nodes

\* Once remoteproc_load has returned, on whichever path, the image store is
\* closed, the image information is released and the copy of the table freed;
\* the tables of headers it parsed were copied from the right bytes.
LoadReleases ==
    /\ pc = "load_ret" => ~store /\ info = NoInfo /\ table = "none"
    /\ info # NoInfo => "bad" \notin {info.phdrs, info.shdrs, info.shstrtab}

\* The loops over headers and segments end: remoteproc_load and the loop
\* around remoteproc_load_noblock return, and the program ends.
LoadEnds == <>(pc \in {"exit", "crash"})

\* What the comment of remoteproc_load_noblock promises without exception:
\* when it returns 0 and asks for nothing more, the image is loaded.
NoblockComplete == pc = "stop" /\ hw = "noblock" => Complete
================================================================================
