------------------------------ MODULE LcmPlatform ------------------------------
(***************************************************************************)
(* Memory and power of the processors the ZynqMP examples manage:          *)
(* apps/examples/load_fw/zynqmp_rpu_lcm_rproc_example.c for the two        *)
(* real-time cores and zynqmp_apu_lcm_rproc_example.c for the application  *)
(* cores. Which power nodes a platform requests when it maps a range of    *)
(* device addresses, where the range is, and which nodes it releases when  *)
(* it drops a region. A bank of memory has Bank units; on-chip memory is   *)
(* the end of the address space, and addresses wrap around behind it.      *)
(***************************************************************************)
EXTENDS Naturals

CONSTANTS Bank,              \* size of a bank of TCM or of OCM
          Tcm0, Tcm1,        \* physical address of device address 0 of a core
          DdrEnd,            \* end of DDR memory, which starts at 0
          OcmBase            \* start of on-chip memory

ASSUME LcmAssumption ==
    /\ Bank \in Nat \ {0} /\ Tcm0 \in Nat /\ Tcm1 \in Nat
    /\ DdrEnd \in Nat /\ OcmBase \in Nat
    /\ 4 * Bank < DdrEnd /\ DdrEnd < Tcm0 /\ Tcm0 + 4 * Bank < Tcm1
    /\ Tcm1 + 4 * Bank < OcmBase

Platforms == {"RPU_0", "RPU_1", "APU"}
TcmNodes == {"TCM_0_A", "TCM_1_A", "TCM_0_B", "TCM_1_B"}
OcmNodes == {"OCM_BANK_0", "OCM_BANK_1", "OCM_BANK_2", "OCM_BANK_3"}
PowerNodes == TcmNodes \cup OcmNodes \cup {"DDR"}

\* metal_phys_addr_t, and METAL_BAD_PHYS, its largest value.
BAD_PHYS == OcmBase + 4 * Bank - 1
Addr == 0..BAD_PHYS
Wrap(a) == a % (BAD_PHYS + 1)

\* rpu_rproc_mmap: the nodes it requests for a range, and the physical address
\* it gives when it is asked with pa = METAL_BAD_PHYS.
rpu_requests(plat, da, end) ==
    {n \in TcmNodes :
        /\ da <= 4 * Bank
        /\ \/ /\ plat = "RPU_0"
              /\ \/ n = "TCM_0_A" /\ da < Bank
                 \/ n = "TCM_1_A" /\ da <= 2 * Bank /\ end >= Bank
                 \/ n = "TCM_0_B" /\ da <= 3 * Bank /\ end >= 2 * Bank
                 \/ n = "TCM_1_B" /\ end >= 3 * Bank
           \/ /\ plat = "RPU_1"
              /\ \/ n = "TCM_1_A" /\ da < Bank
                 \/ n = "TCM_1_B" /\ da <= 3 * Bank /\ end >= 2 * Bank}
rpu_pa(plat, da) == IF da > 4 * Bank THEN BAD_PHYS
                    ELSE IF plat = "RPU_0" THEN Tcm0 + da ELSE Tcm1 + da

\* rpu_rproc_shutdown for one region: it compares the physical address of the
\* region with bounds of device addresses.
rpu_releases(plat, pa, end) ==
    {n \in TcmNodes :
        /\ pa <= 4 * Bank
        /\ \/ /\ plat = "RPU_0"
              /\ \/ n = "TCM_0_A" /\ pa < Bank
                 \/ n = "TCM_1_A" /\ pa <= 2 * Bank /\ end >= Bank
                 \/ n = "TCM_0_B" /\ pa <= 3 * Bank /\ end >= 2 * Bank
                 \/ n = "TCM_1_B" /\ end >= 3 * Bank
           \/ /\ plat = "RPU_1"
              /\ \/ n = "TCM_1_A" /\ pa < Bank
                 \/ n = "TCM_1_B" /\ pa <= 3 * Bank /\ end >= 2 * Bank}

\* apu_rproc_mmap and apu_rproc_shutdown. The physical address stays the one
\* the caller passed.
apu_requests_Starts(da, end) ==
    {n \in OcmNodes \cup {"DDR"} :
        \/ n = "DDR" /\ end <= DdrEnd
        \/ n = "OCM_BANK_0" /\ da >= OcmBase /\ da < OcmBase + Bank
        \/ n = "OCM_BANK_1" /\ da < OcmBase + 2 * Bank /\ da >= OcmBase + Bank
        \/ n = "OCM_BANK_2" /\ da < OcmBase + 3 * Bank /\ da >= OcmBase + 2 * Bank
        \/ n = "OCM_BANK_3" /\ da >= OcmBase + 3 * Bank}
apu_requests(da, end) ==
    {n \in OcmNodes \cup {"DDR"} :
        \/ n = "DDR" /\ end <= DdrEnd
        \/ n = "OCM_BANK_0" /\ da >= OcmBase /\ da < OcmBase + Bank
        \/ n = "OCM_BANK_1" /\ da < OcmBase + 2 * Bank /\ end >= OcmBase + Bank
        \/ n = "OCM_BANK_2" /\ da < OcmBase + 3 * Bank /\ end >= OcmBase + 2 * Bank
        \/ n = "OCM_BANK_3" /\ end >= OcmBase + 3 * Bank}
apu_releases(pa, end) ==
    {n \in OcmNodes \cup {"DDR"} :
        \/ n = "DDR" /\ end < DdrEnd
        \/ n = "OCM_BANK_0" /\ pa >= OcmBase /\ pa < OcmBase + Bank
        \/ n = "OCM_BANK_1" /\ pa < OcmBase + 2 * Bank /\ end >= OcmBase + Bank
        \/ n = "OCM_BANK_2" /\ pa < OcmBase + 3 * Bank /\ end >= OcmBase + 2 * Bank
        \/ n = "OCM_BANK_3" /\ end >= OcmBase + 3 * Bank}

\* The operations of a platform on a range of device addresses and on a
\* region. metal_io_phys gives METAL_BAD_PHYS for the end of a region.
requests(plat, da, size) ==
    IF plat = "APU" THEN apu_requests(da, Wrap(da + size))
    ELSE rpu_requests(plat, da, Wrap(da + size))
mapped_pa(plat, da) == IF plat = "APU" THEN BAD_PHYS ELSE rpu_pa(plat, da)
releases(plat, pa) == IF plat = "APU" THEN apu_releases(pa, BAD_PHYS)
                      ELSE rpu_releases(plat, pa, BAD_PHYS)

\* The hardware: the node that powers a device address of a processor;
\* addresses of no bank have none.
Powers(plat, n, a) ==
    \/ plat = "RPU_0" /\ \/ n = "TCM_0_A" /\ a < Bank
                         \/ n = "TCM_1_A" /\ a >= Bank /\ a < 2 * Bank
                         \/ n = "TCM_0_B" /\ a >= 2 * Bank /\ a < 3 * Bank
                         \/ n = "TCM_1_B" /\ a >= 3 * Bank /\ a < 4 * Bank
    \/ plat = "RPU_1" /\ \/ n = "TCM_1_A" /\ a < Bank
                         \/ n = "TCM_1_B" /\ a >= 2 * Bank /\ a < 3 * Bank
    \/ plat = "APU" /\ \/ n = "DDR" /\ a < DdrEnd
                       \/ n = "OCM_BANK_0" /\ a >= OcmBase /\ a < OcmBase + Bank
                       \/ n = "OCM_BANK_1" /\ a >= OcmBase + Bank /\ a < OcmBase + 2 * Bank
                       \/ n = "OCM_BANK_2" /\ a >= OcmBase + 2 * Bank /\ a < OcmBase + 3 * Bank
                       \/ n = "OCM_BANK_3" /\ a >= OcmBase + 3 * Bank
================================================================================
