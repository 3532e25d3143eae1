--------------------------- MODULE PlatformBootProofs ---------------------------
(***************************************************************************)
(* Theorems about PlatformBoot: the programs of every board use only the   *)
(* devices they have open, wherever their start-up fails, except where a   *)
(* pointer that an earlier run left in main's variable is used.            *)
(***************************************************************************)
EXTENDS PlatformBoot, TLAPS

BootLabels ==
    {"open_shm", "open_kick", "enable", "map_table", "copy", "map_shm", "set", "alloc", "up",
     "dispatch", "lost", "remove", "remove_last", "remove_init", "remove_again", "close",
     "close_last", "close_init", "close_again", "no_platform", "removed", "failed", "ended"}

\* The devices the program of core c opens are all open.
AllOpen(c) == (Opens(c, "shm") => "shm" \in dev[c]) /\ "kick" \in dev[c]

\* The types of the variables the argument is about.
BootTypes ==
    /\ board \in {"zynqmp", "zynq7", "rv64"}
    /\ boot \in [Cores -> BootLabels]
    /\ dev \in [Cores -> SUBSET {"shm", "kick"}]
    /\ handler \in [Cores -> BOOLEAN]

\* Where a program is tells which devices it has open, and whether the handler
\* that reads a register of one may still run.
DevicesOpen(c) ==
    /\ boot[c] \in {"open_shm", "open_kick"} => ~handler[c]
    /\ boot[c] = "open_kick" /\ Opens(c, "shm") => "shm" \in dev[c]
    /\ boot[c] \in {"enable", "map_table", "copy", "map_shm", "set", "alloc", "up", "dispatch",
                    "remove", "remove_last", "remove_init", "close", "close_last", "close_init"}
         => AllOpen(c)
    /\ boot[c] \in {"close", "close_last", "close_init", "close_again"}
         => ~(handler[c] /\ KindOf(c).isr)
    /\ handler[c] /\ KindOf(c).isr => "kick" \in dev[c]

\* main's variable holds the instance only where platform_init has returned it,
\* or on a processor that keeps its memory over a reset.
Left(c) ==
    /\ ~BareMetal(c) /\ slot[c] = "instance"
         => boot[c] \in {"alloc", "up", "dispatch", "lost", "remove", "remove_last", "close",
                         "close_last", "failed", "ended"}
    /\ boot[c] \in {"remove_again", "close_again"} => slot[c] = "instance"

BootInv == BootTypes /\ \A c \in Cores : DevicesOpen(c)
LeftInv == slot \in [Cores -> {"other", "instance"}] /\ \A c \in Cores : Left(c)

\* What the five platforms have in common: an interrupt handler that reads the
\* device is disabled by remove, and nothing but the two devices is opened.
LEMMA Kinds ==
    ASSUME NEW c \in Cores, board \in {"zynqmp", "zynq7", "rv64"}
    PROVE  /\ KindOf(c).isr \in BOOLEAN /\ KindOf(c).irq \in BOOLEAN /\ KindOf(c).off \in BOOLEAN
           /\ KindOf(c).isr => KindOf(c).off /\ KindOf(c).irq
           /\ \A i \in DOMAIN KindOf(c).devs :
                KindOf(c).devs[i] = "kick" \/ (KindOf(c).devs[i] = "shm" /\ Opens(c, "shm"))
<1> USE DEF Kind, linux_r5, r5_a53, zynq_a9, rv64_linux, virt_rv64
<1>1. KindOf(c) \in {linux_r5, r5_a53, zynq_a9, rv64_linux, virt_rv64}
  <2>1. CASE board = "zynqmp"
    BY <2>1 DEF KindOf
  <2>2. CASE board = "zynq7"
    BY <2>2 DEF KindOf
  <2>3. CASE board = "rv64"
    BY <2>3 DEF KindOf
  <2> QED BY <2>1, <2>2, <2>3
<1>2. KindOf(c).devs \in {<<"shm", "kick">>, <<"kick">>}
  BY <1>1
<1>3. \A i \in DOMAIN KindOf(c).devs : KindOf(c).devs[i] \in {"shm", "kick"}
  BY <1>2
<1>4. KindOf(c).isr \in BOOLEAN /\ KindOf(c).irq \in BOOLEAN /\ KindOf(c).off \in BOOLEAN
  <2>1. \A k \in {linux_r5, r5_a53, zynq_a9, rv64_linux, virt_rv64} :
          /\ k.isr = TRUE \/ k.isr = FALSE
          /\ k.irq = TRUE \/ k.irq = FALSE
          /\ k.off = TRUE \/ k.off = FALSE
    OBVIOUS
  <2> QED BY <1>1, <2>1, Zenon
<1>5. KindOf(c).isr => KindOf(c).off /\ KindOf(c).irq
  BY <1>1
<1> QED BY <1>3, <1>4, <1>5 DEF Opens

\* At power-up nothing is open and no handler is registered.
LEMMA BootInvInit == BootInit => BootInv
<1> SUFFICES ASSUME BootInit PROVE BootInv
  OBVIOUS
<1>1. BootTypes
  BY BoardAssumption DEF BootInit, BootTypes, First, BootLabels
<1>2. ASSUME NEW c \in Cores PROVE DevicesOpen(c)
  <2>1. ~handler[c] /\ boot[c] = First(c)
    BY DEF BootInit
  <2> QED BY <2>1 DEF First, DevicesOpen
<1> QED BY <1>1, <1>2 DEF BootInv

\* Every step of either program keeps to the devices it has open.
LEMMA BootInvStep == BootInv /\ [BootNext]_allvars => BootInv'
<1> SUFFICES ASSUME BootInv, [BootNext]_allvars PROVE BootInv'
  OBVIOUS
<1>b. board' = board
  BY DEF BootNext, BootStep, OpenShm, OpenKick, Enable, MapTable, CopyTable, MapShared,
         SetTable, AllocVdev, BadRing, VdevStep, Disable, Close, NoPlatform, Restart,
         VdevFails, AppSends, Poll, Dispatch, Leave, Isr, allvars
<1>k. \A c \in Cores : KindOf(c)' = KindOf(c) /\ \A d : Opens(c, d)' = Opens(c, d)
  BY <1>b DEF KindOf, Opens
<1>t. BootTypes /\ \A c \in Cores : DevicesOpen(c)
  BY DEF BootInv
<1>f. ASSUME NEW c \in Cores, NEW l \in BootLabels, boot' = [boot EXCEPT ![c] = l],
             NEW ds \in SUBSET {"shm", "kick"}, dev' = [dev EXCEPT ![c] = ds],
             NEW h \in BOOLEAN, handler' = [handler EXCEPT ![c] = h],
             DevicesOpen(c)'
      PROVE  BootInv'
  <2>1. BootTypes'
    BY <1>f, <1>t, <1>b DEF BootTypes
  <2>2. ASSUME NEW d \in Cores, d # c PROVE DevicesOpen(d)'
    <3>1. boot'[d] = boot[d] /\ dev'[d] = dev[d]
      BY <1>f, <1>t, <2>2 DEF BootTypes
    <3>2. handler'[d] = handler[d]
      BY <1>f, <1>t, <2>2, Zenon DEF BootTypes
    <3> QED BY <3>1, <3>2, <1>t, <1>k DEF DevicesOpen, AllOpen
  <2> QED BY <1>f, <2>1, <2>2 DEF BootInv
<1>s. ASSUME NEW c \in Cores, NEW l \in BootLabels, boot' = [boot EXCEPT ![c] = l],
             UNCHANGED <<dev, handler>>, DevicesOpen(c)'
      PROVE  BootInv'
  <2>1. /\ dev[c] \in SUBSET {"shm", "kick"} /\ dev' = [dev EXCEPT ![c] = dev[c]]
    BY <1>s, <1>t DEF BootTypes
  <2>2. handler[c] \in BOOLEAN /\ handler' = [handler EXCEPT ![c] = handler[c]]
    BY <1>s, <1>t, Zenon DEF BootTypes
  <2> QED BY <1>s, <1>f, <2>1, <2>2, Zenon
<1>u. ASSUME UNCHANGED <<boot, dev, handler>> PROVE BootInv'
  <2>1. BootTypes'
    BY <1>u, <1>t, <1>b DEF BootTypes
  <2>2. ASSUME NEW d \in Cores PROVE DevicesOpen(d)'
    BY <1>u, <1>t, <1>k DEF DevicesOpen, AllOpen
  <2> QED BY <2>1, <2>2 DEF BootInv
<1>e. ASSUME NEW c \in Cores, NEW l \in BootLabels, boot' = [boot EXCEPT ![c] = l]
      PROVE  boot'[c] = l
  BY <1>e, <1>t DEF BootTypes
<1>1. ASSUME NEW c \in Cores, OpenShm(c) PROVE BootInv'
  <2>1. handler' = handler /\ ~handler[c]
    BY <1>1, <1>t DEF OpenShm, On, DevicesOpen
  <2>2. CASE dev' = [dev EXCEPT ![c] = @ \cup {"shm"}] /\ Move(c, "open_kick")
    <3>1. dev'[c] = dev[c] \cup {"shm"} /\ boot'[c] = "open_kick"
      BY <2>2, <1>t DEF Move, BootTypes
    <3>2. DevicesOpen(c)'
      BY <2>1, <3>1 DEF DevicesOpen
    <3>3. handler[c] \in BOOLEAN /\ handler' = [handler EXCEPT ![c] = handler[c]]
      BY <2>1, <1>t, Zenon DEF BootTypes
    <3>4. dev[c] \cup {"shm"} \in SUBSET {"shm", "kick"}
      BY <1>t DEF BootTypes
    <3>5. "open_kick" \in BootLabels
      BY DEF BootLabels
    <3> QED BY <2>2, <3>2, <3>3, <3>4, <3>5, <1>f DEF Move
  <2>3. CASE UNCHANGED dev /\ Move(c, "no_platform")
    <3>1. boot'[c] = "no_platform" /\ "no_platform" \in BootLabels
      BY <2>3, <1>t DEF Move, BootTypes, BootLabels
    <3>2. DevicesOpen(c)'
      BY <2>1, <3>1 DEF DevicesOpen
    <3> QED BY <2>1, <2>3, <3>1, <3>2, <1>s DEF Move
  <2> QED BY <1>1, <2>2, <2>3 DEF OpenShm
<1>2. ASSUME NEW c \in Cores, OpenKick(c) PROVE BootInv'
  <2>1. handler' = handler /\ ~handler[c] /\ (Opens(c, "shm") => "shm" \in dev[c])
    BY <1>2, <1>t DEF OpenKick, On, DevicesOpen
  <2>2. handler[c] \in BOOLEAN /\ handler' = [handler EXCEPT ![c] = handler[c]]
    BY <2>1, <1>t, Zenon DEF BootTypes
  <2>3. CASE dev' = [dev EXCEPT ![c] = @ \cup {"kick"}] /\ Move(c, "enable")
    <3>1. dev'[c] = dev[c] \cup {"kick"} /\ boot'[c] = "enable"
      BY <2>3, <1>t DEF Move, BootTypes
    <3>2. DevicesOpen(c)'
      BY <2>1, <3>1, <1>k DEF DevicesOpen, AllOpen
    <3>3. dev[c] \cup {"kick"} \in SUBSET {"shm", "kick"} /\ "enable" \in BootLabels
      BY <1>t DEF BootTypes, BootLabels
    <3> QED BY <2>2, <2>3, <3>2, <3>3, <1>f DEF Move
  <2>4. CASE Failing /\ Move(c, "no_platform")
    <3>1. PICK ds \in {dev[c], {}, {"kick"}} : dev' = [dev EXCEPT ![c] = ds]
      BY <1>2, <2>4, <1>t DEF OpenKick, Move, BootTypes, BootLabels
    <3>2. boot'[c] = "no_platform" /\ "no_platform" \in BootLabels
      BY <2>4, <1>t DEF Move, BootTypes, BootLabels
    <3>3. DevicesOpen(c)'
      BY <2>1, <3>2 DEF DevicesOpen
    <3>4. ds \in SUBSET {"shm", "kick"}
      BY <1>t DEF BootTypes
    <3> QED BY <2>2, <2>4, <3>1, <3>2, <3>3, <3>4, <1>f DEF Move
  <2> QED BY <1>2, <2>3, <2>4 DEF OpenKick
<1>3. ASSUME NEW c \in Cores, Enable(c) PROVE BootInv'
  <2>1. AllOpen(c) /\ dev' = dev
    BY <1>3, <1>t DEF Enable, On, DevicesOpen
  <2>2. PICK l \in {"copy", "map_table"} : boot' = [boot EXCEPT ![c] = l]
    BY <1>3 DEF Enable, Move
  <2>3. boot'[c] = l /\ l \in BootLabels
    BY <2>2, <1>t DEF BootTypes, BootLabels
  <2>4. KindOf(c).irq \in BOOLEAN
    BY <1>t, Kinds DEF BootTypes
  <2>5. handler' = [handler EXCEPT ![c] = KindOf(c).irq]
    BY <1>3 DEF Enable
  <2>6. dev[c] \in SUBSET {"shm", "kick"} /\ dev' = [dev EXCEPT ![c] = dev[c]]
    BY <2>1, <1>t DEF BootTypes
  <2>7. DevicesOpen(c)'
    BY <2>1, <2>3, <1>k DEF DevicesOpen, AllOpen
  <2> QED BY <2>2, <2>3, <2>4, <2>5, <2>6, <2>7, <1>f
<1>4. ASSUME NEW c \in Cores, MapTable(c) \/ CopyTable(c) \/ MapShared(c) \/ SetTable(c)
                               \/ AllocVdev(c) \/ VdevFails(c)
      PROVE  BootInv'
  <2>1. AllOpen(c) /\ UNCHANGED <<dev, handler>> /\ (handler[c] /\ KindOf(c).isr => "kick" \in dev[c])
    BY <1>4, <1>t DEF MapTable, CopyTable, MapShared, SetTable, AllocVdev, VdevFails, On,
                      DevicesOpen
  <2>2. PICK l \in {"map_shm", "copy", "set", "no_platform", "map_table", "alloc", "remove_init",
                    "up", "remove"} : boot' = [boot EXCEPT ![c] = l]
    BY <1>4 DEF MapTable, CopyTable, MapShared, SetTable, AllocVdev, VdevFails, Move
  <2>3. boot'[c] = l /\ l \in BootLabels
    BY <2>2, <1>t DEF BootTypes, BootLabels
  <2>4. DevicesOpen(c)'
    BY <2>1, <2>3, <1>k DEF DevicesOpen, AllOpen
  <2> QED BY <2>1, <2>2, <2>3, <2>4, <1>s
<1>5. ASSUME NEW c \in Cores, BadRing(c) \/ Leave(c) \/ Poll(c) \/ Dispatch(c)
      PROVE  BootInv'
  <2>1. AllOpen(c) /\ UNCHANGED <<dev, handler>> /\ (handler[c] /\ KindOf(c).isr => "kick" \in dev[c])
    BY <1>5, <1>t DEF BadRing, Leave, Poll, Dispatch, On, DevicesOpen
  <2>2. PICK l \in {"lost", "remove", "remove_last", "dispatch", "up"} : boot' = [boot EXCEPT ![c] = l]
    BY <1>5 DEF BadRing, Leave, Poll, Dispatch, Move
  <2>3. boot'[c] = l /\ l \in BootLabels
    BY <2>2, <1>t DEF BootTypes, BootLabels
  <2>4. DevicesOpen(c)'
    BY <2>1, <2>3, <1>k DEF DevicesOpen, AllOpen
  <2> QED BY <2>1, <2>2, <2>3, <2>4, <1>s
<1>6. ASSUME NEW c \in Cores, VdevStep(c) \/ AppSends(c) \/ Isr(c) PROVE BootInv'
  BY <1>6, <1>u DEF VdevStep, AppSends, Isr
<1>7. ASSUME NEW c \in Cores, Disable(c) PROVE BootInv'
  <2>1. dev' = dev /\ (boot[c] # "remove_again" => AllOpen(c))
    BY <1>7, <1>t DEF Disable, Removing, DevicesOpen
  <2>2. PICK l \in {"close", "close_last", "close_init", "close_again"} :
          boot' = [boot EXCEPT ![c] = l] /\ (l # "close_again" => boot[c] # "remove_again")
    <3>1. /\ Then["remove"] = "close" /\ Then["remove_last"] = "close_last"
          /\ Then["remove_init"] = "close_init" /\ Then["remove_again"] = "close_again"
      BY DEF Then
    <3>2. /\ Then[boot[c]] \in {"close", "close_last", "close_init", "close_again"}
          /\ Then[boot[c]] # "close_again" => boot[c] # "remove_again"
      BY <1>7, <3>1, Zenon DEF Disable, Removing
    <3> QED BY <1>7, <3>2 DEF Disable, Move
  <2>3. boot'[c] = l /\ l \in BootLabels
    BY <2>2, <1>t DEF BootTypes, BootLabels
  <2>4. handler' = [handler EXCEPT ![c] = Disabled(c)] /\ Disabled(c) \in BOOLEAN
    BY <1>7, Zenon DEF Disable, Disabled
  <2>5. handler'[c] = Disabled(c)
    BY <2>4, <1>t, Zenon DEF BootTypes
  <2>6. ~(Disabled(c) /\ KindOf(c).isr)
    BY <1>t, Kinds DEF Disabled, BootTypes
  <2>7. ~(handler'[c] /\ KindOf(c)'.isr)
    BY <2>5, <2>6, <1>k, Zenon
  <2>8. DevicesOpen(c)'
    BY <2>1, <2>2, <2>3, <2>7, <1>k DEF DevicesOpen, AllOpen
  <2>9. dev[c] \in SUBSET {"shm", "kick"} /\ dev' = [dev EXCEPT ![c] = dev[c]]
    BY <2>1, <1>t DEF BootTypes
  <2> QED BY <2>2, <2>3, <2>4, <2>8, <2>9, <1>f
<1>8. ASSUME NEW c \in Cores, Close(c) PROVE BootInv'
  <2>1. ~(handler[c] /\ KindOf(c).isr) /\ handler' = handler
    BY <1>8, <1>t DEF Close, Closing, DevicesOpen
  <2>2. PICK l \in {"failed", "ended", "removed"} : boot' = [boot EXCEPT ![c] = l]
    <3>1. /\ Then["close"] = "failed" /\ Then["close_last"] = "ended"
          /\ Then["close_init"] = "removed" /\ Then["close_again"] = "failed"
      BY DEF Then
    <3>2. Then[boot[c]] \in {"failed", "ended", "removed"}
      BY <1>8, <3>1, Zenon DEF Close, Closing
    <3> QED BY <1>8, <3>2 DEF Close, Move
  <2>3. boot'[c] = l /\ l \in BootLabels
    BY <2>2, <1>t DEF BootTypes, BootLabels
  <2>4. PICK ds \in {dev[c] \ {"shm"}, {}} : dev' = [dev EXCEPT ![c] = ds]
    BY <1>8 DEF Close
  <2>5. ds \in SUBSET {"shm", "kick"}
    BY <1>t DEF BootTypes
  <2>6. handler[c] \in BOOLEAN /\ handler' = [handler EXCEPT ![c] = handler[c]]
    BY <2>1, <1>t, Zenon DEF BootTypes
  <2>7. DevicesOpen(c)'
    BY <2>1, <2>3, <1>k DEF DevicesOpen
  <2> QED BY <2>2, <2>3, <2>4, <2>5, <2>6, <2>7, <1>f
<1>9. ASSUME NEW c \in Cores, NoPlatform(c) PROVE BootInv'
  <2>1. PICK l \in {"failed", "remove_again"} :
          boot' = [boot EXCEPT ![c] = l] /\ UNCHANGED <<dev, handler>>
    BY <1>9 DEF NoPlatform, Move
  <2>2. boot'[c] = l /\ l \in BootLabels
    BY <2>1, <1>t DEF BootTypes, BootLabels
  <2>3. DevicesOpen(c)'
    BY <2>1, <2>2, <1>t, <1>k DEF DevicesOpen
  <2> QED BY <2>1, <2>2, <2>3, <1>s
<1>10. ASSUME NEW c \in Cores, Restart(c) PROVE BootInv'
  <2>1. PICK l \in {"open_shm", "open_kick"} :
          boot' = [boot EXCEPT ![c] = l] /\ (Opens(c, "shm") => l = "open_shm")
    BY <1>10 DEF Restart, Move, First
  <2>2. boot'[c] = l /\ l \in BootLabels
    BY <2>1, <1>t DEF BootTypes, BootLabels
  <2>3. dev' = [dev EXCEPT ![c] = {}] /\ handler' = [handler EXCEPT ![c] = FALSE]
    BY <1>10 DEF Restart
  <2>4. ~handler'[c]
    BY <2>3, <1>t, Zenon DEF BootTypes
  <2>5. DevicesOpen(c)'
    BY <2>1, <2>2, <2>4, <1>k DEF DevicesOpen
  <2> QED BY <2>1, <2>2, <2>3, <2>5, <1>f
<1>11. CASE UNCHANGED allvars
  BY <1>11, <1>u DEF allvars, platform
<1> QED BY <1>1, <1>2, <1>3, <1>4, <1>5, <1>6, <1>7, <1>8, <1>9, <1>10, <1>11
        DEF BootNext, BootStep

\* A new process finds nothing of an old one in main's variable.
LEMMA LeftInvInit == BootInit => LeftInv
<1> SUFFICES ASSUME BootInit PROVE LeftInv
  OBVIOUS
<1>1. ASSUME NEW c \in Cores PROVE Left(c)
  <2>1. boot[c] \in {"open_shm", "open_kick"}
    BY DEF BootInit, First
  <2>2. slot[c] \in Slots(c)
    BY DEF BootInit
  <2> QED BY <2>1, <2>2 DEF Slots, Left
<1> QED BY <1>1 DEF BootInit, LeftInv

\* Only platform_init writes main's variable, and only when it succeeds.
LEMMA LeftInvStep == BootInv /\ LeftInv /\ [BootNext]_allvars => LeftInv'
<1> SUFFICES ASSUME BootInv, LeftInv, [BootNext]_allvars PROVE LeftInv'
  OBVIOUS
<1>b. board' = board
  BY DEF BootNext, BootStep, OpenShm, OpenKick, Enable, MapTable, CopyTable, MapShared,
         SetTable, AllocVdev, BadRing, VdevStep, Disable, Close, NoPlatform, Restart,
         VdevFails, AppSends, Poll, Dispatch, Leave, Isr, allvars
<1>k. \A c \in Cores : BareMetal(c)' = BareMetal(c)
  BY <1>b DEF KindOf, BareMetal
<1>t. /\ boot \in [Cores -> BootLabels] /\ slot \in [Cores -> {"other", "instance"}]
      /\ \A c \in Cores : Left(c)
  BY DEF BootInv, BootTypes, LeftInv
<1>f. ASSUME NEW c \in Cores, NEW l, boot' = [boot EXCEPT ![c] = l],
             NEW v \in {"other", "instance"}, slot' = [slot EXCEPT ![c] = v],
             /\ ~BareMetal(c) /\ v = "instance"
                  => l \in {"alloc", "up", "dispatch", "lost", "remove", "remove_last", "close",
                            "close_last", "failed", "ended"}
             /\ l \in {"remove_again", "close_again"} => v = "instance"
      PROVE  LeftInv'
  <2>1. slot' \in [Cores -> {"other", "instance"}]
    BY <1>f, <1>t
  <2>2. Left(c)'
    <3>1. boot'[c] = l /\ slot'[c] = v
      BY <1>f, <1>t
    <3> QED BY <1>f, <3>1, <1>k DEF Left
  <2>3. ASSUME NEW d \in Cores, d # c PROVE Left(d)'
    <3>1. boot'[d] = boot[d] /\ slot'[d] = slot[d]
      BY <1>f, <1>t, <2>3
    <3> QED BY <3>1, <1>t, <1>k DEF Left
  <2> QED BY <2>1, <2>2, <2>3 DEF LeftInv
<1>s. ASSUME NEW c \in Cores, NEW l, boot' = [boot EXCEPT ![c] = l], slot' = slot,
             /\ ~BareMetal(c) /\ slot[c] = "instance"
                  => l \in {"alloc", "up", "dispatch", "lost", "remove", "remove_last", "close",
                            "close_last", "failed", "ended"}
             /\ l \in {"remove_again", "close_again"} => slot[c] = "instance"
      PROVE  LeftInv'
  <2>1. slot[c] \in {"other", "instance"} /\ slot' = [slot EXCEPT ![c] = slot[c]]
    BY <1>s, <1>t
  <2> QED BY <1>s, <1>f, <2>1
<1>u. ASSUME UNCHANGED <<boot, slot>> PROVE LeftInv'
  BY <1>u, <1>t, <1>k DEF LeftInv, Left
<1>1. ASSUME NEW c \in Cores, OpenShm(c) \/ OpenKick(c) \/ Enable(c) PROVE LeftInv'
  <2>1. slot' = slot /\ boot[c] \in {"open_shm", "open_kick", "enable"}
    BY <1>1 DEF OpenShm, OpenKick, Enable, On, flags
  <2>2. PICK l \in {"open_kick", "enable", "no_platform", "copy", "map_table"} :
          boot' = [boot EXCEPT ![c] = l]
    BY <1>1 DEF OpenShm, OpenKick, Enable, Move
  <2>3. BareMetal(c) \/ slot[c] # "instance"
    BY <2>1, <1>t DEF Left
  <2> QED BY <2>1, <2>2, <2>3, <1>s
<1>2. ASSUME NEW c \in Cores, MapTable(c) \/ CopyTable(c) \/ MapShared(c) PROVE LeftInv'
  <2>1. slot' = slot /\ boot[c] \in {"map_table", "copy", "map_shm"}
    BY <1>2 DEF MapTable, CopyTable, MapShared, On, flags
  <2>2. PICK l \in {"map_shm", "copy", "set", "no_platform", "map_table"} :
          boot' = [boot EXCEPT ![c] = l]
    BY <1>2 DEF MapTable, CopyTable, MapShared, Move
  <2>3. BareMetal(c) \/ slot[c] # "instance"
    BY <2>1, <1>t DEF Left
  <2> QED BY <2>1, <2>2, <2>3, <1>s
<1>3. ASSUME NEW c \in Cores, SetTable(c) PROVE LeftInv'
  <2>1. boot[c] = "set"
    BY <1>3 DEF SetTable, On
  <2>2. BareMetal(c) \/ slot[c] # "instance"
    BY <2>1, <1>t DEF Left
  <2>3. CASE boot' = [boot EXCEPT ![c] = "alloc"] /\ slot' = [slot EXCEPT ![c] = "instance"]
    BY <2>3, <1>f
  <2>4. CASE boot' = [boot EXCEPT ![c] = "remove_init"] /\ slot' = slot
    BY <2>4, <2>2, <1>s
  <2> QED BY <1>3, <2>3, <2>4 DEF SetTable, Move
<1>4. ASSUME NEW c \in Cores, AllocVdev(c) \/ BadRing(c) \/ VdevFails(c) \/ Poll(c)
                               \/ Dispatch(c) \/ Leave(c)
      PROVE  LeftInv'
  <2>1. slot' = slot
    BY <1>4 DEF AllocVdev, BadRing, VdevFails, Poll, Dispatch, Leave, flags
  <2>2. PICK l \in {"up", "remove", "lost", "dispatch", "remove_last"} :
          boot' = [boot EXCEPT ![c] = l]
    BY <1>4 DEF AllocVdev, BadRing, VdevFails, Poll, Dispatch, Leave, Move
  <2> QED BY <2>1, <2>2, <1>s
<1>5. ASSUME NEW c \in Cores, VdevStep(c) \/ AppSends(c) \/ Isr(c) PROVE LeftInv'
  BY <1>5, <1>u DEF VdevStep, AppSends, Isr, flags
<1>6. ASSUME NEW c \in Cores, Disable(c) \/ Close(c) PROVE LeftInv'
  <2>1. /\ Then["remove"] = "close" /\ Then["remove_last"] = "close_last"
        /\ Then["remove_init"] = "close_init" /\ Then["remove_again"] = "close_again"
        /\ Then["close"] = "failed" /\ Then["close_last"] = "ended"
        /\ Then["close_init"] = "removed" /\ Then["close_again"] = "failed"
    BY DEF Then
  <2>2. slot' = slot /\ boot' = [boot EXCEPT ![c] = Then[boot[c]]]
    BY <1>6 DEF Disable, Close, Move, flags
  <2>3. boot[c] \in {"remove", "remove_last", "remove_init", "remove_again", "close",
                     "close_last", "close_init", "close_again"}
    BY <1>6 DEF Disable, Close, Removing, Closing
  <2>4. CASE boot[c] \in {"remove", "remove_last", "close", "close_last", "close_again"}
    <3>1. Then[boot[c]] \in {"close", "close_last", "failed", "ended"}
      BY <2>1, <2>4, Zenon
    <3> QED BY <2>2, <3>1, <1>s
  <2>5. CASE boot[c] \in {"remove_init", "remove_again", "close_init"}
    <3>1. BareMetal(c) \/ slot[c] # "instance"
      BY <2>5, <1>t DEF Left
    <3>2. Then[boot[c]] = "close_again" => slot[c] = "instance"
      BY <2>1, <2>5, <1>t DEF Left
    <3>3. Then[boot[c]] # "remove_again"
      BY <2>1, <2>5
    <3> QED BY <2>2, <3>1, <3>2, <3>3, <1>s
  <2> QED BY <2>3, <2>4, <2>5
<1>7. ASSUME NEW c \in Cores, NoPlatform(c) PROVE LeftInv'
  <2>1. slot' = slot /\ (BareMetal(c) \/ slot[c] # "instance")
    BY <1>7, <1>t DEF NoPlatform, Left, flags
  <2>2. PICK l \in {"failed", "remove_again"} :
          boot' = [boot EXCEPT ![c] = l] /\ (l = "remove_again" => slot[c] = "instance")
    BY <1>7 DEF NoPlatform, Move
  <2> QED BY <2>1, <2>2, <1>s
<1>8. ASSUME NEW c \in Cores, Restart(c) PROVE LeftInv'
  <2>1. PICK l \in {"open_shm", "open_kick"} : boot' = [boot EXCEPT ![c] = l]
    BY <1>8 DEF Restart, Move, First
  <2>2. PICK v \in {"other", "instance"} :
          slot' = [slot EXCEPT ![c] = v] /\ (BareMetal(c) \/ v = "other")
    BY <1>8, <1>t DEF Restart
  <2> QED BY <2>1, <2>2, <1>f
<1>9. CASE UNCHANGED allvars
  BY <1>9, <1>u DEF allvars, platform, flags
<1> QED BY <1>1, <1>2, <1>3, <1>4, <1>5, <1>6, <1>7, <1>8, <1>9 DEF BootNext, BootStep

\* On every board, with every failure of a start-up at either core, no handler
\* reads a closed device, no application runs without the device its kicks go
\* through, and remove finds every device open; but for one remove, that of a
\* reset processor through the pointer an earlier run left in main's variable,
\* when platform_init has removed the instance already.
THEOREM DevicesUsedWhenOpen == BootSpec => []DeviceUse
<1>1. BootInv /\ LeftInv => DeviceUse
  <2> SUFFICES ASSUME BootInv, LeftInv, NEW c \in Cores
               PROVE  /\ handler[c] /\ KindOf(c).isr => "kick" \in dev[c]
                      /\ Running(c) => "kick" \in dev[c]
                      /\ Removing(c) \/ Closing(c) => DevsOpen(c) \/ RemovedTwice(c)
    BY DEF DeviceUse
  <2>1. DevicesOpen(c) /\ Left(c)
    BY DEF BootInv, LeftInv
  <2>2. \A i \in DOMAIN KindOf(c).devs :
          KindOf(c).devs[i] = "kick" \/ (KindOf(c).devs[i] = "shm" /\ Opens(c, "shm"))
    BY Kinds DEF BootInv, BootTypes
  <2>3. AllOpen(c) => DevsOpen(c)
    BY <2>2 DEF AllOpen, DevsOpen
  <2>4. Removing(c) \/ Closing(c) =>
          AllOpen(c) \/ boot[c] \in {"remove_again", "close_again"}
    BY <2>1 DEF Removing, Closing, DevicesOpen
  <2>5. boot[c] \in {"remove_again", "close_again"} => RemovedTwice(c)
    BY <2>1 DEF Left, RemovedTwice
  <2>6. Running(c) => "kick" \in dev[c]
    BY <2>1 DEF Running, DevicesOpen, AllOpen
  <2> QED BY <2>1, <2>3, <2>4, <2>5, <2>6 DEF DevicesOpen
<1> QED BY <1>1, BootInvInit, BootInvStep, LeftInvInit, LeftInvStep, PTL DEF BootSpec
================================================================================
