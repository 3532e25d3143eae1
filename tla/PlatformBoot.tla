----------------------------- MODULE PlatformBoot -----------------------------
(***************************************************************************)
(* The programs of apps/ from main to main: platform_init (opening the     *)
(* devices, enabling the kick, mapping and setting the resource table),    *)
(* platform_create_rpmsg_vdev over the steps of VdevStartup, platform_poll *)
(* in the application's loop, and platform_cleanup, on the two cores of a  *)
(* board at once.                                                          *)
(*                                                                         *)
(* A kick is an interrupt that stays latched until the handler takes it    *)
(* and leaves a flag for platform_poll; or, where RPMSG_NO_IPI is defined, *)
(* the word both cores poll, which is never reset but when a core boots. A *)
(* program whose start-up fails ends and is started again, its processor   *)
(* reset or its process new.                                               *)
(***************************************************************************)
EXTENDS VdevStartup

CONSTANT Boards      \* which boards

ASSUME BoardAssumption == Boards \subseteq {"zynqmp", "zynq7", "rv64"}

VARIABLES
    board,
    boot,     \* where the program of each core is outside VdevStartup
    dev,      \* devices it has open
    handler,  \* is its interrupt handler registered and enabled?
    kick,     \* has the handler cleared the flag nokick?
    slot,     \* what main's variable platform holds: the instance, or else
    maps,     \* memory it has mapped
    word,     \* the polled word is not 0
    author,   \* which core wrote the resource table last
    late,     \* the slave has written the table over the master's
    missed    \* history: messages are there whose kick a start-up has dropped

flags == <<kick, slot, missed>>
platform == <<boot, dev, handler, flags, maps, word, author, late>>
allvars == <<vars, board, platform>>

(***************************************************************************)
(* What the platforms' operations differ in: the devices init opens, in    *)
(* order; whether it enables an interrupt, whose handler reads a register  *)
(* of the kick device; whether remove disables that interrupt; whether the *)
(* program writes the resource table, and whether before it maps it;       *)
(* whether it looks at the result of mapping it.                           *)
(***************************************************************************)
Kind(devs, irq_, isr, off, copies, checks) ==
    [devs |-> devs, irq |-> irq_, isr |-> isr, off |-> off, copies |-> copies,
     checks |-> checks]

linux_r5   == Kind(<<"shm", "kick">>, TRUE, TRUE, TRUE, FALSE, TRUE)
r5_a53     == Kind(<<"kick">>, TRUE, TRUE, TRUE, FALSE, FALSE)
zynq_a9    == Kind(<<"kick">>, TRUE, FALSE, FALSE, FALSE, FALSE)
rv64_linux == Kind(<<"shm", "kick">>, FALSE, FALSE, FALSE, TRUE, TRUE)
virt_rv64  == Kind(<<"kick">>, FALSE, FALSE, FALSE, TRUE, FALSE)

KindOf(c) ==
    CASE board = "zynqmp" -> IF c = "master" THEN linux_r5 ELSE r5_a53
      [] board = "zynq7"  -> zynq_a9
      [] board = "rv64"   -> IF c = "master" THEN rv64_linux ELSE virt_rv64
Opens(c, d) == \E i \in DOMAIN KindOf(c).devs : KindOf(c).devs[i] = d
First(c) == IF Opens(c, "shm") THEN "open_shm" ELSE "open_kick"

\* main leaves platform uninitialised, but for rpc_demod, a program for Linux.
\* Then it may hold NULL, with which platform_cleanup does nothing, a pointer to
\* nowhere, with which the program crashes ("other"), or, on a processor that
\* was only reset, the address of the instance an earlier run left there.
BareMetal(c) == ~KindOf(c).checks
Slots(c) == {"other"} \cup {x \in {"instance"} : BareMetal(c)}

\* Memory that was never written may hold anything; without a table in it, a
\* core that does not copy one relies on the loader of the firmware.
BootInit ==
    /\ Init
    /\ board \in Boards
    /\ boot = [c \in Cores |-> First(c)]
    /\ dev = [c \in Cores |-> {}] /\ handler = [c \in Cores |-> FALSE]
    /\ kick = [c \in Cores |-> TRUE] /\ missed = [c \in Cores |-> FALSE]
    /\ slot \in {f \in [Cores -> {"other", "instance"}] : \A c \in Cores : f[c] \in Slots(c)}
    /\ maps = [c \in Cores |-> {}]
    /\ word \in BOOLEAN /\ author = "loader" /\ late = FALSE

On(c, l) == boot[c] = l
Move(c, l) == boot' = [boot EXCEPT ![c] = l]
Failing == fails < MaxFail /\ fails' = fails + 1

(***************************************************************************)
(* platform_init: the init operation, then platform_create_proc.           *)
(***************************************************************************)
\* metal_device_open and metal_device_io_region of the shared memory. Without
\* an I/O region the device is closed again.
OpenShm(c) ==
    /\ On(c, "open_shm")
    /\ \/ dev' = [dev EXCEPT ![c] = @ \cup {"shm"}] /\ Move(c, "open_kick") /\ UNCHANGED fails
       \/ Failing /\ Move(c, "no_platform") /\ UNCHANGED dev
    /\ UNCHANGED <<shared, local, pc, irq, board, handler, flags, maps, word, author, late>>

\* The same for the device kicks go through. When it has no I/O region it is
\* closed, except for a poll word on Linux; the shared memory device is closed,
\* except when a poll word on Linux could not be opened.
OpenKick(c) ==
    LET polled == Opens(c, "shm") /\ ~KindOf(c).irq
    IN  /\ On(c, "open_kick")
        /\ \/ dev' = [dev EXCEPT ![c] = @ \cup {"kick"}] /\ Move(c, "enable") /\ UNCHANGED fails
           \/ /\ Failing /\ Move(c, "no_platform")
              /\ dev' \in {[dev EXCEPT ![c] = IF polled THEN @ ELSE {}],
                           [dev EXCEPT ![c] = IF polled THEN {"kick"} ELSE {}]}
        /\ UNCHANGED <<shared, local, pc, irq, board, handler, flags, maps, word, author, late>>

\* The flag is set to "no kick", then the handler registered and the interrupt
\* enabled; or the word is cleared, whoever set it. A kick that the handler took
\* before the program was started over is forgotten, one still latched is not.
\* Mutant: what is latched is acknowledged first.
Latched_Acknowledged(c) == {}
Latched(c) == irq[c]

Enable(c) ==
    /\ On(c, "enable")
    /\ handler' = [handler EXCEPT ![c] = KindOf(c).irq]
    /\ kick' = [kick EXCEPT ![c] = FALSE]
    /\ missed' = [missed EXCEPT ![c] = KindOf(c).irq /\ queued[c] > 0 /\ irq[c] = {}]
    /\ irq' = [irq EXCEPT ![c] = Latched(c)]
    /\ word' = (KindOf(c).irq /\ word)
    /\ Move(c, IF KindOf(c).copies /\ BareMetal(c) THEN "copy" ELSE "map_table")
    /\ UNCHANGED <<shared, local, pc, fails, board, dev, slot, maps, author, late>>

\* The interrupt handler: whenever it is enabled it takes what is latched and
\* clears the flag. Poll looks at the flag with interrupts masked, so that the
\* handler runs before or after it.
Isr(c) ==
    /\ handler[c] /\ irq[c] # {}
    /\ irq' = [irq EXCEPT ![c] = {}]
    /\ kick' = [kick EXCEPT ![c] = TRUE]
    /\ UNCHANGED <<shared, local, pc, fails, board, boot, dev, handler, slot, missed, maps,
                   word, author, late>>

\* remoteproc_mmap of the resource table. A program that does not look at the
\* result goes on without the table; the others give up, and leave what they
\* have opened open.
MapTable(c) ==
    /\ On(c, "map_table")
    /\ \/ /\ maps' = [maps EXCEPT ![c] = @ \cup {"table"}] /\ UNCHANGED fails
          /\ Move(c, CASE ~KindOf(c).checks -> "map_shm"
                       [] KindOf(c).checks /\ KindOf(c).copies -> "copy"
                       [] OTHER -> "set")
       \/ /\ Failing /\ UNCHANGED maps
          /\ Move(c, IF KindOf(c).checks THEN "no_platform" ELSE "map_shm")
    /\ UNCHANGED <<shared, local, pc, irq, board, dev, handler, flags, word, author, late>>

\* memcpy of the program's own table to where both cores have it: ids, status
\* and features are those of the image again.
CopyTable(c) ==
    /\ On(c, "copy")
    /\ tab_id' = VdevId /\ driver_ok' = FALSE /\ gfeatures' = FALSE
    /\ author' = c
    /\ late' = (late \/ (c = "slave" /\ author = "master"))
    /\ Move(c, IF KindOf(c).checks THEN "set" ELSE "map_table")
    /\ UNCHANGED <<ring, queued, local, pc, irq, fails, board, dev, handler, flags, maps, word>>

\* remoteproc_mmap of the shared buffers, whose result nobody looks at.
MapShared(c) ==
    /\ On(c, "map_shm")
    /\ \/ maps' = [maps EXCEPT ![c] = @ \cup {"shm"}] /\ UNCHANGED fails
       \/ Failing /\ UNCHANGED maps
    /\ Move(c, "set")
    /\ UNCHANGED <<shared, local, pc, irq, board, dev, handler, flags, word, author, late>>

\* remoteproc_set_rsc_table: the table must be mapped. On an error the instance
\* is removed; otherwise platform_init hands it to main.
HasTable(c) == "table" \in maps[c]
SetTable(c) ==
    /\ On(c, "set")
    /\ \/ HasTable(c) /\ Parse(c) /\ Move(c, "alloc") /\ slot' = [slot EXCEPT ![c] = "instance"]
       \/ /\ HasTable(c) /\ Failing /\ Move(c, "remove_init")
          /\ UNCHANGED <<shared, local, pc, irq, slot>>
       \/ ~HasTable(c) /\ Move(c, "remove_init") /\ UNCHANGED <<vars, slot>>
    /\ UNCHANGED <<board, dev, handler, kick, missed, maps, word, author, late>>

(***************************************************************************)
(* platform_create_rpmsg_vdev and the application.                         *)
(***************************************************************************)
\* Memory for the device, and the I/O region of the shared buffers: on Linux it
\* is that of the device, else the one that was mapped.
HasBuffers(c) == "shm" \in maps[c] \cup dev[c]
AllocVdev(c) ==
    /\ On(c, "alloc")
    /\ \/ HasBuffers(c) /\ Move(c, "up") /\ UNCHANGED fails
       \/ HasBuffers(c) /\ Failing /\ Move(c, "remove")
       \/ ~HasBuffers(c) /\ Move(c, "remove") /\ UNCHANGED fails
    /\ UNCHANGED <<shared, local, pc, irq, board, dev, handler, flags, maps, word, author, late>>

\* A vring whose address is left open, as in the table of the slave: Linux
\* finds no memory there, the other core takes the address as it is.
RingPlaced == author # "slave"
BadRing(c) ==
    /\ On(c, "up") /\ pc[c] = "vring0" /\ ~RingPlaced
    /\ Move(c, IF KindOf(c).checks THEN "remove" ELSE "lost")
    /\ UNCHANGED <<vars, board, dev, handler, flags, maps, word, author, late>>

\* remoteproc_create_virtio and rpmsg_init_vdev; every notification also sets
\* the polled word.
Kicks(c) == c = "master" /\ pc[c] \in {"create", "driver_ok"}
VdevStep(c) ==
    /\ On(c, "up")
    /\ \/ Create(c) \/ Wait(c) \/ GetFeatures(c)
       \/ \E r \in Rings : (RingPlaced /\ InitVring(c, r)) \/ CreateVq(c, r)
       \/ c = "master" /\ (Fill \/ DriverOk)
    /\ word' = (word \/ Kicks(c))
    /\ UNCHANGED <<board, boot, dev, handler, flags, maps, author, late>>

VdevFails(c) ==
    /\ On(c, "up") /\ Fail(c)
    /\ Move(c, "remove")
    /\ UNCHANGED <<board, dev, handler, flags, maps, word, author, late>>

AppSends(c) ==
    /\ On(c, "up") /\ Send(c)
    /\ word' = TRUE
    /\ missed' = [missed EXCEPT ![Peer(c)] = FALSE]
    /\ UNCHANGED <<board, boot, dev, handler, kick, slot, maps, author, late>>

\* platform_poll: the flag the handler clears, which is set again before
\* anything is dispatched, or the word, which stays set.
Kicked(c) == IF KindOf(c).irq THEN kick[c] ELSE word

Poll(c) ==
    /\ On(c, "up") /\ At(c, "ready") /\ Kicked(c)
    /\ kick' = [kick EXCEPT ![c] = FALSE]
    /\ Move(c, "dispatch")
    /\ UNCHANGED <<vars, board, dev, handler, slot, missed, maps, word, author, late>>

\* remoteproc_get_notification; a kick may arrive before and while it runs.
Dispatch(c) ==
    /\ On(c, "dispatch")
    /\ Drain(c, Notified(c, ANY))
    /\ Move(c, "up")
    /\ UNCHANGED <<tab_id, driver_ok, gfeatures, ring, local, pc, irq, fails,
                   board, dev, handler, flags, maps, word, author, late>>

\* The application ends its loop. On rv64 platform_release_rpmsg_vdev removes
\* the virtio device, with its vrings and callbacks; elsewhere it does nothing.
NoVdev(c) ==
    /\ listed' = [listed EXCEPT ![c] = FALSE]
    /\ vdev_id' = [vdev_id EXCEPT ![c] = ANY]
    /\ ring_id' = [ring_id EXCEPT ![c] = NoRings]
    /\ callback' = [callback EXCEPT ![c] = {}]

Leave(c) ==
    /\ On(c, "up") /\ \A d \in Cores : At(d, "ready")
    /\ Move(c, "remove_last")
    /\ \/ board = "rv64" /\ NoVdev(c)
       \/ board # "rv64" /\ UNCHANGED <<listed, vdev_id, ring_id, callback>>
    /\ UNCHANGED <<shared, bitmap, support_ns, pc, irq, fails, board, dev, handler,
                   flags, maps, word, author, late>>

(***************************************************************************)
(* platform_cleanup, remoteproc_remove and the remove operation.           *)
(***************************************************************************)
\* The interrupt is disabled and its handler unregistered, on zynq7 those of
\* another interrupt; then the devices are closed, on Linux with a polled word
\* only that of the shared memory.
\* Where main goes on: a failed set of the resource table removes the instance
\* within platform_init, and platform_cleanup may do so again.
Removing(c) == boot[c] \in {"remove", "remove_last", "remove_init", "remove_again"}
Closing(c) == boot[c] \in {"close", "close_last", "close_init", "close_again"}
Then == [remove |-> "close", remove_last |-> "close_last", remove_init |-> "close_init",
         remove_again |-> "close_again", close |-> "failed", close_last |-> "ended",
         close_init |-> "removed", close_again |-> "failed"]

\* Mutant: the devices are closed first.
Disabled_Later(c) == handler[c]
Disabled(c) == handler[c] /\ ~KindOf(c).off

Disable(c) ==
    /\ Removing(c)
    /\ handler' = [handler EXCEPT ![c] = Disabled(c)]
    /\ Move(c, Then[boot[c]])
    /\ UNCHANGED <<vars, board, dev, flags, maps, word, author, late>>

Close(c) ==
    /\ Closing(c)
    /\ dev' = [dev EXCEPT ![c] =
                  IF Opens(c, "shm") /\ ~KindOf(c).irq THEN @ \ {"shm"} ELSE {}]
    /\ Move(c, Then[boot[c]])
    /\ UNCHANGED <<vars, board, handler, flags, maps, word, author, late>>

\* main after a failed platform_init passes on what its variable held before. If
\* that is the instance, and it was removed already, it is removed once more; an
\* instance that never came up has no operations yet, and the program crashes.
NoPlatform(c) ==
    /\ boot[c] \in {"no_platform", "removed"}
    /\ Move(c, IF On(c, "removed") /\ slot[c] = "instance" THEN "remove_again" ELSE "failed")
    /\ UNCHANGED <<vars, board, dev, handler, flags, maps, word, author, late>>

\* The program is started again: its static variables are as in the image, with
\* the flag clear. What it kept in shared memory stays, as does an interrupt that
\* was not taken, and on a processor that was reset the stack of the last run.
Restart(c) ==
    /\ On(c, "failed")
    /\ Move(c, First(c))
    /\ dev' = [dev EXCEPT ![c] = {}] /\ handler' = [handler EXCEPT ![c] = FALSE]
    /\ kick' = [kick EXCEPT ![c] = TRUE]
    /\ slot' = [slot EXCEPT ![c] = IF BareMetal(c) THEN @ ELSE "other"]
    /\ maps' = [maps EXCEPT ![c] = {}]
    /\ bitmap' = [bitmap EXCEPT ![c] = {}] /\ NoVdev(c)
    /\ support_ns' = [support_ns EXCEPT ![c] = FALSE]
    /\ pc' = [pc EXCEPT ![c] = "parse"]
    /\ UNCHANGED <<shared, irq, fails, board, missed, word, author, late>>

BootStep(c) ==
    \/ OpenShm(c) \/ OpenKick(c) \/ Enable(c) \/ MapTable(c) \/ CopyTable(c)
    \/ MapShared(c) \/ SetTable(c) \/ AllocVdev(c) \/ BadRing(c) \/ VdevStep(c)
    \/ Disable(c) \/ Close(c) \/ NoPlatform(c) \/ Restart(c)

BootNext ==
    \E c \in Cores : \/ BootStep(c) \/ VdevFails(c) \/ AppSends(c) \/ Poll(c) \/ Dispatch(c)
                    \/ Leave(c) \/ Isr(c)

\* Both cores run, failed programs are started again, an application polls, and
\* an enabled interrupt is taken.
BootSpec ==
    /\ BootInit /\ [][BootNext]_allvars
    /\ \A c \in Cores : /\ WF_allvars(BootStep(c)) /\ WF_allvars(Poll(c))
                       /\ WF_allvars(Dispatch(c)) /\ WF_allvars(Isr(c))

(***************************************************************************)
(* Correctness.                                                            *)
(***************************************************************************)
Running(c) == boot[c] \in {"up", "dispatch"}
DevsOpen(c) == \A i \in DOMAIN KindOf(c).devs : KindOf(c).devs[i] \in dev[c]
\* platform_cleanup with what an earlier run left in the variable platform.
RemovedTwice(c) ==
    boot[c] \in {"remove_again", "close_again"} /\ slot[c] = "instance" /\ BareMetal(c)

\* No program touches a device it does not have open, wherever its start-up
\* failed and whatever interrupts arrive: the handler of a kick reads a
\* register, kicks and polls go through the device, and remove writes a register
\* and closes the devices. The one exception is a reset processor whose main
\* passes the pointer an earlier run left behind to platform_cleanup, after the
\* instance was removed in platform_init; no program on Linux does so.
DeviceUse ==
    \A c \in Cores :
      /\ handler[c] /\ KindOf(c).isr => "kick" \in dev[c]
      /\ Running(c) => "kick" \in dev[c]
      /\ Removing(c) \/ Closing(c) => DevsOpen(c) \/ RemovedTwice(c)

\* Both programs come up although a start-up fails, at whatever place, and in
\* whatever order they are started; unless a slave that writes the resource table
\* did so when the master had already written it: what the master had set in it
\* is lost.
ComesUp == <>((\A c \in Cores : At(c, "ready")) \/ late)

\* A message in a ring is received, as long as the application has not ended:
\* its kick is lost neither between the handler, the flag and the poll loop, nor
\* among the other kicks and what else sets or clears the polled word. Only a
\* program that starts over drops a kick its handler had taken, and then the
\* next message brings the earlier ones too.
MessagesSeen ==
    \A c \in Cores : (At(c, "ready") /\ queued[c] > 0 /\ ~missed[c])
                       ~> (queued[c] = 0 \/ ~Running(c) \/ late)

\* The same without the exception: a start-up that follows a failed one leaves
\* no message behind.
MessagesSeenAnyway ==
    \A c \in Cores : (At(c, "ready") /\ queued[c] > 0) ~> (queued[c] = 0 \/ ~Running(c) \/ late)

\* Every remove finds the devices open: none is closed twice.
RemovedOnce == \A c \in Cores : Removing(c) \/ Closing(c) => DevsOpen(c)

\* What remoteproc_virtio.h says of the wait for the other core, that it ends
\* when the core is ready: both programs come up, in whatever order.
ComesUpAnyway == <>(\A c \in Cores : At(c, "ready"))
================================================================================
