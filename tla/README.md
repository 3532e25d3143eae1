# OpenAMP in TLA+

OpenAMP lets two cores of one chip, a *master* and a *slave* (also called
remote), exchange messages through shared memory and inter-processor
interrupts, and lets the master load and start the slave. This directory holds
TLA+ models of its library (`src/lib`) and of the programs and platforms around
it (`src/apps`), TLC configurations that check them on small instances, and
theorems that TLAPS proves for every instance.

Everything is modelled from the C sources; `PROJECT.json` maps each definition
to its lines. libmetal, power managers and file systems are outside the
repository and appear as interrupts, locks, and operations that may fail.

## 1. The system

| Part | Files | State | Operations | Used by |
|---|---|---|---|---|
| virtqueue | `lib/virtio/virtqueue.c`, `virtio_ring.h` | vring in shared memory (descriptors, available ring, used ring, event fields); per core a `struct virtqueue` with its indices and free chain | add, get, take, return, kick, enable/disable callback, notification | RPMsg |
| RPMsg transport | `lib/rpmsg/rpmsg_virtio.c` | buffer pool, two vrings, `rdev->lock` | init, send (with retry), receive callback | endpoints |
| endpoints, name service | `lib/rpmsg/rpmsg.c`, `rpmsg_virtio.c` | address bitmap, endpoint list, each endpoint's source and destination | create, destroy, send, announce, bind, unbind | applications |
| remoteproc virtio device | `lib/remoteproc/remoteproc_virtio.c`, `lib/virtio/virtio.c` | status, features and ids in the shared resource table | create vdev, negotiate, wait, init vring, create queues, notified | remoteproc, RPMsg |
| resource table parser | `lib/remoteproc/rsc_table_parser.c` | bitmap of notification ids | one handler per resource type | remoteproc |
| remoteproc life cycle | `lib/remoteproc/remoteproc.c`, `apps/examples/load_fw` | state (offline to stopped), `rproc->lock`, memory regions, power nodes | init, config, load, start, stop, shutdown, remove | programs |
| image loading | `lib/remoteproc/elf_loader.c`, `remoteproc_load*` | load state, header tables, the piece of the file at hand, target memory | load, load_noblock, parse headers, next segment, locate table | life cycle |
| RPC proxy | `lib/proxy/rpmsg_retarget.c`, `apps/examples/rpc_demo` | one pending call and its buffer; the service's flags | open, read, write, close, terminate, unbind, signal | libc stubs |
| platform code | `apps/machine`, `apps/system`, `apps/examples` | open devices, interrupt handler, mapped memory, polled word | init, create vdev, notify, poll, release, cleanup | all programs |
| libmetal | not in the repository | interrupts, mutexes, I/O regions | | all |

**How they interact.** A send takes a buffer from the pool or the used ring
under the lock, fills it without the lock, enqueues it under the lock and kicks
the peer's vring. The interrupt goes through `remoteproc_get_notification` and
`rproc_virtio_notified` to the virtqueue's callback, which drains the ring and
calls endpoints; these may send, create and destroy endpoints themselves. The
name service is an endpoint whose callback binds and unbinds others. All of it
is brought up by a handshake on a status byte in the resource table, which a
program reaches through `platform_init` and `platform_create_rpmsg_vdev`. After
that a program calls `platform_poll`, sleeps there until the handler of the
kick has set a flag, and its callbacks run inside it. The proxy waits for its
answer in the same way. The life cycle calls are used by another program, the
manager of a processor: it configures, loads, starts, stops and shuts it down.

**What is hard.** The two cores interleave on the vring word by word; indices
wrap; a consumer may go to sleep while an entry arrives; buffers pass through
five owners; an endpoint found under the lock is used after it was released;
announcements overtake destruction and re-creation; the slave busy-waits on the
master; every allocation and mapping in the handshake and in a load may fail
half way; the non-blocking load hands out an address to write to and lets go of
its lock; a start-up that fails must close what it opened, with the interrupt
already enabled; a service may disappear while a call waits for it. No
test in the repository runs two cores against each other in a chosen order.
`PROJECT.json` lists these places line by line under "hazards".

**What makes each part correct.**

- *virtqueue*: no assertion fails, every chain has one owner, no descriptor
  leaks, no wakeup is lost, every buffer moves on, and the whole is a pair of
  FIFO queues.
- *transport*: no buffer is lost or shared, an enqueue never fails, the data a
  callback looks at is stable, sends return, and the channel delivers in order,
  once and unchanged.
- *endpoints*: the bitmap is exact, services find each other, nobody stays
  bound to a dead endpoint.
- *start-up*: the slave meets a finished device, both agree on the features,
  both get through, no kick is lost.
- *loading*: a started processor has its whole image, only powered memory is
  written, every exit releases what was opened, the loops end.
- *life cycle*: a powered processor runs a whole image whatever failed, OFFLINE
  means off and unmapped, mapped memory is powered, unlocked writes hit it.
- *proxy*: a call is executed at most once and gets its own answer, a call that
  failed was not executed, no call waits for a service that is gone, and the
  service ends with the program.
- *platform*: no device is used unless it is open, both programs come up in any
  order, no message waits for a poll that never sees its kick.

## 2. Modules

| Module | Models | Extended by |
|---|---|---|
| `Virtqueue` | both sides of one virtqueue | `MCVirtqueue`, `VirtqueueProofs` |
| `VirtqueueAbs` | abstract: offered, held and returned buffers | refined by `Virtqueue` |
| `RpmsgVirtio` | transport on both cores, over abstract vrings | `MCRpmsgVirtio`, `RpmsgVirtioProofs` |
| `RpmsgChannel` | abstract: an ordered channel to each core | refined by `RpmsgVirtio` |
| `RpmsgEndpoint` | endpoints and name service, over abstract channels | `MCRpmsgEndpoint`, `RpmsgEndpointProofs` |
| `VdevStartup` | resource table ids, handshake, dispatch of notifications | `MCVdevStartup`, `VdevStartupProofs`, `PlatformBoot` |
| `PlatformBoot` | programs and platforms from boot to exit, over `VdevStartup` | `MCPlatformBoot`, `PlatformBootProofs` |
| `RemoteprocOps` | config, start, stop, shutdown and remove as functions of the state | `ImageLoad`, `RemoteprocLifecycle` |
| `ElfLoader` | the ELF parser as pure functions | `ImageLoad` |
| `ImageLoad` | both load functions and the program around them | `MCImageLoad`, `ImageLoadProofs` |
| `LcmPlatform` | memory maps and power nodes of the ZynqMP processors | `RemoteprocLifecycle` |
| `RemoteprocLifecycle` | an owner and a watchdog of one instance | `MCRemoteprocLifecycle`, `RemoteprocLifecycleProofs` |
| `RpcService` | abstract: calls executed at most once | refined by `RpcProxy` |
| `RpcProxy` | redirected calls, the service, and polling on both cores | `MCRpcProxy`, `RpcProxyProofs` |

The layers compose through the abstract specifications. `Virtqueue` implements
`VirtqueueAbs` (a FIFO of offered buffers and one of returned buffers), and the
rings `RpmsgVirtio` works on are exactly those two queues. `RpmsgVirtio`
implements `RpmsgChannel`, and the channels of `RpmsgEndpoint` are those.
`VdevStartup` ends in the state in which `RpmsgVirtio` begins. `RpcProxy` works
on the channels of `RpmsgChannel` too. `PlatformBoot` takes the steps of
`VdevStartup` as its own. `ImageLoad` and `RemoteprocLifecycle` share the calls
of `RemoteprocOps`; the first has the parser and one thread, the second two
threads and an image that is just the sequence of its segments.

### Virtqueue

One variable per field; names are the source's. The fields of shared memory are
grouped by the core that writes them. A call is cut at every access to memory
the other core uses, so `virtqueue_add_buffer` is `M_AddStart`, one `M_AddDesc`
per descriptor, `M_AddSlot` and `M_AddPublish`; `vq_ring_enable_interrupt` is a
store (`M_EnableCb`) and a second look (`M_EnableCheck`). Indices are modulo
`M` (65536 in the code) with wrap-around spelled out. VQASSERTs are guards that
halt the core, and `AssertionsHold` says that they never do.

`m_wait` and `s_wait` record that the caller found its ring empty and now
relies on its callback. `CallerCounts` (callers ask for at most `vq_free_cnt`
descriptors) and `Rearm` (callers enable the callback before they wait) are
duties of callers that the code does not check. Callers in `lib/rpmsg` fulfil
the first, since they only add single descriptors, and not the second.

### RpmsgVirtio

A context is a thread in `rpmsg_virtio_send_offchannel_raw`: an application
thread or the receive callback of a core. `Send`, `SendTooBig`/`SendSizeOK`,
`SendGotBuffer`/`SendNoBuffer`, `SendSleep`, `SendFill` and `SendEnqueue` follow
the function between lock and unlock. `TxSource` is the choice between the used
ring and the pool. The receive callback is `RxNotified`, `RxFirst` and `RxNext`.
A message that is too long for its buffer (`tx_big`) spoils the next one
(`Overrun`), as the copy would.

### RpmsgEndpoint

Two contexts per core, a thread and the receive callback; one step for what is
done under `rdev->lock`, another for what follows. Creating is `Create` and
`CreateDone` or `CreateFailed`; destroying is `Destroy`, `Farewell` and
`Unregister`; receiving is `RxTake`, then `RxData`, `NsCreate` or `NsDestroy`,
then `RxReturn`. In a callback the application may send, create or destroy. The
constants say what the applications do: `UnbindDestroys` (the servers
`rpmsg-echo` and `matrix_multiplyd` only set a flag in the callback and destroy
the endpoint when their loop ends, which `UnbindDestroys` = FALSE covers), and
one endpoint per name and core.

### VdevStartup

Each core has one thread; a step is one access to what the other core reads or
writes. Both parse the same table in shared memory (`Parse`), so the second
parser sees what the first one wrote. `Create` negotiates on the master and
sends the slave into its first busy wait; `InitVring`, `GetFeatures`,
`CreateVq`, `Fill` and `DriverOk` follow. `Fail` is a failed allocation or
mapping at any place where the code handles one; the vdev is removed and the
core starts over. `Interrupt` passes a latched interrupt on. `Deferred` and
`ByAny` say how a platform does so; in `apps/` all of them poll after start-up
and pass `RSC_NOTIFY_ID_ANY`.

### PlatformBoot

A core's program is `boot` outside `VdevStartup` and `pc` inside it. `OpenShm`,
`OpenKick`, `Enable`, `MapTable`, `CopyTable`, `MapShared`, `SetTable` and
`AllocVdev` are `platform_init` and `platform_create_rpmsg_vdev`; each may fail.
`Disable` and `Close` are the platform's remove, reached from
`platform_cleanup` and, when the resource table is refused, from `platform_init`
itself. A failed program is started again (`Restart`, external). Five kinds of
platform on three boards are records of what they differ in (`Kind`): devices and
their order, an interrupt or the polled word of `RPMSG_NO_IPI`, whether remove
disables the interrupt, whether the program copies its resource table over the
shared one.

A kick goes through three places: the latch of the interrupt (`irq`), which
outlives the program; the flag `nokick` (`kick`: it is clear), which the handler
clears whenever it runs (`Isr`), from the moment `Enable` has set the flag and
enabled the interrupt; and `Poll`, which sets the flag again before `Dispatch`
looks at the rings. So a kick taken during a start-up that then fails is lost
with the flag, and one not yet taken is not. `missed` is a history variable: it
is TRUE while the messages for a core are ones whose kick was lost like that.

`slot` is main's variable `platform`. All programs but `rpc_demod` leave it
uninitialised, and hand it to `platform_cleanup` also when `platform_init` has
failed (`NoPlatform`). A new process finds NULL or garbage in it, which is
nothing to remove or a crash, in either case the end of the program. On a
processor that was only reset the stack may still hold the pointer of an earlier
run. An instance that failed to initialise was zeroed and has no operations to
call (a crash again); one that `platform_init` removed has, and is removed a
second time (`remove_again`).

### ElfLoader and ImageLoad

`elf_load`, `elf_load_header`, `elf_next_load_segment` and the rest give the
value the C function returns and what it writes, for an image that is a record
of the fields of its headers. The packed load state is a record of its three
bit fields. `ImageLoad` takes one turn of a loop or one platform call per step:
`OpenImage`, `LoadHeader`, `LocateTable`, `LoadData`, `LocateLate`, `FinishLoad`
for `remoteproc_load`, and `NoblockOpen`, `NoblockCall`, `NoblockRefused`,
`NoblockStore` for the other function and the caller that stores its data.
Memory is kept unit by unit, so a segment written to the wrong place, or without
its padding, shows. A table pointer that is an error value ends in `crash` when
it is read or freed by the load function; that `remoteproc_get_rsc_table` frees
it as well (`remoteproc.c:131`) is taken to be survived. The properties accept
`crash` as an end, so they do not catch it.

### RemoteprocLifecycle and LcmPlatform

The calls hold `rproc->lock` from their first test to their last assignment and
are one step, except `remoteproc_load`, which holds it for one step per segment.
A streamed load is `Stream`, under the lock, and `Write`, without it. The owner
ignores results the way `load_fw` does; the watchdog stops or shuts down between
any two steps. `requests` and `releases` are the comparisons of the platforms'
mmap and shutdown with their `<`, `<=` and wrap-around; `Powers` and `Physical`
say what the hardware has. `remoteproc_remove` destroys the lock in any state.

### RpcProxy

Each core is a thread with a program counter (`pc`, and `poll` inside
`platform_poll`) and an interrupt that stays pending while it is masked.
`TestFlag`, `Wake`, `Drain` and `NextBuffer` are the loop of `platform_poll`.
Callbacks run in it: `NsCreate`, `ServerUnbind`, `ClientUnbind`, `RpcCallback`,
`ServeCall`, `ServeTerm`. `ClientUnbind` does what the code does with the
endpoint it is given, which is the name service's. A call is `Call`, `SendCall`,
`AwaitAnswer` and `TakeAnswer`. `Signal` is the service's SIGTERM handler.

## 3. Runs

| Run | Instance | States | Result |
|---|---|---|---|
| `vq_flags` | 2 descriptors, indices mod 4, 2 buffers, chains of 1 and 2, batches of 2 | 1.1 M | six invariants and `ImplementsQueue` hold |
| `vq_events` | the same with EVENT_IDX, single descriptors, `Rearm` | 2.4 M | `NoLostWakeup` holds |
| `vq_live` | 1 descriptor, indices mod 3 | 11 k | `EveryBufferMoves` holds |
| `rpmsg` | 2 entries, 3 buffers, a thread on the slave, both callbacks send | 83 k | invariants, `CallbackDataStable`, `ImplementsChannel` hold |
| `rpmsg_live` | 1 entry, 2 buffers, a thread on the master | 0.7 k | `SendsReturn`, `MessagesArrive` hold |
| `endpoints` | one service on both cores, two nameless endpoints competing for an address, 2 dynamic addresses, 3 messages under way | 0.7 M | `BitmapExact`, `UnboundAfterDestroy`, `ServicesMeet` hold |
| `startup` | ids 0, 1, 2 as in `apps/`, 2 failures, 2 messages | 0.9 k | handshake, `NoKickLost`, `StartupCompletes` hold |
| `platform` | all three boards, 1 failure, 2 messages to each core, any content of main's variable | 169 k | `DeviceUse`, `ComesUp`, `MessagesSeen` hold |
| `load` | images with and without a resource table, padding, a header that is not PT_LOAD, segments in and across banks; stores with and without seek; 2 failures | 6.9 k | `StartedComplete`, `WrittenPowered`, `LoadReleases`, `LoadEnds` hold |
| `lifecycle` | 3 processors, 7 images of one and two segments, any number of failures | 5.6 k | `RunsFullImage`, `OfflineClean`, `BanksPowered`, `WritesLand` hold |
| `proxy` | 2 calls, 2 sends that fail, 1 signal | 52 k | types, `ImplementsService`, `AnswerOrFarewell`, `ServerEnds` hold |
| `proxy_unbind` | 1 call, 1 signal | | `CallsReturn` violated, the finding below |

**Bounds.** Two descriptors are enough for a chain of two, for out-of-order
return, for a full and an empty ring; a modulus of four makes every index wrap
with all fill levels, while `M > N + 1` keeps the 16-bit property that full and
empty differ. Pool 3 with 2 entries has the pool run dry and buffers change
between the two rings. Batches of two make the event index lie before, between
and behind the entries of one kick. Two dynamic addresses with three endpoints
on the master make the bitmap full. Three messages under way let an announcement, a farewell and
data of two incarnations overlap. One retry tick stands for 15000: the loop has
the same exits. Payloads and buffers are symmetric (no action tells them
apart); symmetry is not used in the liveness runs. Banks of two units have a
first, a last and a neighbouring address, which is all the comparisons of the
platforms tell apart; the images of `lifecycle` lie in one bank, across two and
three, at the end of one, and in memory the platform does not map. Two failures
in `load` allow one in the blocking load and one in the non-blocking load after
it; `NextSegmentMask` = 4 counts the headers of every image, as 255 does in
the code. Two calls of the proxy let the answer of the first meet the second;
two failing sends are one on each side. One failure in `platform` may strike at
each of the places of either core; the programs are restarted, so that one core
boots while the other is up, and a second message can follow one whose kick a
restart has lost (two failures with one message hold as well). The types of `ImageLoad` and `RemoteprocLifecycle`
(`TypeOK`) hold in these instances as well; the runs leave them out, because the
other invariants say more about the same variables.

**Fairness.** `vq_live`: a core that is inside a call finishes it (weak); the
kick after an add, the delivery of a latched notification and the drain loop
are strong, because other calls of the same core disable them for a while and
the code comes back to them in each round. `rpmsg_live`: the same for contexts
contending for `rdev->lock`; endpoint callbacks return. `startup`: both cores
run and a latched interrupt is passed on in the end (weak); failures are
bounded, since a core that always fails never gets up. `platform`: both
programs run, are restarted after a failure and poll, and an enabled interrupt is
taken (weak); nobody has to send or to leave. `load`: the one thread goes on (weak); which images and how many
failures is open. `proxy`: both threads run and a pending interrupt that is not
masked is taken (weak); signals and failures need not happen.

**Deadlock** is checked except in `proxy`, `proxy_unbind` and `platform`, where
programs end. `ImageLoad` and `RemoteprocLifecycle` have an explicit end.

## 4. Findings

`proxy_unbind`: when the peer of an endpoint is destroyed,
`rpmsg_virtio_ns_callback` calls the endpoint's unbind callback with the name
service's endpoint (`rpmsg_virtio.c:479`). The proxy's callback destroys what it
is given, so the program loses its name service, its own endpoint stays, and
the call that waits for an answer waits for ever. What does hold is
`AnswerOrFarewell`: a call ends or the farewell has been received.

These constants and properties turn a passing run into a failing one and so
mark what the code leaves to its callers, or says and does not do. Each was
found with TLC by making that change in the configuration.

| Change | Property that fails | Why |
|---|---|---|
| `CallerCounts` = FALSE | `FreeChainLongEnough` | one free descriptor is tested for, whatever the chain needs (`virtqueue.c:120`, against the assertion at 440); no caller in `lib/` uses chains |
| `EventIdx`, not `Rearm` | `NoLostWakeup` | the event index goes stale |
| `Pool` = 3 with `NEntries` = 1 | `EnqueueNeverFails` | the master takes a fresh buffer while all descriptors are in flight (`rpmsg_virtio.c:146`) and meets its own assertion (349) |
| `WaitingSendBlocks` | itself | a send that should block returns at once on the master (`rpmsg_virtio.c:320`, against `rpmsg.h:141`) |
| `BigFrom` with the slave | `CallbackDataStable` | size check skipped while its ring is empty |
| the `Reuse` definitions of `MCRpmsgEndpoint`, `BmpSize` = 1, `ChanMax` = 5 | `UnboundAfterDestroy` | the address of a destroyed endpoint is reused at once (`rpmsg.c:30`) and a late message binds the new endpoint |
| `UnbindDestroys` = FALSE | `ServicesMeet` | a stale announcement suppresses the real one |
| `DestroyLost` = TRUE | `UnboundAfterDestroy` | result of the farewell is ignored |
| `ByAny` = FALSE | `NoKickLost` | the vdev has the id of its last vring (`rsc_table_parser.c:151`), whose kicks are dropped |
| `Deferred` = FALSE | `NoKickLost` | interrupt before the callback is set |
| `DriverOkLeft` = TRUE | `SlaveAfterMaster` | status of an earlier run |
| `RemovedOnce` | itself | `platform` is uninitialised when `platform_init` fails and goes to `platform_cleanup` (`rpmsg-echo.c:87,113`); after a reset it may point to the instance that `platform_init` has just removed |
| `MessagesSeenAnyway` | itself | a slave whose start-up fails (at its second vring, say) after its handler took the kick of the master's first message starts over with the flag set to "no kick" (`zynqmp_r5_a53_rproc.c:83`, `zynq_a9_rproc.c:69`): the message waits until another one is sent |
| `ComesUpAnyway` | itself | on rv64 both cores copy their table over the shared one; a slave that boots second erases DRIVER_OK (against `remoteproc_virtio.h:111-112`) |
| `Short` = TRUE | `StartedComplete` | a short read is returned as a positive number, which callers take for success (`remoteproc.c:486-490`, against `remoteproc.h:698`) |
| `NextSegmentMask` = 1 | `LoadEnds` | with as many headers as the bit field can count the search starts again |
| `NoblockComplete` | itself | `nlen` = 0 means the end to the caller (`load_fw.c:105`) and also a segment without bytes in the file, or a last header that is not PT_LOAD |
| `Exclusive` = FALSE | `WritesLand` | the region is unmapped between the call and the caller's write |
| `NodesReleased` | itself | shutdown compares physical with device addresses (`zynqmp_rpu_lcm_rproc_example.c:166-167`) |
| `MapsByDeviceAddress` | itself | the APU's mmap never sets the physical address, so every load on it is refused (against `remoteproc.h:388-389`) |
| `FarewellLost` = TRUE | `AnswerOrFarewell` | nothing else tells the client |

Met while reading, and not a property of a model: `ipi_dev` in the r5 platform
is not declared, so it compiles only with `RPMSG_NO_IPI` (modelled as meant);
the zynq_a9 remove disables another interrupt than init enabled;
`platform_create_rpmsg_vdev` leaks its vdev when the shared buffers are not
mapped; the Linux error paths without IPI leave devices open;
`rpmsg_rpc_send` returns the length of the request; `rpc->lock` is never taken;
`remoteproc_remove` destroys its lock also when it refuses.

## 5. Proofs

Each theorem has the form `Spec => []P` (`Spec => P` for a refinement), for every
value of the constants that meets the named assumptions of the module and the
condition in the last column. A condition is a formula about the constants; each
one holds in some run of section 3, and TLC evaluates those about images and
services (an `ASSUME` of the MC module). Where a condition fails, section 4 says what
the code does then.

| Theorem | Property | Condition |
|---|---|---|
| `VirtqueueProofs!TypeCorrect` | `TypeOK` | |
| `VirtqueueProofs!WakeupsReachWaiters` | `NoLostWakeup` | `EventIdx => Rearm` |
| `VirtqueueProofs!ChainsHaveOneOwner` | `OneOwner` | |
| `VirtqueueProofs!HeldBuffersStay` | `HeldIntact` | `CallerCounts` |
| `VirtqueueProofs!NoAssertionFails` | `AssertionsHold` | `CallerCounts` |
| `VirtqueueProofs!DescriptorsPartitioned` | `DescPartition` | `CallerCounts` |
| `VirtqueueProofs!VirtqueueImplementsQueue` | `ImplementsQueue` | `CallerCounts` |
| `RpmsgVirtioProofs!TransportTyped` | `TypeOK` | |
| `RpmsgVirtioProofs!EveryBufferConserved` | `BufferConserved` | |
| `RpmsgVirtioProofs!EnqueueAlwaysFits` | `EnqueueNeverFails` | `Pool <= 2 * NEntries` |
| `RpmsgVirtioProofs!CallbackReadsStable` | `CallbackDataStable` | `BigFrom \subseteq {Master}` |
| `RpmsgVirtioProofs!TransportImplementsChannel` | `ImplementsChannel` | `BigFrom \subseteq {Master}` |
| `RpmsgEndpointProofs!AddressesExact` | `BitmapExact` | |
| `RpmsgEndpointProofs!EndpointsTyped` | `TypeOK` | |
| `RpmsgEndpointProofs!UnboundOnceDestroyed` | `UnboundAfterDestroy` | `ServicesApart`, `~DestroyLost` |
| `RpmsgEndpointProofs!ServicesAlwaysMeet` | `ServicesMeet` | the same, and `UnbindDestroys` |
| `VdevStartupProofs!StartupTyped` | `TypeOK` | |
| `VdevStartupProofs!HandshakeOrder` | `SlaveAfterMaster` | `~DriverOkLeft` |
| `VdevStartupProofs!NameServiceAgreed` | `NsAgreed` | `~DriverOkLeft` |
| `VdevStartupProofs!KicksReachRings` | `NoKickLost` | `Deferred /\ ByAny` |
| `PlatformBootProofs!DevicesUsedWhenOpen` | `DeviceUse` | |
| `ImageLoadProofs!BanksPowered` | `WrittenPowered` | `ImagesFit` |
| `ImageLoadProofs!LoadAlwaysReleases` | `LoadReleases` | `SectionsApart` |
| `ImageLoadProofs!StartsComplete` | `StartedComplete` | `~Short`, `ImagesFit`, `ImagesRegular` |
| `RemoteprocLifecycleProofs!OfflineIsClean` | `OfflineClean` | |
| `RemoteprocLifecycleProofs!FullImageRuns` | `RunsFullImage` | `SegmentsApart` |
| `RemoteprocLifecycleProofs!BanksArePowered` | `BanksPowered` | `SegmentsApart`, `SegmentsWithin` |
| `RemoteprocLifecycleProofs!StreamedWritesLand` | `WritesLand` | the same, and `Exclusive` |
| `RpcProxyProofs!ProxyTyped` | `TypeOK` | |
| `RpcProxyProofs!ProxyImplementsService` | `ImplementsService` | |

*TypeCorrect.* `TypeOK` is not inductive: the counter of queued entries is
increased at the end of a call whose guard was tested at its start, and a local
is used as a ring slot. `CallInv` carries both facts through the calls.

*WakeupsReachWaiters.* `NoLostWakeup` speaks of a waiting side only. `WaitInv`
says that a side is armed from the store of its suppression field on (flags
enabled, or the event index equal to the index of the next entry it will look
at), and that while no notification is latched it has seen all entries but those
the other side added since its last kick. So the next kick crosses the event
index. The arithmetic modulo `M` is isolated in `IndexArithmetic`,
`SmallIndices` and `OneMore`. With flags, no assumption on callers is needed.

*ChainsHaveOneOwner.* A ring position is not enough to say where a chain is:
between taking an index and publishing it a call owns a chain no ring shows.
`OwnerInv` says that the slot a call claimed is the one of the index it moved or
is about to move, that two claims never have the same head (`OnePlace`), and that
the cookie of a descriptor is set exactly while some claim has it as its head
(`CookieKept`).

*NoAssertionFails, DescriptorsPartitioned, HeldBuffersStay.* `ChainInv` says that
there is an assignment of every descriptor to an owner and a position in its
chain that `next` follows link by link, with the free chain as one owner and the
half-built or half-freed chain of a call as another. The invariant quantifies
over the assignment, and each action gives the new one. `DescPartition` is
stated with `Walk`, a recursive function; that `Walk` visits the chain position
by position is shown with the least position where it would not, in place of an
induction. `CallerCounts` cannot be dropped: `virtqueue_add_buffer` tests for one free
descriptor only.

*VirtqueueImplementsQueue.* The refinement mapping reads the two FIFOs of
`VirtqueueAbs` off the rings through the cookies. `QueueInv` adds that no buffer
is in flight twice. `M_AddPublish`, `S_Take`, `S_ReturnPublish` and `M_Get` are the
steps of the abstract queue; every other action is shown to stutter.

*EveryBufferConserved, EnqueueAlwaysFits.* `OwnedInv` views the four queues as
one indexed family and the senders' and receivers' hands as another; two lemmas,
a buffer put last (`PutLast`) and a head taken, then serve every action.
`RingCount` counts: in each direction the buffers in the rings and the hands of
that direction, with the unused pool for the master's, are as many as at the
start. So with a pool of at most two rings a sender with a buffer in hand leaves
a free entry. With a larger pool it need not (section 4).

*CallbackReadsStable, TransportImplementsChannel.* `FitsInv` says that a message
larger than a buffer never gets past the check of the master, `FilledInv` that a
sender about to enqueue has its message in its buffer. Together with `OwnedInv`
no write of one context reaches a buffer that waits in a ring or that another one
reads. The slave skips the size check while its ring is empty, hence the
condition.

*AddressesExact.* `EptInv` adds that a call in its second half has its endpoint
registered, of its own core and not under another call, that every live dynamic
address has its bit, that every bit has a live owner, and that addresses differ.
The last needs that `rpmsg_get_address` returns a clear bit (`AddressIsFree`).

*EndpointsTyped.* The bound on the channels is the one conjunct that is not a
local matter: an announcement or a farewell is sent without asking for room.
`Traffic` adds to the messages under way those that calls and registered
services still owe (`Owed`); `Create` and `SendData` ask for that room.

*UnboundOnceDestroyed.* The property speaks of quiescent states, so the invariant
has to say what the messages under way will do. `Queue` is what a core has still
to act on: the message its callback holds, as long as that can bind somebody, and
its channel. `Bindings` says of every bound endpoint that the next farewell of
its service in that queue is for the address it is bound to, or that none is in
the queue and the other endpoint still stands at that address. `AllSaid` says the
same of every announcement and every data message, seen from its own place in the
queue, because each will bind somebody later. A farewell appended at the end
turns the second case into the first (`SoundFarewell`); a message at the front
that binds hands its own case on (`FrontBinds`); a farewell at the front finds the
endpoint it is for (`FarewellFinds`). The last needs that the list holds the
registered endpoints once each (`ListInv`) and what `First` returns (`Lookups`).
`ServicesApart` says that a core has one endpoint per name, with dynamic addresses
no other endpoint of the core ever gets: fixed ones, or `RPMSG_ADDR_ANY` when
nobody else can have the first bit (`FirstIsClear`). Section 4 shows what happens
when an address goes from one service to another.

*ServicesAlwaysMeet.* `Meeting` says of two registered endpoints of a service that
one of them is bound, or has an announcement due (`Heard`), or is about to be
announced (`Arriving`), or is on its way out (`Doomed`: inside a destroy, in the
unbind callback, or with a farewell due). `Keeps` says what a step may do to one
endpoint without regard to the other. It is here that an
application must destroy its endpoint in the callback: an endpoint that was
unbound and stays is neither bound nor doomed.

*HandshakeOrder.* `ShakeInv` says what the master has done at each place, that
DRIVER_OK implies the last one, that the slave is past its wait only with
DRIVER_OK, and that features are read when they are final. That a failing
master never runs with DRIVER_OK set is what makes it inductive.

*KicksReachRings.* `KickInv` says that both queues have their callbacks when they
are used and that a waiting message has its interrupt waiting too. A
handler that dispatched at once could consume an interrupt before the queues
exist, and one that passed the id of the vring on would lose those of the ring
that shares its id with the vdev; every platform of `apps` polls, and passes
`RSC_NOTIFY_ID_ANY`.

*DevicesUsedWhenOpen.* `BootInv` follows which devices each stage of boot,
failure and clean-up has open, and that an interrupt handler that reads a device
is registered only while it is open; the steps of `VdevStartup` change none of
it. Nothing is assumed of main's variable. `LeftInv` follows it, so that the
exception in `DeviceUse` is no wider than it is in the code: on Linux it holds the
instance only behind a `platform_init` that succeeded, and a second remove runs
only with the pointer to the instance.

*BanksPowered.* A write goes to a region, so `MemInv` says that every region's
nodes were requested when it was mapped. The segment may be longer than the
region only when file and memory sizes disagree or the range wraps: `ImagesFit`.

*LoadAlwaysReleases.* `FlowInv` ties the open store to the places of the
blocking function; `ParseInv` follows the parser, whose load state says which of
the header tables was copied, and that the piece of the file at hand is the one
the parser last asked for. `SectionsApart` is needed because `elf_load` takes a
piece that happens to hold the section headers for them.

*StartsComplete.* `PlaceInv`: every region is where `r5_rproc_mmap` puts it
(`Straight`); in the blocking function, every loadable segment up to the count of
the load state is in memory, byte for byte and zeroed behind (`BlockInv`); in the
non-blocking one, as long as nothing failed, so is every segment but the last
counted, which is the one the program was asked to fetch (`StreamInv`); and the
program starts a processor only from such a state (`StartInv`). The argument
rests on lemmas about the parser (`LoadMore`: no loadable header is skipped;
`HeaderLength`: a request for headers is never empty; `AskCounts`: a request for
data is for the segment just counted) and about memory (`WritePlaces`,
`WriteKeeps`, `TableKeeps`: a segment, the zeros behind it and the resource table
do not damage each other). `ImagesRegular` says that they lie apart, and that the
8 bits of the load state can count the headers. Why `~Short` is needed is in section 4.

*OfflineIsClean.* `OfflineClean` alone is not inductive: a load in progress could
map a region of an OFFLINE instance. `OffInv` adds that a load holds the lock in
a state that allows it, so that no shutdown falls between its segments.

*FullImageRuns.* `RunsFullImage` says nothing until the start. `LifeInv` follows
the load: as long as the owner may still write, every region has the physical
address of the hardware (`Regions`: a mapping that got none leads to a shutdown,
which drops it), the segments before the current one are in place (`Loaded`; in a
streamed load only while the state is still READY, because a watchdog that shut
down in between leaves a state from which `remoteproc_start` refuses), and the
processor is off. `SegmentsApart` is needed because the platform of the
real-time cores takes the first address behind the tightly coupled memory for
part of it, and a region that reaches beyond its end would be found for segments
that are elsewhere. The theorem does not need `Exclusive`.

*BanksArePowered.* A mapping requests a node for every address of its range
(`RequestsCover`, the comparisons of all platforms against `Powers`), and nodes
are released only when all regions are dropped. `SegmentsWithin` excludes the
ranges for which the first half is false: across the end of DDR or the start of
on-chip memory, and up to the last address, whose end wraps to 0.

*StreamedWritesLand.* `WriteMapped` is kept by every step but the watchdog's
shutdown. TLC evaluates both assumptions on the images of the `lifecycle` run.

*ProxyTyped, ProxyImplementsService.* A client that gave up, or was interrupted
by a signal inside a call, must not get the answer of another call. `Ledger`
says that at most one call or answer is under way, that it is the last call's,
that a call under way has not been executed and one with an answer has been once,
that the client is released only by the answer to its own call, and that later
calls have neither been executed nor answered. Four actions (issue, execute, answer, fail) are steps of
`RpcService`; the others are shown to be `Bookkeeping`.

**Only model-checked.** Liveness (`EveryBufferMoves`, `SendsReturn`,
`MessagesArrive`, `StartupCompletes`, `ComesUp`, `MessagesSeen`, `LoadEnds`,
`AnswerOrFarewell`, `ServerEnds`): fairness is out of the prover's reach. Every
invariant and every refinement of the runs is proved.

## 6. Not modelled

- *Weak memory.* Memory is sequentially consistent, so misplaced fences and
  cache maintenance do not show.
- *virtqueue*: `virtqueue_free`, `virtqueue_dump`, indirect descriptors.
- *transport*: the endpoints `rpmsg_deinit_vdev` destroys (the call itself is in
  `PlatformBoot`), devices without the name service feature.
- *remoteproc virtio*: the configuration space, device reset, several vdevs,
  the uninitialised entries of `vrings_info`.
- *resource table*: header checks, carveouts, traces and vendor entries.
- *life cycle*: suspending, which is only a state (`RPROC_SUSPENDED`) no code sets.
- *image loading*: decoding of 32 and 64 bit fields (plain data conversion; the
  fields appear as numbers), other image formats (there are none).
- *RPC proxy*: what the file system does, `rpmsg_set_default_rpc`, several
  threads in one client, the SIGHUP handler of `rpc_demod`, and a signal handler
  that takes a lock its own thread holds.
- *platforms*: the generic Linux machine, which has no resource table and no
  kick; processes and shells that start programs; what a wild pointer in
  `platform_cleanup` does beyond ending the program.
- *applications*: `echo`, `matrix_multiply` and the tests appear only as callers
  that send, receive, create and destroy; their checks of payloads are left out.
- *libmetal*: not in the repository.

## 7. Plan

Done, in order of importance: virtqueue, transport, endpoints, start-up, image
loading, life cycle, RPC proxy, platforms.

Left: `rpmsg_deinit_vdev` in `RpmsgEndpoint`, and the other handlers of the
resource table parser.
