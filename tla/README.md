# ixmap in TLA+

A specification of ixmap, a user-space packet forwarder for the Intel 82599,
with the model checks (TLC) and proofs (TLAPS) that go with it. All paths below
are relative to the repository.

    tlc -workers 2 -config MCDataPlane_local.cfg MCDataPlane   # any run of PROJECT.json
    tlapm DataPlaneProofs.tla                                  # any proof module

`PROJECT.json` lists the components, the runs with their properties, the source
lines every definition stands for, the hazards and the theorems.

## 1. The system

ixmap has three parts. The **kernel module** (`kmod/`) owns the PCI device: it
probes it, exports registers and DMA memory through `/dev/ixmapN`, and turns
interrupts into eventfd signals. The **library** (`lib/`) maps these into a
process, sets up rings and buffers and drives them. The **stack** (`src/`) runs
one thread per core; each has its own RX and TX ring on every port, its own
buffers, its own memory arena and its own copy of the routing tables, so threads
share nothing but the device.

| component | state | operations | interacts with |
|---|---|---|---|
| rings and buffers, `lib/driver.c` | `next_to_use`, `next_to_clean`, tail register, descriptors, `slots` | `ixmap_rx_assign`, `ixmap_rx_clean`, `ixmap_tx_assign`, `ixmap_tx_xmit`, `ixmap_tx_clean`, `ixmap_slot_*` | the NIC, which completes descriptors at the same time |
| forwarding, `src/forward.c` | none of its own | drop, send to a port, write to a TAP interface | rings, FIB, neighbours |
| event loop, `src/thread.c`, `src/epoll.c` | the epoll set, `events`, `i` | one handler per kind of event | eventfds, TAP, netlink, signals |
| interrupt path, `kmod/ixmap_main.c`, `lib/driver.c` | cause and mask bits, eventfd counters | `ixmap_interrupt`, `ixmap_irq_unmask_queues` | the NIC, the event loop |
| buddy allocator, `lib/memory.c` | tree of `ixmap_mnode` | `ixmap_mem_init`, `_alloc`, `_free`, `_destroy` | FIB and neighbour tables |
| FIB, `src/fib.c`, `src/lpm.c` | nodes, lists of entries, refcounts | `fib_route_update`, `fib_route_delete`, `fib_lookup`, `fib_release` | netlink, forwarding, allocator |
| neighbour table, `src/neigh.c`, `src/hash.c` | hash lists | `neigh_add`, `neigh_delete`, `neigh_lookup` | netlink, forwarding |
| netlink, `src/netlink.c` | none of its own | apply one message | kernel tables, FIB, neighbours |
| TAP, `src/iftap.c` | file descriptors | open, configure, read, write | event loop |
| life cycle, `src/main.c`, `src/thread.c` | threads, signals | start, unwind, stop | everything |
| device handle, `lib/ixmap.c` | mappings, eventfds | open, map, allocate, release | kernel module |
| kernel module, `kmod/` | adapters, refcount, semaphore, DMA areas, MSI-X vectors | probe, remove, open, close, ioctl, mmap, up, down, reset | the device |

**What is hard here.** The NIC runs between any two instructions of the thread
and is told what it may touch only by one tail register; completion is one bit
per descriptor that has to be reset on every lap. Interrupts are one-shot: a
queue is masked when it fires, and is unmasked by the thread after it has read
an eventfd, with packets completing in between. The loop over events calls
handlers that block. Routes are spread over thousands of lists in tables that
come and go, from an allocator that can fail half-way. `main` acquires dozens of
things in a row, any of which can fail while threads already run on the earlier
ones; the process can be killed, and the device removed, at any point. Two ports
of one NIC and its firmware share locks that are taken away from whoever is slow.

**What makes each part correct.** Rings: indices in order, no stale done bit,
nothing rewritten that the NIC owns, everything queued gets published. Buffers:
one owner each, none lost. Event loop: a masked queue is unmasked again, a
completed descriptor has a wakeup to come, everything readable is read.
Allocator: no overlap, full coalescing, a free piece that fits is found. FIB:
longest prefix match, exact refcounts, no empty tables, failure without effect.
Netlink: what a thread knows is what the kernel has, up to the messages it has
not read. Kernel module: one process per device, an idle device is down, the NIC
writes only to memory that is mapped, DMA areas disjoint and none forgotten.
Life cycle: a running thread has everything it works with; nobody waits for an
answer that does not come. Semaphores: one holder, no bit left behind, a lock
held by someone that hangs is broken.

## 2. The modules

    DescRing <- DataPlane <- DataPlaneProofs      EventLoop <- EventLoopProofs
                    ^                                 ^
                MCDataPlane                       MCEventLoop

    Memory <- MCMemory, MemoryProofs    RouteTable <- Fib <- MCFib, FibProofs
                                            ^
    Swfw <- MCSwfw, SwfwProofs          Netlink <- MCNetlink, NetlinkProofs

    Adapter <- Lifecycle <- MCLifecycle
                  ^
               LifecycleProgram <- LifecycleProofs

### DescRing, DataPlane

`DescRing` has the arithmetic of a ring: the next index and
`ixmap_desc_unused`, and what it means for four indices to be in order.
`DataPlane` is one thread with all its rings and buffers, and the NIC.
The variables have the names of the C fields; `head` is the NIC's position and
`dd` the done bits. `pc` says which function the thread is in, and every
iteration of a loop in `lib/driver.c` is a step of its own because the NIC may
complete a descriptor between two of them (`NicComplete`). Which handler runs
next is open (`RxEvent`, `TxEvent`, `TunDrop`, `TunSend`): the order is the
event loop's business, and leaving it open covers every order. The route of a
packet is open too: `ForwardDrop`, or `ForwardSend` to a port of `Egress`.
A packet is no more than the buffer it is in.

`ForwardSend` keeps what the code does after `ixmap_tx_assign`: it falls through
to `packet_drop` and releases the buffer.

### EventLoop

`thread_wait` with its epoll set, the interrupt path of the NIC and the kernel
module, the TAP interfaces, the netlink socket and the signal. Rings are counts
here. `pc` goes from `epoll_wait` over `dispatch` to `read` and `unmask`: the
points between which the NIC and the kernel matter. `i` is the C variable that
serves both as index into `events` and as loop variable over the ports, so after
a handler with such a loop the next index is `NumPorts + 1`
(`NextEventAfterPorts`). `events` keeps what epoll returned before, as the C
array does. `rdllist` is epoll's ready list for level-triggered descriptors.
Reads of an eventfd at zero and of an empty TAP descriptor block. `left` is a
history variable that no guard reads: what the last handler of a queue left in
the ring because its budget was used up. The code gives such packets no wakeup
of their own, so the properties are about the completions since then.

### Memory

The buddy allocator, on a tree whose nodes are numbered like a heap. A call is
one step. `AllocFrom` is the recursive search, `AllocAt` one call of
`_ixmap_mem_alloc` in it, with `Take` and `Split` for its two branches; a split
can fail on either child, and what the error path keeps and overwrites is in
`cut`. `Fresh(n)` says that this call has made `n` itself.
`Coalesced` and `Released` are the way up in `_ixmap_mem_free`. Any set of splits
may fail in a call; `twice` is a history variable that records that two did, after
which the code no longer keeps pieces apart (section 3). Once the same memory is
really in use twice (`Overlapping`), its owners overwrite the header from which
`ixmap_mem_free` takes the node, and the model goes on only with the destruction
of the arena.

### RouteTable, Fib

`RouteTable` is the abstract promise: a set of routes. `Fib` is the code: nodes
named by address bits, `list[n]` the entries of a node, `table` the nodes with a
`next_table`, `ref` the refcounts. `fib_route_update` is split by outcome:
success, the route exists, no memory for an entry, no memory for a table. The
loops over the range of a prefix are sets of nodes; where a loop stops early
(`StopAt`, `DeleteMissing`) the nodes before the stop are the ones with smaller
index. If a `fib_entry` is freed twice, or freed while still listed, `fault` is
set and the behaviour ends: from there on the C program is undefined. A failure
of the very first allocation, of the `fib_entry`, changes nothing and has no
action.

### Netlink

The kernel's routes and neighbours, the socket of one thread, and
`netlink_process` with both its handlers. The kernel side is external: it is
modelled by the messages the code in `src/netlink.c` is written for. The FIB is
used through `RouteTable`, which `Fib` implements (run `fib`), the neighbour
tables are the buckets of `src/hash.c`. Routes are kept apart in the kernel by
table and metric and in a thread by prefix and ifindex only, so `Route` has both.
`astray` and `early` are history variables: keys of which the kernel was changed
in a way the code does not follow (a replaced route, two routes with one key, a
neighbour whose address changed or whose resolution failed, a message there was
no memory for), and of routes older than the socket, since there is no dump. They
say for which keys nothing is promised; the invariants are about all others. An
overrun of the socket (`ReadError`) ends the thread.

### Adapter, Lifecycle

`Adapter` is the kernel module. The semaphore of an adapter is held during every
command, so a command is an operator from an adapter record to an adapter record
(`cmd_up`, `dma_map`, `irq_assign`, ...); probe is three steps because it takes no
semaphore and other adapters are probed meanwhile; `ixmap_remove` takes none
either, and does not look at the refcount. An adapter knows which memory the
rings it was programmed with are in (`ring`) and whose buffers the NIC was given
(`posted`): what the NIC may write to.

`Lifecycle` is the processes. `main` with the library calls it makes is a
straight line, so the program is a sequence of steps (`Startup`), and the three
ways back are sequences too: `ReleaseOrder` from `err_assign_cores` to the end,
and `Unwind`, what the labels of the failed call, of the iteration and of `main`
release: the parts of `ReleaseOrder` (`Only`) that are about what is held. `held` is what a process has; an action takes the next step and changes
the adapter and `held` together. How the details correspond:

* A step fails before or after its effect: `FailStep` before it, and
  `AcquiredOrFailed` where the call that has the effect is followed by another
  that may fail (the slot index after a ring is mapped, `smp_affinity` after an
  eventfd is registered). Steps that no other process or the kernel sees
  (`Private`) only move on. Failures before the first device file is open leave
  no trace and have no action.
* When the rings of `ixmap_open` cannot be allocated, `munmap` is called with a
  `bar_size` that is still 0: the mapping keeps the file open until the process
  exits, and `Unwind` releases it last.
* `pthread_create` reports errors by positive numbers, and
  `ixmapfwd_thread_create` tests for negative ones: creation never fails
  visibly.
* SIGINT before `ixmapfwd_set_signal` has blocked it kills the process, which is
  `Crash`; afterwards it is pending for `sigwait` (`Interrupt`). A thread ends by
  itself or because of SIGUSR1, and sends SIGINT to `main` in both cases
  (`ThreadEnd`).
* `Crash` keeps the areas and their pages: the kernel closes the files, and
  `ixmap_close` does not unmap. `lost` records them for `NothingLeaks`.
* An adapter that is removed leaves its open files with a dangling pointer
  (`Freed`); an adapter whose MSI-X setup failed is up without vectors. A command
  that uses either is a `Fault`, after which only `Reboot` is possible: the kernel
  has used freed memory, and anything may follow.
* `ixmap_down` resets the NIC unless the PCI channel is offline; the reset
  disables all queues before anything in it can fail. An offline channel is not
  modelled. Register writes through the mapping of a removed device reach no
  adapter. `NumCores` is at most 16, the queues the kernel module grants.

### Swfw

`ixmap_acquire_swfw_sync` and `ixmap_release_swfw_sync` with the semaphore below
them, one access of `SMBI` or `GSSR` a step, for the drivers of the two ports of
an 82599 and its firmware. `SMBI` is taken by reading it, `SWESMBI` only if the
firmware has not its own: a try, which sets the bit and reads it back, is one
step, and the last one that fails gives `SMBI` back too. `GSSR` is read and
written back as a whole. One of the three may
hang for good at any point (`hung`). Time is modelled by what it means: a try
counts towards a time-out only when whoever is in the way hangs, because the
time-outs (100 ms for the semaphore, 1 s for a lock) are far longer than a
working holder needs. A driver that is merely that slow is outside the model.

## 3. The runs

| run | instance | shows |
|---|---|---|
| `dp_ports` | 2 ports, 2 descriptors per ring, 1 buffer | `TypeOK`, `NoSlotLeak`, `PublishedBeforeSleep` across ports |
| `dp_local` | 1 port, 3 descriptors, 3 buffers, budget 2, no egress | `RingOrder`, `NoStaleDone`, `SlotExclusive`, `NicDescStable` |
| `dp_release` | 1 port, 3 descriptors, 2 buffers, egress | **violated**: `TxCleanReleasesUnused` |
| `el_irq` | 1 port, all kinds of events, RX budget smaller than the ring, 16 events | `TypeOK`, `MaskedIsServed`, `NoLostWakeup` |
| `el_live` | 1 port, interrupts only, RX budget 2 of 4 descriptors, TX budget 3 of 3 | `RxServed`, `TxServed` |
| `el_shared` | 1 port, all kinds | **violated**: `NetlinkServed` |
| `mem` | arena of 9 units, requests of 1, 2, 3, 5, up to two failing splits in every call | `NoOverlap`, `BuddyPresent`, `MarkedIffUsed`, `FullyCoalesced`, `FitIsFound` |
| `fib` | 1 + 2 + 2 address bits, ten routes, one failing allocation | `LookupLongest`, `RefcountExact`, `NoEmptyTable`, `RefusedAsMeant`, `Refines`, `RouteMeant`, `FailedUpdateHarmless` |
| `netlink` | 1 port and an interface that is none, 4 routes, 4 neighbours, socket for 2 messages, 4 changes, memory may fail | `TypeOK`, `RoutesFollow`, `NeighsFollow` |
| `netlink_stale` | the same, memory never fails | **violated**: `RoutesSynchronized` |
| `device` | 2 processes, 2 adapters, 2 ports, 2 cores, 4 huge pages, 1 mishap per boot | `OneOwner`, `IdleIsDown`, `ThreadBacked`, `NicTargetsMapped`, `InterruptsHeard`, `AreasOrdered`, `RingsApart`, `NothingLeaks`, `FaultHasCause`, `WaitIsAnswered` |
| `swfw` | 2 drivers, 2 locks, 2 tries, one of the three hangs | `Exclusive`, `NoOrphanBit`, `StuckIsBroken` |

The types of `Memory`, `Fib`, `Swfw` and `Lifecycle` are checked with
`BuddyPresent`, `RefcountExact`, `NoOrphanBit` and `OneOwner`.

**Bounds.** Three descriptors are the fewest for which a ring is empty, partly
filled and full (two used, one gap) and its indices pass one another; three
buffers are fewer than the descriptors of both rings, so `slot_assign` fails
too. `dp_ports` needs two ports and little else, because the question is which
port's tail is written. In `EventLoop` one port already gives four descriptors plus the signal,
enough for events to be skipped and repeated; `QueueBound` caps packets waiting
in a TAP interface and messages in the socket. The arena of 9 loses a unit when
halved and has three generations of nodes. The FIB instance has one prefix or
more of every length, nested along one path and beside it, so that every table
is shared, and two routes that differ only in the id and two that differ only in
the nexthop. `MaxFail` bounds failing allocations, in total in `Fib` and per call
in `Memory`, where two in one call are the fewest that break something and the
theorems have no bound. The budgets of `el_live` are as `main.c` ships them in
relation to the rings: for RX smaller (1024 of 4095), for TX covering. In `Netlink` the
routes include two that exclude each other, two with the same key and one via no
port, the neighbours two in one bucket, one address on two interfaces and a
family that is ignored; four changes are two more than the socket holds. In
`Lifecycle` two cores let one fail to start while the other runs, and two ports
let the device of one be removed while the other stays; four pages are exactly
what a process needs, so the one after a killed process meets the pages that are
left pinned, and runs out of them. The
address of the registers lies between the pages, so areas go in before and
behind it. `MaxMishap` bounds kills, removals under a process and MSI-X failures
between two reboots; failing calls are not bounded. With one core, three
pages and two mishaps the invariants hold as well (change `MCLifecycle.cfg`). Processes and adapters are
symmetric. `Tries` and `SemTries` are the shortest loops that retry and that give
up; a try that does not count is unbounded.

**Deadlock** is checked except in `EventLoop`, where the thread may exit or
block; in `fib`, where the behaviour ends with a fault; in `Netlink`, where it ends
with the thread; and in `Swfw`, where a driver may wait for one that hangs.

**Fairness** (`FairSpec` of `EventLoop`): weak fairness of the thread, which has
a core of its own, of the NIC sending what it was given, and of the delivery of
an unmasked interrupt. Nothing is assumed about arrivals. `FairSpec` of `Swfw`:
weak fairness of a driver that does not hang, which is kernel code that runs, and
strong fairness of its taking `SMBI`, which it polls every 50 us while whoever has
just had it sleeps for milliseconds. Nothing is assumed about the firmware.
`Lifecycle` has no fairness; `WaitIsAnswered` is the safety form of "main and the
threads end": whoever waits has what it waits for pending.

### What the violated runs show

* `dp_release`: a forwarded packet's buffer is released at once
  (`src/forward.c:85`) and again when its transmission is cleaned
  (`lib/driver.c:305`), by which time it may be receiving another packet.
* `el_shared`: after an RX, TX or TAP event the loop over events continues at
  index `num_ports + 1`; an event there is handled again and its handler blocks.
* `netlink_stale`: a route whose nexthop is replaced is announced by
  `RTM_NEWROUTE` alone; `fib_route_update` refuses it (`src/fib.c:138`), nobody
  looks at the result, and the old nexthop stays in use.

### Limits that hold in the model and are worth knowing

* If both halves of a node just made fail to split in one call of
  `ixmap_mem_alloc` (`MaxFail = 2`), the call fails and leaves the node free with
  two children. A larger request takes the node whole, and a small one then goes
  below it and gets a piece of the same memory. The run has this case; `NoOverlap`
  and `FullyCoalesced` are stated for the time before two splits fail in one call
  (`~ twice`; without that TLC finds both violated), `BuddyPresent` until memory is
  in use twice, `MarkedIffUsed` and `FitIsFound` without a condition.
* If memory for an `lpm_entry` runs out after the first node of a range, `Fib`
  sets `fault`: for prefixes longer than 16 the entries stay
  (`entry_allocated` is never counted in `_lpm_add`) and refer to a freed
  `fib_entry`; otherwise the rollback frees it and `fib_route_update` frees it
  again. `LookupLongest` is stated for the time before.
* `RxServed` and `NoLostWakeup` speak of the packets received since the last
  handler. With the shipped budget (1024 of 4095 descriptors) packets may be left
  in the ring after their interrupt is used up; they wait until another one
  arrives. `TxServed` says more, that all packets sent are taken back, since the
  TX budget covers the ring.
* An RX ring is refilled only at start and by TX interrupts
  (`src/thread.c:178`): a core that never sends empties it and receives no more.
* The orderly end of `main` unmaps the buffers before `ixmap_close` resets the
  NIC, so `NicTargetsMapped` is stated for the time before the release, and for a
  process that is killed before it.
* `whereto` does not notice a new area that encloses an old one. No mapping the
  library asks for does, so `AreasOrdered` holds for them.
* If the firmware hangs in its semaphore, two releases that both write `GSSR`
  without it may undo each other (`SemaphoreLost`).
* With more events than `NumPorts + 1` an event may be handled again without being
  signalled, and its read can take away a signal that came after the handler. No
  wakeup is lost even then, because the same loop handles the queue once more
  (`HandledAgain`); but until then its reads can block (`el_shared`).

## 4. The proofs

`DataPlaneProofs` starts with the facts about index arithmetic the rest uses and
proves, for any number of ports, any ring sizes and budgets
and any number of buffers: `TypeOK`, `RingOrder`, `NoStaleDone`,
`PublishedBeforeSleep`, `NicDescStable`, `NoSlotLeak`, and `SlotExclusive` when
nothing is forwarded (`Egress = {}`). The inductive invariant `RingInv` adds to
the order of the indices how much of each ring is filled but not yet published
at each point of the program: `tx_suspended` counts it for TX rings
(`TxPending`), the loop counter of `ixmap_rx_assign` for RX rings (`RxPending`),
that loop never runs past the free descriptors (`AllocBound`), and the loop of
`ixmap_tx_xmit` over the ports has published those behind it (`XmitProgress`).
None of the properties is inductive without these: the order of the indices
depends on how much may be filled, and that on the counters.

`EventLoopProofs` proves `TypeOK`, `MaskedIsServed` and `NoLostWakeup` for any
number of ports and events and any sizes and budgets. The inductive invariant
`IrqInv` has `InLoop` (the index stays inside `events` although handlers overwrite
it), `ReadDone` and `RingCapacity`. `WakeInv` adds what `NoLostWakeup` needs: an
event that is handled for the first time is signalled, so that the read after its
handler never takes away a signal that came later (`EventsSignalled`), and an event
behind index `NumPorts + 1` is reached only past events that do not throw the index
back (`OnTheWay`), so that it is reached again.

`NetlinkProofs` proves `TypeOK`, `RoutesFollow` and `NeighsFollow` for any
routes, neighbours, hash function and length of the socket buffer. Neither of the
last two is inductive: they speak of keys about which no message is waiting, and
say nothing of the others. The inductive invariant `IInv` follows each key through
the socket instead (`RouteChain`, `NeighChain`): the value the thread has, the
messages about the key in the order of the buffer and the value the kernel has are
a chain in which each is where the one before leads. A change in the kernel adds a
link at the end and `netlink_process` takes one away in front; without messages
the chain is one link, which is the property. `Buckets` (a neighbour is only in
the bucket of its hash) and `OnePerKey` (the kernel has one route for a followed
key) make a look-up and a delete find what the chain is about.

`SwfwProofs` proves `Exclusive` and `NoOrphanBit` for any number of tries, locks
and operations. The inductive invariant `Inv` has, besides the types and loop
counters, who may be inside the semaphore and who hangs there (`Semaphore`,
`Hangs`), that a copy of `GSSR` that is about to be written back is not stale
unless the firmware hangs in its own semaphore (`Fresh`), whose bit each set bit is (`SwBits`, `FwBits`), that a lock is broken only
if its holder hangs (`Breaks`), and that no two are past the test for one lock
(`Apart`). The interesting part is `Fresh`, since `SMBI` is ignored and cleared
after a time-out: with one of the three hanging at most, the one who breaks in is
the only one who writes. This needs the two functions an 82599 has: TLC shows that
with three drivers two of them can break the semaphore of a third at the same
time and lose an update, so `SwfwAssumption` says that there are two at most.

`FibProofs` proves for any strides, address length and set of routes that `Fib`
implements `RouteTable` (`Refines`), and `RefcountExact`, `NoEmptyTable`,
`LookupLongest`, `RefusedAsMeant`, `RouteMeant` and `FailedUpdateHarmless`. That
an update is refused, and a delete finds its route, exactly if it is there is the
invariant `RefusedAsMeant` and not part of the action property `RouteMeant`, since
a call that is refused changes nothing. The inductive invariant
`IInv` says that the tables are exactly the ones some entry needs (`Tables`), that
a refcount is the number of lists an entry is in (`Counts`), and until a fault that
an entry is in all nodes of its range or in none (`Whole`), once (`Distinct`), and
in the order `lpm_add` keeps (`Lists`). `Whole` is what the code relies on
everywhere and never tests: `fib_route_update` looks at the first node of a range
only. From it follows that removing an entry from the nodes of its range removes
it, and that the deepest node with an entry on the way of an address has the
longest prefix. The deepest node is obtained by `MaxExists` from the well-founded
order of the naturals, not by induction on the data.

`MemoryProofs` proves `NoOverlap`, `BuddyPresent`, `MarkedIffUsed`,
`FullyCoalesced` and `FitIsFound` for an arena of any size, any set of requests and
any number of failing splits. The inductive invariant `IInv` has two parts.
`AnyInv` holds whatever fails: every mnode has a parent in the tree (`Rooted`), the
marks are exactly the nodes in use and those above them (`Marks`), and a marked
node has a buddy (`Paired`). `Inv` holds until two splits fail in one call: a node
of the tree other than the root has a marked parent and a buddy (`Shape`), and a
node in use has no children (`Leaves`). `Shape` is stronger than `BuddyPresent`: no
free node has children, which is what two failures in a call break, and what makes a
node that is taken whole a leaf. Two pieces do not overlap because neither node is
above the other
(`Antichain`) and the memory of a node lies inside that of the nodes above it
(the lemmas on `Size` and `Ptr`). The search and the walk up are recursive
functions on node numbers. `HalvingDefined` and `DoublingDefined` show that they
exist (a parent has a smaller number, a child a larger one), and `FromRoot` and
`FromLeaves` give induction for one set of nodes at a time, from the least element
of its complement instead of from the library's theorem with an operator parameter.

`LifecycleProgram` says what the program of `main` is for any number of ports and
cores: which steps `Startup` and `ReleaseOrder` consist of, each once, which of
them come before which (`Chain`), and that every part of `Unwind` keeps the order
that matters. `LifecycleProofs` then proves all invariants of the run `device`,
for any number of processes, devices, ports, cores, huge pages and mishaps, in six
layers, each of which uses the ones before it.

1. `ProcInv` (`LifecycleHeld`): on the way up a process holds exactly the resources
   of the steps it has passed. On the way down it holds what is still to be
   released, this is closed under "depends on" and ordered by it (`Where`,
   `Closed`). This is where a wrong `goto` would show: the theorem covers the
   failure of every call at every port and core. Threads, pages and files are
   there as long as they are held (`Handles`).
2. `SignalInv`: a thread that ended has left `main` a SIGINT; a thread not joined
   yet is still to be signalled, was signalled or has ended. Hence
   `WaitIsAnswered`, which only looks at the moment of waiting.
3. `DeviceInv`: an adapter is in one file at most and its refcount tells whether
   it is open (`OneFile`, `Kept`), and how far it is brought up agrees with the
   place of its process in the program (`Powered`). Hence `OneOwner`,
   `IdleIsDown` and `InterruptsHeard`, and with `CauseInv` `FaultHasCause`.
4. `AreaInv`: the list of areas is sorted, what is in it is accounted for, what a
   process holds is in it, no page is mapped twice, the pages of killed processes
   are pinned (`Listed`, `Backed`, `PagesApart`, `LostPages`). `AreasOrdered` is not
   inductive alone: `ixmap_dma_area_whereto` does not notice a new area that
   encloses an old one, so a sorted list does not stay sorted for an arbitrary
   request. It does because what the library maps are rings at different offsets of
   one page or whole pages, and pages are not shared, including pages a killed
   process left pinned. Hence `AreasOrdered`, `NothingLeaks` and `ThreadBacked`.
5. `TargetInv`: what the NIC was told agrees with the memory of the process that
   told it, and for a killed process it stays mapped until the file is closed.
   Hence `NicTargetsMapped`.
6. `RingInv`: the device files of bound adapters have different names and a file of
   port `i` is one of the adapter with id `i` (`NamesApart`, `NamesRight`); an
   adapter that is down has no rings (`DownNoRings`); two processes that have come
   as far as mapping a ring are never on each other's ports (`NoRivals`); rings are
   programmed only where `main` has written the registers (`Written`), and those of
   one process are in one huge page per core, also when it has unmapped the pages
   again (`Placed`). Since `main` writes no register before every port is open, only
   one process has rings programmed, so comparing the areas of one adapter is
   enough. Hence `RingsApart`; `RunsCounted` counts the cells of disjoint runs by a
   bijection.

The assumptions are the `ASSUME`s on the constants, which TLC evaluates in every
run. Most say that a constant is a positive number or a set of the right kind. The
others: the two functions of `Swfw`; that a neighbour is identified by family,
interface and address (`Netlink`), which is the kernel's key; that the address
bits fill whole tables and no prefix is longer than an address (`Fib`); and in
`Lifecycle` that a TX ring is not longer than an RX ring, that the rings of all
ports fit into a huge page and that huge pages do not overlap the address of the
registers.

**Model-checked only.**

* Liveness (`RxServed`, `TxServed`, `StuckIsBroken`) and the absence of deadlocks,
  which are outside the prover.

## 5. Plan

The choice of the egress port in `DataPlane` from the tables of `Netlink`, instead
of a free one.

## 6. Not modelled

The parts of `lib/rxinit.c`, `lib/txinit.c` and of the hardware layer
(`kmod/ixmap_common.c`, `_82599.c`, `_phy.c`) that set up RSS, filters, flow
control, link and PHY: register writes and polling of a single actor, whose
outcomes are a success or a failure of the step they belong to. The bit-banging
of the EEPROM. The ioctls `IXMAP_DOWN`, `IXMAP_RESET` and `IXMAP_CHECK_LINK`,
which the library never issues. Packet headers and checksums; parsing of options;
debug printing; `lpm_traverse`, which nothing calls; the list macros of Linux; the
helpers under `extra/`.
