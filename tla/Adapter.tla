------------------------------ MODULE Adapter ------------------------------
(***************************************************************************)
(* The kernel module ixmap.ko: the life of an adapter from probe to        *)
(* remove, and what the commands of its character device do to it.  Every  *)
(* command runs under the semaphore of the adapter from start to end, so a *)
(* command is an operator from one adapter record to the next; the module  *)
(* Lifecycle says which process issues it, and when.                       *)
(*                                                                         *)
(* An adapter is one record:                                               *)
(*   phase     absent, alloc (in dev_list), init (hardware started), bound *)
(*             (registered as a misc device)                               *)
(*   id        the number in the name of its device file                   *)
(*   refcount  1 and one for the open file                                 *)
(*   up, num   brought up, and the number of queues it was brought up with *)
(*   msix      none, ok, or failed: ixmap_up goes on without the vectors   *)
(*   ctx       per vector, the process whose eventfd the interrupt signals *)
(*   areas     the list of DMA areas, kept sorted by address               *)
(*   ring      per enabled queue, the base addresses of its rings          *)
(*   posted    per queue, the buffer whose slots the NIC was given         *)
(***************************************************************************)
EXTENDS Integers, Sequences, SequencesExt, FiniteSets

CONSTANTS
    Device,      \* the PCI functions
    NumCores,    \* queues a process asks for: one per core
    BarAddr,     \* iobase, and
    BarLen,      \* iolen, of the registers
    None         \* no process, no device, no address

ASSUME AdapterAssumption ==
    /\ IsFiniteSet(Device)
    /\ NumCores \in Nat \ {0}
    /\ BarAddr \in Nat /\ BarLen \in Nat \ {0}

Core == 0 .. NumCores - 1
Dir == {"rx", "tx"}
Vector == Core \X Dir

VARIABLES
    adapter,     \* Device -> adapter record
    fault,       \* the kernel has used memory it had freed
    mishaps      \* crashes, removals and MSI-X failures so far

----------------------------------------------------------------------------
(* The list of DMA areas.                                                  *)

\* Mutant: the new area goes behind one that it ends at.
wheretoStrict(areas, addr, len) ==
    Cardinality({k \in 1 .. Len(areas) : addr + len >= areas[k].addr})

\* ixmap_dma_area_whereto: the area after which the new one belongs (0: the
\* head of the list), or -1 when the new one starts or ends inside another.
\* The walk ends at the first area that lies behind the new one.
whereto(areas, addr, len) ==
    LET end == addr + len
        Behind(k) == end <= areas[k].addr
        Overlaps(k) == LET last == areas[k].addr + areas[k].len IN
                       \/ addr >= areas[k].addr /\ addr < last
                       \/ end > areas[k].addr /\ end <= last
        stop == {k \in 1 .. Len(areas) : Behind(k) \/ Overlaps(k)}
        k == CHOOSE k \in stop : \A j \in stop : k <= j
    IN IF stop = {} THEN Len(areas)
       ELSE IF Behind(k) THEN k - 1 ELSE -1

\* ixmap_dma_map links the area in where whereto says; a mapping the list
\* refuses is undone, pages and scatter list included.
CanMap(a, addr, len) == whereto(a.areas, addr, len) # -1

dma_map(a, addr, len) ==
    [a EXCEPT !.areas = InsertAt(@, whereto(@, addr, len) + 1,
                                 [addr |-> addr, len |-> len])]

\* ixmap_dma_unmap: the area that starts at the address, found by
\* ixmap_dma_area_lookup, is unlinked and its pages are released.
dma_unmap(a, addr) ==
    LET at == {k \in 1 .. Len(a.areas) : a.areas[k].addr = addr} IN
    IF at = {} THEN a
    ELSE [a EXCEPT !.areas = RemoveAt(@, CHOOSE k \in at : \A j \in at : k <= j)]

\* ixmap_dma_map_iobase: the registers are an area too, which mmap(2) looks up.
dma_map_iobase(a) == dma_map(a, BarAddr, BarLen)

Addresses(areas) == {areas[k].addr : k \in 1 .. Len(areas)}

----------------------------------------------------------------------------
(* The commands.                                                           *)

NoCtx == [v \in Vector |-> None]
NoRing == [q \in Core |-> None]

Absent == [phase |-> "absent", id |-> 0, refcount |-> 0, up |-> FALSE, num |-> 0,
           msix |-> "none", ctx |-> NoCtx, areas |-> <<>>, ring |-> NoRing,
           posted |-> NoRing]

\* Mutant: the check of the refcount is forgotten.
inuseNever(a) == FALSE

\* open(2): only a bound adapter has a device file, and ixmap_adapter_inuse
\* lets nobody in while somebody holds it.
inuse(a) == a.refcount # 1
adapter_get(a) == [a EXCEPT !.refcount = @ + 1]
adapter_put(a) == [a EXCEPT !.refcount = @ - 1]

\* ixmap_configure_msix requests a vector for every queue.  Its failure undoes
\* what it did, and leaves the pointers to the arrays it freed.
configure_msix(a, msix) == [a EXCEPT !.msix = msix]

\* ixmap_up logs the failure of ixmap_configure_msix and goes on.
ixmap_up(a, msix) == [configure_msix(a, msix) EXCEPT !.up = TRUE]

CanUp(a) == ~a.up
cmd_up(a, msix) == ixmap_up([a EXCEPT !.num = NumCores], msix)

\* ixmap_free_msix drops the vectors, and with each the eventfd it holds.
free_msix(a) == [a EXCEPT !.msix = "none", !.ctx = NoCtx]

\* ixmap_stop_adapter disables every queue.
stop_adapter(a) == [a EXCEPT !.ring = NoRing, !.posted = NoRing]

\* ixmap_reset_hw_82599 begins with it; whatever fails after that (a pending
\* bus transaction, the module, the MAC's own reset, the link settings) is
\* logged by ixmap_reset, and the queues are off all the same.
reset_hw(a) == stop_adapter(a)
ixmap_reset(a) == reset_hw(a)

\* Mutant: the reset of the hardware is left out.
ixmap_downNoReset(a) == free_msix([a EXCEPT !.up = FALSE, !.num = 0])
\* Mutant: ixmap_close brings the adapter down whether or not it is up.
NeedsVectorsAlways(a) == TRUE
\* Mutant: ixmap_close leaves the adapter up.
cmd_downNever(a) == a

\* ixmap_down stops the interrupts, resets the NIC and frees the vectors.
\* ixmap_free_msix goes through arrays that exist only after a successful
\* ixmap_configure_msix.
ixmap_down(a) == free_msix([ixmap_reset(a) EXCEPT !.up = FALSE, !.num = 0])
NeedsVectors(a) == a.up
cmd_down(a) == IF a.up THEN ixmap_down(a) ELSE a

\* ixmap_irq_assign: the eventfd takes the place of the one before.
CanAssign(a, q) == ~(q > a.num)
irq_assign(a, v, p) == [a EXCEPT !.ctx[v] = p]

\* ixmap_configure_rx and ixmap_configure_tx write the base registers of every
\* queue and enable it; ixmap_rx_assign gives the NIC slots of a buffer.
configure(a, rings) == [a EXCEPT !.ring = rings]
rx_assign(a, q, addr) == [a EXCEPT !.posted[q] = addr]

----------------------------------------------------------------------------
(* Probe and remove.                                                       *)

dev_list == {d \in Device : adapter[d].phase # "absent"}
Bound == {d \in Device : adapter[d].phase = "bound"}

AdapterInit ==
    /\ adapter = [d \in Device |-> Absent]
    /\ fault = FALSE
    /\ mishaps = 0

\* ixmap_probe up to ixmap_adapter_alloc, whose id is the length of dev_list.
ProbeAlloc(d) ==
    /\ adapter[d].phase = "absent"
    /\ adapter' = [adapter EXCEPT ![d] = [Absent EXCEPT
                      !.phase = "alloc", !.refcount = 1,
                      !.id = Cardinality(dev_list)]]
    /\ UNCHANGED <<fault, mishaps>>

\* ixmap_dma_map_iobase, ixmap_sw_init, the reset of the hardware, and the
\* checks of its EEPROM and MAC address.
ProbeInit(d) ==
    /\ adapter[d].phase = "alloc"
    /\ CanMap(adapter[d], BarAddr, BarLen)
    /\ adapter' = [adapter EXCEPT ![d] =
                      [dma_map_iobase(@) EXCEPT !.phase = "init"]]
    /\ UNCHANGED <<fault, mishaps>>

\* The labels err_sw_init, err_ioremap and err_alloc: the areas, the adapter
\* and the PCI regions are given back.
ProbeFail(d) ==
    /\ adapter[d].phase \in {"alloc", "init"}
    /\ adapter' = [adapter EXCEPT ![d] = Absent]
    /\ UNCHANGED <<fault, mishaps>>

\* ixmap_miscdev_register refuses a name that is taken (then ProbeFail).
NameFree(d) == \A e \in Bound : adapter[e].id # adapter[d].id

ProbeRegister(d) ==
    /\ adapter[d].phase = "init"
    /\ NameFree(d)
    /\ adapter' = [adapter EXCEPT ![d].phase = "bound"]
    /\ UNCHANGED <<fault, mishaps>>

\* ixmap_remove looks neither at the refcount nor at the semaphore.  An
\* adapter that is up without its vectors faults in ixmap_free_msix.
ixmap_remove(d) ==
    /\ adapter[d].phase = "bound"
    /\ fault' = (NeedsVectors(adapter[d]) /\ adapter[d].msix # "ok")
    /\ adapter' = [adapter EXCEPT ![d] = Absent]
    /\ mishaps' = IF inuse(adapter[d]) THEN mishaps + 1 ELSE mishaps
=============================================================================
