----------------------------- MODULE Lifecycle -----------------------------
(***************************************************************************)
(* The life of the ixmapfwd processes above the kernel module: what main   *)
(* acquires, call by call, through the library and the device files; how   *)
(* every failure unwinds; the threads and the signals between them and     *)
(* main; and the death of a process at any point.  Several processes run,  *)
(* one after the other or against each other, while adapters are probed    *)
(* and removed.                                                            *)
(*                                                                         *)
(* main is a straight line, so its program is data: Startup is the         *)
(* sequence of its steps, ReleaseOrder the order in which the orderly end  *)
(* gives everything back, and Unwind the order in which a failed step      *)
(* does.                                                                   *)
(***************************************************************************)
EXTENDS Adapter

CONSTANTS
    Proc,         \* the processes
    NumPorts,     \* the option -n: ports 0 .. NumPorts - 1 are opened
    RxLen, TxLen, \* length of a descriptor ring
    Block,        \* huge pages: block b is at address b * BlockLen
    BlockLen,
    Freed,        \* the private data of a file whose adapter was removed
    MaxMishap     \* bound on crashes, removals and MSI-X failures

ASSUME LifecycleAssumption ==
    /\ NumPorts \in Nat \ {0}
    /\ RxLen \in Nat \ {0} /\ TxLen \in 1 .. RxLen
    /\ Block \subseteq Nat /\ IsFiniteSet(Block)
    /\ BlockLen \in Nat /\ BlockLen >= 2 * RxLen * NumPorts
    /\ \A b \in Block : b * BlockLen + BlockLen <= BarAddr \/ BarAddr + BarLen <= b * BlockLen
    /\ None \notin Device \cup Proc \cup Nat /\ Freed \notin Device \cup {None}
    /\ MaxMishap \in Nat

Port == 0 .. NumPorts - 1

VARIABLES
    mode,    \* off, start, wait (in sigwait), release, dying (killed),
             \* aborted (killed while it released)
    pc,      \* index in Startup of the step main is at
    rel,     \* steps still to be released
    held,    \* resources held
    file,    \* per port, the device behind the open file
    mem,     \* per core, the huge pages of the descriptors and the buffers
    thr,     \* per core: none, new, running, ended
    sigint,  \* SIGINT pending for main
    usr1,    \* threads with SIGUSR1 pending
    lost     \* blocks a killed process left mapped

procVars == <<mode, pc, rel, held, file, mem, thr, sigint, usr1, lost>>
vars == <<adapter, fault, mishaps, procVars>>

----------------------------------------------------------------------------
(* The program.                                                            *)

S(call, act, core, port) == [call |-> call, act |-> act, core |-> core, port |-> port]

OverPorts(Steps(_)) == FlattenSeq([i \in 1 .. NumPorts |-> Steps(i - 1)])
OverCores(Steps(_)) == FlattenSeq([c \in 1 .. NumCores |-> Steps(c - 1)])

\* ixmap_open
OpenSteps(i) == << S("open", "file", 0, i), S("open", "up", 0, i),
                   S("open", "bar", 0, i), S("open", "rings", 0, i) >>

\* ixmap_desc_alloc
DescSteps(c) ==
    LET ring(i) == << S("desc", "rxring", c, i), S("desc", "txring", c, i) >>
    IN <<S("desc", "mmap", c, 0)>> \o OverPorts(ring) \o <<S("desc", "pool", c, 0)>>

\* tun_open
TunSteps(i) ==
    LET queue(c) == <<S("tun", "queue", c, i)>> IN OverCores(queue)

\* ixmap_buf_alloc
BufSteps(c) ==
    LET map(i) == <<S("buf", "buffer", c, i)>>
    IN <<S("buf", "mmap", c, 0)>> \o OverPorts(map) \o <<S("buf", "slots", c, 0)>>

\* ixmap_plane_alloc
PlaneSteps(c) ==
    LET irq(i) == << S("plane", "rxirq", c, i), S("plane", "txirq", c, i) >>
    IN OverPorts(irq)

\* Mutant: the thread is started before its plane is allocated.
CoreStepsThreadFirst(c) == BufSteps(c) \o
                << S("thread", "thread", c, 0), S("tunplane", "alloc", c, 0) >> \o PlaneSteps(c)

\* The loop over the cores in main.
CoreSteps(c) == BufSteps(c) \o PlaneSteps(c) \o
                << S("tunplane", "alloc", c, 0), S("thread", "thread", c, 0) >>

Startup ==
    LET configure_port(i) == <<S("configure", "registers", 0, i)>>
    IN OverPorts(OpenSteps) \o OverCores(DescSteps) \o OverPorts(configure_port)
       \o OverPorts(TunSteps) \o <<S("signal", "mask", 0, 0)>> \o OverCores(CoreSteps)

PlaneRelease(c) ==
    LET one(i) == << S("plane", "rxirq", c, i), S("plane", "txirq", c, i) >> IN OverPorts(one)

BufRelease(c) ==
    LET one(i) == <<S("buf", "buffer", c, i)>> IN OverPorts(one) \o <<S("buf", "mmap", c, 0)>>

\* ixmapfwd_thread_kill: kill is pthread_kill, thread is pthread_join.
ThreadRelease(c) == << S("thread", "kill", c, 0), S("thread", "thread", c, 0) >>

\* Mutant: the plane is released before the thread that uses it has ended.
CoreReleasePlaneFirst(c) == PlaneRelease(c) \o ThreadRelease(c) \o BufRelease(c)

\* One iteration of the loop over the cores at the end of main.
CoreRelease(c) == ThreadRelease(c) \o PlaneRelease(c) \o BufRelease(c)

\* From err_assign_cores of main to its end.  down is the first half of the
\* release of a device file.
ReleaseOrder ==
    LET tun(i) == LET one(c) == <<S("tun", "queue", c, i)>> IN OverCores(one)
        desc(c) == LET one(i) == <<S("desc", "txring", c, i), S("desc", "rxring", c, i)>>
                   IN OverPorts(one) \o <<S("desc", "mmap", c, 0)>>
        close(i) == <<S("open", "down", 0, i), S("open", "file", 0, i)>>
    IN OverCores(CoreRelease) \o OverPorts(tun) \o OverCores(desc) \o OverPorts(close)

\* The resource a release step is about.
Of(s) == CASE s.act = "kill" -> [s EXCEPT !.act = "thread"]
           [] s.act = "down" -> [s EXCEPT !.act = "file"]
           [] OTHER -> s

ReleaseStep == {ReleaseOrder[k] : k \in 1 .. Len(ReleaseOrder)}
Resource == {Of(r) : r \in ReleaseStep}

\* The elements of s that are in T, in the same order.
Only(s, T) ==
    LET only[k \in 0 .. Len(s)] ==
            IF k = 0 THEN <<>>
            ELSE IF s[k] \in T THEN Append(only[k - 1], s[k]) ELSE only[k - 1]
    IN only[Len(s)]

\* Mutant: the label of the failed call is skipped.
UnwindSkip(s, have) ==
    Only(ReleaseOrder, {r \in ReleaseStep : Of(r) \in have /\
        ~(r.act \in {"rxring", "txring"} /\ r.call = s.call /\ r.core = s.core /\ r.port = s.port)})

\* What the step is part of: its call, or for most the loop over the cores.
Loop(s) == IF s.call \in {"buf", "plane", "tunplane", "thread"} THEN "core" ELSE s.call

\* The error labels: first what the failed call holds for the same port, then
\* the rest of the same iteration, then main's own labels.  When the rings of
\* ixmap_open cannot be allocated the registers stay mapped (munmap is given
\* the length 0), which keeps the file open until the process exits.
Unwind(s, have) ==
    LET todo == {r \in ReleaseStep : Of(r) \in have}
        own == {r \in todo : r.call = s.call /\ r.core = s.core /\ r.port = s.port /\ r.act # "mmap"}
        iteration == {r \in todo \ own : Loop(r) = Loop(s) /\ Loop(s) # "open" /\
                         IF s.call = "tun" THEN r.port = s.port ELSE r.core = s.core}
        rest == todo \ (own \cup iteration)
    IN IF s.act = "rings" THEN Only(ReleaseOrder, rest) \o Only(ReleaseOrder, own)
       ELSE Only(ReleaseOrder, own) \o Only(ReleaseOrder, iteration) \o Only(ReleaseOrder, rest)

----------------------------------------------------------------------------
(* Memory.                                                                 *)

\* Mutant: the address is not advanced after the Tx ring.
RxOffShort(i) == RxLen * i

\* Where ixmap_desc_alloc puts the rings of a port: it advances by the length
\* of an Rx ring after both.
RxOff(i) == 2 * RxLen * i
TxOff(i) == 2 * RxLen * i + RxLen

At(b, off) == b * BlockLen + off

\* A mapped area keeps its pages even when the process unmaps or dies.
Pinned == {b \in Block : \E d \in Device : \E x \in Addresses(adapter[d].areas) :
              At(b, 0) <= x /\ x < At(b + 1, 0)}
InUse == {mem[p][k][c] : p \in Proc, k \in {"desc", "buf"}, c \in Core}

----------------------------------------------------------------------------

NoMem == [k \in {"desc", "buf"} |-> [c \in Core |-> None]]
NoFile == [i \in Port |-> None]
NoThread == [c \in Core |-> "none"]

Init ==
    /\ AdapterInit
    /\ mode = [p \in Proc |-> "off"]
    /\ pc = [p \in Proc |-> 1]
    /\ rel = [p \in Proc |-> <<>>]
    /\ held = [p \in Proc |-> {}]
    /\ file = [p \in Proc |-> NoFile]
    /\ mem = [p \in Proc |-> NoMem]
    /\ thr = [p \in Proc |-> NoThread]
    /\ sigint = [p \in Proc |-> FALSE]
    /\ usr1 = [p \in Proc |-> {}]
    /\ lost = {}

----------------------------------------------------------------------------
(* The steps of main, in the order of Startup.                             *)

\* The step main is at, if it is one of acts.  A process that is off is at the
\* first one: before it has a device file open its failures leave no trace.
Step(p, acts) == IF ~fault /\ mode[p] \in {"off", "start"} /\ Startup[pc[p]].act \in acts
                 THEN {Startup[pc[p]]} ELSE {}

\* The step succeeds, and main goes on: to sigwait after the last one.
Acquired(p, s) ==
    /\ held' = [held EXCEPT ![p] = @ \cup ({s} \cap Resource)]
    /\ IF pc[p] = Len(Startup)
       THEN mode' = [mode EXCEPT ![p] = "wait"] /\ pc' = [pc EXCEPT ![p] = 1]
       ELSE mode' = [mode EXCEPT ![p] = "start"] /\ pc' = [pc EXCEPT ![p] = @ + 1]
    /\ UNCHANGED rel

\* The step fails with the resources have in hand.
Failed(p, s, have) ==
    /\ held' = [held EXCEPT ![p] = have]
    /\ mode' = [mode EXCEPT ![p] = "release"]
    /\ pc' = [pc EXCEPT ![p] = 1]
    /\ rel' = [rel EXCEPT ![p] = Unwind(s, have)]

\* The ioctl succeeds, and the allocation or the write to smp_affinity that
\* follows it in the same step does or does not.
AcquiredOrFailed(p, s) == Acquired(p, s) \/ Failed(p, s, held[p] \cup {s})

\* The private data of a file is a pointer to an adapter that still exists.
Valid(p, i) == file[p][i] \in Device

\* open("/dev/ixgbe<i>")
OpenFile(p) == \E s \in Step(p, {"file"}), d \in Bound :
    /\ adapter[d].id = s.port
    /\ ~inuse(adapter[d])
    /\ adapter' = [adapter EXCEPT ![d] = adapter_get(@)]
    /\ file' = [file EXCEPT ![p][s.port] = d]
    /\ Acquired(p, s)
    /\ UNCHANGED <<fault, mishaps, mem, thr, sigint, usr1, lost>>

\* ioctl(IXMAP_UP)
DeviceUp(p) == \E s \in Step(p, {"up"}), msix \in {"ok", "failed"} :
    /\ Valid(p, s.port)
    /\ CanUp(adapter[file[p][s.port]])
    /\ msix = "failed" => mishaps < MaxMishap
    /\ mishaps' = IF msix = "failed" THEN mishaps + 1 ELSE mishaps
    /\ adapter' = [adapter EXCEPT ![file[p][s.port]] = cmd_up(@, msix)]
    /\ Acquired(p, s)
    /\ UNCHANGED <<fault, file, mem, thr, sigint, usr1, lost>>

\* Steps that concern the process alone: mmap of the registers, allocations,
\* signal mask.
Private(p) == \E s \in Step(p, {"bar", "rings", "slots", "pool", "mask", "alloc"}) :
    /\ Acquired(p, s)
    /\ UNCHANGED <<adapter, fault, mishaps, file, mem, thr, sigint, usr1, lost>>

\* A queue of the TAP interface; after the last one the address, MTU and state
\* of the interface are set, which may fail too.
OpenQueue(p) == \E s \in Step(p, {"queue"}) :
    /\ AcquiredOrFailed(p, s)
    /\ UNCHANGED <<adapter, fault, mishaps, file, mem, thr, sigint, usr1, lost>>

\* mmap(MAP_HUGETLB): a huge page nobody maps and no area pins.
MapPages(p) == \E s \in Step(p, {"mmap"}) :
    /\ \E b \in Block \ (Pinned \cup InUse) :
         mem' = [mem EXCEPT ![p][s.call][s.core] = b]
    /\ Acquired(p, s)
    /\ UNCHANGED <<adapter, fault, mishaps, file, thr, sigint, usr1, lost>>

\* The address and the length of what a mapping step maps.
AreaOf(p, s) ==
    CASE s.act = "rxring" -> [addr |-> At(mem[p]["desc"][s.core], RxOff(s.port)), len |-> RxLen]
      [] s.act = "txring" -> [addr |-> At(mem[p]["desc"][s.core], TxOff(s.port)), len |-> TxLen]
      [] s.act = "buffer" -> [addr |-> At(mem[p]["buf"][s.core], 0), len |-> BlockLen]

\* ioctl(IXMAP_MAP)
MapArea(p) == \E s \in Step(p, {"rxring", "txring", "buffer"}) :
    /\ Valid(p, s.port)
    /\ LET x == AreaOf(p, s) IN
       /\ CanMap(adapter[file[p][s.port]], x.addr, x.len)
       /\ adapter' = [adapter EXCEPT ![file[p][s.port]] = dma_map(@, x.addr, x.len)]
    /\ IF s.act = "buffer" THEN Acquired(p, s) ELSE AcquiredOrFailed(p, s)
    /\ UNCHANGED <<fault, mishaps, file, mem, thr, sigint, usr1, lost>>

\* The base addresses ixmap_configure_rx_ring and ixmap_configure_tx_ring write.
configure_rx_ring(p, q, i) == At(mem[p]["desc"][q], RxOff(i))
configure_tx_ring(p, q, i) == At(mem[p]["desc"][q], TxOff(i))

\* ixmap_configure_rx, ixmap_configure_tx and ixmap_irq_enable write
\* registers through the mapping of the BAR, which outlives a removal.
Registers(p) == \E s \in Step(p, {"registers"}) :
    /\ adapter' = IF ~Valid(p, s.port) THEN adapter
                  ELSE [adapter EXCEPT ![file[p][s.port]] =
                          configure(@, [q \in Core |->
                              [rx |-> configure_rx_ring(p, q, s.port),
                               tx |-> configure_tx_ring(p, q, s.port)]])]
    /\ Acquired(p, s)
    /\ UNCHANGED <<fault, mishaps, file, mem, thr, sigint, usr1, lost>>

\* ixmap_irq_open: an eventfd, handed over by ioctl(IXMAP_IRQ)
IrqOpen(p) == \E s \in Step(p, {"rxirq", "txirq"}) :
    /\ Valid(p, s.port)
    /\ LET d == file[p][s.port] IN
       /\ CanAssign(adapter[d], s.core)
       /\ adapter[d].msix = "ok"
       /\ adapter' = [adapter EXCEPT ![d] = irq_assign(@,
                         <<s.core, IF s.act = "rxirq" THEN "rx" ELSE "tx">>, p)]
    /\ AcquiredOrFailed(p, s)
    /\ UNCHANGED <<fault, mishaps, file, mem, thr, sigint, usr1, lost>>

\* ixmapfwd_thread_create
CreateThread(p) == \E s \in Step(p, {"thread"}) :
    /\ thr' = [thr EXCEPT ![p][s.core] = "new"]
    /\ Acquired(p, s)
    /\ UNCHANGED <<adapter, fault, mishaps, file, mem, sigint, usr1, lost>>

\* Any call may fail, except the writes to registers; pthread_create reports
\* failure by a positive number, which ixmapfwd_thread_create does not see.
Fallible == {Startup[k].act : k \in 1 .. Len(Startup)} \ {"registers", "thread"}

FailStep(p) == \E s \in Step(p, Fallible) :
    /\ mode[p] = "start"
    /\ Failed(p, s, held[p])
    /\ UNCHANGED <<adapter, fault, mishaps, file, mem, thr, sigint, usr1, lost>>

----------------------------------------------------------------------------
(* The threads and the signals.                                            *)

Alive(p) == ~fault /\ mode[p] \in {"start", "wait", "release"}

\* thread_process_interrupt has prepared its tables and descriptors and gives
\* every port its first slots.
ThreadRun(p, c) ==
    /\ Alive(p) /\ thr[p][c] = "new"
    /\ thr' = [thr EXCEPT ![p][c] = "running"]
    /\ adapter' = [d \in Device |->
                      IF \E i \in Port : file[p][i] = d
                      THEN rx_assign(adapter[d], c, At(mem[p]["buf"][c], 0))
                      ELSE adapter[d]]
    /\ UNCHANGED <<fault, mishaps, mode, pc, rel, held, file, mem, sigint, usr1, lost>>

\* Mutant: the thread does not tell main.
ThreadEndSilent(p, c) ==
    /\ Alive(p) /\ thr[p][c] \in {"new", "running"}
    /\ thr' = [thr EXCEPT ![p][c] = "ended"]
    /\ usr1' = [usr1 EXCEPT ![p] = @ \ {c}]
    /\ UNCHANGED <<adapter, fault, mishaps, mode, pc, rel, held, file, mem, sigint, lost>>

\* A thread ends: at a failure while it prepares, at a failed read, or at
\* SIGUSR1.  Its last act is to send main SIGINT.
ThreadEnd(p, c) ==
    /\ Alive(p) /\ thr[p][c] \in {"new", "running"}
    /\ thr' = [thr EXCEPT ![p][c] = "ended"]
    /\ sigint' = [sigint EXCEPT ![p] = TRUE]
    /\ usr1' = [usr1 EXCEPT ![p] = @ \ {c}]
    /\ UNCHANGED <<adapter, fault, mishaps, mode, pc, rel, held, file, mem, lost>>

\* SIGINT, SIGTERM or SIGHUP from outside, once main has blocked them.
Masked(p) == \/ mode[p] = "wait"
             \/ \E k \in 1 .. pc[p] - 1 : Startup[k].act = "mask"

Interrupt(p) ==
    /\ ~fault /\ Masked(p) /\ ~sigint[p]
    /\ sigint' = [sigint EXCEPT ![p] = TRUE]
    /\ UNCHANGED <<adapter, fault, mishaps, mode, pc, rel, held, file, mem, thr, usr1, lost>>

\* sigwait returns.
SigWait(p) ==
    /\ ~fault /\ mode[p] = "wait" /\ sigint[p]
    /\ sigint' = [sigint EXCEPT ![p] = FALSE]
    /\ mode' = [mode EXCEPT ![p] = "release"]
    /\ rel' = [rel EXCEPT ![p] = ReleaseOrder]
    /\ UNCHANGED <<adapter, fault, mishaps, pc, held, file, mem, thr, usr1, lost>>

----------------------------------------------------------------------------
(* The steps of the release.                                               *)

\* The next step to release, if it is one of acts.
Todo(p, acts) == IF ~fault /\ mode[p] \in {"release", "dying", "aborted"} /\ rel[p] # <<>>
                    /\ Head(rel[p]).act \in acts
                 THEN {Head(rel[p])} ELSE {}

Released(p, s) ==
    /\ rel' = [rel EXCEPT ![p] = Tail(@)]
    /\ held' = [held EXCEPT ![p] = @ \ {s}]

\* ixmapfwd_thread_kill: SIGUSR1, then pthread_join.
ThreadKill(p) == \E s \in Todo(p, {"kill"}) :
    /\ usr1' = [usr1 EXCEPT ![p] = IF thr[p][s.core] = "ended" THEN @ ELSE @ \cup {s.core}]
    /\ Released(p, s)
    /\ UNCHANGED <<adapter, fault, mishaps, mode, pc, file, mem, thr, sigint, lost>>

ThreadJoin(p) == \E s \in Todo(p, {"thread"}) :
    /\ thr[p][s.core] = "ended"
    /\ thr' = [thr EXCEPT ![p][s.core] = "none"]
    /\ Released(p, s)
    /\ UNCHANGED <<adapter, fault, mishaps, mode, pc, file, mem, sigint, usr1, lost>>

\* An eventfd or a TAP queue is closed; the vector of the adapter keeps its own
\* reference to the eventfd.
ClosePrivate(p) == \E s \in Todo(p, {"rxirq", "txirq", "queue"}) :
    /\ Released(p, s)
    /\ UNCHANGED <<adapter, fault, mishaps, mode, pc, file, mem, thr, sigint, usr1, lost>>

\* ioctl(IXMAP_UNMAP)
UnmapArea(p) == \E s \in Todo(p, {"rxring", "txring", "buffer"}) :
    /\ Valid(p, s.port)
    /\ adapter' = [adapter EXCEPT ![file[p][s.port]] = dma_unmap(@, AreaOf(p, s).addr)]
    /\ Released(p, s)
    /\ UNCHANGED <<fault, mishaps, mode, pc, file, mem, thr, sigint, usr1, lost>>

UnmapPages(p) == \E s \in Todo(p, {"mmap"}) :
    /\ mem' = [mem EXCEPT ![p][s.call][s.core] = None]
    /\ Released(p, s)
    /\ UNCHANGED <<adapter, fault, mishaps, mode, pc, file, thr, sigint, usr1, lost>>

\* close(2) of the device file, or its end with the process: ixmap_close
\* brings the adapter down under the semaphore, and drops the reference after.
\* With the last file closed the process is gone.
CloseDown(p) == \E s \in Todo(p, {"down"}) :
    /\ Valid(p, s.port)
    /\ LET a == adapter[file[p][s.port]] IN NeedsVectors(a) => a.msix = "ok"
    /\ adapter' = [adapter EXCEPT ![file[p][s.port]] = cmd_down(@)]
    /\ Released(p, s)
    /\ UNCHANGED <<fault, mishaps, mode, pc, file, mem, thr, sigint, usr1, lost>>

ClosePut(p) == \E s \in Todo(p, {"file"}) :
    /\ Valid(p, s.port)
    /\ adapter' = [adapter EXCEPT ![file[p][s.port]] = adapter_put(@)]
    /\ file' = [file EXCEPT ![p][s.port] = None]
    /\ Released(p, s)
    /\ LET last == Tail(rel[p]) = <<>> IN
       /\ mode' = [mode EXCEPT ![p] = IF last THEN "off" ELSE @]
       /\ sigint' = [sigint EXCEPT ![p] = @ /\ ~last]
    /\ UNCHANGED <<fault, mishaps, pc, mem, thr, usr1, lost>>

----------------------------------------------------------------------------
(* What goes wrong.                                                        *)

\* The process is killed, or a signal finds main before it blocked them: the
\* kernel closes its files; its areas stay, and pin their pages.
IsFile(r) == r.act \in {"down", "file"}

Crash(p) ==
    /\ Alive(p) /\ mishaps < MaxMishap
    /\ mishaps' = mishaps + 1
    /\ mode' = [mode EXCEPT ![p] = IF @ = "release" THEN "aborted" ELSE "dying"]
    /\ rel' = [rel EXCEPT ![p] =
                  IF mode[p] = "release" THEN Only(@, {r \in ReleaseStep : IsFile(r)})
                  ELSE Only(ReleaseOrder, {r \in ReleaseStep : IsFile(r) /\ Of(r) \in held[p]})]
    /\ held' = [held EXCEPT ![p] = {r \in @ : IsFile(r)}]
    /\ mem' = [mem EXCEPT ![p] = NoMem]
    /\ thr' = [thr EXCEPT ![p] = NoThread]
    /\ lost' = lost \cup {b \in Pinned : \E k \in {"desc", "buf"}, c \in Core : mem[p][k][c] = b}
    /\ pc' = [pc EXCEPT ![p] = 1]
    /\ sigint' = [sigint EXCEPT ![p] = FALSE]
    /\ usr1' = [usr1 EXCEPT ![p] = {}]
    /\ UNCHANGED <<adapter, fault, file>>

\* ixmap_remove, whoever has the adapter open.
RemoveDevice(d) ==
    /\ ~fault /\ (inuse(adapter[d]) => mishaps < MaxMishap)
    /\ ixmap_remove(d)
    /\ file' = [p \in Proc |-> [i \in Port |-> IF file[p][i] = d THEN Freed ELSE file[p][i]]]
    /\ lost' = {b \in lost : \E e \in Device \ {d} : \E x \in Addresses(adapter[e].areas) :
                   At(b, 0) <= x /\ x < At(b + 1, 0)}
    /\ UNCHANGED <<mode, pc, rel, held, mem, thr, sigint, usr1>>

\* A command of process p makes the kernel use freed memory: the adapter was
\* removed, or its vectors are not there.
Broken(p, i, vectors) ==
    \/ file[p][i] = Freed
    \/ vectors /\ Valid(p, i) /\ adapter[file[p][i]].msix # "ok"

Fault(p) ==
    /\ \/ \E s \in Step(p, {"up", "rxring", "txring", "buffer", "rxirq", "txirq"}) :
            /\ Broken(p, s.port, s.act \in {"rxirq", "txirq"})
       \/ \E s \in Todo(p, {"rxring", "txring", "buffer", "down", "file"}) :
            /\ Broken(p, s.port, s.act = "down" /\ Valid(p, s.port)
                                 /\ NeedsVectors(adapter[file[p][s.port]]))
    /\ fault' = TRUE
    /\ UNCHANGED <<adapter, mishaps, procVars>>

\* The machine is restarted.
Reboot ==
    /\ fault
    /\ adapter' = [d \in Device |-> Absent] /\ fault' = FALSE /\ mishaps' = 0
    /\ mode' = [p \in Proc |-> "off"] /\ pc' = [p \in Proc |-> 1]
    /\ rel' = [p \in Proc |-> <<>>] /\ held' = [p \in Proc |-> {}]
    /\ file' = [p \in Proc |-> NoFile] /\ mem' = [p \in Proc |-> NoMem]
    /\ thr' = [p \in Proc |-> NoThread] /\ sigint' = [p \in Proc |-> FALSE]
    /\ usr1' = [p \in Proc |-> {}] /\ lost' = {}

----------------------------------------------------------------------------

Main(p) ==
    \/ OpenFile(p) \/ DeviceUp(p) \/ Private(p) \/ OpenQueue(p) \/ MapPages(p) \/ MapArea(p)
    \/ Registers(p) \/ IrqOpen(p) \/ CreateThread(p) \/ FailStep(p) \/ SigWait(p)
    \/ ThreadKill(p) \/ ThreadJoin(p) \/ ClosePrivate(p) \/ UnmapArea(p)
    \/ UnmapPages(p) \/ CloseDown(p) \/ ClosePut(p) \/ Fault(p)

Probe(d) ==
    /\ ~fault
    /\ ProbeAlloc(d) \/ ProbeInit(d) \/ ProbeFail(d) \/ ProbeRegister(d)
    /\ UNCHANGED procVars

Next ==
    \/ \E p \in Proc : Main(p) \/ Interrupt(p) \/ Crash(p)
    \/ \E p \in Proc, c \in Core : ThreadRun(p, c) \/ ThreadEnd(p, c)
    \/ \E d \in Device : Probe(d) \/ RemoveDevice(d)
    \/ Reboot

Spec == Init /\ [][Next]_vars

----------------------------------------------------------------------------
(* Properties.                                                             *)

AddrOrNone == Nat \cup {None}

AdapterType ==
    [phase : {"absent", "alloc", "init", "bound"}, id : Nat, refcount : 0 .. 2,
     up : BOOLEAN, num : {0, NumCores}, msix : {"none", "ok", "failed"},
     ctx : [Vector -> Proc \cup {None}], areas : Seq([addr : Nat, len : Nat]),
     ring : [Core -> [rx : Nat, tx : Nat] \cup {None}], posted : [Core -> AddrOrNone]]

\* The types of the variables.
TypeOK ==
    /\ adapter \in [Device -> AdapterType]
    /\ fault \in BOOLEAN /\ mishaps \in 0 .. MaxMishap
    /\ mode \in [Proc -> {"off", "start", "wait", "release", "dying", "aborted"}]
    /\ pc \in [Proc -> 1 .. Len(Startup)]
    /\ \A p \in Proc : held[p] \subseteq Resource /\ usr1[p] \subseteq Core
    /\ file \in [Proc -> [Port -> Device \cup {None, Freed}]]
    /\ mem \in [Proc -> [{"desc", "buf"} -> [Core -> Block \cup {None}]]]
    /\ thr \in [Proc -> [Core -> {"none", "new", "running", "ended"}]]
    /\ sigint \in [Proc -> BOOLEAN] /\ lost \subseteq Block

\* "Only one process is alowed to open" (ixmap_open of the module): the
\* refcount counts the open files exactly, and there is at most one, also
\* while another process is closing or dying.  (With the types.)
OneOwner ==
    /\ TypeOK
    /\ \A d \in Bound :
         /\ adapter[d].refcount = 1 + Cardinality({x \in Proc \X Port : file[x[1]][x[2]] = d})
         /\ adapter[d].refcount <= 2

\* However a process ended, an adapter that nobody has open is down: no
\* vectors, no eventfd referenced, no queue the NIC could work on.
IdleIsDown == \A d \in Bound :
    (\A p \in Proc, i \in Port : file[p][i] # d) =>
        /\ ~adapter[d].up /\ adapter[d].msix = "none"
        /\ adapter[d].ctx = NoCtx /\ adapter[d].posted = NoRing

\* While a thread runs everything it works with is in place: its rings and
\* buffer are mapped on every port, and its eventfds and TAP queues are open,
\* also while main unwinds because another core failed to start.
ThreadBacked == \A p \in Proc, c \in Core, i \in Port : thr[p][c] = "running" =>
    /\ {S("desc", "rxring", c, i), S("desc", "txring", c, i), S("buf", "buffer", c, i),
        S("plane", "rxirq", c, i), S("plane", "txirq", c, i), S("tun", "queue", c, i),
        S("open", "file", 0, i)} \subseteq held[p]
    /\ Valid(p, i) =>
         {At(mem[p]["desc"][c], RxOff(i)), At(mem[p]["desc"][c], TxOff(i)), At(mem[p]["buf"][c], 0)}
             \subseteq Addresses(adapter[file[p][i]].areas)

\* What the NIC may write to is mapped for DMA and its pages are pinned, also
\* when the process is killed and until its files are closed.  (Not while
\* main unwinds: it unmaps before ixmap_close brings the adapter down.)
NicTargetsMapped == \A d \in Bound, q \in Core :
    (/\ adapter[d].posted[q] # None
     /\ \A p \in Proc : mode[p] \in {"release", "aborted"} => \A i \in Port : file[p][i] # d) =>
        {adapter[d].ring[q].rx, adapter[d].ring[q].tx, adapter[d].posted[q]}
            \subseteq Addresses(adapter[d].areas)

\* main unmasks the interrupts of all queues long before it registers the
\* eventfds, and an interrupt without one masks its queue for good; so the
\* NIC must have no slots of a queue before both its eventfds are registered.
InterruptsHeard == \A d \in Bound, q \in Core :
    adapter[d].posted[q] # None => \A r \in Dir : adapter[d].ctx[<<q, r>>] # None

\* "Since the list is sorted" (ixmap_dma_area_whereto): the areas of an
\* adapter stay in the order of their addresses and never overlap.
AreasOrdered == \A d \in Device : LET s == adapter[d].areas IN
    \A k \in 1 .. Len(s) - 1 : s[k].addr + s[k].len <= s[k + 1].addr

\* The rings programmed into all adapters occupy disjoint memory, although
\* whereto compares areas of one adapter only.
RingsApart ==
    LET SetUp == {x \in Device \X Core : adapter[x[1]].ring[x[2]] # None}
        Cells(x) == LET g == adapter[x[1]].ring[x[2]]
                    IN (g.rx .. g.rx + RxLen - 1) \cup (g.tx .. g.tx + TxLen - 1)
    IN Cardinality(UNION {Cells(x) : x \in SetUp}) = (RxLen + TxLen) * Cardinality(SetUp)

\* Every area is the registers, or belongs to a process that will unmap it, or
\* was left by a process that was killed: no failure at any step, and no
\* orderly end, leaves an area behind.
NothingLeaks == \A d \in Device :
    LET Mapped(p) == {s \in held[p] : /\ s.act \in {"rxring", "txring", "buffer"}
                                      /\ file[p][s.port] = d /\ mem[p][s.call][s.core] # None}
        owned == UNION {{AreaOf(p, s).addr : s \in Mapped(p)} : p \in Proc}
    IN \A x \in Addresses(adapter[d].areas) \ owned :
          x = BarAddr \/ \E b \in lost : At(b, 0) <= x /\ x < At(b + 1, 0)

\* The kernel uses freed memory only after an adapter was removed under a
\* process, or was brought up without its vectors; no order of failures,
\* closes, crashes and restarts does it otherwise.
FaultHasCause == fault =>
    \/ \E p \in Proc, i \in Port : file[p][i] = Freed
    \/ \E d \in Device : adapter[d].msix = "failed"

\* main and the threads wait for each other only where an answer is due: main
\* is not left in sigwait after a thread has ended, and a thread that main
\* joins has ended or has SIGUSR1 pending.
WaitIsAnswered == \A p \in Proc, c \in Core :
    /\ mode[p] = "wait" /\ thr[p][c] = "ended" => sigint[p]
    /\ mode[p] = "release" /\ rel[p] # <<>> /\ Head(rel[p]) = S("thread", "thread", c, 0)
         => thr[p][c] = "ended" \/ c \in usr1[p]
=============================================================================
