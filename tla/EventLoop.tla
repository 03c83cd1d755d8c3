----------------------------- MODULE EventLoop ------------------------------
(***************************************************************************)
(* The event loop of one packet thread (thread_wait, src/thread.c) with    *)
(* the interrupt path that wakes it: the NIC raises a cause, the kernel    *)
(* module's handler ixmap_interrupt signals the queue's eventfd while the  *)
(* NIC masks the queue by itself (EIAM), the thread cleans the ring, reads *)
(* the eventfd and unmasks the queue again.                                *)
(*                                                                         *)
(* Rings are counts here; DataPlane has their indices.  A handler's work   *)
(* on the rings is one step, its read and its unmask are steps of their    *)
(* own, because the NIC and the kernel run between them.                   *)
(***************************************************************************)
EXTENDS Integers, Sequences

LOCAL INSTANCE Functions

CONSTANTS
  NumPorts,    \* number of ports
  RxSize,      \* descriptors of an RX ring that can be filled
  TxSize,      \* descriptors of a TX ring that can be filled
  RxBudget,    \* descriptors one ixmap_rx_clean takes back
  TxBudget,    \* descriptors one ixmap_tx_clean takes back
  MaxEvents,   \* EPOLL_MAXEVENTS
  QueueBound,  \* bound on the packets waiting in a TAP interface and on
               \* the messages waiting in the netlink socket
  Active       \* the kinds of events the environment produces

Kind == {"rx", "tx", "tun", "netlink", "signal"}

ASSUME EventLoopAssumption ==
  /\ NumPorts \in Nat \ {0}
  /\ RxSize \in Nat \ {0} /\ TxSize \in Nat \ {0}
  /\ RxBudget \in Nat \ {0} /\ TxBudget \in Nat \ {0}
  /\ MaxEvents \in Nat \ {0}
  /\ QueueBound \in Nat \ {0}
  /\ Active \subseteq Kind

Port  == 0 .. NumPorts - 1
Queue == {"rx", "tx"} \X Port

(* The file descriptors thread_fd_prepare registers with epoll. *)
Netlink == <<"netlink", 0>>
Signal  == <<"signal", 0>>
Fd == ({"rx", "tx", "tun"} \X Port) \union {Netlink, Signal}

VARIABLES
  avail,    \* RX descriptors the NIC can receive into, per port
  done,     \* completed descriptors not yet cleaned, per queue
  txq,      \* TX descriptors the NIC has still to send, per port
  cause,    \* the queue's bit in the interrupt cause register
  masked,   \* the queue's interrupt is disabled
  efd,      \* counter of the queue's eventfd
  tap,      \* packets waiting in the TAP interface, per port
  netlink,  \* messages waiting in the netlink socket
  overrun,  \* the socket lost a message: its next read fails
  signal,   \* SIGUSR1 is pending
  rdllist,  \* epoll's list of descriptors that may be ready
  pc,       \* where the thread is
  events,   \* what epoll_wait returned
  i,        \* index into events, and the loop variable over the ports
  left      \* history: completed descriptors beyond the budget, which the
            \* last handler of the queue left in the ring

nicVars    == <<avail, done, txq, cause>>
irqVars    == <<masked, efd>>
sockVars   == <<tap, netlink, overrun, signal>>
threadVars == <<pc, events, i, left>>
vars       == <<nicVars, irqVars, sockVars, rdllist, threadVars>>

TypeOK ==
  /\ avail \in [Port -> 0 .. RxSize]
  /\ done \in [Queue -> Nat]
  /\ txq \in [Port -> 0 .. TxSize]
  /\ cause \in [Queue -> BOOLEAN]
  /\ masked \in [Queue -> BOOLEAN]
  /\ efd \in [Queue -> Nat]
  /\ tap \in [Port -> 0 .. QueueBound]
  /\ netlink \in 0 .. QueueBound
  /\ overrun \in BOOLEAN
  /\ signal \in BOOLEAN
  /\ rdllist \in Seq(Fd)
  /\ pc \in {"epoll_wait", "dispatch", "read", "unmask", "exit"}
  /\ events \in Seq(Fd)
  /\ i \in Nat
  /\ left \in [Queue -> Nat]

Init ==
  /\ avail = [p \in Port |-> RxSize]
  /\ done = [q \in Queue |-> 0]
  /\ txq = [p \in Port |-> 0]
  /\ cause = [q \in Queue |-> FALSE]
  /\ masked = [q \in Queue |-> FALSE]
  /\ efd = [q \in Queue |-> 0]
  /\ tap = [p \in Port |-> 0]
  /\ netlink = 0
  /\ overrun = FALSE
  /\ signal = FALSE
  /\ rdllist = << >>
  /\ pc = "epoll_wait"
  /\ events = << >>
  /\ i = 0
  /\ left = [q \in Queue |-> 0]

-----------------------------------------------------------------------------
Least(a, b) == IF a < b THEN a ELSE b

(* epoll, level-triggered: a descriptor joins the list when it is          *)
(* signalled, and whatever a scan reports goes back to its end.            *)
Readable(fd) ==
  \/ fd \in Queue   /\ efd[fd] > 0
  \/ fd = Netlink   /\ (netlink > 0 \/ overrun)
  \/ fd = Signal    /\ signal
  \/ fd[1] = "tun"  /\ tap[fd[2]] > 0

InList(fd) == \E k \in 1 .. Len(rdllist) : rdllist[k] = fd

Notify(fd) == rdllist' = IF InList(fd) THEN rdllist ELSE Append(rdllist, fd)

(* epoll_wait takes the readable descriptors off the list in order, drops  *)
(* the others, reports the first MaxEvents and puts those at the end again. *)
(* idx[k] is the place in the list of the k-th readable descriptor.        *)
ReadyPlaces == {k \in 1 .. Len(rdllist) : Readable(rdllist[k])}

EpollWait ==
  /\ pc = "epoll_wait"
  /\ rdllist # << >>
  /\ \E n \in 0 .. Len(rdllist) : \E idx \in [1 .. n -> ReadyPlaces] :
       LET m == Least(n, MaxEvents) IN
       /\ \A j, k \in 1 .. n : j < k => idx[j] < idx[k]
       /\ \A place \in ReadyPlaces : \E k \in 1 .. n : idx[k] = place
       /\ events' = [k \in 1 .. m |-> rdllist[idx[k]]]
       /\ rdllist' = [k \in 1 .. n |-> rdllist[idx[IF m + k <= n THEN m + k ELSE m + k - n]]]
       /\ pc' = IF n > 0 THEN "dispatch" ELSE "epoll_wait"
  /\ UNCHANGED <<nicVars, irqVars, sockVars, i, left>>

Current == events[i + 1]
At(kind) == pc = "dispatch" /\ Current[1] = kind

(* The for statement goes on with events[k], or epoll_wait is called again. *)
Continue(k) ==
  IF k < Len(events)
    THEN pc' = "dispatch" /\ i' = k /\ UNCHANGED events
    ELSE pc' = "epoll_wait" /\ i' = 0 /\ events' = << >>

NextEvent == Continue(i + 1)

(* The handlers of RX, TX and TAP events run a loop over the ports with    *)
(* the same variable i, which is NumPorts when that loop ends.             *)
NextEventAfterPorts == Continue(NumPorts + 1)

Exit == pc' = "exit" /\ i' = 0 /\ events' = << >>

(* Packets put on the TX rings: out[p] of them for port p, at most n in    *)
(* all.  What does not fit in a ring is dropped.                           *)
Transmit(n) ==
  \E out \in [Port -> 0 .. n] :
    /\ FoldFunction(+, 0, out) <= n
    /\ \A p \in Port : txq[p] + done[<<"tx", p>>] + out[p] <= TxSize
    /\ txq' = [p \in Port |-> txq[p] + out[p]]

(* Mutant: the budget is used up whatever descriptors are done. *)
RxHandlerUndone ==
  /\ At("rx")
  /\ done' = [done EXCEPT ![Current] = @ - RxBudget]
  /\ Transmit(RxBudget)
  /\ left' = [left EXCEPT ![Current] = done'[Current]]
  /\ pc' = "read"
  /\ UNCHANGED <<avail, cause, irqVars, sockVars, rdllist, events, i>>

(* EPOLL_IRQ_RX: ixmap_rx_clean, forward_process, ixmap_tx_xmit. *)
RxHandler ==
  /\ At("rx")
  /\ LET n == Least(done[Current], RxBudget) IN
       /\ done' = [done EXCEPT ![Current] = @ - n]
       /\ Transmit(n)
  /\ left' = [left EXCEPT ![Current] = done'[Current]]
  /\ pc' = "read"
  /\ UNCHANGED <<avail, cause, irqVars, sockVars, rdllist, events, i>>

(* EPOLL_IRQ_TX: ixmap_tx_clean, then ixmap_rx_assign for every port. *)
TxHandler ==
  /\ At("tx")
  /\ done' = [done EXCEPT ![Current] = @ - Least(@, TxBudget)]
  /\ avail' = [p \in Port |-> RxSize - done[<<"rx", p>>]]
  /\ left' = [left EXCEPT ![Current] = done'[Current]]
  /\ pc' = "read"
  /\ UNCHANGED <<txq, cause, irqVars, sockVars, rdllist, events, i>>

(* The blocking read of the eventfd. *)
ReadEventfd ==
  /\ pc = "read"
  /\ efd[Current] > 0
  /\ efd' = [efd EXCEPT ![Current] = 0]
  /\ pc' = "unmask"
  /\ UNCHANGED <<nicVars, masked, sockVars, rdllist, events, i, left>>

(* Mutant: the RX handle of the port is used for its TX queue too. *)
UnmaskRxHandle ==
  /\ pc = "unmask"
  /\ masked' = [masked EXCEPT ![<<"rx", Current[2]>>] = FALSE]
  /\ NextEventAfterPorts
  /\ UNCHANGED <<nicVars, efd, sockVars, rdllist, left>>

(* ixmap_irq_unmask_queues. *)
Unmask ==
  /\ pc = "unmask"
  /\ masked' = [masked EXCEPT ![Current] = FALSE]
  /\ NextEventAfterPorts
  /\ UNCHANGED <<nicVars, efd, sockVars, rdllist, left>>

(* EPOLL_TUN: a blocking read of one packet, which is sent or dropped. *)
TunHandler ==
  LET p == Current[2] IN
  /\ At("tun")
  /\ tap[p] > 0
  /\ tap' = [tap EXCEPT ![p] = @ - 1]
  /\ \E out \in {0, 1} :
       /\ txq[p] + done[<<"tx", p>>] + out <= TxSize
       /\ txq' = [txq EXCEPT ![p] = @ + out]
  /\ NextEventAfterPorts
  /\ UNCHANGED <<avail, done, cause, irqVars, netlink, overrun, signal, rdllist, left>>

(* EPOLL_NETLINK: a blocking read of one message.  After an overrun the    *)
(* read fails and the thread ends.                                         *)
NetlinkHandler ==
  /\ At("netlink")
  /\ IF overrun
       THEN /\ overrun' = FALSE
            /\ Exit
            /\ UNCHANGED netlink
       ELSE /\ netlink > 0
            /\ netlink' = netlink - 1
            /\ NextEvent
            /\ UNCHANGED overrun
  /\ UNCHANGED <<nicVars, irqVars, tap, signal, rdllist, left>>

(* EPOLL_SIGNAL: main asked the thread to end. *)
SignalHandler ==
  /\ At("signal")
  /\ signal
  /\ signal' = FALSE
  /\ Exit
  /\ UNCHANGED <<nicVars, irqVars, tap, netlink, overrun, rdllist, left>>

Thread ==
  \/ EpollWait
  \/ RxHandler
  \/ TxHandler
  \/ ReadEventfd
  \/ Unmask
  \/ TunHandler
  \/ NetlinkHandler
  \/ SignalHandler

-----------------------------------------------------------------------------
(* The NIC receives a packet, or has sent one, and raises the cause. *)
RxArrive(p) ==
  /\ "rx" \in Active
  /\ avail[p] > 0
  /\ avail' = [avail EXCEPT ![p] = @ - 1]
  /\ done' = [done EXCEPT ![<<"rx", p>>] = @ + 1]
  /\ cause' = [cause EXCEPT ![<<"rx", p>>] = TRUE]
  /\ UNCHANGED <<txq, irqVars, sockVars, rdllist, threadVars>>

TxComplete(p) ==
  /\ "tx" \in Active
  /\ txq[p] > 0
  /\ txq' = [txq EXCEPT ![p] = @ - 1]
  /\ done' = [done EXCEPT ![<<"tx", p>>] = @ + 1]
  /\ cause' = [cause EXCEPT ![<<"tx", p>>] = TRUE]
  /\ UNCHANGED <<avail, irqVars, sockVars, rdllist, threadVars>>

(* Mutant: EIAM is not set up, so the queue stays enabled. *)
InterruptWithoutMask(q) ==
  /\ cause[q]
  /\ ~ masked[q]
  /\ cause' = [cause EXCEPT ![q] = FALSE]
  /\ efd' = [efd EXCEPT ![q] = @ + 1]
  /\ Notify(q)
  /\ UNCHANGED <<avail, done, txq, masked, sockVars, threadVars>>

(* An enabled cause becomes an MSI-X message; the NIC clears the cause     *)
(* (EIAC), masks the queue (EIAM), and ixmap_interrupt signals the eventfd. *)
Interrupt(q) ==
  /\ cause[q]
  /\ ~ masked[q]
  /\ cause' = [cause EXCEPT ![q] = FALSE]
  /\ masked' = [masked EXCEPT ![q] = TRUE]
  /\ efd' = [efd EXCEPT ![q] = @ + 1]
  /\ Notify(q)
  /\ UNCHANGED <<avail, done, txq, sockVars, threadVars>>

(* The kernel has a packet for a TAP interface, or a routing message for   *)
(* the socket, which loses it when it is full.                             *)
TapArrive(p) ==
  /\ "tun" \in Active
  /\ tap[p] < QueueBound
  /\ tap' = [tap EXCEPT ![p] = @ + 1]
  /\ Notify(<<"tun", p>>)
  /\ UNCHANGED <<nicVars, irqVars, netlink, overrun, signal, threadVars>>

NetlinkArrive ==
  /\ "netlink" \in Active
  /\ IF netlink < QueueBound
       THEN netlink' = netlink + 1 /\ UNCHANGED overrun
       ELSE overrun' = TRUE /\ UNCHANGED netlink
  /\ Notify(Netlink)
  /\ UNCHANGED <<nicVars, irqVars, tap, signal, threadVars>>

(* ixmapfwd_thread_kill sends SIGUSR1. *)
Kill ==
  /\ "signal" \in Active
  /\ signal' = TRUE
  /\ Notify(Signal)
  /\ UNCHANGED <<nicVars, irqVars, tap, netlink, overrun, threadVars>>

Environment ==
  \/ \E p \in Port : RxArrive(p) \/ TxComplete(p) \/ TapArrive(p)
  \/ \E q \in Queue : Interrupt(q)
  \/ NetlinkArrive
  \/ Kill

Next == Thread \/ Environment

Spec == Init /\ [][Next]_vars

(* The thread has a core of its own, the NIC sends what it was given, and  *)
(* an enabled interrupt is delivered.  Nothing says that packets or        *)
(* messages keep arriving.                                                 *)
Fairness ==
  /\ WF_vars(Thread)
  /\ \A p \in Port : WF_vars(TxComplete(p))
  /\ \A q \in Queue : WF_vars(Interrupt(q))

FairSpec == Spec /\ Fairness

-----------------------------------------------------------------------------
(***************************************************************************)
(*                               Properties                                *)
(***************************************************************************)

(* The thread has read queue q's eventfd and will unmask it next. *)
InService(q) == pc = "unmask" /\ Current = q

(* A queue the NIC has masked gets unmasked again: its eventfd is signalled *)
(* or the thread is past the read and just before ixmap_irq_unmask_queues. *)
MaskedIsServed ==
  \A q \in Queue : masked[q] <=> efd[q] > 0 \/ InService(q)

(* The for statement comes to an event of q before the next epoll_wait,    *)
(* for the first time or again, as soon as no read on the way blocks: the  *)
(* handlers that loop over the ports go on at events[NumPorts + 1], and    *)
(* only netlink and the signal let it pass from there.                     *)
Passed(k) == \A j \in NumPorts + 2 .. k : events[j] \in {Netlink, Signal}

HandledAgain(q) ==
  \E k \in NumPorts + 2 .. Len(events) :
    /\ events[k] = q /\ Passed(k - 1)
    /\ pc = "dispatch" => i < k

(* No wakeup is lost: once a descriptor has completed that the last        *)
(* handler of its queue did not see, an interrupt of the queue is still to *)
(* come, or its eventfd is signalled, or thread_wait handles it again      *)
(* anyway.  What a handler left in the ring beyond its budget has no       *)
(* wakeup of its own: it waits for the next completion.                    *)
NoLostWakeup ==
  \A q \in Queue :
    done[q] > left[q] => cause[q] \/ efd[q] > 0 \/ HandledAgain(q) \/ pc = "exit"

(* A packet that is received makes the handler take up to a budget from    *)
(* the RX ring once more, while or after others arrive, and whatever the   *)
(* last handler left there.                                                *)
RxServed ==
  \A p \in Port : LET q == <<"rx", p>> IN
    done[q] > left[q] ~> done[q] <= left[q] \/ pc = "exit"

(* Sent packets are taken from the TX ring, and their buffers come free:   *)
(* all of them, since the TX budget covers the ring.                       *)
TxServed == \A p \in Port : done[<<"tx", p>>] > 0 ~> done[<<"tx", p>>] = 0 \/ pc = "exit"

(* A routing message is read from the socket. *)
NetlinkServed == netlink > 0 ~> netlink = 0 \/ pc = "exit"

-----------------------------------------------------------------------------
(***************************************************************************)
(* Inductive invariants.  InLoop says that the index of the for statement  *)
(* is inside events while one is handled, ReadDone that the thread unmasks *)
(* with the eventfd at zero, and RingCapacity that ixmap_rx_assign has     *)
(* something to refill or nothing.                                         *)
(***************************************************************************)
RingCapacity ==
  \A p \in Port : /\ avail[p] + done[<<"rx", p>>] <= RxSize
                  /\ txq[p] + done[<<"tx", p>>] <= TxSize

InLoop ==
  /\ pc = "epoll_wait" => i = 0
  /\ pc \in {"dispatch", "read", "unmask"} => i < Len(events)
  /\ pc \in {"read", "unmask"} => Current \in Queue

ReadDone == pc = "unmask" => efd[Current] = 0

IrqInv == TypeOK /\ RingCapacity /\ InLoop /\ MaskedIsServed /\ ReadDone

(* What NoLostWakeup needs besides: an event that is handled for the first *)
(* time is really signalled, so the read that follows the handler does not *)
(* take away a signal that came after it; and an event is reached only     *)
(* past those that HandledAgain says can be passed.                        *)
OnTheWay == pc \in {"dispatch", "read", "unmask"} => Passed(i)

EventsSignalled ==
  /\ pc \in {"epoll_wait", "exit"} => events = << >>
  /\ pc = "dispatch" =>
       \A k \in i + 1 .. Len(events) :
         k <= NumPorts + 1 /\ events[k] \in Queue => efd[events[k]] > 0
  /\ pc = "read" /\ i <= NumPorts =>
       efd[Current] > 0 /\ (done[Current] > left[Current] => cause[Current])

WakeInv == NoLostWakeup /\ OnTheWay /\ EventsSignalled

=============================================================================
