-------------------------- MODULE EventLoopProofs ---------------------------
(***************************************************************************)
(* Proofs about EventLoop for any number of ports, ring sizes, budgets and *)
(* events.                                                                 *)
(***************************************************************************)
EXTENDS EventLoop, TLAPS, SequenceTheorems

(* The constants are positive. *)
LEMMA Sizes ==
  /\ RxSize \in Nat /\ TxSize \in Nat /\ RxBudget \in Nat /\ TxBudget \in Nat
  /\ RxBudget > 0 /\ TxBudget > 0 /\ MaxEvents \in Nat /\ MaxEvents > 0
  /\ QueueBound \in Nat /\ NumPorts \in Nat
BY EventLoopAssumption

(* A port has two queues. *)
LEMMA PortQueues == \A p \in Port : <<"rx", p>> \in Queue /\ <<"tx", p>> \in Queue
BY DEF Queue

(* What is on epoll's list, or was reported by it, is a file descriptor. *)
LEMMA FdFacts ==
  /\ Queue \subseteq Fd /\ Netlink \in Fd /\ Signal \in Fd
  /\ \A p \in Port : <<"tun", p>> \in Fd
  /\ \A fd \in Fd : fd[1] \in {"rx", "tx"} => fd \in Queue
  /\ \A fd \in Fd : fd[1] = "tun" => fd[2] \in Port
BY DEF Queue, Fd, Netlink, Signal, Port

(* The counts of a port's rings are natural numbers. *)
LEMMA RingTypes ==
  ASSUME TypeOK, NEW p \in Port
  PROVE  /\ avail[p] \in Nat /\ avail[p] <= RxSize /\ txq[p] \in Nat /\ txq[p] <= TxSize
         /\ done[<<"rx", p>>] \in Nat /\ done[<<"tx", p>>] \in Nat
BY PortQueues, Sizes DEF TypeOK

(* Counting one entry of a function up. *)
LEMMA CountUp ==
  ASSUME NEW S, NEW f \in [S -> Nat], NEW q \in S
  PROVE  /\ [f EXCEPT ![q] = @ + 1] \in [S -> Nat]
         /\ [f EXCEPT ![q] = @ + 1][q] = f[q] + 1
         /\ \A r \in S : r # q => [f EXCEPT ![q] = @ + 1][r] = f[r]
OBVIOUS

(* Appending to epoll's list keeps it a list of file descriptors. *)
LEMMA NotifyType ==
  ASSUME rdllist \in Seq(Fd), NEW fd \in Fd, Notify(fd)
  PROVE  rdllist' \in Seq(Fd)
BY DEF Notify

(* The loop of thread_wait goes on inside events or calls epoll_wait. *)
LEMMA ContinueType ==
  ASSUME TypeOK, NEW k \in Nat, Continue(k)
  PROVE  /\ pc' \in {"dispatch", "epoll_wait"} /\ i' \in Nat /\ events' \in Seq(Fd)
         /\ pc' = "epoll_wait" => i' = 0
         /\ pc' = "dispatch" => i' < Len(events') /\ i' = k /\ events' = events
<1>1. CASE k < Len(events)
  BY <1>1 DEF Continue, TypeOK
<1>2. CASE ~ (k < Len(events))
  BY <1>2 DEF Continue, TypeOK
<1> QED
  BY <1>1, <1>2

(* epoll_wait reports readable descriptors, at most MaxEvents of them. *)
LEMMA EpollFacts ==
  ASSUME TypeOK, EpollWait
  PROVE  /\ events' \in Seq(Fd) /\ rdllist' \in Seq(Fd)
         /\ Len(events') <= MaxEvents
         /\ pc' = "epoll_wait" \/ (pc' = "dispatch" /\ Len(events') > 0)
         /\ \A k \in 1 .. Len(events') : Readable(events'[k])
<1>1. PICK n \in 0 .. Len(rdllist) : \E idx \in [1 .. n -> ReadyPlaces] :
       LET m == Least(n, MaxEvents) IN
       /\ \A j, k \in 1 .. n : j < k => idx[j] < idx[k]
       /\ \A place \in ReadyPlaces : \E k \in 1 .. n : idx[k] = place
       /\ events' = [k \in 1 .. m |-> rdllist[idx[k]]]
       /\ rdllist' = [k \in 1 .. n |-> rdllist[idx[IF m + k <= n THEN m + k ELSE m + k - n]]]
       /\ pc' = IF n > 0 THEN "dispatch" ELSE "epoll_wait"
  BY DEF EpollWait
<1> DEFINE m == Least(n, MaxEvents)
<1>2. PICK idx \in [1 .. n -> ReadyPlaces] :
       /\ events' = [k \in 1 .. m |-> rdllist[idx[k]]]
       /\ rdllist' = [k \in 1 .. n |-> rdllist[idx[IF m + k <= n THEN m + k ELSE m + k - n]]]
       /\ pc' = IF n > 0 THEN "dispatch" ELSE "epoll_wait"
  BY <1>1
<1>3. m \in Nat /\ m <= n /\ m <= MaxEvents /\ n \in Nat /\ (n > 0 => m > 0)
  BY Sizes DEF TypeOK, Least
<1>4. \A k \in 1 .. n : rdllist[idx[k]] \in Fd /\ Readable(rdllist[idx[k]])
  BY DEF ReadyPlaces, TypeOK
<1>5. events' \in [1 .. m -> Fd] /\ \A k \in 1 .. m : Readable(events'[k])
  BY <1>2, <1>3, <1>4
<1>6. rdllist' \in [1 .. n -> Fd]
  <2>1. \A k \in 1 .. n : (IF m + k <= n THEN m + k ELSE m + k - n) \in 1 .. n
    BY <1>3
  <2>2. \A k \in 1 .. n : rdllist[idx[IF m + k <= n THEN m + k ELSE m + k - n]] \in Fd
    BY <2>1, <1>4
  <2> QED
    BY <1>2, <2>2
<1>7. events' \in Seq(Fd) /\ rdllist' \in Seq(Fd) /\ Len(events') = m
  BY <1>3, <1>5, <1>6, SeqDef
<1> QED
  BY <1>2, <1>3, <1>5, <1>7

(* The initial state satisfies the invariant. *)
LEMMA InitIrqInv == Init => IrqInv
<1> SUFFICES ASSUME Init PROVE IrqInv
  OBVIOUS
<1>1. TypeOK
  <2>1. /\ avail \in [Port -> 0 .. RxSize] /\ txq \in [Port -> 0 .. TxSize]
        /\ done \in [Queue -> Nat] /\ efd \in [Queue -> Nat] /\ i \in Nat
        /\ left \in [Queue -> Nat]
        /\ tap \in [Port -> 0 .. QueueBound] /\ netlink \in 0 .. QueueBound
    BY Sizes DEF Init
  <2>2. /\ cause \in [Queue -> BOOLEAN] /\ masked \in [Queue -> BOOLEAN]
        /\ overrun \in BOOLEAN /\ signal \in BOOLEAN
        /\ pc \in {"epoll_wait", "dispatch", "read", "unmask", "exit"}
    BY DEF Init
  <2>3. rdllist \in Seq(Fd) /\ events \in Seq(Fd)
    BY DEF Init
  <2> QED
    BY <2>1, <2>2, <2>3 DEF TypeOK
<1>2. RingCapacity
  <2> SUFFICES ASSUME NEW p \in Port
               PROVE  avail[p] + done[<<"rx", p>>] <= RxSize /\ txq[p] + done[<<"tx", p>>] <= TxSize
    BY DEF RingCapacity
  <2>1. avail[p] = RxSize /\ txq[p] = 0 /\ done[<<"rx", p>>] = 0 /\ done[<<"tx", p>>] = 0
    BY PortQueues DEF Init
  <2> QED
    BY <2>1, Sizes
<1>3. InLoop /\ MaskedIsServed /\ ReadDone
  BY DEF Init, InLoop, MaskedIsServed, ReadDone, InService
<1> QED
  BY <1>1, <1>2, <1>3 DEF IrqInv

(* epoll_wait touches only the thread and the list. *)
LEMMA EpollIrqInv == IrqInv /\ EpollWait => IrqInv'
<1> SUFFICES ASSUME IrqInv, EpollWait PROVE IrqInv'
  OBVIOUS
<1>1. TypeOK'
  BY EpollFacts DEF IrqInv, TypeOK, EpollWait, nicVars, irqVars, sockVars
<1>2. RingCapacity'
  BY DEF IrqInv, RingCapacity, EpollWait, nicVars
<1>3. InLoop'
  BY EpollFacts DEF IrqInv, InLoop, EpollWait, TypeOK
<1>4. MaskedIsServed' /\ ReadDone'
  <2>1. pc # "unmask" /\ pc' # "unmask" /\ UNCHANGED <<masked, efd>>
    BY EpollFacts DEF IrqInv, EpollWait, irqVars
  <2> QED
    BY <2>1 DEF IrqInv, MaskedIsServed, ReadDone, InService
<1> QED
  BY <1>1, <1>2, <1>3, <1>4 DEF IrqInv

(* A step that goes on with another event, or ends the thread, without     *)
(* touching the interrupts keeps what is said of them.                     *)
LEMMA QuietIrq ==
  ASSUME IrqInv, UNCHANGED irqVars, pc # "unmask", pc' # "unmask"
  PROVE  MaskedIsServed' /\ ReadDone'
BY DEF IrqInv, MaskedIsServed, ReadDone, InService, irqVars

(* The event being handled is a file descriptor. *)
LEMMA CurrentType ==
  ASSUME IrqInv, pc \in {"dispatch", "read", "unmask"}
  PROVE  Current \in Fd
BY DEF IrqInv, InLoop, TypeOK, Current

(* The work of the RX handler keeps the invariant. *)
LEMMA RxHandlerIrqInv == IrqInv /\ RxHandler => IrqInv'
<1> SUFFICES ASSUME IrqInv, RxHandler PROVE IrqInv'
  OBVIOUS
<1> DEFINE n == Least(done[Current], RxBudget)
<1>1. /\ Current \in Queue /\ Current[1] = "rx" /\ pc = "dispatch" /\ pc' = "read"
      /\ done' = [done EXCEPT ![Current] = @ - n]
      /\ Transmit(n)
      /\ left' = [left EXCEPT ![Current] = done'[Current]]
      /\ UNCHANGED <<avail, cause, masked, efd, tap, netlink, overrun, signal, rdllist, events, i>>
  BY CurrentType, FdFacts DEF RxHandler, At, irqVars, sockVars
<1>2. n \in Nat /\ n <= done[Current]
  BY <1>1, Sizes DEF IrqInv, TypeOK, Least
<1>3. done' \in [Queue -> Nat] /\ \A q \in Queue : done'[q] <= done[q]
                              /\ \A p \in Port : done'[<<"tx", p>>] = done[<<"tx", p>>]
  BY <1>1, <1>2, PortQueues DEF IrqInv, TypeOK
<1>4. txq' \in [Port -> 0 .. TxSize] /\ \A p \in Port : txq'[p] + done[<<"tx", p>>] <= TxSize
  <2>1. PICK out \in [Port -> 0 .. n] :
          /\ \A p \in Port : txq[p] + done[<<"tx", p>>] + out[p] <= TxSize
          /\ txq' = [p \in Port |-> txq[p] + out[p]]
    BY <1>1 DEF Transmit
  <2>2. ASSUME NEW p \in Port
        PROVE  txq'[p] \in 0 .. TxSize /\ txq'[p] + done[<<"tx", p>>] <= TxSize
    <3>1. txq'[p] = txq[p] + out[p] /\ out[p] \in Nat /\ txq[p] + done[<<"tx", p>>] + out[p] <= TxSize
      BY <2>1, <1>2
    <3>2. txq[p] \in Nat /\ done[<<"tx", p>>] \in Nat
      BY RingTypes DEF IrqInv
    <3> QED
      BY <3>1, <3>2, Sizes
  <2> QED
    BY <2>1, <2>2
<1>5. TypeOK'
  <2>1. left' \in [Queue -> Nat]
    BY <1>1, <1>3 DEF IrqInv, TypeOK
  <2> QED
    BY <2>1, <1>1, <1>3, <1>4 DEF IrqInv, TypeOK
<1>6. RingCapacity'
  <2> SUFFICES ASSUME NEW p \in Port
               PROVE  /\ avail'[p] + done'[<<"rx", p>>] <= RxSize
                      /\ txq'[p] + done'[<<"tx", p>>] <= TxSize
    BY DEF RingCapacity
  <2>1. done'[<<"rx", p>>] \in Nat /\ done'[<<"rx", p>>] <= done[<<"rx", p>>]
    BY <1>3, PortQueues
  <2> QED
    BY <2>1, <1>1, <1>3, <1>4, RingTypes, Sizes DEF IrqInv, RingCapacity
<1>7. InLoop'
  BY <1>1 DEF IrqInv, InLoop, Current
<1>8. MaskedIsServed' /\ ReadDone'
  BY <1>1, QuietIrq DEF irqVars
<1> QED
  BY <1>5, <1>6, <1>7, <1>8 DEF IrqInv

(* The work of the TX handler keeps the invariant. *)
LEMMA TxHandlerIrqInv == IrqInv /\ TxHandler => IrqInv'
<1> SUFFICES ASSUME IrqInv, TxHandler PROVE IrqInv'
  OBVIOUS
<1>1. /\ Current \in Queue /\ Current[1] = "tx" /\ pc = "dispatch" /\ pc' = "read"
      /\ done' = [done EXCEPT ![Current] = @ - Least(@, TxBudget)]
      /\ avail' = [p \in Port |-> RxSize - done[<<"rx", p>>]]
      /\ left' = [left EXCEPT ![Current] = done'[Current]]
      /\ UNCHANGED <<txq, cause, masked, efd, tap, netlink, overrun, signal, rdllist, events, i>>
  BY CurrentType, FdFacts DEF TxHandler, At, irqVars, sockVars
<1>2. Least(done[Current], TxBudget) \in Nat /\ Least(done[Current], TxBudget) <= done[Current]
  BY <1>1, Sizes DEF IrqInv, TypeOK, Least
<1>3. done' \in [Queue -> Nat] /\ \A q \in Queue : done'[q] <= done[q]
                              /\ \A p \in Port : done'[<<"rx", p>>] = done[<<"rx", p>>]
  BY <1>1, <1>2, PortQueues DEF IrqInv, TypeOK
<1>4. avail' \in [Port -> 0 .. RxSize]
  <2>1. ASSUME NEW p \in Port PROVE RxSize - done[<<"rx", p>>] \in 0 .. RxSize
    <3>1. TypeOK /\ avail[p] + done[<<"rx", p>>] <= RxSize
      BY DEF IrqInv, RingCapacity
    <3>2. avail[p] \in Nat /\ done[<<"rx", p>>] \in Nat
      BY <3>1, RingTypes
    <3> QED
      BY <3>1, <3>2, Sizes
  <2> QED
    BY <1>1, <2>1
<1>5. TypeOK'
  <2>1. left' \in [Queue -> Nat]
    BY <1>1, <1>3 DEF IrqInv, TypeOK
  <2> QED
    BY <2>1, <1>1, <1>3, <1>4 DEF IrqInv, TypeOK
<1>6. RingCapacity'
  <2> SUFFICES ASSUME NEW p \in Port
               PROVE  /\ avail'[p] + done'[<<"rx", p>>] <= RxSize
                      /\ txq'[p] + done'[<<"tx", p>>] <= TxSize
    BY DEF RingCapacity
  <2>1. done'[<<"tx", p>>] \in Nat /\ done'[<<"tx", p>>] <= done[<<"tx", p>>]
    BY <1>3, PortQueues
  <2> QED
    BY <2>1, <1>1, <1>3, RingTypes, Sizes DEF IrqInv, RingCapacity
<1>7. InLoop'
  BY <1>1 DEF IrqInv, InLoop, Current
<1>8. MaskedIsServed' /\ ReadDone'
  BY <1>1, QuietIrq DEF irqVars
<1> QED
  BY <1>5, <1>6, <1>7, <1>8 DEF IrqInv

(* After the read the queue is in service, and its eventfd is at zero. *)
LEMMA ReadIrqInv == IrqInv /\ ReadEventfd => IrqInv'
<1> SUFFICES ASSUME IrqInv, ReadEventfd PROVE IrqInv'
  OBVIOUS
<1>1. Current \in Queue /\ Current' = Current /\ efd[Current] > 0
  BY DEF IrqInv, InLoop, ReadEventfd, Current
<1>2. TypeOK' /\ RingCapacity' /\ InLoop'
  BY <1>1 DEF IrqInv, TypeOK, RingCapacity, InLoop, ReadEventfd, nicVars, sockVars
<1>3. efd' = [efd EXCEPT ![Current] = 0] /\ efd \in [Queue -> Nat] /\ UNCHANGED masked
      /\ pc = "read" /\ pc' = "unmask"
  BY DEF IrqInv, TypeOK, ReadEventfd
<1>4. MaskedIsServed' /\ ReadDone'
  BY <1>1, <1>3 DEF IrqInv, MaskedIsServed, ReadDone, InService
<1> QED
  BY <1>2, <1>4 DEF IrqInv

(* Unmasking ends the service of the queue. *)
LEMMA UnmaskIrqInv == IrqInv /\ Unmask => IrqInv'
<1> SUFFICES ASSUME IrqInv, Unmask PROVE IrqInv'
  OBVIOUS
<1>1. /\ Current \in Queue /\ pc = "unmask" /\ efd[Current] = 0
      /\ masked' = [masked EXCEPT ![Current] = FALSE]
      /\ UNCHANGED <<avail, done, txq, cause, efd, tap, netlink, overrun, signal, rdllist, left>>
  BY DEF IrqInv, InLoop, ReadDone, Unmask, nicVars, sockVars
<1>2. /\ pc' \in {"dispatch", "epoll_wait"} /\ i' \in Nat /\ events' \in Seq(Fd)
      /\ pc' = "epoll_wait" => i' = 0
      /\ pc' = "dispatch" => i' < Len(events')
  BY ContinueType, Sizes DEF Unmask, NextEventAfterPorts, IrqInv
<1>3. TypeOK' /\ RingCapacity' /\ InLoop'
  BY <1>1, <1>2 DEF IrqInv, TypeOK, RingCapacity, InLoop
<1>4. MaskedIsServed' /\ ReadDone'
  BY <1>1, <1>2 DEF IrqInv, MaskedIsServed, ReadDone, InService, TypeOK
<1> QED
  BY <1>3, <1>4 DEF IrqInv

(* The handlers of the other events keep the invariant. *)
LEMMA OtherHandlersIrqInv ==
  ASSUME IrqInv, TunHandler \/ NetlinkHandler \/ SignalHandler
  PROVE  IrqInv'
<1>1. /\ pc = "dispatch" /\ Current \in Fd
      /\ UNCHANGED <<avail, done, cause, irqVars, rdllist, left>>
  BY CurrentType DEF TunHandler, NetlinkHandler, SignalHandler, At, nicVars
<1>2. /\ pc' \in {"dispatch", "epoll_wait", "exit"} /\ i' \in Nat /\ events' \in Seq(Fd)
      /\ pc' = "epoll_wait" => i' = 0
      /\ pc' = "dispatch" => i' < Len(events')
  <2>1. CASE TunHandler
    BY <2>1, ContinueType, Sizes DEF TunHandler, NextEventAfterPorts, IrqInv
  <2>2. CASE NetlinkHandler
    <3>1. CASE overrun
      BY <2>2, <3>1 DEF NetlinkHandler, Exit
    <3>2. CASE ~ overrun
      BY <2>2, <3>2, ContinueType DEF NetlinkHandler, NextEvent, IrqInv, TypeOK
    <3> QED
      BY <3>1, <3>2
  <2>3. CASE SignalHandler
    BY <2>3 DEF SignalHandler, Exit
  <2> QED
    BY <2>1, <2>2, <2>3
<1>3. /\ tap' \in [Port -> 0 .. QueueBound] /\ netlink' \in 0 .. QueueBound
      /\ overrun' \in BOOLEAN /\ signal' \in BOOLEAN
  <2>1. CASE TunHandler
    <3>1. /\ Current[2] \in Port /\ tap[Current[2]] > 0
          /\ tap' = [tap EXCEPT ![Current[2]] = @ - 1]
          /\ UNCHANGED <<netlink, overrun, signal>>
      BY <1>1, <2>1, FdFacts DEF TunHandler, At
    <3> QED
      BY <3>1, Sizes DEF IrqInv, TypeOK
  <2>2. CASE NetlinkHandler
    <3>1. UNCHANGED <<tap, signal>> /\ overrun' \in BOOLEAN
      BY <2>2 DEF NetlinkHandler, IrqInv, TypeOK
    <3>2. netlink' = netlink \/ (netlink > 0 /\ netlink' = netlink - 1)
      BY <2>2 DEF NetlinkHandler
    <3> QED
      BY <3>1, <3>2, Sizes DEF IrqInv, TypeOK
  <2>3. CASE SignalHandler
    BY <2>3 DEF SignalHandler, IrqInv, TypeOK
  <2> QED
    BY <2>1, <2>2, <2>3
<1>4. txq' \in [Port -> 0 .. TxSize] /\ \A p \in Port : txq'[p] + done[<<"tx", p>>] <= TxSize
  <2>1. CASE TunHandler
    <3>1. Current[2] \in Port
      BY <1>1, <2>1, FdFacts DEF TunHandler, At
    <3>2. PICK out \in {0, 1} : /\ txq[Current[2]] + done[<<"tx", Current[2]>>] + out <= TxSize
                               /\ txq' = [txq EXCEPT ![Current[2]] = @ + out]
      BY <2>1 DEF TunHandler
    <3>3. ASSUME NEW p \in Port
          PROVE  txq'[p] \in 0 .. TxSize /\ txq'[p] + done[<<"tx", p>>] <= TxSize
      <4>1. txq'[p] = IF p = Current[2] THEN txq[p] + out ELSE txq[p]
        BY <3>1, <3>2 DEF IrqInv, TypeOK
      <4> QED
        <5>1. TypeOK /\ txq[p] + done[<<"tx", p>>] <= TxSize
          BY DEF IrqInv, RingCapacity
        <5>2. txq[p] \in Nat /\ done[<<"tx", p>>] \in Nat /\ txq[p] <= TxSize
          BY <5>1, RingTypes
        <5>3. p = Current[2] => txq[p] + done[<<"tx", p>>] + out <= TxSize
          BY <3>2
        <5> QED
          BY <4>1, <5>1, <5>2, <5>3, Sizes
    <3>4. DOMAIN txq' = Port /\ txq' = [p \in Port |-> txq'[p]]
      BY <3>2 DEF IrqInv, TypeOK
    <3> QED
      BY <3>3, <3>4
  <2>2. CASE NetlinkHandler \/ SignalHandler
    BY <2>2 DEF NetlinkHandler, SignalHandler, nicVars, IrqInv, TypeOK, RingCapacity
  <2> QED
    BY <2>1, <2>2
<1>5. TypeOK' /\ RingCapacity' /\ InLoop'
  BY <1>1, <1>2, <1>3, <1>4 DEF IrqInv, TypeOK, RingCapacity, InLoop, irqVars
<1>6. MaskedIsServed' /\ ReadDone'
  BY <1>1, <1>2, QuietIrq
<1> QED
  BY <1>5, <1>6 DEF IrqInv

(* A packet received or sent moves from one count of its ring to another. *)
LEMMA NicIrqInv ==
  ASSUME IrqInv, NEW p \in Port, RxArrive(p) \/ TxComplete(p)
  PROVE  IrqInv'
<1>0. TypeOK /\ RingCapacity
  BY DEF IrqInv
<1>1. /\ UNCHANGED <<masked, efd, tap, netlink, overrun, signal, rdllist, pc, events, i, left>>
      /\ UNCHANGED Current
  BY DEF RxArrive, TxComplete, irqVars, sockVars, threadVars, Current
<1>2. /\ avail' \in [Port -> 0 .. RxSize] /\ txq' \in [Port -> 0 .. TxSize]
      /\ done' \in [Queue -> Nat] /\ cause' \in [Queue -> BOOLEAN]
      /\ RingCapacity'
  <2>1. CASE RxArrive(p)
    <3>1. /\ avail[p] > 0 /\ avail' = [avail EXCEPT ![p] = @ - 1]
          /\ done' = [done EXCEPT ![<<"rx", p>>] = @ + 1]
          /\ cause' = [cause EXCEPT ![<<"rx", p>>] = TRUE] /\ txq' = txq
      BY <2>1 DEF RxArrive
    <3>2. avail' \in [Port -> 0 .. RxSize]
      BY <3>1, <1>0, Sizes DEF TypeOK
    <3>3. done' \in [Queue -> Nat]
      BY <3>1, <1>0, PortQueues, CountUp DEF TypeOK
    <3>4. cause' \in [Queue -> BOOLEAN]
      BY <3>1, <1>0, PortQueues DEF TypeOK
    <3>5. ASSUME NEW r \in Port
          PROVE  /\ avail'[r] + done'[<<"rx", r>>] <= RxSize
                 /\ txq'[r] + done'[<<"tx", r>>] <= TxSize
      <4>1. /\ avail[r] \in Nat /\ done[<<"rx", r>>] \in Nat
            /\ avail[r] + done[<<"rx", r>>] <= RxSize
            /\ txq[r] + done[<<"tx", r>>] <= TxSize
        BY <1>0, RingTypes DEF RingCapacity
      <4>2. done'[<<"tx", r>>] = done[<<"tx", r>>]
        BY <3>1, <1>0, PortQueues DEF TypeOK
      <4>3. CASE r = p
        <5>1. avail'[r] = avail[r] - 1 /\ done'[<<"rx", r>>] = done[<<"rx", r>>] + 1
          BY <3>1, <4>3, <1>0, PortQueues DEF TypeOK
        <5> QED
          BY <5>1, <4>1, <4>2, <3>1, Sizes
      <4>4. CASE r # p
        <5>1. avail'[r] = avail[r] /\ done'[<<"rx", r>>] = done[<<"rx", r>>]
          BY <3>1, <4>4, <1>0, PortQueues DEF TypeOK
        <5> QED
          BY <5>1, <4>1, <4>2, <3>1
      <4> QED
        BY <4>3, <4>4
    <3>6. RingCapacity'
      BY <3>5 DEF RingCapacity
    <3> QED
      BY <3>1, <3>2, <3>3, <3>4, <3>6, <1>0 DEF TypeOK
  <2>2. CASE TxComplete(p)
    <3>1. /\ txq[p] > 0 /\ txq' = [txq EXCEPT ![p] = @ - 1]
          /\ done' = [done EXCEPT ![<<"tx", p>>] = @ + 1]
          /\ cause' = [cause EXCEPT ![<<"tx", p>>] = TRUE] /\ avail' = avail
      BY <2>2 DEF TxComplete
    <3>2. txq' \in [Port -> 0 .. TxSize]
      BY <3>1, <1>0, Sizes DEF TypeOK
    <3>3. done' \in [Queue -> Nat]
      BY <3>1, <1>0, PortQueues, CountUp DEF TypeOK
    <3>4. cause' \in [Queue -> BOOLEAN]
      BY <3>1, <1>0, PortQueues DEF TypeOK
    <3>5. ASSUME NEW r \in Port
          PROVE  /\ avail'[r] + done'[<<"rx", r>>] <= RxSize
                 /\ txq'[r] + done'[<<"tx", r>>] <= TxSize
      <4>1. /\ txq[r] \in Nat /\ done[<<"tx", r>>] \in Nat
            /\ avail[r] + done[<<"rx", r>>] <= RxSize
            /\ txq[r] + done[<<"tx", r>>] <= TxSize
        BY <1>0, RingTypes DEF RingCapacity
      <4>2. done'[<<"rx", r>>] = done[<<"rx", r>>]
        BY <3>1, <1>0, PortQueues DEF TypeOK
      <4>3. CASE r = p
        <5>1. txq'[r] = txq[r] - 1 /\ done'[<<"tx", r>>] = done[<<"tx", r>>] + 1
          BY <3>1, <4>3, <1>0, PortQueues DEF TypeOK
        <5> QED
          BY <5>1, <4>1, <4>2, <3>1, Sizes
      <4>4. CASE r # p
        <5>1. txq'[r] = txq[r] /\ done'[<<"tx", r>>] = done[<<"tx", r>>]
          BY <3>1, <4>4, <1>0, PortQueues DEF TypeOK
        <5> QED
          BY <5>1, <4>1, <4>2, <3>1
      <4> QED
        BY <4>3, <4>4
    <3>6. RingCapacity'
      BY <3>5 DEF RingCapacity
    <3> QED
      BY <3>1, <3>2, <3>3, <3>4, <3>6, <1>0 DEF TypeOK
  <2> QED
    BY <2>1, <2>2
<1>3. TypeOK'
  BY <1>0, <1>1, <1>2 DEF TypeOK
<1>4. InLoop' /\ MaskedIsServed' /\ ReadDone'
  BY <1>1 DEF IrqInv, InLoop, MaskedIsServed, ReadDone, InService
<1> QED
  BY <1>2, <1>3, <1>4 DEF IrqInv

(* An interrupt masks the queue and signals its eventfd in one step. *)
LEMMA InterruptIrqInv ==
  ASSUME IrqInv, NEW q \in Queue, Interrupt(q)
  PROVE  IrqInv'
<1>1. /\ ~ masked[q] /\ cause' = [cause EXCEPT ![q] = FALSE]
      /\ masked' = [masked EXCEPT ![q] = TRUE] /\ efd' = [efd EXCEPT ![q] = @ + 1]
      /\ UNCHANGED <<avail, done, txq, tap, netlink, overrun, signal, pc, events, i, left>>
      /\ UNCHANGED Current
  BY DEF Interrupt, sockVars, threadVars, Current
<1>2. rdllist' \in Seq(Fd)
  BY NotifyType, FdFacts DEF Interrupt, IrqInv, TypeOK
<1>3. TypeOK /\ efd[q] \in Nat
  BY DEF IrqInv, TypeOK
<1>4. efd' \in [Queue -> Nat] /\ masked' \in [Queue -> BOOLEAN] /\ cause' \in [Queue -> BOOLEAN]
  BY <1>1, <1>3 DEF TypeOK
<1>5. TypeOK'
  BY <1>1, <1>2, <1>3, <1>4 DEF TypeOK
<1>6. RingCapacity' /\ InLoop'
  BY <1>1 DEF IrqInv, RingCapacity, InLoop
<1>7. ~ (efd[q] > 0) /\ ~ InService(q)
  BY <1>1 DEF IrqInv, MaskedIsServed
<1>8. efd'[q] > 0 /\ masked'[q]
  BY <1>1, <1>3 DEF TypeOK
<1>9. MaskedIsServed'
  <2> SUFFICES ASSUME NEW r \in Queue
               PROVE  masked'[r] <=> efd'[r] > 0 \/ InService(r)'
    BY DEF MaskedIsServed
  <2>1. CASE r = q
    BY <2>1, <1>8
  <2>2. CASE r # q
    <3>1. masked'[r] = masked[r] /\ efd'[r] = efd[r] /\ (InService(r)' <=> InService(r))
      BY <2>2, <1>1, <1>3 DEF TypeOK, InService
    <3> QED
      BY <3>1 DEF IrqInv, MaskedIsServed
  <2> QED
    BY <2>1, <2>2
<1>10. ReadDone'
  <2>1. pc = "unmask" => Current # q
    BY <1>7 DEF InService
  <2> QED
    BY <2>1, <1>1, <1>3 DEF IrqInv, ReadDone, InLoop, TypeOK
<1> QED
  BY <1>5, <1>6, <1>9, <1>10 DEF IrqInv

(* Packets of the TAP interfaces, routing messages and the signal leave    *)
(* the rings, the interrupts and the thread alone.                         *)
LEMMA SocketIrqInv ==
  ASSUME IrqInv, (\E p \in Port : TapArrive(p)) \/ NetlinkArrive \/ Kill
  PROVE  IrqInv'
<1>1. UNCHANGED <<nicVars, irqVars, threadVars>> /\ TypeOK
  BY DEF TapArrive, NetlinkArrive, Kill, IrqInv
<1>2. rdllist' \in Seq(Fd)
  BY NotifyType, FdFacts DEF TapArrive, NetlinkArrive, Kill, IrqInv, TypeOK
<1>3. /\ tap' \in [Port -> 0 .. QueueBound] /\ netlink' \in 0 .. QueueBound
      /\ overrun' \in BOOLEAN /\ signal' \in BOOLEAN
  <2>1. CASE \E p \in Port : TapArrive(p)
    BY <2>1, <1>1, Sizes DEF TapArrive, TypeOK
  <2>2. CASE NetlinkArrive
    <3>1. UNCHANGED <<tap, signal>> /\ overrun' \in BOOLEAN
      BY <2>2, <1>1 DEF NetlinkArrive, TypeOK
    <3>2. netlink' = netlink \/ (netlink < QueueBound /\ netlink' = netlink + 1)
      BY <2>2 DEF NetlinkArrive
    <3> QED
      BY <3>1, <3>2, <1>1, Sizes DEF TypeOK
  <2>3. CASE Kill
    BY <2>3, <1>1 DEF Kill, TypeOK
  <2> QED
    BY <2>1, <2>2, <2>3
<1>4. TypeOK' /\ RingCapacity' /\ InLoop' /\ MaskedIsServed' /\ ReadDone'
  BY <1>1, <1>2, <1>3 DEF IrqInv, TypeOK, RingCapacity, InLoop, MaskedIsServed, ReadDone,
     InService, Current, nicVars, irqVars, threadVars
<1> QED
  BY <1>4 DEF IrqInv

(* Every step keeps the invariant. *)
LEMMA NextIrqInv == IrqInv /\ [Next]_vars => IrqInv'
<1> SUFFICES ASSUME IrqInv, [Next]_vars PROVE IrqInv'
  OBVIOUS
<1>1. CASE Thread
  BY <1>1, EpollIrqInv, RxHandlerIrqInv, TxHandlerIrqInv, ReadIrqInv, UnmaskIrqInv,
     OtherHandlersIrqInv DEF Thread
<1>2. CASE Environment
  BY <1>2, NicIrqInv, InterruptIrqInv, SocketIrqInv DEF Environment
<1>3. CASE UNCHANGED vars
  BY <1>3 DEF vars, nicVars, irqVars, sockVars, threadVars, IrqInv, TypeOK, RingCapacity,
     InLoop, MaskedIsServed, ReadDone, InService, Current
<1> QED
  BY <1>1, <1>2, <1>3 DEF Next

(* The invariant of the interrupt path holds in every reachable state of   *)
(* the event loop.                                                         *)
THEOREM IrqInvariant == Spec => []IrqInv
<1> QED
  BY InitIrqInv, NextIrqInv, PTL DEF Spec

(* The state of the event loop is well formed: no handler takes back more  *)
(* descriptors than are completed, no read takes more than is queued.      *)
THEOREM EventLoopTypeCorrect == Spec => []TypeOK
<1>1. IrqInv => TypeOK
  BY DEF IrqInv
<1> QED
  BY <1>1, IrqInvariant, PTL

(* A queue masked by the NIC is always about to be unmasked: its eventfd   *)
(* is signalled or thread_wait is between its read and the unmask.         *)
THEOREM MaskedIsServedHolds == Spec => []MaskedIsServed
<1>1. IrqInv => MaskedIsServed
  BY DEF IrqInv
<1> QED
  BY <1>1, IrqInvariant, PTL

-----------------------------------------------------------------------------
(***************************************************************************)
(* NoLostWakeup, for any budgets and any number of events.                 *)
(***************************************************************************)

(* A reported queue has a signalled eventfd. *)
LEMMA ReadableQueue == \A q \in Queue : Readable(q) => efd[q] > 0
BY DEF Readable, Queue, Netlink, Signal

(* Nothing is completed initially. *)
LEMMA InitWakeInv == Init => WakeInv
BY Sizes DEF Init, WakeInv, NoLostWakeup, OnTheWay, EventsSignalled

(* A step that leaves completions, causes and eventfds alone, and comes    *)
(* back to the queues it would have come back to, loses no wakeup.         *)
LEMMA QuietWake ==
  ASSUME WakeInv, UNCHANGED <<done, cause, efd, left>>,
         \A q \in Queue : HandledAgain(q) \/ pc = "exit" => HandledAgain(q)' \/ pc' = "exit"
  PROVE  NoLostWakeup'
BY DEF WakeInv, NoLostWakeup

(* The for statement goes on with the next event, or with the one behind   *)
(* index NumPorts: it skips no event it would have handled again.          *)
LEMMA ContinueWake ==
  ASSUME IrqInv, WakeInv, UNCHANGED <<done, cause, efd, left>>,
         pc \in {"dispatch", "unmask"}, NEW k \in Nat, Continue(k),
         k = NumPorts + 1 \/ (pc = "dispatch" /\ k = i + 1 /\ Current \in {Netlink, Signal})
  PROVE  WakeInv'
<1>0. i \in Nat /\ Len(events) \in Nat /\ NumPorts \in Nat
  BY Sizes DEF IrqInv, TypeOK
<1>1. ASSUME NEW q \in Queue, HandledAgain(q) PROVE HandledAgain(q)'
  <2>1. PICK j \in NumPorts + 2 .. Len(events) :
          events[j] = q /\ Passed(j - 1) /\ (pc = "dispatch" => i < j)
    BY <1>1 DEF HandledAgain
  <2>2. k < j
    <3>1. CASE k = NumPorts + 1
      BY <3>1, <1>0
    <3>2. CASE pc = "dispatch" /\ k = i + 1 /\ Current \in {Netlink, Signal}
      <4>1. j # i + 1
        BY <2>1, <3>2 DEF Current, Queue, Netlink, Signal
      <4> QED
        BY <4>1, <2>1, <3>2, <1>0
    <3> QED
      BY <3>1, <3>2
  <2>3. k < Len(events)
    BY <2>2, <1>0
  <2>4. i' = k /\ events' = events
    BY <2>3 DEF Continue
  <2> QED
    BY <2>1, <2>2, <2>4 DEF HandledAgain, Passed
<1>2. EventsSignalled'
  <2>1. CASE k < Len(events)
    <3>1. pc' = "dispatch" /\ i' = k /\ events' = events
      BY <2>1 DEF Continue
    <3>2. ASSUME NEW j \in k + 1 .. Len(events), j <= NumPorts + 1, events[j] \in Queue
          PROVE  efd[events[j]] > 0
      <4>1. pc = "dispatch" /\ j \in i + 1 .. Len(events)
        BY <3>2, <1>0
      <4> QED
        BY <4>1, <3>2 DEF WakeInv, EventsSignalled
    <3> QED
      BY <3>1, <3>2 DEF EventsSignalled
  <2>2. CASE ~ (k < Len(events))
    BY <2>2 DEF Continue, EventsSignalled
  <2> QED
    BY <2>1, <2>2
<1>3. NoLostWakeup'
  BY <1>1, QuietWake
<1>4. OnTheWay'
  <2>1. CASE k < Len(events)
    <3>1. pc' = "dispatch" /\ i' = k /\ events' = events
      BY <2>1 DEF Continue
    <3>2. ASSUME NEW j \in NumPorts + 2 .. k PROVE events[j] \in {Netlink, Signal}
      <4>1. pc = "dispatch" /\ k = i + 1 /\ Current \in {Netlink, Signal}
        BY <1>0, <3>2
      <4>2. CASE j = i + 1
        BY <4>1, <4>2 DEF Current
      <4>3. CASE j # i + 1
        <5>1. j \in NumPorts + 2 .. i
          BY <4>1, <4>3, <3>2, <1>0
        <5> QED
          BY <4>1, <5>1 DEF WakeInv, OnTheWay, Passed
      <4> QED
        BY <4>2, <4>3
    <3> QED
      BY <3>1, <3>2 DEF OnTheWay, Passed
  <2>2. CASE ~ (k < Len(events))
    BY <2>2 DEF Continue, OnTheWay
  <2> QED
    BY <2>1, <2>2
<1> QED
  BY <1>2, <1>3, <1>4 DEF WakeInv

(* A thread that ends is not waiting for anything. *)
LEMMA ExitWake ==
  ASSUME Exit
  PROVE  WakeInv'
BY DEF Exit, WakeInv, NoLostWakeup, OnTheWay, EventsSignalled

(* The events epoll_wait reports are signalled. *)
LEMMA EpollWake ==
  ASSUME IrqInv, WakeInv, EpollWait
  PROVE  WakeInv'
<1>1. UNCHANGED <<done, cause, efd, left, i>> /\ i = 0 /\ pc = "epoll_wait"
  BY DEF EpollWait, nicVars, irqVars, IrqInv, InLoop
<1>2. /\ events' \in Seq(Fd) /\ pc' \in {"epoll_wait", "dispatch"}
      /\ \A k \in 1 .. Len(events') : Readable(events'[k])
  BY EpollFacts DEF IrqInv
<1>3. \A q \in Queue : ~ HandledAgain(q)
  <2>1. Len(events) = 0
    BY <1>1 DEF WakeInv, EventsSignalled
  <2> QED
    BY <2>1, Sizes DEF HandledAgain
<1>4. NoLostWakeup'
  BY <1>1, <1>3, QuietWake
<1>5. \A k \in i' + 1 .. Len(events') : events'[k] \in Queue => efd'[events'[k]] > 0
  BY <1>1, <1>2, ReadableQueue
<1>6. pc' = "epoll_wait" => events' = << >>
  <2>1. PICK n \in 0 .. Len(rdllist) : \E idx \in [1 .. n -> ReadyPlaces] :
          /\ events' = [k \in 1 .. Least(n, MaxEvents) |-> rdllist[idx[k]]]
          /\ pc' = IF n > 0 THEN "dispatch" ELSE "epoll_wait"
    BY DEF EpollWait
  <2>2. ASSUME pc' = "epoll_wait" PROVE Len(events') = 0
    <3>1. n = 0
      BY <2>1, <2>2 DEF IrqInv, TypeOK
    <3>2. Least(n, MaxEvents) = 0
      BY <3>1, Sizes DEF Least
    <3> QED
      BY <2>1, <3>2
  <2> QED
    BY <2>2, <1>2, EmptySeq
<1>7. OnTheWay'
  BY <1>1, Sizes DEF OnTheWay, Passed
<1> QED
  BY <1>2, <1>4, <1>5, <1>6, <1>7 DEF WakeInv, EventsSignalled

(* A handler leaves what its budget does not cover, and sees the rest. *)
LEMMA HandlerWake ==
  ASSUME IrqInv, WakeInv, RxHandler \/ TxHandler
  PROVE  WakeInv'
<1>1. /\ Current \in Queue /\ Current \in Fd /\ pc = "dispatch" /\ pc' = "read"
      /\ UNCHANGED <<cause, efd, events, i>> /\ Current' = Current
      /\ left' = [left EXCEPT ![Current] = done'[Current]]
  BY CurrentType, FdFacts DEF RxHandler, TxHandler, At, irqVars, Current
<1>2. \A q \in Queue : q # Current => done'[q] = done[q]
  BY DEF RxHandler, TxHandler, IrqInv, TypeOK
<1>3. /\ left'[Current] = done'[Current]
      /\ \A q \in Queue : q # Current => left'[q] = left[q]
  BY <1>1 DEF IrqInv, TypeOK
<1>4. i < Len(events) /\ i \in Nat /\ Len(events) \in Nat /\ NumPorts \in Nat
  BY <1>1, Sizes DEF IrqInv, TypeOK, InLoop
<1>5. done'[Current] \in Nat
  BY <1>1, RxHandlerIrqInv, TxHandlerIrqInv DEF IrqInv, TypeOK
<1>6. NoLostWakeup'
  <2> SUFFICES ASSUME NEW q \in Queue, done'[q] > left'[q]
               PROVE  cause'[q] \/ efd'[q] > 0 \/ HandledAgain(q)'
    BY DEF NoLostWakeup
  <2>1. q # Current
    BY <1>3, <1>5
  <2>2. cause[q] \/ efd[q] > 0 \/ HandledAgain(q)
    BY <2>1, <1>1, <1>2, <1>3 DEF WakeInv, NoLostWakeup
  <2>3. HandledAgain(q) => HandledAgain(q)'
    BY <1>1 DEF HandledAgain, Passed
  <2> QED
    BY <2>2, <2>3, <1>1
<1>7. i <= NumPorts => efd[Current] > 0
  <2> SUFFICES ASSUME i <= NumPorts PROVE efd[events[i + 1]] > 0
    BY DEF Current
  <2>1. i + 1 \in i + 1 .. Len(events) /\ i + 1 <= NumPorts + 1
    BY <1>4
  <2> QED
    BY <2>1, <1>1 DEF WakeInv, EventsSignalled, Current
<1>8. ~ (done'[Current] > left'[Current])
  BY <1>3, <1>5
<1>9. OnTheWay'
  BY <1>1 DEF WakeInv, OnTheWay, Passed
<1> QED
  BY <1>1, <1>6, <1>7, <1>8, <1>9 DEF WakeInv, EventsSignalled

(* The read takes the signal away only after the queue was cleaned, or     *)
(* when the queue is handled again.                                        *)
LEMMA ReadWake ==
  ASSUME IrqInv, WakeInv, ReadEventfd
  PROVE  WakeInv'
<1>1. /\ Current \in Queue /\ pc = "read" /\ pc' = "unmask"
      /\ efd' = [efd EXCEPT ![Current] = 0] /\ efd \in [Queue -> Nat]
      /\ UNCHANGED <<done, cause, left, events, i>>
  BY DEF IrqInv, InLoop, TypeOK, ReadEventfd, nicVars
<1>2. i < Len(events) /\ i \in Nat /\ Len(events) \in Nat /\ NumPorts \in Nat
  BY <1>1, Sizes DEF IrqInv, TypeOK, InLoop
<1>3. NoLostWakeup'
  <2> SUFFICES ASSUME NEW q \in Queue, done[q] > left[q]
               PROVE  cause[q] \/ efd'[q] > 0 \/ HandledAgain(q)'
    BY <1>1 DEF NoLostWakeup
  <2>1. CASE q # Current
    <3>1. cause[q] \/ efd[q] > 0 \/ HandledAgain(q)
      BY <1>1 DEF WakeInv, NoLostWakeup
    <3>2. HandledAgain(q) => HandledAgain(q)'
      BY <1>1 DEF HandledAgain, Passed
    <3>3. efd'[q] = efd[q]
      BY <2>1, <1>1
    <3> QED
      BY <3>1, <3>2, <3>3
  <2>2. CASE q = Current /\ i <= NumPorts
    BY <2>2, <1>1 DEF WakeInv, EventsSignalled
  <2>3. CASE q = Current /\ ~ (i <= NumPorts)
    <3>1. i + 1 \in NumPorts + 2 .. Len(events) /\ events[i + 1] = q
      BY <2>3, <1>2 DEF Current
    <3>2. \A j \in NumPorts + 2 .. i : events[j] \in {Netlink, Signal}
      BY <1>1 DEF WakeInv, OnTheWay, Passed
    <3>3. HandledAgain(q)
      <4>1. PICK k \in NumPorts + 2 .. Len(events) : k = i + 1
        BY <3>1
      <4>2. k - 1 = i /\ events[k] = q
        BY <4>1, <3>1, <1>2
      <4>3. Passed(k - 1)
        BY <4>2, <3>2 DEF Passed
      <4> QED
        BY <4>2, <4>3, <1>1 DEF HandledAgain
    <3> QED
      BY <3>3, <1>1 DEF HandledAgain, Passed
  <2> QED
    BY <2>1, <2>2, <2>3
<1>4. OnTheWay'
  BY <1>1 DEF WakeInv, OnTheWay, Passed
<1> QED
  BY <1>1, <1>3, <1>4 DEF WakeInv, EventsSignalled

(* The other steps of the thread lose no wakeup. *)
LEMMA ThreadWake ==
  ASSUME IrqInv, WakeInv, Unmask \/ TunHandler \/ NetlinkHandler \/ SignalHandler
  PROVE  WakeInv'
<1>1. UNCHANGED <<done, cause, efd, left>>
  BY DEF Unmask, TunHandler, NetlinkHandler, SignalHandler, nicVars, irqVars
<1>2. CASE Unmask \/ TunHandler
  <2>1. pc \in {"dispatch", "unmask"} /\ Continue(NumPorts + 1) /\ NumPorts + 1 \in Nat
    BY <1>2, Sizes DEF Unmask, TunHandler, At, NextEventAfterPorts
  <2> QED
    BY <2>1, <1>1, ContinueWake
<1>3. CASE NetlinkHandler
  <2>1. pc = "dispatch" /\ Current[1] = "netlink" /\ (Exit \/ Continue(i + 1))
    BY <1>3 DEF NetlinkHandler, At, NextEvent
  <2>2. Current \in {Netlink, Signal} /\ i + 1 \in Nat
    BY <2>1, CurrentType DEF Fd, Netlink, Signal, IrqInv, TypeOK
  <2> QED
    BY <2>1, <2>2, <1>1, ContinueWake, ExitWake
<1>4. CASE SignalHandler
  BY <1>4, ExitWake DEF SignalHandler
<1> QED
  BY <1>2, <1>3, <1>4

(* A completion raises the cause with it. *)
LEMMA NicWake ==
  ASSUME IrqInv, WakeInv, NEW p \in Port, RxArrive(p) \/ TxComplete(p)
  PROVE  WakeInv'
<1>1. PICK q \in Queue : /\ done' = [done EXCEPT ![q] = @ + 1]
                        /\ cause' = [cause EXCEPT ![q] = TRUE]
  BY PortQueues DEF RxArrive, TxComplete
<1>2. UNCHANGED <<efd, pc, events, i, left>> /\ Current' = Current
  BY DEF RxArrive, TxComplete, irqVars, threadVars, Current
<1>3. done \in [Queue -> Nat] /\ cause \in [Queue -> BOOLEAN]
  BY DEF IrqInv, TypeOK
<1>4. \A r \in Queue : (done'[r] = done[r] /\ cause'[r] = cause[r]) \/ cause'[r]
  BY <1>1, <1>3
<1>5. \A r \in Queue : HandledAgain(r)' <=> HandledAgain(r)
  BY <1>2 DEF HandledAgain, Passed
<1>6. NoLostWakeup'
  BY <1>2, <1>4, <1>5 DEF WakeInv, NoLostWakeup
<1>7. EventsSignalled'
  BY <1>2, <1>4 DEF WakeInv, EventsSignalled, IrqInv, InLoop
<1>8. OnTheWay'
  BY <1>2 DEF WakeInv, OnTheWay, Passed
<1> QED
  BY <1>6, <1>7, <1>8 DEF WakeInv

(* An interrupt turns a cause into a signal; the queue in the hands of the *)
(* thread is masked, so its cause waits for the unmask.                    *)
LEMMA InterruptWake ==
  ASSUME IrqInv, WakeInv, NEW q \in Queue, Interrupt(q)
  PROVE  WakeInv'
<1>1. /\ ~ masked[q] /\ cause' = [cause EXCEPT ![q] = FALSE]
      /\ efd' = [efd EXCEPT ![q] = @ + 1]
      /\ UNCHANGED <<done, left, pc, events, i>> /\ Current' = Current
  BY DEF Interrupt, threadVars, Current
<1>2. efd \in [Queue -> Nat] /\ cause \in [Queue -> BOOLEAN]
  BY DEF IrqInv, TypeOK
<1>3. efd'[q] > 0 /\ \A r \in Queue : efd'[r] >= efd[r] /\ (r # q => cause'[r] = cause[r])
                  /\ efd'[r] \in Nat /\ efd[r] \in Nat
  <2>1. \A r \in Queue : r # q => cause'[r] = cause[r]
    BY <1>1, <1>2
  <2>2. /\ efd' \in [Queue -> Nat] /\ efd'[q] = efd[q] + 1
        /\ \A r \in Queue : r # q => efd'[r] = efd[r]
    BY <1>1, <1>2, CountUp
  <2> QED
    BY <1>2, <2>1, <2>2
<1>4. \A r \in Queue : HandledAgain(r)' <=> HandledAgain(r)
  BY <1>1 DEF HandledAgain, Passed
<1>5. NoLostWakeup'
  BY <1>1, <1>3, <1>4 DEF WakeInv, NoLostWakeup
<1>6. ~ (efd[q] > 0)
  BY <1>1 DEF IrqInv, MaskedIsServed
<1>7. pc = "read" => Current \in Queue /\ (i <= NumPorts => Current # q)
  BY <1>6 DEF WakeInv, EventsSignalled, IrqInv, InLoop
<1>8. EventsSignalled'
  BY <1>1, <1>3, <1>7 DEF WakeInv, EventsSignalled
<1>9. OnTheWay'
  BY <1>1 DEF WakeInv, OnTheWay, Passed
<1> QED
  BY <1>5, <1>8, <1>9 DEF WakeInv

(* Every step keeps the invariant. *)
LEMMA NextWakeInv == IrqInv /\ WakeInv /\ [Next]_vars => WakeInv'
<1> SUFFICES ASSUME IrqInv, WakeInv, [Next]_vars PROVE WakeInv'
  OBVIOUS
<1>1. CASE Thread
  BY <1>1, EpollWake, HandlerWake, ReadWake, ThreadWake DEF Thread
<1>2. CASE \E p \in Port : RxArrive(p) \/ TxComplete(p)
  BY <1>2, NicWake
<1>3. CASE \E q \in Queue : Interrupt(q)
  BY <1>3, InterruptWake
<1>4. CASE (\E p \in Port : TapArrive(p)) \/ NetlinkArrive \/ Kill \/ UNCHANGED vars
  <2>1. UNCHANGED <<done, cause, efd, pc, events, i, left>>
    BY <1>4 DEF TapArrive, NetlinkArrive, Kill, vars, nicVars, irqVars, threadVars
  <2>2. \A q \in Queue : HandledAgain(q)' <=> HandledAgain(q)
    BY <2>1 DEF HandledAgain, Passed
  <2>3. OnTheWay'
    BY <2>1 DEF WakeInv, OnTheWay, Passed
  <2> QED
    BY <2>1, <2>2, <2>3 DEF WakeInv, NoLostWakeup, EventsSignalled, Current
<1> QED
  BY <1>1, <1>2, <1>3, <1>4 DEF Next, Environment

(* For any budgets, ring sizes, ports and number of events, a completion   *)
(* that the last handler did not see never waits without an interrupt, a   *)
(* signal or a handler to come: the order clean, read, unmask of           *)
(* thread_wait and the automatic mask of the NIC lose no wakeup, although  *)
(* the for statement may handle an event twice.                            *)
THEOREM NoLostWakeupHolds == Spec => []NoLostWakeup
<1>1. WakeInv => NoLostWakeup
  BY DEF WakeInv
<1> QED
  BY <1>1, InitWakeInv, NextWakeInv, IrqInvariant, PTL DEF Spec

=============================================================================
