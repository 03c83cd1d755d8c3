----------------------------- MODULE DataPlane ------------------------------
(***************************************************************************)
(* The data plane of one core: the thread of src/thread.c that runs the    *)
(* handlers of lib/driver.c and src/forward.c, and the NIC that fetches    *)
(* and completes descriptors at the same time.  A core has its own RX and  *)
(* TX ring on every port and its own packet buffers, so cores share        *)
(* nothing that this module models.                                        *)
(*                                                                         *)
(* Every iteration of a loop of the C code is one step, because the NIC    *)
(* runs between any two of them.  Which handler runs next is left open     *)
(* here: the choice is the event loop's.                                   *)
(***************************************************************************)
EXTENDS DescRing, Sequences, FiniteSets

CONSTANTS
  NumPorts,   \* number of ports, one RX and one TX ring each
  NumDesc,    \* NumDesc["rx"], NumDesc["tx"]: descriptors in a ring
  Budget,     \* Budget["rx"], Budget["tx"]: descriptors cleaned per call
  BufCount,   \* packet buffers in the partition of a port (buf->count)
  Egress      \* the ports some route of the FIB leads to

ASSUME DataPlaneAssumption ==
  /\ NumPorts \in Nat \ {0}
  /\ NumDesc \in [{"rx", "tx"} -> Nat \ {0}]
  /\ Budget  \in [{"rx", "tx"} -> Nat \ {0}]
  /\ BufCount \in Nat \ {0}
  /\ Egress \subseteq 0 .. NumPorts - 1

Port == 0 .. NumPorts - 1
Ring == {"rx", "tx"} \X Port
Size(r) == NumDesc[r[1]]

(* A packet buffer.  buf->slots has NumPorts * BufCount entries; entry     *)
(* rx_slot_offset + k of port p (rx_slot_offset = p * count) is <<p, k>>.  *)
Slot == Port \X (0 .. BufCount - 1)

VARIABLES
  slots,          \* buf->slots: is IXMAP_SLOT_INFLIGHT set?
  rx_slot_next,   \* where the search for a free buffer starts, per port
  next_to_use,    \* next descriptor the thread fills, per ring
  next_to_clean,  \* next descriptor the thread takes back, per ring
  tail,           \* the tail register, per ring
  head,           \* next descriptor the NIC completes, per ring
  dd,             \* the "descriptor done" bit of every descriptor
  slot_index,     \* the buffer attached to every descriptor
  tx_suspended,   \* descriptors filled and not yet shown to the NIC, per port
  pc,             \* the handler or loop the thread is in
  port_index,     \* the port whose event is being handled
  i,              \* the loop over all the ports
  total,          \* the loop counter of the running handler
  max_allocation, \* descriptors ixmap_rx_assign set out to fill
  packet          \* buffers cleaned and not yet forwarded

ringVars   == <<next_to_use, next_to_clean, tail, head, dd, slot_index>>
bufVars    == <<slots, rx_slot_next>>
threadVars == <<pc, port_index, i, total, max_allocation, packet>>
vars       == <<ringVars, bufVars, tx_suspended, threadVars>>

PC == {"epoll_wait", "rx_clean", "forward", "tx_xmit", "tx_clean", "rx_assign"}

TypeOK ==
  /\ slots \in [Slot -> BOOLEAN]
  /\ rx_slot_next \in [Port -> 0 .. BufCount - 1]
  /\ next_to_use \in [Ring -> Nat]   /\ \A r \in Ring : next_to_use[r] \in Desc(Size(r))
  /\ next_to_clean \in [Ring -> Nat] /\ \A r \in Ring : next_to_clean[r] \in Desc(Size(r))
  /\ tail \in [Ring -> Nat]          /\ \A r \in Ring : tail[r] \in Desc(Size(r))
  /\ head \in [Ring -> Nat]          /\ \A r \in Ring : head[r] \in Desc(Size(r))
  /\ DOMAIN dd = Ring         /\ \A r \in Ring : dd[r] \in [Desc(Size(r)) -> BOOLEAN]
  /\ DOMAIN slot_index = Ring /\ \A r \in Ring : slot_index[r] \in [Desc(Size(r)) -> Slot]
  /\ tx_suspended \in [Port -> Nat]
  /\ pc \in PC
  /\ port_index \in Port
  /\ i \in Port
  /\ total \in Nat
  /\ max_allocation \in Nat
  /\ packet \in Seq(Slot)

-----------------------------------------------------------------------------
(* How many descriptors of ring r may still be filled. *)
Unused(r) == ixmap_desc_unused(next_to_clean[r], next_to_use[r], Size(r))

(* ixmap_slot_assign finds the first free buffer of port p, searching      *)
(* round-robin from rx_slot_next, and marks it in flight.                  *)
Candidate(p, k) ==
  LET n == rx_slot_next[p] + k
  IN  <<p, IF n < BufCount THEN n ELSE n - BufCount>>

SlotFree(p) == \E k \in 0 .. BufCount - 1 : ~ slots[<<p, k>>]

(* Mutant: the flag IXMAP_SLOT_INFLIGHT is not tested. *)
FirstInFlight(p, s) == s = Candidate(p, 0)

FirstFree(p, s) ==
  \E k \in 0 .. BufCount - 1 :
    /\ s = Candidate(p, k)
    /\ ~ slots[s]
    /\ \A j \in 0 .. k - 1 : slots[Candidate(p, j)]

(* Mutant: rx_slot_next is not wrapped at the end of the partition. *)
AdvanceWithoutWrap(p, s) ==
  rx_slot_next' = [rx_slot_next EXCEPT ![p] = s[2] + 1]

AdvanceSlotNext(p, s) ==
  rx_slot_next' = [rx_slot_next EXCEPT ![p] = NextIndex(s[2], BufCount)]

(* Mutant: the done bit of the previous lap stays set. *)
FillWithoutClear(r, s) ==
  /\ slot_index' = [slot_index EXCEPT ![r][next_to_use[r]] = s]
  /\ next_to_use' = [next_to_use EXCEPT ![r] = NextIndex(@, Size(r))]
  /\ UNCHANGED dd

(* Attach a buffer to the descriptor at next_to_use and write it: the      *)
(* write clears the done bit that shares its word.                         *)
FillDesc(r, s) ==
  /\ slot_index' = [slot_index EXCEPT ![r][next_to_use[r]] = s]
  /\ dd' = [dd EXCEPT ![r][next_to_use[r]] = FALSE]
  /\ next_to_use' = [next_to_use EXCEPT ![r] = NextIndex(@, Size(r))]

(* Mutant: the done bit is not tested. *)
CleanUndone(r) == next_to_clean[r] # next_to_use[r]

(* The descriptor at next_to_clean is the thread's and it is done. *)
CanClean(r) ==
  /\ next_to_clean[r] # next_to_use[r]
  /\ dd[r][next_to_clean[r]]

CleanDesc(r) ==
  next_to_clean' = [next_to_clean EXCEPT ![r] = NextIndex(@, Size(r))]

WriteTail(r) == tail' = [tail EXCEPT ![r] = next_to_use[r]]

(* Enter ixmap_rx_assign for port p. *)
CallRxAssign(p) ==
  /\ pc' = "rx_assign"
  /\ i' = p
  /\ total' = 0
  /\ max_allocation' = ixmap_desc_unused(next_to_clean[<<"rx", p>>],
                                         next_to_use[<<"rx", p>>], NumDesc["rx"])

(* Start the loop that calls ixmap_tx_xmit for every port. *)
CallTxXmit ==
  /\ pc' = "tx_xmit"
  /\ i' = 0

(* The handler is over; its local variables are dead until the next event  *)
(* and keep no value here.                                                 *)
EndEvent ==
  /\ pc' = "epoll_wait"
  /\ port_index' = 0
  /\ i' = 0
  /\ total' = 0
  /\ max_allocation' = 0

-----------------------------------------------------------------------------
(* thread_process_interrupt fills the RX rings before it first waits. *)
Init ==
  /\ slots = [s \in Slot |-> FALSE]
  /\ rx_slot_next = [p \in Port |-> 0]
  /\ next_to_use = [r \in Ring |-> 0]
  /\ next_to_clean = [r \in Ring |-> 0]
  /\ tail = [r \in Ring |-> 0]
  /\ head = [r \in Ring |-> 0]
  /\ dd = [r \in Ring |-> [d \in Desc(Size(r)) |-> FALSE]]
  /\ slot_index = [r \in Ring |-> [d \in Desc(Size(r)) |-> <<0, 0>>]]
  /\ tx_suspended = [p \in Port |-> 0]
  /\ pc = "rx_assign"
  /\ port_index = 0
  /\ i = 0
  /\ total = 0
  /\ max_allocation = NumDesc["rx"] - 1
  /\ packet = << >>

(* One iteration of ixmap_rx_assign. *)
RxAssign ==
  LET r == <<"rx", i>> IN
  /\ pc = "rx_assign"
  /\ total < max_allocation
  /\ \E s \in Slot :
       /\ FirstFree(i, s)
       /\ slots' = [slots EXCEPT ![s] = TRUE]
       /\ AdvanceSlotNext(i, s)
       /\ FillDesc(r, s)
  /\ total' = total + 1
  /\ UNCHANGED <<next_to_clean, tail, head, tx_suspended,
                 pc, port_index, i, max_allocation, packet>>

(* ixmap_rx_assign returns: all descriptors are filled, or no buffer is    *)
(* left.  The tail moves only if something was filled.  The caller's loop  *)
(* goes on with the next port.                                             *)
RxAssignReturn ==
  LET r == <<"rx", i>> IN
  /\ pc = "rx_assign"
  /\ total >= max_allocation \/ ~ SlotFree(i)
  /\ IF total > 0 THEN WriteTail(r) ELSE UNCHANGED tail
  /\ IF i + 1 < NumPorts
       THEN CallRxAssign(i + 1) /\ UNCHANGED port_index
       ELSE EndEvent
  /\ UNCHANGED <<next_to_use, next_to_clean, head, dd, slot_index, bufVars,
                 tx_suspended, packet>>

(* epoll_wait reports an event of port p: RX interrupt, TX interrupt.      *)
RxEvent(p) ==
  /\ pc = "epoll_wait"
  /\ pc' = "rx_clean"
  /\ port_index' = p
  /\ UNCHANGED <<ringVars, bufVars, tx_suspended, i, total, max_allocation, packet>>

TxEvent(p) ==
  /\ pc = "epoll_wait"
  /\ pc' = "tx_clean"
  /\ port_index' = p
  /\ total' = 0
  /\ UNCHANGED <<ringVars, bufVars, tx_suspended, i, max_allocation, packet>>

(* One iteration of ixmap_rx_clean. *)
RxClean ==
  LET r == <<"rx", port_index>> IN
  /\ pc = "rx_clean"
  /\ Len(packet) < Budget["rx"]
  /\ CanClean(r)
  /\ packet' = Append(packet, slot_index[r][next_to_clean[r]])
  /\ CleanDesc(r)
  /\ UNCHANGED <<next_to_use, tail, head, dd, slot_index, bufVars, tx_suspended,
                 pc, port_index, i, total, max_allocation>>

RxCleanReturn ==
  /\ pc = "rx_clean"
  /\ Len(packet) >= Budget["rx"] \/ ~ CanClean(<<"rx", port_index>>)
  /\ pc' = "forward"
  /\ UNCHANGED <<ringVars, bufVars, tx_suspended, port_index, i, total,
                 max_allocation, packet>>

(* Mutant: the drop path forgets the buffer. *)
DropWithoutRelease ==
  /\ pc = "forward"
  /\ packet # << >>
  /\ packet' = Tail(packet)
  /\ UNCHANGED <<ringVars, bufVars, tx_suspended, pc, port_index, i, total,
                 max_allocation>>

(* forward_process drops a packet: the verdict of forward_arp_process,     *)
(* forward_ip_process or forward_ip6_process is negative.                  *)
ForwardDrop ==
  /\ pc = "forward"
  /\ packet # << >>
  /\ slots' = [slots EXCEPT ![Head(packet)] = FALSE]
  /\ packet' = Tail(packet)
  /\ UNCHANGED <<ringVars, rx_slot_next, tx_suspended, pc, port_index, i, total,
                 max_allocation>>

(* forward_process sends a packet to port q.  ixmap_tx_assign queues it if *)
(* a descriptor is unused; whether it did or not, control then reaches the *)
(* label packet_drop, which releases the buffer.                           *)
ForwardSend(q) ==
  LET r == <<"tx", q>> IN
  /\ pc = "forward"
  /\ packet # << >>
  /\ IF Unused(r) > 0
       THEN /\ FillDesc(r, Head(packet))
            /\ tx_suspended' = [tx_suspended EXCEPT ![q] = @ + 1]
       ELSE UNCHANGED <<slot_index, dd, next_to_use, tx_suspended>>
  /\ slots' = [slots EXCEPT ![Head(packet)] = FALSE]
  /\ packet' = Tail(packet)
  /\ UNCHANGED <<next_to_clean, tail, head, rx_slot_next, pc, port_index, i,
                 total, max_allocation>>

ForwardReturn ==
  /\ pc = "forward"
  /\ packet = << >>
  /\ CallTxXmit
  /\ UNCHANGED <<ringVars, bufVars, tx_suspended, port_index, total,
                 max_allocation, packet>>

(* Mutant: only the port of the event is transmitted on. *)
XmitEventPort ==
  /\ pc = "tx_xmit"
  /\ IF tx_suspended[i] > 0 /\ i = port_index
       THEN /\ WriteTail(<<"tx", i>>)
            /\ tx_suspended' = [tx_suspended EXCEPT ![i] = 0]
       ELSE UNCHANGED <<tail, tx_suspended>>
  /\ IF i + 1 < NumPorts
       THEN i' = i + 1 /\ UNCHANGED <<pc, port_index, total, max_allocation>>
       ELSE EndEvent
  /\ UNCHANGED <<next_to_use, next_to_clean, head, dd, slot_index, bufVars, packet>>

(* ixmap_tx_xmit for port i, in the loop over all the ports. *)
TxXmit ==
  /\ pc = "tx_xmit"
  /\ IF tx_suspended[i] > 0
       THEN /\ WriteTail(<<"tx", i>>)
            /\ tx_suspended' = [tx_suspended EXCEPT ![i] = 0]
       ELSE UNCHANGED <<tail, tx_suspended>>
  /\ IF i + 1 < NumPorts
       THEN i' = i + 1 /\ UNCHANGED <<pc, port_index, total, max_allocation>>
       ELSE EndEvent
  /\ UNCHANGED <<next_to_use, next_to_clean, head, dd, slot_index, bufVars, packet>>

(* One iteration of ixmap_tx_clean. *)
TxClean ==
  LET r == <<"tx", port_index>> IN
  /\ pc = "tx_clean"
  /\ total < Budget["tx"]
  /\ CanClean(r)
  /\ slots' = [slots EXCEPT ![slot_index[r][next_to_clean[r]]] = FALSE]
  /\ CleanDesc(r)
  /\ total' = total + 1
  /\ UNCHANGED <<next_to_use, tail, head, dd, slot_index, rx_slot_next,
                 tx_suspended, pc, port_index, i, max_allocation, packet>>

(* The TX handler then refills the RX ring of every port. *)
TxCleanReturn ==
  /\ pc = "tx_clean"
  /\ total >= Budget["tx"] \/ ~ CanClean(<<"tx", port_index>>)
  /\ CallRxAssign(0)
  /\ UNCHANGED <<ringVars, bufVars, tx_suspended, port_index, packet>>

(* The TAP interface of port p has a packet for the wire                   *)
(* (forward_process_tun).  It is dropped if it is larger than a buffer, if *)
(* no buffer is free, or if no descriptor is unused; in the last case      *)
(* ixmap_tx_assign frees the buffer again.  (Its test against              *)
(* IXGBE_MAX_DATA_PER_TXD never fires: no buffer is larger than that.)     *)
TunDrop(p) ==
  /\ pc = "epoll_wait"
  /\ port_index' = p
  /\ CallTxXmit
  /\ UNCHANGED <<ringVars, bufVars, tx_suspended, total, max_allocation, packet>>

TunSend(p) ==
  LET r == <<"tx", p>> IN
  /\ pc = "epoll_wait"
  /\ \E s \in Slot :
       /\ FirstFree(p, s)
       /\ AdvanceSlotNext(p, s)
       /\ IF Unused(r) > 0
            THEN /\ slots' = [slots EXCEPT ![s] = TRUE]
                 /\ FillDesc(r, s)
                 /\ tx_suspended' = [tx_suspended EXCEPT ![p] = @ + 1]
            ELSE UNCHANGED <<slots, slot_index, dd, next_to_use, tx_suspended>>
  /\ port_index' = p
  /\ CallTxXmit
  /\ UNCHANGED <<next_to_clean, tail, head, total, max_allocation, packet>>

-----------------------------------------------------------------------------
(* The NIC completes the descriptors between head and tail in order: it    *)
(* receives into, or transmits from, the buffer and sets the done bit.     *)
NicComplete(r) ==
  /\ head[r] # tail[r]
  /\ dd' = [dd EXCEPT ![r][head[r]] = TRUE]
  /\ head' = [head EXCEPT ![r] = NextIndex(@, Size(r))]
  /\ UNCHANGED <<next_to_use, next_to_clean, tail, slot_index, bufVars,
                 tx_suspended, threadVars>>

Thread ==
  \/ RxAssign
  \/ RxAssignReturn
  \/ RxClean
  \/ RxCleanReturn
  \/ ForwardDrop
  \/ \E q \in Egress : ForwardSend(q)
  \/ ForwardReturn
  \/ TxXmit
  \/ TxClean
  \/ TxCleanReturn

Event ==
  \E p \in Port : RxEvent(p) \/ TxEvent(p) \/ TunDrop(p) \/ TunSend(p)

Next == Thread \/ Event \/ (\E r \in Ring : NicComplete(r))

Spec == Init /\ [][Next]_vars

-----------------------------------------------------------------------------
(***************************************************************************)
(*                               Properties                                *)
(***************************************************************************)

(* Distance of an index of ring r from next_to_clean. *)
Ahead(r, d) == Dist(next_to_clean[r], d, Size(r))

(* The descriptors the thread has filled and not yet taken back, and those *)
(* of them the NIC may still work on.                                      *)
Filled(r)   == {d \in Desc(Size(r)) : Ahead(r, d) < Ahead(r, next_to_use[r])}
NicOwned(r) == {d \in Filled(r) : Ahead(r, head[r]) <= Ahead(r, d)
                                  /\ Ahead(r, d) < Ahead(r, tail[r])}

(* Around every ring, next_to_clean, head, tail and next_to_use come in    *)
(* this order: the NIC is never shown a descriptor that was not filled,    *)
(* and ixmap_rx_clean and ixmap_tx_clean never overtake the NIC.           *)
RingOrder ==
  \A r \in Ring :
    /\ Ahead(r, head[r]) <= Ahead(r, tail[r])
    /\ Ahead(r, tail[r]) <= Ahead(r, next_to_use[r])

(* A done bit seen by ixmap_rx_clean or ixmap_tx_clean is never one left   *)
(* over from an earlier lap of the ring: a filled descriptor is marked     *)
(* done exactly if the NIC has passed it.                                  *)
NoStaleDone ==
  \A r \in Ring : \A d \in Filled(r) : dd[r][d] <=> Ahead(r, d) < Ahead(r, head[r])

(* When the thread goes to sleep in epoll_wait, everything it has filled   *)
(* on any ring has been shown to the NIC by a tail write: no descriptor    *)
(* waits for the next event to be published.                               *)
PublishedBeforeSleep ==
  pc = "epoll_wait" =>
    /\ \A r \in Ring : tail[r] = next_to_use[r]
    /\ \A p \in Port : tx_suspended[p] = 0

(* The buffers that a filled descriptor or the packet array refers to. *)
InPacket(s) == \E k \in 1 .. Len(packet) : packet[k] = s
OnRing(s)   == \E r \in Ring : \E d \in Filled(r) : slot_index[r][d] = s

(* No buffer is lost: a buffer marked IXMAP_SLOT_INFLIGHT is on a ring or  *)
(* in the hands of the forwarding code, so some later ixmap_slot_release   *)
(* can return it to ixmap_slot_assign.                                     *)
NoSlotLeak ==
  \A s \in Slot : slots[s] => OnRing(s) \/ InPacket(s)

(* The pieces of a buffer's exclusive ownership. *)
RefsInFlight ==
  /\ \A r \in Ring : \A d \in Filled(r) : slots[slot_index[r][d]]
  /\ \A k \in 1 .. Len(packet) : slots[packet[k]]

RingsDisjoint ==
  \A r1, r2 \in Ring : \A d1 \in Filled(r1), d2 \in Filled(r2) :
    slot_index[r1][d1] = slot_index[r2][d2] => r1 = r2 /\ d1 = d2

PacketsDisjoint ==
  /\ \A r \in Ring : \A d \in Filled(r) : ~ InPacket(slot_index[r][d])
  /\ \A j, k \in 1 .. Len(packet) : packet[j] = packet[k] => j = k

(* A buffer has one owner: whatever a descriptor or the packet array       *)
(* refers to is marked IXMAP_SLOT_INFLIGHT, so ixmap_slot_assign does not  *)
(* hand it out again, and no two of them refer to the same buffer, so the  *)
(* NIC never receives into a buffer that is being transmitted.             *)
SlotExclusive == RefsInFlight /\ RingsDisjoint /\ PacketsDisjoint

(* The comment "Release unused buffer" (lib/driver.c:305): once            *)
(* ixmap_tx_clean has taken a descriptor back and released its buffer,     *)
(* nothing refers to that buffer any more.                                 *)
TxCleanReleasesUnused ==
  [][pc = "tx_clean" /\ next_to_clean' # next_to_clean =>
       LET r == <<"tx", port_index>>
           s == slot_index[r][next_to_clean[r]]
       IN  ~ OnRing(s)' /\ ~ InPacket(s)']_vars

(* While the NIC owns a descriptor, no step of the thread rewrites it: the *)
(* buffer attached to it changes only after it was taken back.             *)
NicDescStable ==
  [][\A r \in Ring : \A d \in NicOwned(r) :
       slot_index'[r][d] = slot_index[r][d] /\ d \in Filled(r)']_vars

-----------------------------------------------------------------------------
(***************************************************************************)
(* The inductive invariant behind RingOrder, NoStaleDone and               *)
(* PublishedBeforeSleep: besides the order of the indices it says what of  *)
(* a ring is filled but not yet shown to the NIC at each point of the      *)
(* thread's program.                                                       *)
(***************************************************************************)
RingsOK ==
  \A r \in Ring :
    RingOK(next_to_clean[r], head[r], tail[r], next_to_use[r], dd[r], Size(r))

Pending(r) == Dist(tail[r], next_to_use[r], Size(r))

TxPending == \A p \in Port : tx_suspended[p] = Pending(<<"tx", p>>)

RxPending ==
  \A p \in Port :
    Pending(<<"rx", p>>) = IF pc = "rx_assign" /\ i = p THEN total ELSE 0

AllocBound ==
  pc = "rx_assign" =>
    /\ total <= max_allocation
    /\ max_allocation - total = Unused(<<"rx", i>>)

XmitProgress ==
  \A p \in Port :
    pc # "forward" /\ (pc = "tx_xmit" => p < i) => tx_suspended[p] = 0

RingInv == TypeOK /\ RingsOK /\ TxPending /\ RxPending /\ AllocBound /\ XmitProgress

=============================================================================
