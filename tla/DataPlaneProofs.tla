-------------------------- MODULE DataPlaneProofs ---------------------------
(***************************************************************************)
(* Proofs about DataPlane for any number of ports, descriptors, buffers    *)
(* and any budgets and routes.                                             *)
(***************************************************************************)
EXTENDS DataPlane, TLAPS

-----------------------------------------------------------------------------
(* What the four steps of a descriptor ring (fill, tail write, completion  *)
(* by the NIC, clean) do to the distances around it.                       *)

(* Distances are indices, and only an index itself is at distance 0. *)
LEMMA DistType ==
  ASSUME NEW n \in Nat \ {0}, NEW a \in Desc(n), NEW b \in Desc(n)
  PROVE  /\ Dist(a, b, n) \in Desc(n)
         /\ NextIndex(a, n) \in Desc(n)
         /\ Dist(a, b, n) = 0 <=> a = b
BY DEF Dist, Desc, NextIndex

(* ixmap_desc_unused keeps one descriptor out of use. *)
LEMMA UnusedDist ==
  ASSUME NEW n \in Nat \ {0}, NEW c \in Desc(n), NEW u \in Desc(n)
  PROVE  ixmap_desc_unused(c, u, n) = n - 1 - Dist(c, u, n)
BY DEF Dist, Desc, ixmap_desc_unused

(* Two indices at the same distance are equal. *)
LEMMA DistInjective ==
  ASSUME NEW n \in Nat \ {0}, NEW c \in Desc(n), NEW a \in Desc(n), NEW b \in Desc(n),
         Dist(c, a, n) = Dist(c, b, n)
  PROVE  a = b
BY DEF Dist, Desc

(* Moving the far index on by one adds one, short of a full lap. *)
LEMMA DistNext ==
  ASSUME NEW n \in Nat \ {0}, NEW c \in Desc(n), NEW u \in Desc(n),
         Dist(c, u, n) < n - 1
  PROVE  Dist(c, NextIndex(u, n), n) = Dist(c, u, n) + 1
BY DEF Dist, Desc, NextIndex

(* Moving the near index on by one takes one away, or leads a lap behind. *)
LEMMA DistClean ==
  ASSUME NEW n \in Nat \ {0}, NEW c \in Desc(n), NEW d \in Desc(n)
  PROVE  Dist(NextIndex(c, n), d, n) =
           IF d = c THEN n - 1 ELSE Dist(c, d, n) - 1
BY DEF Dist, Desc, NextIndex

(* Distances add up along the ring. *)
LEMMA DistBetween ==
  ASSUME NEW n \in Nat \ {0}, NEW c \in Desc(n), NEW a \in Desc(n), NEW b \in Desc(n),
         Dist(c, a, n) <= Dist(c, b, n)
  PROVE  Dist(a, b, n) = Dist(c, b, n) - Dist(c, a, n)
BY DEF Dist, Desc

(* Filling the descriptor at next_to_use keeps the ring in order. *)
LEMMA FillKeepsRing ==
  ASSUME NEW n \in Nat \ {0}, NEW c \in Desc(n), NEW h \in Desc(n), NEW t \in Desc(n),
         NEW u \in Desc(n), NEW done \in [Desc(n) -> BOOLEAN],
         RingOK(c, h, t, u, done, n), ixmap_desc_unused(c, u, n) > 0
  PROVE  /\ RingOK(c, h, t, NextIndex(u, n), [done EXCEPT ![u] = FALSE], n)
         /\ Dist(t, NextIndex(u, n), n) = Dist(t, u, n) + 1
         /\ ixmap_desc_unused(c, NextIndex(u, n), n) = ixmap_desc_unused(c, u, n) - 1
<1> DEFINE v == NextIndex(u, n)
<1>1. v \in Desc(n) /\ Dist(c, u, n) \in Desc(n) /\ Dist(c, t, n) \in Desc(n)
                    /\ Dist(c, h, n) \in Desc(n)
  BY DistType
<1>2. Dist(c, u, n) < n - 1
  BY <1>1, UnusedDist DEF Desc
<1>3. Dist(c, v, n) = Dist(c, u, n) + 1
  BY <1>2, DistNext
<1>4. Dist(c, h, n) <= Dist(c, t, n) /\ Dist(c, t, n) <= Dist(c, u, n)
  BY DEF RingOK
<1>5. ASSUME NEW d \in Desc(n), Dist(c, d, n) < Dist(c, v, n)
      PROVE  [done EXCEPT ![u] = FALSE][d] <=> Dist(c, d, n) < Dist(c, h, n)
  <2>1. Dist(c, d, n) \in Desc(n)
    BY DistType
  <2>2. CASE d = u
    BY <1>1, <1>4, <2>1, <2>2 DEF Desc
  <2>3. CASE d # u
    <3>1. Dist(c, d, n) # Dist(c, u, n)
      BY <2>3, DistInjective
    <3>2. Dist(c, d, n) < Dist(c, u, n)
      BY <1>1, <1>3, <1>5, <2>1, <3>1 DEF Desc
    <3>3. done[d] <=> Dist(c, d, n) < Dist(c, h, n)
      BY <3>2 DEF RingOK
    <3> QED
      BY <2>3, <3>3
  <2> QED
    BY <2>2, <2>3
<1>6. Dist(c, t, n) <= Dist(c, v, n)
  BY <1>1, <1>3, <1>4 DEF Desc
<1>7. Dist(t, v, n) = Dist(t, u, n) + 1
  BY <1>1, <1>3, <1>4, <1>6, DistBetween DEF Desc
<1>8. ixmap_desc_unused(c, v, n) = ixmap_desc_unused(c, u, n) - 1
  BY <1>1, <1>3, UnusedDist DEF Desc
<1>9. RingOK(c, h, t, v, [done EXCEPT ![u] = FALSE], n)
  BY <1>4, <1>5, <1>6 DEF RingOK
<1> QED
  BY <1>7, <1>8, <1>9

(* A tail write shows the NIC everything that was filled. *)
LEMMA TailKeepsRing ==
  ASSUME NEW n \in Nat \ {0}, NEW c \in Desc(n), NEW h \in Desc(n), NEW t \in Desc(n),
         NEW u \in Desc(n), NEW done, RingOK(c, h, t, u, done, n)
  PROVE  RingOK(c, h, u, u, done, n) /\ Dist(u, u, n) = 0
<1>1. Dist(c, u, n) \in Desc(n) /\ Dist(c, t, n) \in Desc(n) /\ Dist(c, h, n) \in Desc(n)
  BY DistType
<1>2. Dist(c, h, n) <= Dist(c, u, n) /\ Dist(c, u, n) <= Dist(c, u, n)
  BY <1>1 DEF RingOK, Desc
<1> QED
  BY <1>2, DistType DEF RingOK

(* The NIC completes the descriptor at head, short of the tail. *)
LEMMA CompleteKeepsRing ==
  ASSUME NEW n \in Nat \ {0}, NEW c \in Desc(n), NEW h \in Desc(n), NEW t \in Desc(n),
         NEW u \in Desc(n), NEW done \in [Desc(n) -> BOOLEAN],
         RingOK(c, h, t, u, done, n), h # t
  PROVE  RingOK(c, NextIndex(h, n), t, u, [done EXCEPT ![h] = TRUE], n)
<1> DEFINE g == NextIndex(h, n)
<1>1. g \in Desc(n) /\ Dist(c, u, n) \in Desc(n) /\ Dist(c, t, n) \in Desc(n)
                    /\ Dist(c, h, n) \in Desc(n)
  BY DistType
<1>2. Dist(c, h, n) < Dist(c, t, n) /\ Dist(c, t, n) <= Dist(c, u, n)
  BY <1>1, DistInjective DEF RingOK, Desc
<1>3. Dist(c, g, n) = Dist(c, h, n) + 1
  BY <1>1, <1>2, DistNext DEF Desc
<1>4. ASSUME NEW d \in Desc(n), Dist(c, d, n) < Dist(c, u, n)
      PROVE  [done EXCEPT ![h] = TRUE][d] <=> Dist(c, d, n) < Dist(c, g, n)
  <2>1. Dist(c, d, n) \in Desc(n)
    BY DistType
  <2>2. CASE d = h
    BY <1>1, <1>3, <2>1, <2>2 DEF Desc
  <2>3. CASE d # h
    <3>1. Dist(c, d, n) # Dist(c, h, n)
      BY <2>3, DistInjective
    <3>2. Dist(c, d, n) < Dist(c, g, n) <=> Dist(c, d, n) < Dist(c, h, n)
      BY <1>1, <1>3, <2>1, <3>1 DEF Desc
    <3>3. done[d] <=> Dist(c, d, n) < Dist(c, h, n)
      BY <1>4 DEF RingOK
    <3> QED
      BY <2>3, <3>2, <3>3
  <2> QED
    BY <2>2, <2>3
<1>5. Dist(c, g, n) <= Dist(c, t, n)
  BY <1>1, <1>2, <1>3 DEF Desc
<1> QED
  BY <1>2, <1>4, <1>5 DEF RingOK

(* The thread takes back a descriptor that is done. *)
LEMMA CleanKeepsRing ==
  ASSUME NEW n \in Nat \ {0}, NEW c \in Desc(n), NEW h \in Desc(n), NEW t \in Desc(n),
         NEW u \in Desc(n), NEW done \in [Desc(n) -> BOOLEAN],
         RingOK(c, h, t, u, done, n), c # u, done[c]
  PROVE  RingOK(NextIndex(c, n), h, t, u, done, n)
<1> DEFINE e == NextIndex(c, n)
<1>1. /\ Dist(c, u, n) \in Desc(n) /\ Dist(c, t, n) \in Desc(n)
      /\ Dist(c, h, n) \in Desc(n) /\ Dist(c, c, n) = 0 /\ Dist(c, u, n) # 0
  BY DistType
<1>2. Dist(c, c, n) < Dist(c, h, n)
  BY <1>1 DEF RingOK, Desc
<1>3. h # c /\ t # c
  BY <1>1, <1>2 DEF RingOK, Desc
<1>4. /\ Dist(e, h, n) = Dist(c, h, n) - 1
      /\ Dist(e, t, n) = Dist(c, t, n) - 1
      /\ Dist(e, u, n) = Dist(c, u, n) - 1
  BY <1>3, DistClean
<1>5. ASSUME NEW d \in Desc(n), Dist(e, d, n) < Dist(e, u, n)
      PROVE  done[d] <=> Dist(e, d, n) < Dist(e, h, n)
  <2>1. Dist(c, d, n) \in Desc(n)
    BY DistType
  <2>2. d # c
    BY <1>1, <1>4, <1>5, DistClean DEF Desc
  <2>3. Dist(e, d, n) = Dist(c, d, n) - 1
    BY <2>2, DistClean
  <2>4. Dist(c, d, n) < Dist(c, u, n)
    BY <1>1, <1>4, <1>5, <2>1, <2>3 DEF Desc
  <2>5. done[d] <=> Dist(c, d, n) < Dist(c, h, n)
    BY <2>4 DEF RingOK
  <2> QED
    BY <1>1, <1>4, <2>1, <2>3, <2>5 DEF Desc
<1>6. Dist(e, h, n) <= Dist(e, t, n) /\ Dist(e, t, n) <= Dist(e, u, n)
  BY <1>1, <1>4 DEF RingOK, Desc
<1> QED
  BY <1>5, <1>6 DEF RingOK

-----------------------------------------------------------------------------
(* The data plane. *)

(* What the constants say of every ring: its size is positive and its two parts are known. *)
LEMMA RingFacts ==
  /\ \A r \in Ring : Size(r) \in Nat \ {0}
  /\ \A p \in Port : /\ <<"rx", p>> \in Ring /\ Size(<<"rx", p>>) = NumDesc["rx"]
                     /\ <<"tx", p>> \in Ring /\ Size(<<"tx", p>>) = NumDesc["tx"]
  /\ 0 \in Port
  /\ Egress \subseteq Port
BY DataPlaneAssumption DEF Ring, Size, Port

(* ixmap_slot_assign returns a buffer of the port's own partition, and the *)
(* place to search from stays inside it.                                   *)
LEMMA FirstFreeType ==
  ASSUME TypeOK, NEW p \in Port, NEW s \in Slot, FirstFree(p, s)
  PROVE  /\ s[1] = p
         /\ ~ slots[s]
         /\ NextIndex(s[2], BufCount) \in 0 .. BufCount - 1
<1>1. s[1] = p /\ ~ slots[s]
  BY DEF FirstFree, Candidate
<1>2. s[2] \in 0 .. BufCount - 1
  BY DEF Slot
<1> QED
  BY <1>1, <1>2, DataPlaneAssumption DEF NextIndex

-----------------------------------------------------------------------------
(* The effect of the ring steps on the per-ring part of TypeOK. *)
RingType ==
  /\ next_to_use \in [Ring -> Nat]   /\ \A r \in Ring : next_to_use[r] \in Desc(Size(r))
  /\ next_to_clean \in [Ring -> Nat] /\ \A r \in Ring : next_to_clean[r] \in Desc(Size(r))
  /\ tail \in [Ring -> Nat]          /\ \A r \in Ring : tail[r] \in Desc(Size(r))
  /\ head \in [Ring -> Nat]          /\ \A r \in Ring : head[r] \in Desc(Size(r))
  /\ DOMAIN dd = Ring         /\ \A r \in Ring : dd[r] \in [Desc(Size(r)) -> BOOLEAN]
  /\ DOMAIN slot_index = Ring /\ \A r \in Ring : slot_index[r] \in [Desc(Size(r)) -> Slot]

(* Filling a descriptor that is unused. *)
LEMMA FillStep ==
  ASSUME RingType, RingsOK, NEW r \in Ring, NEW s \in Slot,
         FillDesc(r, s), Unused(r) > 0, UNCHANGED <<next_to_clean, tail, head>>
  PROVE  /\ RingType' /\ RingsOK'
         /\ Pending(r)' = Pending(r) + 1 /\ Unused(r)' = Unused(r) - 1
         /\ \A q \in Ring \ {r} : Pending(q)' = Pending(q) /\ Unused(q)' = Unused(q)
<1> DEFINE n == Size(r)
           u == next_to_use[r]
<1>1. n \in Nat \ {0} /\ u \in Desc(n) /\ u \in Nat
  BY RingFacts DEF RingType
<1>2. NextIndex(u, n) \in Desc(n) /\ NextIndex(u, n) \in Nat
  BY <1>1, DistType DEF Desc
<1>3. next_to_use' = [next_to_use EXCEPT ![r] = NextIndex(u, n)]
  BY DEF FillDesc
<1>4. dd' = [dd EXCEPT ![r] = [dd[r] EXCEPT ![u] = FALSE]]
  BY DEF FillDesc
<1>5. slot_index' = [slot_index EXCEPT ![r] = [slot_index[r] EXCEPT ![u] = s]]
  BY DEF FillDesc
<1>6. RingType'
  <2>1. next_to_use' \in [Ring -> Nat] /\ \A q \in Ring : next_to_use'[q] \in Desc(Size(q))
    BY <1>2, <1>3 DEF RingType
  <2>2. DOMAIN dd' = Ring /\ \A q \in Ring : dd'[q] \in [Desc(Size(q)) -> BOOLEAN]
    BY <1>4, <1>1 DEF RingType
  <2>3. DOMAIN slot_index' = Ring /\ \A q \in Ring : slot_index'[q] \in [Desc(Size(q)) -> Slot]
    BY <1>5, <1>1 DEF RingType
  <2> QED
    BY <2>1, <2>2, <2>3 DEF RingType, Size
<1>7. /\ RingOK(next_to_clean[r], head[r], tail[r], next_to_use'[r], dd'[r], n)
      /\ Dist(tail[r], next_to_use'[r], n) = Dist(tail[r], u, n) + 1
      /\ ixmap_desc_unused(next_to_clean[r], next_to_use'[r], n)
           = ixmap_desc_unused(next_to_clean[r], u, n) - 1
  <2>1. next_to_use'[r] = NextIndex(u, n) /\ dd'[r] = [dd[r] EXCEPT ![u] = FALSE]
    BY <1>3, <1>4 DEF RingType
  <2>2. RingOK(next_to_clean[r], head[r], tail[r], u, dd[r], n)
    BY DEF RingsOK
  <2>3. ixmap_desc_unused(next_to_clean[r], u, n) > 0
    BY DEF Unused
  <2>4. /\ next_to_clean[r] \in Desc(n) /\ head[r] \in Desc(n) /\ tail[r] \in Desc(n)
        /\ dd[r] \in [Desc(n) -> BOOLEAN]
    BY DEF RingType
  <2> QED
    BY <1>1, <2>1, <2>2, <2>3, <2>4, FillKeepsRing
<1>8. \A q \in Ring \ {r} : next_to_use'[q] = next_to_use[q] /\ dd'[q] = dd[q]
  BY <1>3, <1>4 DEF RingType
<1>9. RingsOK'
  BY <1>7, <1>8 DEF RingsOK, Size
<1> QED
  BY <1>6, <1>7, <1>8, <1>9 DEF Pending, Unused, Size

(* A tail write. *)
LEMMA TailStep ==
  ASSUME RingType, RingsOK, NEW r \in Ring, WriteTail(r),
         UNCHANGED <<next_to_use, next_to_clean, head, dd, slot_index>>
  PROVE  /\ RingType' /\ RingsOK' /\ Pending(r)' = 0
         /\ \A q \in Ring \ {r} : Pending(q)' = Pending(q)
<1> DEFINE n == Size(r)
<1>1. n \in Nat \ {0} /\ next_to_use[r] \in Desc(n)
  BY RingFacts DEF RingType
<1>2. tail' = [tail EXCEPT ![r] = next_to_use[r]]
  BY DEF WriteTail
<1>3. RingType'
  BY <1>1, <1>2 DEF RingType, Size
<1>4. /\ RingOK(next_to_clean[r], head[r], tail'[r], next_to_use[r], dd[r], n)
      /\ Dist(tail'[r], next_to_use[r], n) = 0
  BY <1>1, <1>2, TailKeepsRing DEF RingType, RingsOK
<1>5. \A q \in Ring \ {r} : tail'[q] = tail[q]
  BY <1>2 DEF RingType
<1>6. RingsOK'
  BY <1>4, <1>5 DEF RingsOK, Size
<1> QED
  BY <1>3, <1>4, <1>5, <1>6 DEF Pending, Size

(* The NIC completes a descriptor. *)
LEMMA CompleteStep ==
  ASSUME RingType, RingsOK, NEW r \in Ring, NicComplete(r)
  PROVE  RingType' /\ RingsOK' /\ \A q \in Ring : Pending(q)' = Pending(q) /\ Unused(q)' = Unused(q)
<1> DEFINE n == Size(r)
           h == head[r]
<1>1. n \in Nat \ {0} /\ h \in Desc(n)
  BY RingFacts DEF RingType
<1>2. NextIndex(h, n) \in Desc(n) /\ NextIndex(h, n) \in Nat
  BY <1>1, DistType DEF Desc
<1>3. /\ head' = [head EXCEPT ![r] = NextIndex(h, n)]
      /\ dd' = [dd EXCEPT ![r] = [dd[r] EXCEPT ![h] = TRUE]]
      /\ h # tail[r]
      /\ UNCHANGED <<next_to_use, next_to_clean, tail, slot_index>>
  BY DEF NicComplete
<1>4. RingType'
  BY <1>1, <1>2, <1>3 DEF RingType, Size
<1>5. RingOK(next_to_clean[r], head'[r], tail[r], next_to_use[r], dd'[r], n)
  BY <1>1, <1>3, CompleteKeepsRing DEF RingType, RingsOK
<1>6. \A q \in Ring \ {r} : head'[q] = head[q] /\ dd'[q] = dd[q]
  BY <1>3 DEF RingType
<1>7. RingsOK'
  BY <1>3, <1>5, <1>6 DEF RingsOK, Size
<1> QED
  BY <1>3, <1>4, <1>7 DEF Pending, Unused, Size

(* The thread takes a descriptor back. *)
LEMMA CleanStep ==
  ASSUME RingType, RingsOK, NEW r \in Ring, CanClean(r), CleanDesc(r),
         UNCHANGED <<next_to_use, tail, head, dd, slot_index>>
  PROVE  RingType' /\ RingsOK' /\ \A q \in Ring : Pending(q)' = Pending(q)
<1> DEFINE n == Size(r)
           c == next_to_clean[r]
<1>1. n \in Nat \ {0} /\ c \in Desc(n)
  BY RingFacts DEF RingType
<1>2. NextIndex(c, n) \in Desc(n) /\ NextIndex(c, n) \in Nat
  BY <1>1, DistType DEF Desc
<1>3. next_to_clean' = [next_to_clean EXCEPT ![r] = NextIndex(c, n)]
  BY DEF CleanDesc
<1>4. RingType'
  BY <1>1, <1>2, <1>3 DEF RingType, Size
<1>5. RingOK(next_to_clean'[r], head[r], tail[r], next_to_use[r], dd[r], n)
  BY <1>1, <1>3, CleanKeepsRing DEF RingType, RingsOK, CanClean
<1>6. \A q \in Ring \ {r} : next_to_clean'[q] = next_to_clean[q]
  BY <1>3 DEF RingType
<1>7. RingsOK'
  BY <1>5, <1>6 DEF RingsOK, Size
<1> QED
  BY <1>4, <1>7 DEF Pending, Size

-----------------------------------------------------------------------------
(* The part of TypeOK that is not about the rings. *)
OtherType ==
  /\ slots \in [Slot -> BOOLEAN]
  /\ rx_slot_next \in [Port -> 0 .. BufCount - 1]
  /\ tx_suspended \in [Port -> Nat]
  /\ pc \in PC
  /\ port_index \in Port
  /\ i \in Port
  /\ total \in Nat
  /\ max_allocation \in Nat
  /\ packet \in Seq(Slot)

(* The type invariant split into the part about the rings and the rest. *)
LEMMA TypeParts == TypeOK <=> RingType /\ OtherType
BY DEF TypeOK, RingType, OtherType

(* The counters derived from the ring indices are natural numbers. *)
LEMMA CountTypes ==
  ASSUME RingType
  PROVE  \A r \in Ring : Pending(r) \in Nat /\ Unused(r) \in Nat
<1> TAKE r \in Ring
<1>1. /\ Size(r) \in Nat \ {0} /\ next_to_use[r] \in Desc(Size(r))
      /\ next_to_clean[r] \in Desc(Size(r)) /\ tail[r] \in Desc(Size(r))
  BY RingFacts DEF RingType
<1>2. /\ Pending(r) \in Desc(Size(r))
      /\ Dist(next_to_clean[r], next_to_use[r], Size(r)) \in Desc(Size(r))
  BY <1>1, DistType DEF Pending
<1> QED
  BY <1>1, <1>2, UnusedDist DEF Unused, Desc

(* The next port of a loop over the ports is a port. *)
LEMMA NextPort ==
  ASSUME NEW p \in Port, p + 1 < NumPorts
  PROVE  p + 1 \in Port
BY DataPlaneAssumption DEF Port

(* Every step of the thread's ring code keeps RingInv. *)
LEMMA RxAssignInv == RingInv /\ RxAssign => RingInv'
<1> SUFFICES ASSUME RingInv, RxAssign PROVE RingInv'
  OBVIOUS
<1> DEFINE r == <<"rx", i>>
<1>1. RingType /\ OtherType /\ RingsOK
  BY TypeParts DEF RingInv
<1>2. PICK s \in Slot : /\ FirstFree(i, s)
                        /\ slots' = [slots EXCEPT ![s] = TRUE]
                        /\ AdvanceSlotNext(i, s)
                        /\ FillDesc(r, s)
  BY DEF RxAssign
<1>3. /\ pc = "rx_assign" /\ total < max_allocation /\ total' = total + 1
      /\ UNCHANGED <<next_to_clean, tail, head, tx_suspended, pc, port_index, i,
                     max_allocation, packet>>
  BY DEF RxAssign
<1>4. i \in Port /\ r \in Ring /\ total \in Nat /\ max_allocation \in Nat
  BY <1>1, RingFacts DEF OtherType
<1>5. Unused(r) > 0 /\ Unused(r) = max_allocation - total
  BY <1>3, <1>4 DEF RingInv, AllocBound
<1>6. /\ RingType' /\ RingsOK'
      /\ Pending(r)' = Pending(r) + 1 /\ Unused(r)' = Unused(r) - 1
      /\ \A q \in Ring \ {r} : Pending(q)' = Pending(q)
  BY <1>1, <1>2, <1>3, <1>4, <1>5, FillStep
<1>7. OtherType'
  <2>1. NextIndex(s[2], BufCount) \in 0 .. BufCount - 1
    BY <1>1, <1>2, <1>4, TypeParts, FirstFreeType
  <2> QED
    BY <1>1, <1>2, <1>3, <1>4, <2>1 DEF OtherType, AdvanceSlotNext
<1>8. TxPending'
  <2>1. \A p \in Port : <<"tx", p>> \in Ring \ {r}
    BY RingFacts
  <2> QED
    BY <1>3, <1>6, <2>1 DEF RingInv, TxPending
<1>9. RxPending'
  <2>1. ASSUME NEW p \in Port, p # i PROVE Pending(<<"rx", p>>)' = 0
    <3>1. <<"rx", p>> \in Ring \ {r}
      BY <2>1, RingFacts
    <3>2. Pending(<<"rx", p>>)' = Pending(<<"rx", p>>)
      BY <1>6, <3>1
    <3> QED
      BY <2>1, <3>2 DEF RingInv, RxPending
  <2>2. Pending(r)' = total'
    BY <1>3, <1>4, <1>6 DEF RingInv, RxPending
  <2> QED
    BY <1>3, <2>1, <2>2 DEF RxPending
<1>10. AllocBound'
  <2>1. Unused(<<"rx", i>>)' = max_allocation' - total'
    BY <1>3, <1>4, <1>5, <1>6
  <2> QED
    BY <1>3, <1>4, <2>1 DEF AllocBound
<1>11. XmitProgress'
  BY <1>3 DEF RingInv, XmitProgress
<1> QED
  BY <1>6, <1>7, <1>8, <1>9, <1>10, <1>11, TypeParts DEF RingInv, TypeOK, RingType, OtherType

(* Steps that leave the rings alone keep what is pending on them. *)
LEMMA RingsUnchanged ==
  ASSUME RingInv, UNCHANGED ringVars
  PROVE  /\ RingType' /\ RingsOK'
         /\ \A r \in Ring : Pending(r)' = Pending(r) /\ Unused(r)' = Unused(r)
BY TypeParts DEF RingInv, ringVars, RingType, RingsOK, Pending, Unused, Size

(* The return of ixmap_rx_assign, which writes the tail, keeps the invariant. *)
LEMMA RxAssignReturnInv == RingInv /\ RxAssignReturn => RingInv'
<1> SUFFICES ASSUME RingInv, RxAssignReturn PROVE RingInv'
  OBVIOUS
<1>1. RingType /\ OtherType /\ RingsOK /\ i \in Port /\ total \in Nat
  BY TypeParts DEF RingInv, OtherType
<1>2. PICK p \in Port : p = i
  BY <1>1
<1> DEFINE r == <<"rx", p>>
<1>3. r \in Ring /\ \A q \in Port : <<"tx", q>> \in Ring \ {r}
  BY RingFacts
<1>4. /\ pc = "rx_assign"
      /\ UNCHANGED <<next_to_use, next_to_clean, head, dd, slot_index, slots,
                     rx_slot_next, tx_suspended, packet>>
      /\ \/ CallRxAssign(p + 1) /\ p + 1 < NumPorts /\ UNCHANGED port_index
         \/ EndEvent
  BY <1>2 DEF RxAssignReturn, bufVars
<1>5. RingType' /\ RingsOK' /\ Pending(r)' = 0 /\ \A q \in Ring \ {r} : Pending(q)' = Pending(q)
  <2>1. CASE total > 0
    <3>1. WriteTail(r)
      BY <1>2, <2>1 DEF RxAssignReturn
    <3> QED
      BY <1>1, <1>3, <1>4, <3>1, TailStep
  <2>2. CASE ~ (total > 0)
    <3>1. UNCHANGED ringVars
      BY <1>4, <2>2 DEF RxAssignReturn, ringVars
    <3>2. Pending(r) = 0
      BY <1>1, <1>2, <1>4, <2>2 DEF RingInv, RxPending
    <3> QED
      BY <1>3, <3>1, <3>2, RingsUnchanged
  <2> QED
    BY <2>1, <2>2
<1>6. OtherType' /\ total' = 0
  <2>1. CASE CallRxAssign(p + 1) /\ p + 1 < NumPorts /\ UNCHANGED port_index
    <3>1. p + 1 \in Port
      BY <2>1, NextPort
    <3>2. Unused(<<"rx", p + 1>>) \in Nat
      BY <1>1, <3>1, CountTypes, RingFacts
    <3>3. max_allocation' \in Nat
      BY <2>1, <3>1, <3>2, RingFacts DEF CallRxAssign, Unused
    <3> QED
      BY <1>1, <1>4, <2>1, <3>1, <3>3 DEF OtherType, CallRxAssign, PC
  <2>2. CASE EndEvent
    BY <1>1, <1>4, <2>2, RingFacts DEF OtherType, EndEvent, PC
  <2> QED
    BY <1>4, <2>1, <2>2
<1>7. TxPending'
  BY <1>3, <1>4, <1>5 DEF RingInv, TxPending
<1>8. RxPending'
  <2>1. ASSUME NEW q \in Port PROVE Pending(<<"rx", q>>)' = 0
    <3>1. CASE q = p
      BY <1>5, <3>1
    <3>2. CASE q # p
      <4>1. <<"rx", q>> \in Ring \ {r}
        BY <3>2, RingFacts
      <4> QED
        BY <1>2, <1>5, <3>2, <4>1 DEF RingInv, RxPending
    <3> QED
      BY <3>1, <3>2
  <2> QED
    BY <1>6, <2>1 DEF RxPending
<1>9. AllocBound'
  <2>1. CASE CallRxAssign(p + 1) /\ p + 1 < NumPorts
    <3>1. p + 1 \in Port /\ i' = p + 1 /\ total' = 0
      BY <2>1, NextPort DEF CallRxAssign
    <3>2. max_allocation' = Unused(<<"rx", p + 1>>)'
      BY <1>4, <2>1, <3>1, RingFacts DEF CallRxAssign, Unused, Size
    <3>3. max_allocation' \in Nat
      BY <1>6 DEF OtherType
    <3> QED
      BY <3>1, <3>2, <3>3 DEF AllocBound
  <2>2. CASE EndEvent
    BY <2>2 DEF AllocBound, EndEvent
  <2> QED
    BY <1>4, <2>1, <2>2
<1>10. XmitProgress'
  BY <1>4 DEF RingInv, XmitProgress, CallRxAssign, EndEvent
<1> QED
  BY <1>5, <1>6, <1>7, <1>8, <1>9, <1>10, TypeParts DEF RingInv, TypeOK, RingType, OtherType

(* Steps that change neither a ring nor tx_suspended and are not inside    *)
(* ixmap_rx_assign: only the program counter is at stake.                  *)
LEMMA QuietInv ==
  ASSUME RingInv, OtherType', UNCHANGED <<ringVars, tx_suspended>>,
         pc # "rx_assign", pc' # "rx_assign",
         \A p \in Port : pc' # "forward" /\ (pc' = "tx_xmit" => p < i')
                           => tx_suspended[p] = 0
  PROVE  RingInv'
<1>1. /\ RingType' /\ RingsOK'
      /\ \A r \in Ring : Pending(r)' = Pending(r) /\ Unused(r)' = Unused(r)
  BY RingsUnchanged DEF ringVars
<1>2. TxPending' /\ RxPending'
  BY <1>1, RingFacts DEF RingInv, TxPending, RxPending
<1>3. AllocBound' /\ XmitProgress'
  BY DEF AllocBound, XmitProgress
<1> QED
  BY <1>1, <1>2, <1>3, TypeParts DEF RingInv, TypeOK, RingType, OtherType

(* Steps that leave the rings and tx_suspended alone keep the invariant. *)
LEMMA QuietSteps ==
  ASSUME RingInv, NEW p \in Port,
         \/ RxEvent(p) \/ TxEvent(p) \/ TunDrop(p)
         \/ RxCleanReturn \/ ForwardDrop \/ ForwardReturn
  PROVE  RingInv'
<1>1. OtherType /\ UNCHANGED <<ringVars, tx_suspended>> /\ pc # "rx_assign" /\ pc' # "rx_assign"
  BY TypeParts DEF RingInv, RxEvent, TxEvent, TunDrop, RxCleanReturn, ForwardDrop,
                   ForwardReturn, CallTxXmit, ringVars
<1>2. OtherType'
  <2>1. CASE RxEvent(p) \/ TxEvent(p) \/ TunDrop(p) \/ RxCleanReturn \/ ForwardReturn
    BY <1>1, <2>1, RingFacts DEF OtherType, RxEvent, TxEvent, TunDrop, RxCleanReturn,
                      ForwardReturn, CallTxXmit, bufVars, PC
  <2>2. CASE ForwardDrop
    BY <1>1, <2>2 DEF OtherType, ForwardDrop
  <2> QED
    BY <2>1, <2>2
<1>3. ASSUME NEW q \in Port, pc' # "forward", pc' = "tx_xmit" => q < i'
      PROVE  tx_suspended[q] = 0
  <2>1. CASE RxEvent(p) \/ TxEvent(p)
    BY <2>1 DEF RingInv, XmitProgress, RxEvent, TxEvent
  <2>2. CASE TunDrop(p) \/ ForwardReturn
    <3>1. pc' = "tx_xmit" /\ i' = 0
      BY <2>2 DEF TunDrop, ForwardReturn, CallTxXmit
    <3> QED
      BY <1>3, <3>1 DEF Port
  <2>3. CASE RxCleanReturn \/ ForwardDrop
    BY <1>3, <2>3 DEF RxCleanReturn, ForwardDrop
  <2> QED
    BY <2>1, <2>2, <2>3
<1> QED
  BY <1>1, <1>2, <1>3, QuietInv

(* Taking a descriptor back changes nothing that is pending. *)
LEMMA CleanInv == RingInv /\ (RxClean \/ TxClean) => RingInv'
<1> SUFFICES ASSUME RingInv, RxClean \/ TxClean PROVE RingInv'
  OBVIOUS
<1>1. RingType /\ OtherType /\ RingsOK
  BY TypeParts DEF RingInv
<1>2. PICK p \in Port : p = port_index
  BY <1>1 DEF OtherType
<1>3. PICK r \in Ring : /\ r = <<"rx", p>> \/ r = <<"tx", p>>
                        /\ CanClean(r) /\ CleanDesc(r)
  BY <1>2, RingFacts DEF RxClean, TxClean
<1>4. /\ UNCHANGED <<next_to_use, tail, head, dd, slot_index, tx_suspended, pc, i>>
      /\ pc # "rx_assign"
  BY DEF RxClean, TxClean
<1>5. RingType' /\ RingsOK' /\ \A q \in Ring : Pending(q)' = Pending(q)
  BY <1>1, <1>3, <1>4, CleanStep
<1>6. OtherType'
  <2>1. CASE RxClean
    <3>1. slot_index[<<"rx", p>>][next_to_clean[<<"rx", p>>]] \in Slot
      BY <1>1, RingFacts DEF RingType
    <3>2. packet' \in Seq(Slot)
      BY <1>1, <1>2, <2>1, <3>1 DEF RxClean, OtherType
    <3> QED
      BY <1>1, <2>1, <3>2 DEF RxClean, OtherType, bufVars
  <2>2. CASE TxClean
    <3>1. slots' \in [Slot -> BOOLEAN]
      BY <1>1, <2>2 DEF TxClean, OtherType
    <3>2. total' \in Nat
      BY <1>1, <2>2 DEF TxClean, OtherType
    <3> QED
      BY <1>1, <2>2, <3>1, <3>2 DEF TxClean, OtherType
  <2> QED
    BY <2>1, <2>2
<1>7. TxPending' /\ RxPending' /\ AllocBound' /\ XmitProgress'
  BY <1>4, <1>5, RingFacts DEF RingInv, TxPending, RxPending, AllocBound, XmitProgress
<1> QED
  BY <1>5, <1>6, <1>7, TypeParts DEF RingInv, TypeOK, RingType, OtherType

(* The TX handler goes on to refill the RX ring of port 0. *)
LEMMA TxCleanReturnInv == RingInv /\ TxCleanReturn => RingInv'
<1> SUFFICES ASSUME RingInv, TxCleanReturn PROVE RingInv'
  OBVIOUS
<1>1. RingType /\ OtherType
  BY TypeParts DEF RingInv
<1>2. /\ pc = "tx_clean" /\ CallRxAssign(0)
      /\ UNCHANGED <<ringVars, bufVars, tx_suspended, port_index, packet>>
  BY DEF TxCleanReturn
<1>3. /\ RingType' /\ RingsOK'
      /\ \A r \in Ring : Pending(r)' = Pending(r) /\ Unused(r)' = Unused(r)
  BY <1>2, RingsUnchanged
<1>4. max_allocation' = Unused(<<"rx", 0>>) /\ max_allocation' \in Nat
  BY <1>1, <1>2, RingFacts, CountTypes DEF CallRxAssign, Unused
<1>5. OtherType'
  BY <1>1, <1>2, <1>4, RingFacts DEF OtherType, CallRxAssign, bufVars, PC
<1>6. TxPending' /\ RxPending' /\ XmitProgress'
  BY <1>2, <1>3, RingFacts DEF RingInv, TxPending, RxPending, XmitProgress, CallRxAssign
<1>7. AllocBound'
  <2>1. i' = 0 /\ total' = 0
    BY <1>2 DEF CallRxAssign
  <2>2. max_allocation' = Unused(<<"rx", 0>>)'
    BY <1>3, <1>4, RingFacts
  <2> QED
    BY <1>4, <2>1, <2>2 DEF AllocBound
<1> QED
  BY <1>3, <1>5, <1>6, <1>7, TypeParts DEF RingInv, TypeOK, RingType, OtherType

(* Queueing a packet on a TX ring, from the wire or from a TAP interface.  *)
LEMMA SendInv ==
  ASSUME RingInv, NEW p \in Port, NEW s \in Slot, OtherType',
         pc # "rx_assign", pc' # "rx_assign",
         pc' = "forward" \/ (pc' = "tx_xmit" /\ i' = 0),
         UNCHANGED <<next_to_clean, tail, head>>,
         IF Unused(<<"tx", p>>) > 0
           THEN /\ FillDesc(<<"tx", p>>, s)
                /\ tx_suspended' = [tx_suspended EXCEPT ![p] = @ + 1]
           ELSE UNCHANGED <<slot_index, dd, next_to_use, tx_suspended>>
  PROVE  RingInv'
<1> DEFINE r == <<"tx", p>>
<1>1. RingType /\ OtherType /\ RingsOK /\ r \in Ring
  BY TypeParts, RingFacts DEF RingInv
<1>2. /\ \A q \in Port : <<"rx", q>> \in Ring \ {r}
      /\ \A q \in Port \ {p} : <<"tx", q>> \in Ring \ {r}
  BY RingFacts
<1>3. AllocBound' /\ XmitProgress'
  BY DEF AllocBound, XmitProgress, Port
<1>4. CASE Unused(r) > 0
  <2>1. /\ RingType' /\ RingsOK' /\ Pending(r)' = Pending(r) + 1
        /\ \A q \in Ring \ {r} : Pending(q)' = Pending(q)
    BY <1>1, <1>4, FillStep
  <2>2. TxPending'
    <3>1. tx_suspended'[p] = Pending(r)'
      BY <1>1, <1>4, <2>1 DEF RingInv, TxPending, OtherType
    <3>2. \A q \in Port \ {p} : tx_suspended'[q] = Pending(<<"tx", q>>)'
      BY <1>1, <1>2, <1>4, <2>1 DEF RingInv, TxPending, OtherType
    <3> QED
      BY <3>1, <3>2 DEF TxPending
  <2>3. RxPending'
    BY <1>2, <2>1 DEF RingInv, RxPending
  <2> QED
    BY <1>3, <2>1, <2>2, <2>3, TypeParts DEF RingInv, TypeOK, RingType, OtherType
<1>5. CASE ~ (Unused(r) > 0)
  <2>1. UNCHANGED <<ringVars, tx_suspended>>
    BY <1>5 DEF ringVars
  <2>2. \A q \in Port : pc' # "forward" /\ (pc' = "tx_xmit" => q < i') => tx_suspended[q] = 0
    BY DEF Port
  <2> QED
    BY <2>1, <2>2, QuietInv
<1> QED
  BY <1>4, <1>5

(* Sending a packet from forward_process keeps the invariant. *)
LEMMA ForwardSendInv ==
  ASSUME RingInv, NEW q \in Egress, ForwardSend(q)
  PROVE  RingInv'
<1>1. OtherType /\ q \in Port
  BY TypeParts, RingFacts DEF RingInv
<1>2. Head(packet) \in Slot /\ Tail(packet) \in Seq(Slot)
  BY <1>1 DEF OtherType, ForwardSend
<1>3. OtherType'
  <2>1. tx_suspended' \in [Port -> Nat]
    BY <1>1 DEF OtherType, ForwardSend
  <2> QED
    BY <1>1, <1>2, <2>1 DEF OtherType, ForwardSend
<1>4. /\ pc = "forward" /\ pc' = "forward" /\ UNCHANGED <<next_to_clean, tail, head>>
      /\ IF Unused(<<"tx", q>>) > 0
           THEN /\ FillDesc(<<"tx", q>>, Head(packet))
                /\ tx_suspended' = [tx_suspended EXCEPT ![q] = @ + 1]
           ELSE UNCHANGED <<slot_index, dd, next_to_use, tx_suspended>>
  BY DEF ForwardSend
<1> QED
  BY <1>1, <1>2, <1>3, <1>4, SendInv

(* Sending a packet of the TAP interface keeps the invariant. *)
LEMMA TunSendInv ==
  ASSUME RingInv, NEW p \in Port, TunSend(p)
  PROVE  RingInv'
<1>1. OtherType
  BY TypeParts DEF RingInv
<1>2. PICK s \in Slot :
        /\ FirstFree(p, s)
        /\ AdvanceSlotNext(p, s)
        /\ IF Unused(<<"tx", p>>) > 0
             THEN /\ slots' = [slots EXCEPT ![s] = TRUE]
                  /\ FillDesc(<<"tx", p>>, s)
                  /\ tx_suspended' = [tx_suspended EXCEPT ![p] = @ + 1]
             ELSE UNCHANGED <<slots, slot_index, dd, next_to_use, tx_suspended>>
  BY DEF TunSend
<1>3. /\ pc = "epoll_wait" /\ pc' = "tx_xmit" /\ i' = 0 /\ port_index' = p
      /\ UNCHANGED <<next_to_clean, tail, head, total, max_allocation, packet>>
  BY DEF TunSend, CallTxXmit
<1>4. OtherType'
  <2>1. NextIndex(s[2], BufCount) \in 0 .. BufCount - 1
    BY <1>2, FirstFreeType DEF RingInv
  <2>2. rx_slot_next' \in [Port -> 0 .. BufCount - 1]
    BY <1>1, <1>2, <2>1 DEF OtherType, AdvanceSlotNext
  <2>3. slots' \in [Slot -> BOOLEAN]
    BY <1>1, <1>2 DEF OtherType
  <2>4. tx_suspended' \in [Port -> Nat]
    <3>1. \/ tx_suspended' = [tx_suspended EXCEPT ![p] = tx_suspended[p] + 1]
          \/ tx_suspended' = tx_suspended
      BY <1>2
    <3>2. tx_suspended \in [Port -> Nat]
      BY <1>1 DEF OtherType
    <3>3. tx_suspended[p] + 1 \in Nat
      BY <3>2
    <3> QED
      BY <3>1, <3>2, <3>3
  <2> QED
    BY <1>1, <1>3, <2>2, <2>3, <2>4, RingFacts DEF OtherType, PC
<1> QED
  BY <1>2, <1>3, <1>4, SendInv

(* One call of ixmap_tx_xmit keeps the invariant. *)
LEMMA TxXmitInv == RingInv /\ TxXmit => RingInv'
<1> SUFFICES ASSUME RingInv, TxXmit PROVE RingInv'
  OBVIOUS
<1>1. RingType /\ OtherType /\ RingsOK
  BY TypeParts DEF RingInv
<1>2. PICK p \in Port : p = i
  BY <1>1 DEF OtherType
<1> DEFINE r == <<"tx", p>>
<1>3. /\ r \in Ring
      /\ \A q \in Port : <<"rx", q>> \in Ring \ {r}
      /\ \A q \in Port \ {p} : <<"tx", q>> \in Ring \ {r}
  BY RingFacts
<1>4. /\ pc = "tx_xmit"
      /\ UNCHANGED <<next_to_use, next_to_clean, head, dd, slot_index, slots,
                     rx_slot_next, packet>>
      /\ \/ /\ i' = p + 1 /\ p + 1 < NumPorts
            /\ UNCHANGED <<pc, port_index, total, max_allocation>>
         \/ EndEvent /\ ~ (p + 1 < NumPorts)
  BY <1>2 DEF TxXmit, bufVars
<1>5. /\ RingType' /\ RingsOK' /\ Pending(r)' = 0
      /\ \A q \in Ring \ {r} : Pending(q)' = Pending(q)
      /\ tx_suspended' = [tx_suspended EXCEPT ![p] = 0]
  <2>1. CASE tx_suspended[p] > 0
    BY <1>1, <1>2, <1>3, <1>4, <2>1, TailStep DEF TxXmit
  <2>2. CASE ~ (tx_suspended[p] > 0)
    <3>1. UNCHANGED <<ringVars, tx_suspended>>
      BY <1>2, <1>4, <2>2 DEF TxXmit, ringVars
    <3>2. tx_suspended[p] = 0 /\ Pending(r) = 0
      BY <1>1, <2>2 DEF RingInv, TxPending, OtherType
    <3>3. tx_suspended' = [tx_suspended EXCEPT ![p] = 0]
      BY <1>1, <3>1, <3>2 DEF OtherType
    <3> QED
      BY <1>3, <3>1, <3>2, <3>3, RingsUnchanged
  <2> QED
    BY <2>1, <2>2
<1>6. OtherType'
  <2>1. i' \in Port
    BY <1>4, NextPort, RingFacts DEF EndEvent
  <2>2. tx_suspended' \in [Port -> Nat]
    BY <1>1, <1>5 DEF OtherType
  <2>3. pc' \in PC /\ port_index' \in Port /\ total' \in Nat /\ max_allocation' \in Nat
    BY <1>1, <1>4, RingFacts DEF OtherType, EndEvent, PC
  <2> QED
    BY <1>1, <1>4, <2>1, <2>2, <2>3 DEF OtherType
<1>7. TxPending' /\ RxPending'
  BY <1>1, <1>3, <1>4, <1>5 DEF RingInv, TxPending, RxPending, OtherType, EndEvent
<1>8. AllocBound'
  BY <1>4 DEF AllocBound, EndEvent
<1>9. XmitProgress'
  <2>1. ASSUME NEW q \in Port, pc' = "tx_xmit" => q < i' PROVE tx_suspended'[q] = 0
    <3>1. CASE q = p
      BY <1>1, <1>5, <3>1 DEF OtherType
    <3>2. CASE q # p
      <4>1. q < p
        BY <1>4, <2>1, <3>2, DataPlaneAssumption DEF Port, EndEvent
      <4>2. tx_suspended[q] = 0
        BY <1>2, <1>4, <4>1 DEF RingInv, XmitProgress
      <4> QED
        BY <1>1, <1>5, <3>2, <4>2 DEF OtherType
    <3> QED
      BY <3>1, <3>2
  <2> QED
    BY <2>1 DEF XmitProgress
<1> QED
  BY <1>5, <1>6, <1>7, <1>8, <1>9, TypeParts DEF RingInv, TypeOK, RingType, OtherType

(* The completion of a descriptor by the NIC keeps the invariant. *)
LEMMA NicInv ==
  ASSUME RingInv, NEW r \in Ring, NicComplete(r)
  PROVE  RingInv'
<1>1. RingType /\ OtherType /\ RingsOK
  BY TypeParts DEF RingInv
<1>2. RingType' /\ RingsOK' /\ \A q \in Ring : Pending(q)' = Pending(q) /\ Unused(q)' = Unused(q)
  BY <1>1, CompleteStep
<1>3. UNCHANGED <<slots, rx_slot_next, tx_suspended, pc, port_index, i, total,
                  max_allocation, packet>>
  BY DEF NicComplete, bufVars, threadVars
<1>4. OtherType'
  BY <1>1, <1>3 DEF OtherType
<1>5. TxPending' /\ RxPending' /\ XmitProgress'
  BY <1>2, <1>3, RingFacts DEF RingInv, TxPending, RxPending, XmitProgress
<1>6. AllocBound'
  BY <1>1, <1>2, <1>3, RingFacts DEF RingInv, AllocBound, OtherType
<1> QED
  BY <1>2, <1>4, <1>5, <1>6, TypeParts DEF RingInv, TypeOK, RingType, OtherType

-----------------------------------------------------------------------------
(* The invariant holds initially. *)
LEMMA InitRingInv == Init => RingInv
<1> SUFFICES ASSUME Init PROVE RingInv
  OBVIOUS
<1>1. \A r \in Ring : Size(r) \in Nat \ {0} /\ 0 \in Desc(Size(r)) /\ Dist(0, 0, Size(r)) = 0
  BY RingFacts DEF Desc, Dist
<1>2. RingType
  <2>1. <<0, 0>> \in Slot
    BY RingFacts, DataPlaneAssumption DEF Slot
  <2> QED
    BY <1>1, <2>1 DEF Init, RingType
<1>3. NumDesc["rx"] - 1 \in Nat /\ NumDesc["rx"] \in Nat
  BY DataPlaneAssumption
<1>4. OtherType
  BY <1>3, RingFacts, DataPlaneAssumption DEF Init, OtherType, PC
<1>5. RingsOK
  <2>1. ASSUME NEW r \in Ring
        PROVE  RingOK(0, 0, 0, 0, dd[r], Size(r))
    <3>1. \A d \in Desc(Size(r)) : Dist(0, d, Size(r)) \in Nat
      BY <1>1, DistType DEF Desc
    <3> QED
      BY <1>1, <3>1 DEF RingOK
  <2> QED
    BY <2>1 DEF Init, RingsOK
<1>6. \A r \in Ring : Pending(r) = 0
  BY <1>1 DEF Init, Pending
<1>7. TxPending /\ RxPending /\ XmitProgress
  BY <1>6, RingFacts DEF Init, TxPending, RxPending, XmitProgress
<1>8. AllocBound
  <2>1. Unused(<<"rx", 0>>) = NumDesc["rx"] - 1
    <3>1. /\ next_to_clean[<<"rx", 0>>] = 0 /\ next_to_use[<<"rx", 0>>] = 0
          /\ Size(<<"rx", 0>>) = NumDesc["rx"]
      BY RingFacts DEF Init
    <3> QED
      BY <1>3, <3>1 DEF Unused, ixmap_desc_unused
  <2> QED
    BY <1>3, <2>1 DEF Init, AllocBound
<1> QED
  BY <1>2, <1>4, <1>5, <1>7, <1>8, TypeParts DEF RingInv

(* Every step keeps the inductive invariant. *)
LEMMA NextRingInv == RingInv /\ [Next]_vars => RingInv'
<1> SUFFICES ASSUME RingInv, [Next]_vars PROVE RingInv'
  OBVIOUS
<1>1. CASE Thread
  <2>1. ASSUME NEW q \in Egress, ForwardSend(q) PROVE RingInv'
    BY <2>1, ForwardSendInv
  <2>2. CASE RxCleanReturn \/ ForwardDrop \/ ForwardReturn
    BY <2>2, QuietSteps, RingFacts
  <2> QED
    BY <1>1, <2>1, <2>2, RxAssignInv, RxAssignReturnInv, CleanInv, TxCleanReturnInv,
       TxXmitInv DEF Thread
<1>2. CASE Event
  BY <1>2, QuietSteps, TunSendInv DEF Event
<1>3. CASE \E r \in Ring : NicComplete(r)
  BY <1>3, NicInv
<1>4. CASE UNCHANGED vars
  <2>1. UNCHANGED ringVars /\ UNCHANGED <<slots, rx_slot_next, tx_suspended, pc, port_index,
                                          i, total, max_allocation, packet>>
    BY <1>4 DEF vars, bufVars, threadVars
  <2> QED
    BY <2>1 DEF RingInv, TypeOK, RingsOK, TxPending, RxPending, AllocBound, XmitProgress,
                Pending, Unused, ringVars
<1> QED
  BY <1>1, <1>2, <1>3, <1>4 DEF Next

(* The ring invariant holds in every reachable state. *)
THEOREM RingInvariant == Spec => []RingInv
<1>1. Init => RingInv
  BY InitRingInv
<1>2. RingInv /\ [Next]_vars => RingInv'
  BY NextRingInv
<1> QED
  BY <1>1, <1>2, PTL DEF Spec

(* Every variable of the data plane keeps its type: in particular the      *)
(* indices of lib/driver.c stay inside their rings and rx_slot_next inside *)
(* the port's partition, for every ring size, budget and buffer count.     *)
THEOREM TypeCorrect == Spec => []TypeOK
<1>1. RingInv => TypeOK
  BY DEF RingInv
<1> QED
  BY <1>1, RingInvariant, PTL

(* next_to_clean, head, tail and next_to_use keep their order around every *)
(* ring: no descriptor is shown to the NIC before it is filled, and none   *)
(* is cleaned before the NIC is through with it.                           *)
THEOREM RingOrderHolds == Spec => []RingOrder
<1>1. RingInv => RingOrder
  BY DEF RingInv, RingsOK, RingOK, RingOrder, Ahead
<1> QED
  BY <1>1, RingInvariant, PTL

(* The done bits of the filled descriptors are those of this lap. *)
THEOREM NoStaleDoneHolds == Spec => []NoStaleDone
<1>1. RingInv => NoStaleDone
  BY DEF RingInv, RingsOK, RingOK, NoStaleDone, Filled, Ahead
<1> QED
  BY <1>1, RingInvariant, PTL

(* The thread never sleeps on a descriptor it has not shown to the NIC. *)
THEOREM PublishedBeforeSleepHolds == Spec => []PublishedBeforeSleep
<1>1. RingInv => PublishedBeforeSleep
  <2> SUFFICES ASSUME RingInv, pc = "epoll_wait" PROVE PublishedBeforeSleep
    BY DEF PublishedBeforeSleep
  <2>1. \A p \in Port : tx_suspended[p] = 0
    BY DEF RingInv, XmitProgress
  <2>2. ASSUME NEW r \in Ring PROVE Pending(r) = 0
    <3>1. PICK p \in Port : r = <<"rx", p>> \/ r = <<"tx", p>>
      BY DEF Ring
    <3> QED
      BY <2>1, <3>1 DEF RingInv, TxPending, RxPending
  <2>3. ASSUME NEW r \in Ring PROVE tail[r] = next_to_use[r]
    <3>1. /\ Size(r) \in Nat \ {0} /\ tail[r] \in Desc(Size(r))
          /\ next_to_use[r] \in Desc(Size(r))
      BY RingFacts DEF RingInv, TypeOK
    <3> QED
      BY <2>2, <3>1, DistType DEF Pending
  <2> QED
    BY <2>1, <2>3 DEF PublishedBeforeSleep
<1> QED
  BY <1>1, RingInvariant, PTL

-----------------------------------------------------------------------------
(***************************************************************************)
(*                            Packet buffers                               *)
(***************************************************************************)

(* How the set of filled descriptors grows. *)
LEMMA FillFilled ==
  ASSUME RingType, RingsOK, NEW r \in Ring, NEW s \in Slot, FillDesc(r, s), Unused(r) > 0,
         UNCHANGED next_to_clean
  PROVE  /\ next_to_use[r] \in Desc(Size(r)) \ Filled(r)
         /\ slot_index'[r][next_to_use[r]] = s
         /\ \A q \in Ring : \A d \in Desc(Size(q)) :
              /\ d \in Filled(q)' <=> d \in Filled(q) \/ (q = r /\ d = next_to_use[r])
              /\ ~ (q = r /\ d = next_to_use[r]) => slot_index'[q][d] = slot_index[q][d]
<1> DEFINE n == Size(r)
           u == next_to_use[r]
           c == next_to_clean[r]
<1>1. n \in Nat \ {0} /\ u \in Desc(n) /\ c \in Desc(n) /\ Dist(c, u, n) \in Desc(n)
  BY RingFacts, DistType DEF RingType
<1>2. next_to_use' = [next_to_use EXCEPT ![r] = NextIndex(u, n)]
  BY DEF FillDesc
<1>3. slot_index' = [slot_index EXCEPT ![r] = [slot_index[r] EXCEPT ![u] = s]]
  BY DEF FillDesc
<1>4. Dist(c, NextIndex(u, n), n) = Dist(c, u, n) + 1
  <2>1. Dist(c, u, n) < n - 1
    BY <1>1, UnusedDist DEF Desc, Unused
  <2> QED
    BY <1>1, <2>1, DistNext
<1>5. u \notin Filled(r)
  BY <1>1 DEF Filled, Ahead, Desc
<1>6. slot_index'[r][u] = s
  BY <1>1, <1>3 DEF RingType
<1>7. ASSUME NEW q \in Ring, NEW d \in Desc(Size(q))
      PROVE  d \in Filled(q)' <=> d \in Filled(q) \/ (q = r /\ d = u)
  <2>1. CASE q = r
    <3>1. d \in Filled(r)' <=> Dist(c, d, n) < Dist(c, NextIndex(u, n), n)
      BY <1>2, <2>1 DEF Filled, Ahead, RingType, Size
    <3>2. d \in Filled(r) <=> Dist(c, d, n) < Dist(c, u, n)
      BY <2>1 DEF Filled, Ahead
    <3>3. Dist(c, d, n) \in Desc(n) /\ (Dist(c, d, n) = Dist(c, u, n) <=> d = u)
      BY <1>1, <2>1, DistType, DistInjective
    <3> QED
      BY <1>1, <1>4, <2>1, <3>1, <3>2, <3>3 DEF Desc
  <2>2. CASE q # r
    BY <1>2, <2>2 DEF Filled, Ahead, RingType, Size
  <2> QED
    BY <2>1, <2>2
<1>8. ASSUME NEW q \in Ring, NEW d \in Desc(Size(q)), ~ (q = r /\ d = u)
      PROVE  slot_index'[q][d] = slot_index[q][d]
  BY <1>1, <1>3, <1>8 DEF RingType
<1> QED
  BY <1>1, <1>5, <1>6, <1>7, <1>8

(* How it shrinks: the descriptor taken back was filled, and the NIC was   *)
(* through with it.                                                        *)
LEMMA CleanFilled ==
  ASSUME RingType, RingsOK, NEW r \in Ring, CanClean(r), CleanDesc(r), UNCHANGED next_to_use
  PROVE  /\ next_to_clean[r] \in Filled(r) \ NicOwned(r)
         /\ \A q \in Ring : \A d \in Desc(Size(q)) :
              d \in Filled(q)' <=> d \in Filled(q) /\ ~ (q = r /\ d = next_to_clean[r])
<1> DEFINE n == Size(r)
           u == next_to_use[r]
           c == next_to_clean[r]
<1>1. /\ n \in Nat \ {0} /\ u \in Desc(n) /\ c \in Desc(n) /\ head[r] \in Desc(n)
      /\ Dist(c, u, n) \in Desc(n) /\ Dist(c, c, n) = 0 /\ Dist(c, u, n) # 0
      /\ Dist(c, head[r], n) \in Desc(n)
  <2>1. /\ n \in Nat \ {0} /\ u \in Desc(n) /\ c \in Desc(n) /\ head[r] \in Desc(n)
        /\ c # u
    BY RingFacts DEF RingType, CanClean
  <2> QED
    BY <2>1, DistType
<1>2. next_to_clean' = [next_to_clean EXCEPT ![r] = NextIndex(c, n)]
  BY DEF CleanDesc
<1>3. c \in Filled(r)
  BY <1>1 DEF Filled, Ahead, Desc
<1>4. c \notin NicOwned(r)
  <2>1. Dist(c, c, n) < Dist(c, head[r], n)
    BY <1>1 DEF RingsOK, RingOK, CanClean, Desc
  <2> QED
    BY <1>1, <2>1 DEF NicOwned, Ahead, Desc
<1>5. ASSUME NEW q \in Ring, NEW d \in Desc(Size(q))
      PROVE  d \in Filled(q)' <=> d \in Filled(q) /\ ~ (q = r /\ d = c)
  <2>1. CASE q = r
    <3>1. d \in Filled(r)' <=> Dist(NextIndex(c, n), d, n) < Dist(NextIndex(c, n), u, n)
      BY <1>2, <2>1 DEF Filled, Ahead, RingType, Size
    <3>2. d \in Filled(r) <=> Dist(c, d, n) < Dist(c, u, n)
      BY <2>1 DEF Filled, Ahead
    <3>3. Dist(c, d, n) \in Desc(n)
      BY <1>1, <2>1, DistType
    <3>4. Dist(NextIndex(c, n), u, n) = Dist(c, u, n) - 1
      BY <1>1, DistClean
    <3>5. Dist(NextIndex(c, n), d, n) = IF d = c THEN n - 1 ELSE Dist(c, d, n) - 1
      BY <1>1, <2>1, DistClean
    <3> QED
      BY <1>1, <2>1, <3>1, <3>2, <3>3, <3>4, <3>5 DEF Desc
  <2>2. CASE q # r
    BY <1>2, <2>2 DEF Filled, Ahead, RingType, Size
  <2> QED
    BY <2>1, <2>2
<1> QED
  BY <1>3, <1>4, <1>5

(* All other steps leave the filled descriptors and their buffers alone. *)
LEMMA SameFilled ==
  ASSUME UNCHANGED <<next_to_use, next_to_clean, slot_index>>
  PROVE  /\ \A q \in Ring : Filled(q)' = Filled(q)
         /\ \A s \in Slot : OnRing(s)' <=> OnRing(s)
BY DEF Filled, Ahead, OnRing, Size

(* RxAssign fills a descriptor only if one is unused. *)
LEMMA RxAssignUnused == RingInv /\ RxAssign => Unused(<<"rx", i>>) > 0 /\ i \in Port
<1> SUFFICES ASSUME RingInv, RxAssign PROVE Unused(<<"rx", i>>) > 0 /\ i \in Port
  OBVIOUS
<1>1. total \in Nat /\ max_allocation \in Nat /\ i \in Port
  BY DEF RingInv, TypeOK
<1>2. total < max_allocation /\ Unused(<<"rx", i>>) = max_allocation - total
  BY DEF RxAssign, RingInv, AllocBound
<1> QED
  BY <1>1, <1>2

(* What a step does to the filled descriptors. *)
Fills  == \E r \in Ring, s \in Slot :
            FillDesc(r, s) /\ Unused(r) > 0 /\ UNCHANGED next_to_clean
Cleans == \E r \in Ring :
            CanClean(r) /\ CleanDesc(r) /\ UNCHANGED <<next_to_use, slot_index>>
Leaves == UNCHANGED <<next_to_use, next_to_clean, slot_index>>

(* Every step fills one descriptor, takes one back, or leaves all of them. *)
LEMMA StepShape == RingInv /\ [Next]_vars => Fills \/ Cleans \/ Leaves
<1> SUFFICES ASSUME RingInv, [Next]_vars PROVE Fills \/ Cleans \/ Leaves
  OBVIOUS
<1>1. port_index \in Port /\ i \in Port /\ packet \in Seq(Slot)
  BY DEF RingInv, TypeOK
<1>2. CASE RxAssign
  <2>1. PICK s \in Slot : FillDesc(<<"rx", i>>, s)
    BY <1>2 DEF RxAssign
  <2>2. UNCHANGED next_to_clean /\ <<"rx", i>> \in Ring /\ Unused(<<"rx", i>>) > 0
    BY <1>1, <1>2, RxAssignUnused, RingFacts DEF RxAssign
  <2> QED
    BY <2>1, <2>2 DEF Fills
<1>3. ASSUME NEW q \in Egress, ForwardSend(q) PROVE Fills \/ Cleans \/ Leaves
  <2>1. Head(packet) \in Slot
    <3>1. packet # << >>
      BY <1>3 DEF ForwardSend
    <3> QED
      BY <1>1, <3>1
  <2>2. <<"tx", q>> \in Ring
    BY RingFacts
  <2> QED
    BY <1>3, <2>1, <2>2 DEF ForwardSend, Fills, Leaves
<1>4. ASSUME NEW p \in Port, TunSend(p) PROVE Fills \/ Cleans \/ Leaves
  BY <1>4, RingFacts DEF TunSend, Fills, Leaves
<1>5. CASE RxClean \/ TxClean
  BY <1>1, <1>5, RingFacts DEF RxClean, TxClean, Cleans
<1>6. CASE \/ RxAssignReturn \/ RxCleanReturn \/ ForwardDrop \/ ForwardReturn
           \/ TxXmit \/ TxCleanReturn
           \/ \E p \in Port : RxEvent(p) \/ TxEvent(p) \/ TunDrop(p)
           \/ \E r \in Ring : NicComplete(r)
           \/ UNCHANGED vars
  BY <1>6 DEF RxAssignReturn, RxCleanReturn, ForwardDrop, ForwardReturn, TxXmit,
              TxCleanReturn, RxEvent, TxEvent, TunDrop, NicComplete, vars, ringVars, Leaves
<1> QED
  BY <1>2, <1>3, <1>4, <1>5, <1>6 DEF Next, Thread, Event

(* No step rewrites a descriptor the NIC owns, or takes it back. *)
LEMMA StepKeepsNicOwned ==
  ASSUME RingInv, [Next]_vars, NEW r \in Ring, NEW d \in NicOwned(r)
  PROVE  slot_index'[r][d] = slot_index[r][d] /\ d \in Filled(r)'
<1>1. RingType /\ RingsOK
  BY TypeParts DEF RingInv
<1>2. d \in Filled(r) /\ d \in Desc(Size(r))
  BY DEF NicOwned, Filled
<1>3. CASE Fills
  <2>1. PICK q \in Ring, s \in Slot :
          FillDesc(q, s) /\ Unused(q) > 0 /\ UNCHANGED next_to_clean
    BY <1>3 DEF Fills
  <2>2. /\ next_to_use[q] \notin Filled(q)
        /\ d \in Filled(r)' <=> d \in Filled(r) \/ (r = q /\ d = next_to_use[q])
        /\ ~ (r = q /\ d = next_to_use[q]) => slot_index'[r][d] = slot_index[r][d]
    BY <1>1, <1>2, <2>1, FillFilled
  <2> QED
    BY <1>2, <2>2
<1>4. CASE Cleans
  <2>1. PICK q \in Ring :
          CanClean(q) /\ CleanDesc(q) /\ UNCHANGED <<next_to_use, slot_index>>
    BY <1>4 DEF Cleans
  <2>2. /\ next_to_clean[q] \notin NicOwned(q)
        /\ d \in Filled(r)' <=> d \in Filled(r) /\ ~ (r = q /\ d = next_to_clean[q])
    BY <1>1, <1>2, <2>1, CleanFilled
  <2> QED
    BY <1>2, <2>1, <2>2
<1>5. CASE Leaves
  BY <1>2, <1>5, SameFilled DEF Leaves
<1> QED
  BY <1>3, <1>4, <1>5, StepShape

(* While the NIC owns a descriptor the thread neither rewrites it nor      *)
(* takes it back, whatever interrupts and frames arrive in whatever order. *)
THEOREM NicDescStableHolds == Spec => NicDescStable
<1>1. RingInv /\ [Next]_vars =>
        [\A r \in Ring : \A d \in NicOwned(r) :
           slot_index'[r][d] = slot_index[r][d] /\ d \in Filled(r)']_vars
  BY StepKeepsNicOwned
<1> QED
  BY <1>1, RingInvariant, PTL DEF Spec, NicDescStable

(* Filling keeps every buffer on its ring and adds one. *)
LEMMA FillOnRing ==
  ASSUME RingInv, NEW r \in Ring, NEW s \in Slot, FillDesc(r, s), Unused(r) > 0,
         UNCHANGED next_to_clean
  PROVE  OnRing(s)' /\ \A x \in Slot : OnRing(x) => OnRing(x)'
<1> DEFINE u == next_to_use[r]
<1>1. RingType /\ RingsOK
  BY TypeParts DEF RingInv
<1>2. /\ u \in Desc(Size(r)) \ Filled(r) /\ slot_index'[r][u] = s
      /\ \A q \in Ring : \A d \in Desc(Size(q)) :
           /\ d \in Filled(q)' <=> d \in Filled(q) \/ (q = r /\ d = u)
           /\ ~ (q = r /\ d = u) => slot_index'[q][d] = slot_index[q][d]
  BY <1>1, FillFilled
<1>3. OnRing(s)'
  BY <1>2 DEF OnRing
<1>4. ASSUME NEW x \in Slot, OnRing(x) PROVE OnRing(x)'
  <2>1. PICK q \in Ring : \E d \in Filled(q) : slot_index[q][d] = x
    BY <1>4 DEF OnRing
  <2>2. PICK d \in Filled(q) : slot_index[q][d] = x
    BY <2>1
  <2>3. d \in Desc(Size(q)) /\ ~ (q = r /\ d = u)
    BY <1>2 DEF Filled
  <2>4. d \in Filled(q)' /\ slot_index'[q][d] = x
    BY <1>2, <2>2, <2>3
  <2> QED
    BY <2>4 DEF OnRing
<1> QED
  BY <1>3, <1>4

(* Taking a descriptor back takes at most its own buffer off the rings. *)
LEMMA CleanOnRing ==
  ASSUME RingInv, NEW r \in Ring, CanClean(r), CleanDesc(r),
         UNCHANGED <<next_to_use, slot_index>>
  PROVE  \A x \in Slot : OnRing(x) /\ x # slot_index[r][next_to_clean[r]] => OnRing(x)'
<1> SUFFICES ASSUME NEW x \in Slot, OnRing(x), x # slot_index[r][next_to_clean[r]]
             PROVE  OnRing(x)'
  OBVIOUS
<1>1. RingType /\ RingsOK
  BY TypeParts DEF RingInv
<1>2. PICK q \in Ring : \E d \in Filled(q) : slot_index[q][d] = x
  BY DEF OnRing
<1>3. PICK d \in Filled(q) : slot_index[q][d] = x
  BY <1>2
<1>4. d \in Desc(Size(q))
  BY DEF Filled
<1>5. d \in Filled(q)' <=> d \in Filled(q) /\ ~ (q = r /\ d = next_to_clean[r])
  BY <1>1, <1>4, CleanFilled
<1>6. d \in Filled(q)' /\ slot_index'[q][d] = x
  BY <1>3, <1>5
<1> QED
  BY <1>6 DEF OnRing

(* The packet array loses its first element. *)
LEMMA TailInPacket ==
  ASSUME packet \in Seq(Slot), packet # << >>, packet' = Tail(packet)
  PROVE  /\ Head(packet) \in Slot
         /\ \A x \in Slot : InPacket(x) /\ x # Head(packet) => InPacket(x)'
<1>1. Head(packet) = packet[1] /\ Head(packet) \in Slot /\ Len(packet) \in Nat
  OBVIOUS
<1>2. Len(packet') = Len(packet) - 1 /\ \A k \in 1 .. Len(packet) - 1 : packet'[k] = packet[k + 1]
  OBVIOUS
<1>3. ASSUME NEW x \in Slot, InPacket(x), x # Head(packet) PROVE InPacket(x)'
  <2>1. PICK k \in 1 .. Len(packet) : packet[k] = x
    BY <1>3 DEF InPacket
  <2>2. k # 1
    BY <1>1, <1>3, <2>1
  <2>3. k - 1 \in 1 .. Len(packet) - 1 /\ (k - 1) + 1 = k
    BY <1>1, <2>1, <2>2
  <2>4. packet'[k - 1] = x /\ k - 1 \in 1 .. Len(packet')
    BY <1>2, <2>1, <2>3
  <2> QED
    BY <2>4 DEF InPacket
<1> QED
  BY <1>1, <1>3

(* No buffer is in flight initially. *)
LEMMA InitNoSlotLeak == Init => NoSlotLeak
BY DEF Init, NoSlotLeak

(* Every step keeps NoSlotLeak. *)
LEMMA NextNoSlotLeak == RingInv /\ NoSlotLeak /\ [Next]_vars => NoSlotLeak'
<1> SUFFICES ASSUME RingInv, NoSlotLeak, [Next]_vars PROVE NoSlotLeak'
  OBVIOUS
<1>1. /\ port_index \in Port /\ i \in Port /\ packet \in Seq(Slot)
      /\ slots \in [Slot -> BOOLEAN]
  BY DEF RingInv, TypeOK
<1>2. CASE RxAssign
  <2>1. PICK s \in Slot : slots' = [slots EXCEPT ![s] = TRUE] /\ FillDesc(<<"rx", i>>, s)
    BY <1>2 DEF RxAssign
  <2>2. PICK r \in Ring : r = <<"rx", i>>
    BY <1>1, RingFacts
  <2>3. OnRing(s)' /\ \A x \in Slot : OnRing(x) => OnRing(x)'
    BY <1>2, <2>1, <2>2, RxAssignUnused, FillOnRing DEF RxAssign
  <2>4. \A x \in Slot : InPacket(x) => InPacket(x)'
    BY <1>2 DEF RxAssign, InPacket
  <2> QED
    BY <1>1, <2>1, <2>3, <2>4 DEF NoSlotLeak
<1>3. CASE RxClean
  <2>1. PICK r \in Ring : r = <<"rx", port_index>>
    BY <1>1, RingFacts
  <2>2. PICK y \in Slot : y = slot_index[r][next_to_clean[r]]
    BY DEF RingInv, TypeOK
  <2>3. /\ CanClean(r) /\ CleanDesc(r) /\ UNCHANGED <<next_to_use, slot_index>>
        /\ packet' = Append(packet, y) /\ UNCHANGED slots
    BY <1>3, <2>1, <2>2 DEF RxClean, bufVars
  <2>4. \A x \in Slot : OnRing(x) /\ x # y => OnRing(x)'
    BY <2>2, <2>3, CleanOnRing
  <2>5. /\ Len(packet') = Len(packet) + 1 /\ Len(packet) \in Nat
        /\ packet'[Len(packet) + 1] = y
        /\ \A k \in 1 .. Len(packet) : packet'[k] = packet[k]
    BY <1>1, <2>2, <2>3
  <2>6. \A x \in Slot : InPacket(x) => InPacket(x)'
    BY <2>5 DEF InPacket
  <2>7. InPacket(y)'
    <3>1. Len(packet) + 1 \in 1 .. Len(packet')
      BY <2>5
    <3>2. \E k \in 1 .. Len(packet') : packet'[k] = y
      BY <2>5, <3>1
    <3> QED
      BY <3>2 DEF InPacket
  <2>8. \A x \in Slot : OnRing(x) \/ InPacket(x) => OnRing(x)' \/ InPacket(x)'
    BY <2>4, <2>6, <2>7
  <2> QED
    BY <2>3, <2>8 DEF NoSlotLeak
<1>4. CASE ForwardDrop
  <2>1. /\ packet # << >> /\ packet' = Tail(packet)
        /\ slots' = [slots EXCEPT ![Head(packet)] = FALSE]
        /\ UNCHANGED <<next_to_use, next_to_clean, slot_index>>
    BY <1>4 DEF ForwardDrop, ringVars
  <2> QED
    BY <1>1, <2>1, SameFilled, TailInPacket DEF NoSlotLeak
<1>5. ASSUME NEW q \in Egress, ForwardSend(q) PROVE NoSlotLeak'
  <2>1. /\ packet # << >> /\ packet' = Tail(packet)
        /\ slots' = [slots EXCEPT ![Head(packet)] = FALSE]
        /\ UNCHANGED next_to_clean
    BY <1>5 DEF ForwardSend
  <2>2. PICK r \in Ring : r = <<"tx", q>>
    BY RingFacts
  <2>3. PICK s \in Slot : s = Head(packet)
    BY <1>1, <2>1, TailInPacket
  <2>4. \A x \in Slot : OnRing(x) => OnRing(x)'
    <3>1. CASE Unused(r) > 0
      BY <1>5, <2>1, <2>2, <2>3, <3>1, FillOnRing DEF ForwardSend
    <3>2. CASE ~ (Unused(r) > 0)
      BY <1>5, <2>1, <2>2, <3>2, SameFilled DEF ForwardSend
    <3> QED
      BY <3>1, <3>2
  <2> QED
    BY <1>1, <2>1, <2>4, TailInPacket DEF NoSlotLeak
<1>6. ASSUME NEW p \in Port, TunSend(p) PROVE NoSlotLeak'
  <2>1. PICK s \in Slot :
          IF Unused(<<"tx", p>>) > 0
            THEN slots' = [slots EXCEPT ![s] = TRUE] /\ FillDesc(<<"tx", p>>, s)
            ELSE UNCHANGED <<slots, slot_index, dd, next_to_use, tx_suspended>>
    BY <1>6 DEF TunSend
  <2>2. UNCHANGED <<next_to_clean, packet>> /\ <<"tx", p>> \in Ring
    BY <1>6, RingFacts DEF TunSend
  <2>3. \A x \in Slot : InPacket(x) => InPacket(x)'
    BY <2>2 DEF InPacket
  <2>4. CASE Unused(<<"tx", p>>) > 0
    BY <1>1, <2>1, <2>2, <2>3, <2>4, FillOnRing DEF NoSlotLeak
  <2>5. CASE ~ (Unused(<<"tx", p>>) > 0)
    BY <2>1, <2>2, <2>3, <2>5, SameFilled DEF NoSlotLeak
  <2> QED
    BY <2>4, <2>5
<1>7. CASE TxClean
  <2>1. PICK r \in Ring : r = <<"tx", port_index>>
    BY <1>1, RingFacts
  <2>2. /\ CanClean(r) /\ CleanDesc(r) /\ UNCHANGED <<next_to_use, slot_index, packet>>
        /\ slots' = [slots EXCEPT ![slot_index[r][next_to_clean[r]]] = FALSE]
    BY <1>7, <2>1 DEF TxClean
  <2>3. \A x \in Slot : InPacket(x) => InPacket(x)'
    BY <2>2 DEF InPacket
  <2> QED
    BY <1>1, <2>2, <2>3, CleanOnRing DEF NoSlotLeak
<1>8. CASE \/ RxAssignReturn \/ RxCleanReturn \/ ForwardReturn \/ TxXmit \/ TxCleanReturn
           \/ \E p \in Port : RxEvent(p) \/ TxEvent(p) \/ TunDrop(p)
           \/ \E r \in Ring : NicComplete(r)
           \/ UNCHANGED vars
  <2>1. UNCHANGED <<next_to_use, next_to_clean, slot_index, slots, packet>>
    BY <1>8 DEF RxAssignReturn, RxCleanReturn, ForwardReturn, TxXmit, TxCleanReturn,
                RxEvent, TxEvent, TunDrop, NicComplete, vars, ringVars, bufVars, threadVars
  <2> QED
    BY <2>1, SameFilled DEF NoSlotLeak, InPacket
<1> QED
  BY <1>2, <1>3, <1>4, <1>5, <1>6, <1>7, <1>8 DEF Next, Thread, Event

(* No packet buffer is ever lost: in every reachable state a buffer marked *)
(* in flight is attached to a filled descriptor or waits in the packet     *)
(* array, whatever the routes, the ring sizes and the load.                *)
THEOREM NoSlotLeakHolds == Spec => []NoSlotLeak
<1>1. Init => RingInv /\ NoSlotLeak
  BY InitRingInv, InitNoSlotLeak
<1>2. RingInv /\ NoSlotLeak /\ [Next]_vars => (RingInv /\ NoSlotLeak)'
  BY NextRingInv, NextNoSlotLeak
<1> QED
  BY <1>1, <1>2, PTL DEF Spec

-----------------------------------------------------------------------------
(***************************************************************************)
(* Exclusive ownership of the buffers, while no packet is forwarded.       *)
(***************************************************************************)

(* A free buffer put on a ring. *)
LEMMA FillExclusive ==
  ASSUME RingInv, SlotExclusive, NEW r \in Ring, NEW s \in Slot, FillDesc(r, s),
         Unused(r) > 0, UNCHANGED <<next_to_clean, packet>>,
         ~ slots[s], slots' = [slots EXCEPT ![s] = TRUE]
  PROVE  SlotExclusive'
<1> DEFINE u == next_to_use[r]
<1>1. RingType /\ RingsOK /\ slots \in [Slot -> BOOLEAN] /\ packet \in Seq(Slot)
  BY TypeParts DEF RingInv, OtherType
<1>2. PICK v \in Desc(Size(r)) : v = u
  BY <1>1, FillFilled
<1>3. /\ v \notin Filled(r) /\ slot_index'[r][v] = s
      /\ \A q \in Ring : \A d \in Desc(Size(q)) :
           /\ d \in Filled(q)' <=> d \in Filled(q) \/ (q = r /\ d = v)
           /\ ~ (q = r /\ d = v) => slot_index'[q][d] = slot_index[q][d]
  BY <1>1, <1>2, FillFilled
<1>4. \A q \in Ring : \A d \in Filled(q)' :
        \/ q = r /\ d = v /\ slot_index'[q][d] = s
        \/ /\ d \in Filled(q) /\ slot_index'[q][d] = slot_index[q][d]
           /\ slot_index[q][d] \in Slot /\ slot_index[q][d] # s
  <2> TAKE q \in Ring
  <2> TAKE d \in Filled(q)'
  <2>1. d \in Desc(Size(q))
    BY DEF Filled, Size
  <2>2. CASE q = r /\ d = v
    BY <1>3, <2>2
  <2>3. CASE ~ (q = r /\ d = v)
    <3>1. d \in Filled(q) /\ slot_index'[q][d] = slot_index[q][d]
      BY <1>3, <2>1, <2>3
    <3>2. slot_index[q][d] \in Slot
      BY <1>1, <2>1 DEF RingType
    <3>3. slots[slot_index[q][d]]
      BY <3>1 DEF SlotExclusive, RefsInFlight
    <3> QED
      BY <3>1, <3>2, <3>3
  <2> QED
    BY <2>2, <2>3
<1>5. \A k \in 1 .. Len(packet) : packet[k] # s /\ packet[k] \in Slot
  BY <1>1 DEF SlotExclusive, RefsInFlight
<1>6. RefsInFlight'
  <2>1. \A q \in Ring : \A d \in Filled(q)' : slots'[slot_index'[q][d]]
    BY <1>1, <1>4 DEF SlotExclusive, RefsInFlight
  <2>2. \A k \in 1 .. Len(packet) : slots'[packet[k]]
    BY <1>1, <1>5 DEF SlotExclusive, RefsInFlight
  <2> QED
    BY <2>1, <2>2 DEF RefsInFlight
<1>7. RingsDisjoint'
  <2>1. ASSUME NEW r1 \in Ring, NEW r2 \in Ring, NEW d1 \in Filled(r1)',
               NEW d2 \in Filled(r2)', slot_index'[r1][d1] = slot_index'[r2][d2]
        PROVE  r1 = r2 /\ d1 = d2
    BY <1>4, <2>1 DEF SlotExclusive, RingsDisjoint
  <2> QED
    BY <2>1 DEF RingsDisjoint
<1>8. PacketsDisjoint'
  <2>1. ASSUME NEW q \in Ring, NEW d \in Filled(q)', NEW k \in 1 .. Len(packet)
        PROVE  packet[k] # slot_index'[q][d]
    BY <1>4, <1>5 DEF SlotExclusive, PacketsDisjoint, InPacket
  <2> QED
    BY <2>1 DEF SlotExclusive, PacketsDisjoint, InPacket
<1> QED
  BY <1>6, <1>7, <1>8 DEF SlotExclusive

(* A descriptor taken back: its buffer is on no ring any more. *)
LEMMA CleanExclusive ==
  ASSUME RingInv, SlotExclusive, NEW r \in Ring, CanClean(r), CleanDesc(r),
         UNCHANGED <<next_to_use, slot_index>>
  PROVE  /\ \A q \in Ring : \A d \in Filled(q)' :
              /\ d \in Filled(q) /\ slot_index[q][d] \in Slot
              /\ slot_index[q][d] # slot_index[r][next_to_clean[r]]
         /\ ~ InPacket(slot_index[r][next_to_clean[r]])
         /\ slots[slot_index[r][next_to_clean[r]]]
         /\ slot_index[r][next_to_clean[r]] \in Slot
<1> DEFINE c == next_to_clean[r]
<1>1. RingType /\ RingsOK
  BY TypeParts DEF RingInv
<1>2. /\ c \in Filled(r)
      /\ \A q \in Ring : \A d \in Desc(Size(q)) :
           d \in Filled(q)' <=> d \in Filled(q) /\ ~ (q = r /\ d = c)
  BY <1>1, CleanFilled
<1>3. ASSUME NEW q \in Ring, NEW d \in Filled(q)'
      PROVE  d \in Filled(q) /\ slot_index[q][d] \in Slot /\ slot_index[q][d] # slot_index[r][c]
  <2>1. d \in Desc(Size(q))
    BY DEF Filled, Size
  <2>2. d \in Filled(q) /\ ~ (q = r /\ d = c)
    BY <1>2, <1>3, <2>1
  <2> QED
    BY <1>1, <1>2, <2>1, <2>2 DEF SlotExclusive, RingsDisjoint, RingType
<1>4. slot_index[r][c] \in Slot
  BY <1>1 DEF RingType
<1> QED
  BY <1>2, <1>3, <1>4 DEF SlotExclusive, RefsInFlight, PacketsDisjoint

(* One iteration of ixmap_rx_clean keeps buffers exclusive. *)
LEMMA RxCleanExclusive == RingInv /\ SlotExclusive /\ RxClean => SlotExclusive'
<1> SUFFICES ASSUME RingInv, SlotExclusive, RxClean PROVE SlotExclusive'
  OBVIOUS
<1>1. port_index \in Port /\ packet \in Seq(Slot)
  BY DEF RingInv, TypeOK
<1>2. PICK r \in Ring : r = <<"rx", port_index>>
  BY <1>1, RingFacts
<1>3. PICK y \in Slot : y = slot_index[r][next_to_clean[r]]
  BY DEF RingInv, TypeOK
<1>4. /\ CanClean(r) /\ CleanDesc(r) /\ UNCHANGED <<next_to_use, slot_index, slots>>
      /\ packet' = Append(packet, y)
  BY <1>2, <1>3 DEF RxClean, bufVars
<1>5. /\ \A q \in Ring : \A d \in Filled(q)' : d \in Filled(q) /\ slot_index[q][d] # y
      /\ ~ InPacket(y) /\ slots[y]
  BY <1>3, <1>4, CleanExclusive
<1>6. /\ Len(packet') = Len(packet) + 1 /\ Len(packet) \in Nat
      /\ packet'[Len(packet) + 1] = y
      /\ \A k \in 1 .. Len(packet) : packet'[k] = packet[k]
  BY <1>1, <1>4
<1>7. \A k \in 1 .. Len(packet') : \/ k = Len(packet) + 1 /\ packet'[k] = y
                                   \/ /\ k \in 1 .. Len(packet) /\ packet'[k] = packet[k]
                                      /\ packet[k] # y
  BY <1>5, <1>6 DEF InPacket
<1>8. RefsInFlight'
  <2>1. \A q \in Ring : \A d \in Filled(q)' : slots'[slot_index'[q][d]]
    BY <1>4, <1>5 DEF SlotExclusive, RefsInFlight
  <2>2. \A k \in 1 .. Len(packet') : slots'[packet'[k]]
    BY <1>4, <1>5, <1>7 DEF SlotExclusive, RefsInFlight
  <2> QED
    BY <2>1, <2>2 DEF RefsInFlight
<1>9. RingsDisjoint'
  BY <1>4, <1>5 DEF SlotExclusive, RingsDisjoint
<1>10. PacketsDisjoint'
  <2>1. ASSUME NEW q \in Ring, NEW d \in Filled(q)', NEW k \in 1 .. Len(packet')
        PROVE  packet'[k] # slot_index'[q][d]
    BY <1>4, <1>5, <1>7 DEF SlotExclusive, PacketsDisjoint, InPacket
  <2>2. ASSUME NEW j \in 1 .. Len(packet'), NEW k \in 1 .. Len(packet'), packet'[j] = packet'[k]
        PROVE  j = k
    BY <1>7, <2>2 DEF SlotExclusive, PacketsDisjoint
  <2> QED
    BY <2>1, <2>2 DEF PacketsDisjoint, InPacket
<1> QED
  BY <1>8, <1>9, <1>10 DEF SlotExclusive

(* One iteration of ixmap_tx_clean keeps buffers exclusive. *)
LEMMA TxCleanExclusive == RingInv /\ SlotExclusive /\ TxClean => SlotExclusive'
<1> SUFFICES ASSUME RingInv, SlotExclusive, TxClean PROVE SlotExclusive'
  OBVIOUS
<1>1. port_index \in Port /\ packet \in Seq(Slot) /\ slots \in [Slot -> BOOLEAN]
  BY DEF RingInv, TypeOK
<1>2. PICK r \in Ring : r = <<"tx", port_index>>
  BY <1>1, RingFacts
<1>3. PICK y \in Slot : y = slot_index[r][next_to_clean[r]]
  BY DEF RingInv, TypeOK
<1>4. /\ CanClean(r) /\ CleanDesc(r) /\ UNCHANGED <<next_to_use, slot_index, packet>>
      /\ slots' = [slots EXCEPT ![y] = FALSE]
  BY <1>2, <1>3 DEF TxClean
<1>5. /\ \A q \in Ring : \A d \in Filled(q)' :
           d \in Filled(q) /\ slot_index[q][d] # y /\ slot_index[q][d] \in Slot
      /\ ~ InPacket(y)
  BY <1>3, <1>4, CleanExclusive
<1>6. RefsInFlight'
  <2>1. \A q \in Ring : \A d \in Filled(q)' : slots'[slot_index'[q][d]]
    BY <1>1, <1>4, <1>5 DEF SlotExclusive, RefsInFlight
  <2>2. \A k \in 1 .. Len(packet) : slots'[packet[k]]
    BY <1>1, <1>4, <1>5 DEF SlotExclusive, RefsInFlight, InPacket
  <2> QED
    BY <1>4, <2>1, <2>2 DEF RefsInFlight
<1>7. RingsDisjoint'
  BY <1>4, <1>5 DEF SlotExclusive, RingsDisjoint
<1>8. PacketsDisjoint'
  BY <1>4, <1>5 DEF SlotExclusive, PacketsDisjoint, InPacket
<1> QED
  BY <1>6, <1>7, <1>8 DEF SlotExclusive

(* Dropping a packet keeps buffers exclusive. *)
LEMMA DropExclusive == RingInv /\ SlotExclusive /\ ForwardDrop => SlotExclusive'
<1> SUFFICES ASSUME RingInv, SlotExclusive, ForwardDrop PROVE SlotExclusive'
  OBVIOUS
<1>1. packet \in Seq(Slot) /\ slots \in [Slot -> BOOLEAN] /\ RingType
  BY TypeParts DEF RingInv, OtherType
<1>2. /\ packet # << >> /\ packet' = Tail(packet)
      /\ UNCHANGED <<next_to_use, next_to_clean, slot_index>>
      /\ slots' = [slots EXCEPT ![Head(packet)] = FALSE]
  BY DEF ForwardDrop, ringVars
<1>3. PICK y \in Slot : y = packet[1] /\ y = Head(packet)
  BY <1>1, <1>2
<1>4. Len(packet') = Len(packet) - 1 /\ Len(packet) \in Nat /\ Len(packet) > 0
  BY <1>1, <1>2
<1>5. \A k \in 1 .. Len(packet') : /\ packet'[k] = packet[k + 1] /\ k + 1 \in 1 .. Len(packet)
                                   /\ packet[k + 1] \in Slot /\ packet[k + 1] # y
  <2> TAKE k \in 1 .. Len(packet')
  <2>1. packet'[k] = packet[k + 1] /\ k + 1 \in 1 .. Len(packet) /\ packet[k + 1] \in Slot
    BY <1>1, <1>2, <1>4
  <2>2. 1 \in 1 .. Len(packet) /\ k + 1 # 1
    BY <1>4
  <2> QED
    BY <1>3, <2>1, <2>2 DEF SlotExclusive, PacketsDisjoint
<1>6. \A q \in Ring : Filled(q)' = Filled(q)
  BY <1>2, SameFilled
<1>7. \A q \in Ring : \A d \in Filled(q) : slot_index[q][d] # y /\ slot_index[q][d] \in Slot
  <2>1. 1 \in 1 .. Len(packet)
    BY <1>4
  <2>2. \A q \in Ring : \A d \in Filled(q) : slot_index[q][d] \in Slot
    BY <1>1 DEF RingType, Filled
  <2> QED
    BY <1>3, <2>1, <2>2 DEF SlotExclusive, PacketsDisjoint, InPacket
<1>8. RefsInFlight'
  <2>1. \A q \in Ring : \A d \in Filled(q)' : slots'[slot_index'[q][d]]
    BY <1>1, <1>2, <1>3, <1>6, <1>7 DEF SlotExclusive, RefsInFlight
  <2>2. \A k \in 1 .. Len(packet') : slots'[packet'[k]]
    BY <1>1, <1>2, <1>3, <1>5 DEF SlotExclusive, RefsInFlight
  <2> QED
    BY <2>1, <2>2 DEF RefsInFlight
<1>9. RingsDisjoint'
  BY <1>2, <1>6 DEF SlotExclusive, RingsDisjoint
<1>10. PacketsDisjoint'
  <2>1. ASSUME NEW q \in Ring, NEW d \in Filled(q)', NEW k \in 1 .. Len(packet')
        PROVE  packet'[k] # slot_index'[q][d]
    BY <1>2, <1>5, <1>6 DEF SlotExclusive, PacketsDisjoint, InPacket
  <2>2. ASSUME NEW j \in 1 .. Len(packet'), NEW k \in 1 .. Len(packet'), packet'[j] = packet'[k]
        PROVE  j = k
    <3>1. j + 1 = k + 1
      BY <1>5, <2>2 DEF SlotExclusive, PacketsDisjoint
    <3> QED
      BY <3>1
  <2> QED
    BY <2>1, <2>2 DEF PacketsDisjoint, InPacket
<1> QED
  BY <1>8, <1>9, <1>10 DEF SlotExclusive

(* Without a forwarding route every step keeps buffers exclusive. *)
LEMMA NextSlotExclusive ==
  ASSUME Egress = {}, RingInv, SlotExclusive, [Next]_vars
  PROVE  SlotExclusive'
<1>1. CASE RxAssign
  <2>1. PICK s \in Slot : /\ FirstFree(i, s) /\ slots' = [slots EXCEPT ![s] = TRUE]
                          /\ FillDesc(<<"rx", i>>, s)
    BY <1>1 DEF RxAssign
  <2>2. PICK r \in Ring : r = <<"rx", i>> /\ Unused(r) > 0
    BY <1>1, RxAssignUnused, RingFacts
  <2>3. ~ slots[s]
    BY <2>1 DEF FirstFree
  <2>4. UNCHANGED <<next_to_clean, packet>>
    BY <1>1 DEF RxAssign
  <2> QED
    BY <2>1, <2>2, <2>3, <2>4, FillExclusive
<1>2. ASSUME NEW p \in Port, TunSend(p) PROVE SlotExclusive'
  <2>1. PICK s \in Slot :
          /\ FirstFree(p, s)
          /\ IF Unused(<<"tx", p>>) > 0
               THEN slots' = [slots EXCEPT ![s] = TRUE] /\ FillDesc(<<"tx", p>>, s)
               ELSE UNCHANGED <<slots, slot_index, dd, next_to_use, tx_suspended>>
    BY <1>2 DEF TunSend
  <2>2. UNCHANGED <<next_to_clean, packet>> /\ <<"tx", p>> \in Ring /\ ~ slots[s]
    BY <1>2, <2>1, RingFacts DEF TunSend, FirstFree
  <2>3. CASE Unused(<<"tx", p>>) > 0
    BY <2>1, <2>2, <2>3, FillExclusive
  <2>4. CASE ~ (Unused(<<"tx", p>>) > 0)
    BY <2>1, <2>2, <2>4, SameFilled
       DEF SlotExclusive, RefsInFlight, RingsDisjoint, PacketsDisjoint, InPacket
  <2> QED
    BY <2>3, <2>4
<1>3. CASE \/ RxAssignReturn \/ RxCleanReturn \/ ForwardReturn \/ TxXmit \/ TxCleanReturn
           \/ \E p \in Port : RxEvent(p) \/ TxEvent(p) \/ TunDrop(p)
           \/ \E r \in Ring : NicComplete(r)
           \/ UNCHANGED vars
  <2>1. UNCHANGED <<next_to_use, next_to_clean, slot_index, slots, packet>>
    BY <1>3 DEF RxAssignReturn, RxCleanReturn, ForwardReturn, TxXmit, TxCleanReturn,
                RxEvent, TxEvent, TunDrop, NicComplete, vars, ringVars, bufVars, threadVars
  <2> QED
    BY <2>1, SameFilled
       DEF SlotExclusive, RefsInFlight, RingsDisjoint, PacketsDisjoint, InPacket
<1> QED
  BY <1>1, <1>2, <1>3, RxCleanExclusive, TxCleanExclusive, DropExclusive
     DEF Next, Thread, Event

(* As long as no route leads to a port, so that forward_process drops      *)
(* every received packet after handing it to the TAP interface, a packet   *)
(* buffer has one owner: no two descriptors, nor a descriptor and the      *)
(* packet array, refer to the same buffer, and all of them are in flight.  *)
(* With a route the property fails (see the run dp_release).               *)
THEOREM LocalSlotExclusive ==
  ASSUME Egress = {}
  PROVE  Spec => []SlotExclusive
<1>1. Init => RingInv /\ SlotExclusive
  <2> SUFFICES ASSUME Init PROVE SlotExclusive
    BY InitRingInv
  <2>1. \A r \in Ring : Filled(r) = {}
    <3> TAKE r \in Ring
    <3>1. Size(r) \in Nat \ {0} /\ 0 \in Desc(Size(r))
      BY RingFacts DEF Desc
    <3>2. \A d \in Desc(Size(r)) : Dist(0, d, Size(r)) \in Nat
      BY <3>1, DistType DEF Desc
    <3>3. Dist(0, 0, Size(r)) = 0
      BY <3>1, DistType
    <3> QED
      BY <3>2, <3>3 DEF Init, Filled, Ahead
  <2>2. Len(packet) = 0
    BY DEF Init
  <2> QED
    BY <2>1, <2>2 DEF SlotExclusive, RefsInFlight, RingsDisjoint, PacketsDisjoint
<1>2. RingInv /\ SlotExclusive /\ [Next]_vars => (RingInv /\ SlotExclusive)'
  BY NextRingInv, NextSlotExclusive
<1> QED
  BY <1>1, <1>2, PTL DEF Spec

=============================================================================
