--------------------------- MODULE NetlinkProofs ----------------------------
(***************************************************************************)
(* Proofs about Netlink for any ports, routes, neighbours, hash function,  *)
(* length of the socket's buffer and number of changes.                    *)
(*                                                                         *)
(* RoutesFollow and NeighsFollow are not inductive: they say nothing of a  *)
(* route or neighbour while messages about it are queued.  What they need  *)
(* is that the queued messages lead from what the thread has to what the   *)
(* kernel has.  Follows says so of one key, of which a message is seen as  *)
(* an event: it sets a value, clears it, or is about something else.       *)
(***************************************************************************)
EXTENDS Netlink, TLAPS, SequenceTheorems

(* Of the events q, the last one that is not about something else leads to *)
(* its, and a value is followed by another only if it was cleared.         *)
Chain(q, its, none) ==
  /\ \A i \in 1 .. Len(q) : q[i].op = "new" =>
       /\ q[i].val # none
       /\ \A j \in 1 .. i - 1 : q[j].op = "new" =>
            q[j].val = q[i].val \/ \E l \in j + 1 .. i - 1 : q[l].op = "del"
       /\ its = q[i].val \/ \E l \in i + 1 .. Len(q) : q[l].op = "del"
  /\ \A i \in 1 .. Len(q) : q[i].op = "del" =>
       its = none \/ \E l \in i + 1 .. Len(q) : q[l].op # "other"

(* The first one finds no value, or its own.                               *)
Front(q, mine, its, none) ==
  /\ (\A i \in 1 .. Len(q) : q[i].op = "other") => mine = its
  /\ \A i \in 1 .. Len(q) :
       q[i].op = "new" /\ (\A j \in 1 .. i - 1 : q[j].op = "other") => mine \in {none, q[i].val}

(* The events q lead from the value mine to the value its, of a table      *)
(* that takes a new value only where it has none.                          *)
Follows(q, mine, its, none) == Chain(q, its, none) /\ Front(q, mine, its, none)

-----------------------------------------------------------------------------
(* A value is set, where there is none or the same. *)
LEMMA FollowsAppendNew ==
  ASSUME NEW E, NEW q \in Seq(E), NEW mine, NEW its, NEW none, NEW e \in E,
         Follows(q, mine, its, none), e.op = "new", e.val # none, its \in {none, e.val}
  PROVE  Follows(Append(q, e), mine, e.val, none)
<1> DEFINE p == Append(q, e)
<1>1. p \in Seq(E) /\ Len(p) = Len(q) + 1 /\ Len(q) \in Nat /\ p[Len(q) + 1] = e
      /\ \A i \in 1 .. Len(q) : p[i] = q[i]
  OBVIOUS
<1> HIDE DEF p
<1>2. \A i \in 1 .. Len(q) : q[i].op = "new" =>
         its = q[i].val \/ \E l \in i + 1 .. Len(q) : q[l].op = "del"
  BY DEF Follows, Chain, Front
<1>3. ASSUME NEW i \in 1 .. Len(p), p[i].op = "new"
      PROVE  /\ p[i].val # none
             /\ (\A j \in 1 .. i - 1 : p[j].op = "other") => mine \in {none, p[i].val}
  <2>1. CASE i \in 1 .. Len(q)
    <3>1. p[i] = q[i] /\ q[i].op = "new" /\ \A j \in 1 .. i - 1 : p[j] = q[j]
      BY <1>1, <1>3, <2>1
    <3>2. q[i].val # none
      BY <2>1, <3>1 DEF Follows, Chain
    <3>3. (\A j \in 1 .. i - 1 : q[j].op = "other") => mine \in {none, q[i].val}
      BY <2>1, <3>1 DEF Follows, Front
    <3> QED BY <3>1, <3>2, <3>3
  <2>2. CASE i = Len(q) + 1
    <3>1. p[i] = e /\ \A j \in 1 .. Len(q) : j \in 1 .. i - 1 /\ p[j] = q[j]
      BY <1>1, <2>2
    <3>2. (\A j \in 1 .. Len(q) : q[j].op = "other") => mine = its
      BY DEF Follows, Front
    <3> QED BY <3>1, <3>2
  <2> QED BY <1>1, <2>1, <2>2, SMTT(40)
<1>4. ASSUME NEW i \in 1 .. Len(p), p[i].op = "new", NEW j \in 1 .. i - 1, p[j].op = "new"
      PROVE  p[j].val = p[i].val \/ \E l \in j + 1 .. i - 1 : p[l].op = "del"
  <2>1. CASE i \in 1 .. Len(q)
    <3>1. q[j].val = q[i].val \/ \E l \in j + 1 .. i - 1 : q[l].op = "del"
      BY <1>1, <1>4, <2>1 DEF Follows, Chain, Front
    <3> QED BY <1>1, <2>1, <3>1, SMTT(40)
  <2>2. CASE i = Len(q) + 1
    <3>1. j \in 1 .. Len(q) /\ q[j].op = "new" /\ q[j].val # none
      BY <1>1, <1>4, <2>2 DEF Follows, Chain, Front
    <3>2. its = q[j].val \/ \E l \in j + 1 .. Len(q) : q[l].op = "del"
      BY <1>2, <3>1
    <3> QED BY <1>1, <2>2, <3>1, <3>2
  <2> QED BY <1>1, <2>1, <2>2
<1>5. ASSUME NEW i \in 1 .. Len(p), p[i].op = "new"
      PROVE  e.val = p[i].val \/ \E l \in i + 1 .. Len(p) : p[l].op = "del"
  <2>1. CASE i \in 1 .. Len(q)
    <3>1. q[i].op = "new" /\ q[i].val # none
      BY <1>1, <1>5, <2>1 DEF Follows, Chain, Front
    <3>2. its = q[i].val \/ \E l \in i + 1 .. Len(q) : q[l].op = "del"
      BY <1>2, <2>1, <3>1
    <3> QED BY <1>1, <2>1, <3>1, <3>2
  <2>2. CASE i = Len(q) + 1
    BY <1>1, <2>2
  <2> QED BY <1>1, <2>1, <2>2
<1>6. ASSUME NEW i \in 1 .. Len(p), p[i].op = "del"
      PROVE  \E l \in i + 1 .. Len(p) : p[l].op # "other"
  BY <1>1, <1>6
<1>7. ~ \A i \in 1 .. Len(p) : p[i].op = "other"
  BY <1>1
<1>8. Follows(p, mine, e.val, none)
  BY <1>3, <1>4, <1>5, <1>6, <1>7 DEF Follows, Chain, Front
<1> QED BY <1>8 DEF p

(* The value is cleared. *)
LEMMA FollowsAppendDel ==
  ASSUME NEW E, NEW q \in Seq(E), NEW mine, NEW its, NEW none, NEW e \in E,
         Follows(q, mine, its, none), e.op = "del"
  PROVE  Follows(Append(q, e), mine, none, none)
<1> DEFINE p == Append(q, e)
<1>1. p \in Seq(E) /\ Len(p) = Len(q) + 1 /\ Len(q) \in Nat /\ p[Len(q) + 1] = e
      /\ \A i \in 1 .. Len(q) : p[i] = q[i]
  OBVIOUS
<1> HIDE DEF p
<1>2. ASSUME NEW i \in 1 .. Len(p), p[i].op = "new"
      PROVE  /\ i \in 1 .. Len(q) /\ q[i].op = "new"
             /\ p[i].val # none
             /\ (\A j \in 1 .. i - 1 : p[j].op = "other") => mine \in {none, p[i].val}
  <2>1. i \in 1 .. Len(q) /\ q[i].op = "new"
    BY <1>1, <1>2
  <2>2. p[i] = q[i] /\ \A j \in 1 .. i - 1 : p[j] = q[j]
    BY <1>1, <2>1
  <2>3. q[i].val # none
    BY <2>1 DEF Follows, Chain
  <2>4. (\A j \in 1 .. i - 1 : q[j].op = "other") => mine \in {none, q[i].val}
    BY <2>1 DEF Follows, Front
  <2> QED BY <2>1, <2>2, <2>3, <2>4
<1>3. ASSUME NEW i \in 1 .. Len(p), p[i].op = "new", NEW j \in 1 .. i - 1, p[j].op = "new"
      PROVE  p[j].val = p[i].val \/ \E l \in j + 1 .. i - 1 : p[l].op = "del"
  <2>1. i \in 1 .. Len(q) /\ q[i].op = "new"
    BY <1>2, <1>3
  <2>2. p[i] = q[i] /\ p[j] = q[j] /\ \A l \in j + 1 .. i - 1 : p[l] = q[l]
    BY <1>1, <2>1, <1>3
  <2>3. q[j].op = "new"
    BY <2>2, <1>3
  <2>4. q[j].val = q[i].val \/ \E l \in j + 1 .. i - 1 : q[l].op = "del"
    BY <2>1, <2>3 DEF Follows, Chain
  <2> QED BY <2>2, <2>4
<1>4. ASSUME NEW i \in 1 .. Len(p), p[i].op = "new"
      PROVE  \E l \in i + 1 .. Len(p) : p[l].op = "del"
  BY <1>1, <1>2, <1>4
<1>5. ~ \A i \in 1 .. Len(p) : p[i].op = "other"
  BY <1>1
<1>6. Follows(p, mine, none, none)
  BY <1>2, <1>3, <1>4, <1>5 DEF Follows, Chain, Front
<1> QED BY <1>6 DEF p

(* A message about something else. *)
LEMMA FollowsAppendOther ==
  ASSUME NEW E, NEW q \in Seq(E), NEW mine, NEW its, NEW none, NEW e \in E,
         Follows(q, mine, its, none), e.op = "other"
  PROVE  Follows(Append(q, e), mine, its, none)
<1> DEFINE p == Append(q, e)
<1>1. p \in Seq(E) /\ Len(p) = Len(q) + 1 /\ Len(q) \in Nat /\ p[Len(q) + 1] = e
      /\ \A i \in 1 .. Len(q) : p[i] = q[i]
  OBVIOUS
<1> HIDE DEF p
<1>2. ASSUME NEW i \in 1 .. Len(p), p[i].op = "new"
      PROVE  /\ i \in 1 .. Len(q) /\ q[i].op = "new"
             /\ p[i].val # none
             /\ (\A j \in 1 .. i - 1 : p[j].op = "other") => mine \in {none, p[i].val}
  <2>1. i \in 1 .. Len(q) /\ q[i].op = "new"
    BY <1>1, <1>2
  <2>2. p[i] = q[i] /\ \A j \in 1 .. i - 1 : p[j] = q[j]
    BY <1>1, <2>1
  <2>3. q[i].val # none
    BY <2>1 DEF Follows, Chain
  <2>4. (\A j \in 1 .. i - 1 : q[j].op = "other") => mine \in {none, q[i].val}
    BY <2>1 DEF Follows, Front
  <2> QED BY <2>1, <2>2, <2>3, <2>4
<1>3. ASSUME NEW i \in 1 .. Len(p), p[i].op = "new", NEW j \in 1 .. i - 1, p[j].op = "new"
      PROVE  p[j].val = p[i].val \/ \E l \in j + 1 .. i - 1 : p[l].op = "del"
  <2>1. i \in 1 .. Len(q) /\ q[i].op = "new"
    BY <1>2, <1>3
  <2>2. p[i] = q[i] /\ p[j] = q[j] /\ \A l \in j + 1 .. i - 1 : p[l] = q[l]
    BY <1>1, <2>1, <1>3
  <2>3. q[j].op = "new"
    BY <2>2, <1>3
  <2>4. q[j].val = q[i].val \/ \E l \in j + 1 .. i - 1 : q[l].op = "del"
    BY <2>1, <2>3 DEF Follows, Chain
  <2> QED BY <2>2, <2>4
<1>4. ASSUME NEW i \in 1 .. Len(p), p[i].op = "new"
      PROVE  its = p[i].val \/ \E l \in i + 1 .. Len(p) : p[l].op = "del"
  <2>1. its = q[i].val \/ \E l \in i + 1 .. Len(q) : q[l].op = "del"
    BY <1>2, <1>4 DEF Follows, Chain, Front
  <2> QED BY <1>1, <1>2, <1>4, <2>1
<1>5. ASSUME NEW i \in 1 .. Len(p), p[i].op = "del"
      PROVE  its = none \/ \E l \in i + 1 .. Len(p) : p[l].op # "other"
  <2>1. i \in 1 .. Len(q) /\ q[i].op = "del"
    BY <1>1, <1>5
  <2>2. its = none \/ \E l \in i + 1 .. Len(q) : q[l].op # "other"
    BY <2>1 DEF Follows, Chain, Front
  <2> QED BY <1>1, <2>1, <2>2
<1>6. (\A i \in 1 .. Len(p) : p[i].op = "other") => mine = its
  BY <1>1 DEF Follows, Chain, Front
<1>7. Follows(p, mine, its, none)
  BY <1>2, <1>3, <1>4, <1>5, <1>6 DEF Follows, Chain, Front
<1> QED BY <1>7 DEF p

-----------------------------------------------------------------------------
(* The first message is applied. *)

(* The queue without its first message. *)
LEMMA TailFacts ==
  ASSUME NEW E, NEW q \in Seq(E), q # <<>>
  PROVE  /\ Tail(q) \in Seq(E) /\ Len(q) \in Nat \ {0} /\ Len(Tail(q)) = Len(q) - 1
         /\ Head(q) = q[1] /\ 1 \in 1 .. Len(q)
         /\ \A i \in 1 .. Len(Tail(q)) : Tail(q)[i] = q[i + 1] /\ i + 1 \in 1 .. Len(q)
         /\ \A i \in 2 .. Len(q) : q[i] = Tail(q)[i - 1] /\ i - 1 \in 1 .. Len(Tail(q))
OBVIOUS

(* The chain without its first message. *)
LEMMA FollowsTail ==
  ASSUME NEW E, NEW q \in Seq(E), NEW mine, NEW its, NEW none, q # <<>>,
         Follows(q, mine, its, none)
  PROVE  Chain(Tail(q), its, none)
<1> DEFINE p == Tail(q)
<1>1. /\ Len(q) \in Nat \ {0} /\ Len(p) = Len(q) - 1
      /\ \A i \in 1 .. Len(p) : p[i] = q[i + 1] /\ i + 1 \in 1 .. Len(q)
      /\ \A i \in 2 .. Len(q) : q[i] = p[i - 1] /\ i - 1 \in 1 .. Len(p)
  BY TailFacts
<1> HIDE DEF p
<1>2. ASSUME NEW i \in 1 .. Len(p), p[i].op = "new"
      PROVE  p[i].val # none
  BY <1>1, <1>2 DEF Follows, Chain, Front
<1>3. ASSUME NEW i \in 1 .. Len(p), p[i].op = "new", NEW j \in 1 .. i - 1, p[j].op = "new"
      PROVE  p[j].val = p[i].val \/ \E l \in j + 1 .. i - 1 : p[l].op = "del"
  <2>1. /\ i + 1 \in 1 .. Len(q) /\ q[i + 1] = p[i]
        /\ j + 1 \in 1 .. (i + 1) - 1 /\ q[j + 1] = p[j]
    BY <1>1
  <2>2. q[j + 1].val = q[i + 1].val \/ \E l \in (j + 1) + 1 .. (i + 1) - 1 : q[l].op = "del"
    BY <1>3, <2>1 DEF Follows, Chain, Front
  <2>3. ASSUME NEW l \in (j + 1) + 1 .. (i + 1) - 1, q[l].op = "del"
        PROVE  l - 1 \in j + 1 .. i - 1 /\ p[l - 1].op = "del"
    BY <1>1, <2>3
  <2> QED BY <2>1, <2>2, <2>3
<1>4. ASSUME NEW i \in 1 .. Len(p), p[i].op = "new"
      PROVE  its = p[i].val \/ \E l \in i + 1 .. Len(p) : p[l].op = "del"
  <2>1. i + 1 \in 1 .. Len(q) /\ q[i + 1] = p[i]
    BY <1>1
  <2>2. its = q[i + 1].val \/ \E l \in (i + 1) + 1 .. Len(q) : q[l].op = "del"
    BY <1>4, <2>1 DEF Follows, Chain, Front
  <2>3. ASSUME NEW l \in (i + 1) + 1 .. Len(q), q[l].op = "del"
        PROVE  l - 1 \in i + 1 .. Len(p) /\ p[l - 1].op = "del"
    BY <1>1, <2>3
  <2> QED BY <2>1, <2>2, <2>3
<1>5. ASSUME NEW i \in 1 .. Len(p), p[i].op = "del"
      PROVE  its = none \/ \E l \in i + 1 .. Len(p) : p[l].op # "other"
  <2>1. i + 1 \in 1 .. Len(q) /\ q[i + 1] = p[i]
    BY <1>1
  <2>2. its = none \/ \E l \in (i + 1) + 1 .. Len(q) : q[l].op # "other"
    BY <1>5, <2>1 DEF Follows, Chain, Front
  <2>3. ASSUME NEW l \in (i + 1) + 1 .. Len(q), q[l].op # "other"
        PROVE  l - 1 \in i + 1 .. Len(p) /\ p[l - 1].op # "other"
    BY <1>1, <2>3
  <2> QED BY <2>1, <2>2, <2>3
<1>6. Chain(p, its, none)
  BY <1>2, <1>3, <1>4, <1>5 DEF Chain
<1> QED BY <1>6 DEF p

(* The message taken sets a value. *)
LEMMA FollowsTailNew ==
  ASSUME NEW E, NEW q \in Seq(E), NEW mine, NEW its, NEW none, q # <<>>,
         Follows(q, mine, its, none), Head(q).op = "new"
  PROVE  /\ mine \in {none, Head(q).val}
         /\ Follows(Tail(q), Head(q).val, its, none)
<1> DEFINE p == Tail(q)
<1>1. /\ Len(q) \in Nat \ {0} /\ Len(p) = Len(q) - 1 /\ 1 \in 1 .. Len(q) /\ Head(q) = q[1]
      /\ \A i \in 1 .. Len(p) : p[i] = q[i + 1] /\ i + 1 \in 1 .. Len(q)
      /\ \A i \in 2 .. Len(q) : q[i] = p[i - 1] /\ i - 1 \in 1 .. Len(p)
  BY TailFacts
<1> HIDE DEF p
<1>2. mine \in {none, q[1].val}
  BY <1>1 DEF Follows, Chain, Front
<1>3. ASSUME \A i \in 1 .. Len(p) : p[i].op = "other"
      PROVE  q[1].val = its
  <2>1. its = q[1].val \/ \E l \in 1 + 1 .. Len(q) : q[l].op = "del"
    BY <1>1 DEF Follows, Chain, Front
  <2>2. ~ \E l \in 1 + 1 .. Len(q) : q[l].op = "del"
    BY <1>1, <1>3
  <2> QED BY <2>1, <2>2
<1>4. ASSUME NEW i \in 1 .. Len(p), p[i].op = "new", \A j \in 1 .. i - 1 : p[j].op = "other"
      PROVE  q[1].val = p[i].val
  <2>1. i + 1 \in 1 .. Len(q) /\ q[i + 1] = p[i] /\ 1 \in 1 .. (i + 1) - 1
    BY <1>1
  <2>2. q[1].val = q[i + 1].val \/ \E l \in 1 + 1 .. (i + 1) - 1 : q[l].op = "del"
    BY <1>1, <1>4, <2>1, ZenonT(60) DEF Follows, Chain, Front
  <2>3. ~ \E l \in 1 + 1 .. (i + 1) - 1 : q[l].op = "del"
    <3>1. ASSUME NEW l \in 1 + 1 .. (i + 1) - 1
          PROVE  l - 1 \in 1 .. i - 1 /\ q[l] = p[l - 1]
      BY <1>1
    <3> QED BY <1>4, <3>1
  <2> QED BY <2>1, <2>2, <2>3
<1>5. Follows(p, q[1].val, its, none)
  BY <1>3, <1>4, FollowsTail DEF Follows, Front, p
<1> QED BY <1>1, <1>2, <1>5 DEF p

(* The message taken clears the value. *)
LEMMA FollowsTailDel ==
  ASSUME NEW E, NEW q \in Seq(E), NEW mine, NEW its, NEW none, q # <<>>,
         Follows(q, mine, its, none), Head(q).op = "del"
  PROVE  Follows(Tail(q), none, its, none)
<1> DEFINE p == Tail(q)
<1>1. /\ Len(q) \in Nat \ {0} /\ Len(p) = Len(q) - 1 /\ 1 \in 1 .. Len(q) /\ Head(q) = q[1]
      /\ \A i \in 2 .. Len(q) : q[i] = p[i - 1] /\ i - 1 \in 1 .. Len(p)
  BY TailFacts
<1> HIDE DEF p
<1>2. ASSUME \A i \in 1 .. Len(p) : p[i].op = "other"
      PROVE  none = its
  <2>1. its = none \/ \E l \in 1 + 1 .. Len(q) : q[l].op # "other"
    BY <1>1 DEF Follows, Chain, Front
  <2>2. ~ \E l \in 1 + 1 .. Len(q) : q[l].op # "other"
    BY <1>1, <1>2
  <2> QED BY <2>1, <2>2
<1>3. Follows(p, none, its, none)
  BY <1>2, FollowsTail DEF Follows, Front, p
<1> QED BY <1>3 DEF p

(* The message taken is about something else. *)
LEMMA FollowsTailOther ==
  ASSUME NEW E, NEW q \in Seq(E), NEW mine, NEW its, NEW none, q # <<>>,
         Follows(q, mine, its, none), Head(q).op = "other"
  PROVE  Follows(Tail(q), mine, its, none)
<1> DEFINE p == Tail(q)
<1>1. /\ Len(q) \in Nat \ {0} /\ Len(p) = Len(q) - 1 /\ 1 \in 1 .. Len(q) /\ Head(q) = q[1]
      /\ \A i \in 1 .. Len(p) : p[i] = q[i + 1] /\ i + 1 \in 1 .. Len(q)
      /\ \A i \in 2 .. Len(q) : q[i] = p[i - 1] /\ i - 1 \in 1 .. Len(p)
  BY TailFacts
<1> HIDE DEF p
<1>2. ASSUME \A i \in 1 .. Len(p) : p[i].op = "other"
      PROVE  mine = its
  <2>1. ASSUME NEW i \in 1 .. Len(q) PROVE q[i].op = "other"
    <3>1. CASE i = 1
      BY <1>1, <3>1
    <3>2. CASE i # 1
      BY <1>1, <1>2, <3>2
    <3> QED BY <3>1, <3>2
  <2> QED BY <2>1 DEF Follows, Chain, Front
<1>3. ASSUME NEW i \in 1 .. Len(p), p[i].op = "new", \A j \in 1 .. i - 1 : p[j].op = "other"
      PROVE  mine \in {none, p[i].val}
  <2>1. i + 1 \in 1 .. Len(q) /\ q[i + 1] = p[i]
    BY <1>1
  <2>2. ASSUME NEW j \in 1 .. (i + 1) - 1 PROVE q[j].op = "other"
    <3>1. CASE j = 1
      BY <1>1, <3>1
    <3>2. CASE j # 1
      <4>1. j - 1 \in 1 .. i - 1 /\ q[j] = p[j - 1]
        BY <1>1, <3>2
      <4> QED BY <1>3, <4>1
    <3> QED BY <3>1, <3>2
  <2> QED BY <1>3, <2>1, <2>2 DEF Follows, Chain, Front
<1>4. Follows(p, mine, its, none)
  BY <1>2, <1>3, FollowsTail DEF Follows, Front, p
<1> QED BY <1>4 DEF p

-----------------------------------------------------------------------------
(* The buckets of the neighbour tables. *)

Address   == {n.addr : n \in Neigh}
HashEntry == [addr : Address, mac : Mac \union {NoMac}]

Unique(s) == \A i, j \in DOMAIN s : s[i].addr = s[j].addr => i = j

(* What hash_lookup finds in a bucket. *)
Find(s, a) == IF Places(s, a) = {} THEN NoMac ELSE s[First(s, a)].mac

(* What hash_add and hash_delete find is where the address is. *)
LEMMA FindIsPlace ==
  ASSUME NEW s \in Seq(HashEntry), Unique(s), NEW a, NEW i \in Places(s, a)
  PROVE  First(s, a) = i /\ Find(s, a) = s[i].mac
<1>1. \A j \in Places(s, a) : j = i
  BY DEF Places, Unique
<1>2. i \in Places(s, a) /\ \A j \in Places(s, a) : i <= j
  BY <1>1 DEF Places
<1>3. First(s, a) \in Places(s, a)
  BY <1>2 DEF First
<1> QED BY <1>1, <1>3 DEF Find

(* hash_add leaves the other addresses alone, and the address itself if it *)
(* is there.                                                               *)
LEMMA HashAdd ==
  ASSUME NEW s \in Seq(HashEntry), Unique(s), NEW a \in Address, NEW m \in Mac \union {NoMac}
  PROVE  LET t == hash_add(s, a, m) IN
         /\ t \in Seq(HashEntry) /\ Unique(t)
         /\ \A i \in DOMAIN t : t[i].addr = a \/ \E j \in DOMAIN s : t[i].addr = s[j].addr
         /\ \A b : b # a => Find(t, b) = Find(s, b)
         /\ \A b : b # a => (Places(t, b) = {} <=> Places(s, b) = {})
         /\ Places(s, a) # {} => t = s
         /\ Places(s, a) = {} => Places(t, a) # {} /\ Find(t, a) = m
<1> DEFINE t == hash_add(s, a, m)
           e == [addr |-> a, mac |-> m]
<1>1. CASE Places(s, a) # {}
  BY <1>1 DEF hash_add
<1>2. CASE Places(s, a) = {}
  <2>1. t = <<e>> \o s
    BY <1>2 DEF hash_add
  <2>2. e \in HashEntry /\ e.addr = a /\ e.mac = m
    BY DEF HashEntry
  <2>3. /\ t \in Seq(HashEntry) /\ Len(t) = Len(s) + 1 /\ t[1] = e
        /\ Len(s) \in Nat /\ DOMAIN s = 1 .. Len(s) /\ DOMAIN t = 1 .. Len(t)
        /\ \A i \in DOMAIN s : i + 1 \in DOMAIN t /\ t[i + 1] = s[i]
        /\ \A i \in DOMAIN t : i # 1 => i - 1 \in DOMAIN s /\ t[i] = s[i - 1]
    BY <2>1, <2>2
  <2> HIDE DEF t, e
  <2>4. \A i \in DOMAIN s : s[i].addr # a
    BY <1>2 DEF Places
  <2>5. Unique(t)
    <3> SUFFICES ASSUME NEW i \in DOMAIN t, NEW j \in DOMAIN t, t[i].addr = t[j].addr
                 PROVE  i = j
      BY DEF Unique
    <3>1. CASE i = 1 /\ j = 1
      BY <3>1
    <3>2. CASE i = 1 /\ j # 1
      BY <2>2, <2>3, <2>4, <3>2
    <3>3. CASE i # 1 /\ j = 1
      BY <2>2, <2>3, <2>4, <3>3
    <3>4. CASE i # 1 /\ j # 1
      <4>1. s[i - 1].addr = s[j - 1].addr /\ i - 1 \in DOMAIN s /\ j - 1 \in DOMAIN s
        BY <2>3, <3>4
      <4>2. i - 1 = j - 1
        BY <4>1 DEF Unique
      <4> QED BY <2>3, <4>2
    <3> QED BY <3>1, <3>2, <3>3, <3>4
  <2>6. 1 \in Places(t, a)
    BY <2>2, <2>3 DEF Places
  <2>7. Find(t, a) = m
    BY <2>2, <2>3, <2>5, <2>6, FindIsPlace
  <2>8. ASSUME NEW b, b # a
        PROVE  Find(t, b) = Find(s, b) /\ (Places(t, b) = {} <=> Places(s, b) = {})
    <3>1. CASE Places(s, b) = {}
      <4>1. Places(t, b) = {}
        <5> SUFFICES ASSUME NEW i \in DOMAIN t, t[i].addr = b PROVE FALSE
          BY DEF Places
        <5>1. i # 1 /\ s[i - 1].addr = b /\ i - 1 \in DOMAIN s
          BY <2>2, <2>3, <2>8
        <5> QED BY <3>1, <5>1 DEF Places
      <4> QED BY <3>1, <4>1 DEF Find
    <3>2. CASE Places(s, b) # {}
      <4>1. PICK i \in Places(s, b) : TRUE
        BY <3>2
      <4>2. i + 1 \in Places(t, b) /\ t[i + 1] = s[i]
        BY <2>3, <4>1 DEF Places
      <4>3. Find(s, b) = s[i].mac /\ Find(t, b) = t[i + 1].mac
        BY <2>3, <2>5, <4>1, <4>2, FindIsPlace
      <4> QED BY <4>1, <4>2, <4>3
    <3> QED BY <3>1, <3>2
  <2>9. \A i \in DOMAIN t : t[i].addr = a \/ \E j \in DOMAIN s : t[i].addr = s[j].addr
    BY <2>2, <2>3
  <2> QED BY <1>2, <2>3, <2>5, <2>6, <2>7, <2>8, <2>9 DEF t
<1> QED BY <1>1, <1>2

(* hash_delete takes out the address, and no other.                        *)
LEMMA HashDelete ==
  ASSUME NEW s \in Seq(HashEntry), Unique(s), NEW a \in Address
  PROVE  LET t == hash_delete(s, a) IN
         /\ t \in Seq(HashEntry) /\ Unique(t)
         /\ \A i \in DOMAIN t : \E j \in DOMAIN s : t[i].addr = s[j].addr
         /\ \A b : b # a => Find(t, b) = Find(s, b)
         /\ \A b : b # a => (Places(t, b) = {} <=> Places(s, b) = {})
         /\ Places(t, a) = {}
<1> DEFINE t == hash_delete(s, a)
<1>1. CASE Places(s, a) = {}
  BY <1>1 DEF hash_delete
<1>2. CASE Places(s, a) # {}
  <2>1. PICK k \in Places(s, a) : TRUE
    BY <1>2
  <2>2. k \in DOMAIN s /\ s[k].addr = a /\ First(s, a) = k
    BY <2>1, FindIsPlace DEF Places
  <2>3. Len(s) \in Nat /\ DOMAIN s = 1 .. Len(s) /\ k \in 1 .. Len(s)
    BY <2>2
  <2>4. t = [i \in 1 .. Len(s) - 1 |-> IF i < k THEN s[i] ELSE s[i + 1]]
    BY <1>2, <2>2 DEF hash_delete
  <2>5. \A i \in 1 .. Len(s) - 1 : t[i] \in HashEntry
    BY <2>3, <2>4
  <2>6. t \in Seq(HashEntry) /\ DOMAIN t = 1 .. Len(s) - 1
    BY <2>3, <2>4, <2>5, IsASeq
  <2> DEFINE Old(i) == IF i < k THEN i ELSE i + 1
             New(i) == IF i < k THEN i ELSE i - 1
  <2>7. \A i \in DOMAIN t : Old(i) \in DOMAIN s /\ Old(i) # k /\ t[i] = s[Old(i)]
    BY <2>3, <2>4, <2>6
  <2>8. \A i \in DOMAIN s : i # k => New(i) \in DOMAIN t /\ t[New(i)] = s[i]
    BY <2>3, <2>4, <2>6
  <2>9. \A i, j \in DOMAIN t : Old(i) = Old(j) => i = j
    BY <2>3, <2>6
  <2> HIDE DEF t, Old, New
  <2>10. Unique(t)
    BY <2>7, <2>9 DEF Unique
  <2>11. \A i \in DOMAIN s : s[i].addr = a => i = k
    BY <2>2 DEF Unique
  <2>12. Places(t, a) = {}
    BY <2>7, <2>11 DEF Places
  <2>13. ASSUME NEW b, b # a
         PROVE  Find(t, b) = Find(s, b) /\ (Places(t, b) = {} <=> Places(s, b) = {})
    <3>1. CASE Places(s, b) = {}
      <4>1. Places(t, b) = {}
        BY <2>7, <3>1 DEF Places
      <4> QED BY <3>1, <4>1 DEF Find
    <3>2. CASE Places(s, b) # {}
      <4>1. PICK i \in Places(s, b) : TRUE
        BY <3>2
      <4>2. i # k /\ New(i) \in Places(t, b) /\ t[New(i)] = s[i]
        BY <2>2, <2>8, <2>13, <4>1 DEF Places
      <4>3. Find(s, b) = s[i].mac /\ Find(t, b) = t[New(i)].mac
        BY <2>6, <2>10, <4>1, <4>2, FindIsPlace
      <4> QED BY <4>1, <4>2, <4>3
    <3> QED BY <3>1, <3>2
  <2>14. \A i \in DOMAIN t : \E j \in DOMAIN s : t[i].addr = s[j].addr
    BY <2>7
  <2> QED BY <2>6, <2>10, <2>12, <2>13, <2>14 DEF t
<1> QED BY <1>1, <1>2

-----------------------------------------------------------------------------
(* The socket's buffer as one key sees it. *)

RouteMsg == [type : {"NEWROUTE", "DELROUTE"}, route : Route]
NeighMsg == [type : {"NEWNEIGH", "DELNEIGH"}, neigh : Neigh, mac : Mac \union {NoMac}]
Msg      == RouteMsg \union NeighMsg

Event(V) == [op : {"new", "del", "other"}, val : V]

(* What a message is to the routes with a key, and to a neighbour. *)
RouteEvent(k) == [m \in Msg |->
  IF IsRoute(m) /\ Key(m.route) = k
  THEN IF m.type = "NEWROUTE" THEN [op |-> "new", val |-> {Entry(m.route)}]
                              ELSE [op |-> "del", val |-> {}]
  ELSE [op |-> "other", val |-> {}]]
NeighEvent(n) == [m \in Msg |->
  IF ~ IsRoute(m) /\ m.neigh = n
  THEN IF m.type = "NEWNEIGH" THEN [op |-> "new", val |-> m.mac]
                              ELSE [op |-> "del", val |-> NoMac]
  ELSE [op |-> "other", val |-> NoMac]]

Image(g, q) == [i \in 1 .. Len(q) |-> g[q[i]]]

(* Append, under a name that the provers do not rewrite. *)
Put(q, e) == Append(q, e)

(* The image of a message put at the end is put at the end of the image.   *)
LEMMA ImageAppend ==
  ASSUME NEW E, NEW g \in [Msg -> E], NEW q \in Seq(Msg), NEW m \in Msg
  PROVE  /\ Image(g, q) \in Seq(E) /\ g[m] \in E
         /\ Image(g, Put(q, m)) = Put(Image(g, q), g[m])
<1>1. /\ Append(q, m) \in Seq(Msg) /\ Len(Append(q, m)) = Len(q) + 1 /\ Len(q) \in Nat
      /\ \A i \in 1 .. Len(q) : Append(q, m)[i] = q[i] /\ q[i] \in Msg
      /\ Append(q, m)[Len(q) + 1] = m
  OBVIOUS
<1>2. \A i \in 1 .. Len(q) : g[q[i]] \in E
  BY <1>1
<1>3. Image(g, q) \in Seq(E) /\ Len(Image(g, q)) = Len(q)
  BY <1>1, <1>2, IsASeq DEF Image
<1>4. \A i \in 1 .. Len(q) : Image(g, q)[i] = g[q[i]]
  BY DEF Image
<1> DEFINE a == Image(g, Append(q, m))
           b == Append(Image(g, q), g[m])
<1>5. /\ b \in Seq(E) /\ DOMAIN b = 1 .. Len(q) + 1 /\ b[Len(q) + 1] = g[m]
      /\ \A i \in 1 .. Len(q) : b[i] = g[q[i]]
  BY <1>1, <1>3, <1>4
<1>6. /\ DOMAIN a = 1 .. Len(q) + 1 /\ a[Len(q) + 1] = g[m]
      /\ \A i \in 1 .. Len(q) : a[i] = g[q[i]]
  BY <1>1 DEF Image
<1>7. a = [i \in 1 .. Len(q) + 1 |-> a[i]]
  BY <1>1 DEF Image
<1>8. b = [i \in 1 .. Len(q) + 1 |-> b[i]]
  BY <1>5
<1>9. \A i \in 1 .. Len(q) + 1 : a[i] = b[i]
  <2> HIDE DEF a, b
  <2> QED BY <1>1, <1>5, <1>6
<1>10. a = b
  <2> HIDE DEF a, b
  <2> QED BY <1>7, <1>8, <1>9
<1> QED BY <1>2, <1>3, <1>10 DEF Put

(* The image of the rest of a sequence is the rest of the image.           *)
LEMMA ImageTail ==
  ASSUME NEW E, NEW g \in [Msg -> E], NEW q \in Seq(Msg), q # <<>>
  PROVE  /\ Image(g, q) \in Seq(E) /\ Image(g, q) # <<>>
         /\ Head(q) \in Msg /\ Head(Image(g, q)) = g[Head(q)]
         /\ Image(g, Tail(q)) = Tail(Image(g, q))
<1> DEFINE p == Image(g, q)
           a == Image(g, Tail(q))
           b == Tail(p)
<1>1. /\ Tail(q) \in Seq(Msg) /\ Len(q) \in Nat \ {0} /\ Len(Tail(q)) = Len(q) - 1
      /\ Head(q) = q[1] /\ 1 \in 1 .. Len(q)
      /\ \A i \in 1 .. Len(Tail(q)) : Tail(q)[i] = q[i + 1] /\ i + 1 \in 1 .. Len(q)
  BY TailFacts
<1>2. \A i \in 1 .. Len(q) : q[i] \in Msg /\ g[q[i]] \in E
  OBVIOUS
<1>3. p \in Seq(E) /\ Len(p) = Len(q)
  BY <1>1, <1>2, IsASeq DEF Image
<1>4. \A i \in 1 .. Len(q) : p[i] = g[q[i]]
  BY DEF Image
<1>5. p # <<>>
  BY <1>1, <1>3
<1>6. /\ Tail(p) \in Seq(E) /\ Len(Tail(p)) = Len(q) - 1 /\ Head(p) = p[1]
      /\ \A i \in 1 .. Len(Tail(p)) : Tail(p)[i] = p[i + 1]
  <2> HIDE DEF p
  <2> QED BY <1>3, <1>5, TailFacts
<1>7. a = [i \in 1 .. Len(q) - 1 |-> g[q[i + 1]]]
  BY <1>1 DEF Image
<1>8. b = [i \in 1 .. Len(q) - 1 |-> b[i]]
  <2> HIDE DEF b
  <2>1. b \in Seq(E) /\ Len(b) = Len(q) - 1
    BY <1>6 DEF b
  <2> QED BY <2>1
<1>9. \A i \in 1 .. Len(q) - 1 : b[i] = g[q[i + 1]]
  BY <1>1, <1>4, <1>6
<1>10. a = b
  <2> HIDE DEF a, b
  <2> QED BY <1>7, <1>8, <1>9
<1> QED BY <1>1, <1>2, <1>3, <1>4, <1>5, <1>6, <1>10

(* The types of the two views. *)
LEMMA EventTypes ==
  /\ \A k : RouteEvent(k) \in [Msg -> Event(SUBSET {Entry(r) : r \in Route})]
  /\ \A n : NeighEvent(n) \in [Msg -> Event(Mac \union {NoMac})]
<1>1. ASSUME NEW k, NEW m \in Msg
      PROVE  RouteEvent(k)[m] \in Event(SUBSET {Entry(r) : r \in Route})
  <2>1. CASE IsRoute(m)
    <3>1. m.route \in Route
      BY <2>1 DEF IsRoute, Msg, RouteMsg, NeighMsg
    <3> QED BY <3>1 DEF RouteEvent, Event
  <2>2. CASE ~ IsRoute(m)
    BY <2>2 DEF RouteEvent, Event
  <2> QED BY <2>1, <2>2
<1>2. ASSUME NEW n, NEW m \in Msg
      PROVE  NeighEvent(n)[m] \in Event(Mac \union {NoMac})
  <2>1. CASE ~ IsRoute(m)
    <3>1. m.mac \in Mac \union {NoMac}
      BY <2>1 DEF IsRoute, Msg, RouteMsg, NeighMsg
    <3> QED BY <3>1 DEF NeighEvent, Event
  <2>2. CASE IsRoute(m)
    BY <2>2 DEF NeighEvent, Event
  <2> QED BY <2>1, <2>2
<1>3. \A k : RouteEvent(k) = [m \in Msg |-> RouteEvent(k)[m]]
  BY DEF RouteEvent
<1>4. \A n : NeighEvent(n) = [m \in Msg |-> NeighEvent(n)[m]]
  BY DEF NeighEvent
<1> QED BY <1>1, <1>2, <1>3, <1>4

(* A message is queued: what its event does to the value the events lead   *)
(* to.                                                                     *)
LEMMA FollowsQueued ==
  ASSUME NEW V, NEW g \in [Msg -> Event(V)], NEW q \in Seq(Msg), NEW m \in Msg,
         NEW mine, NEW its, NEW none, NEW next,
         Follows(Image(g, q), mine, its, none),
         \/ g[m].op = "new" /\ g[m].val # none /\ its \in {none, g[m].val} /\ next = g[m].val
         \/ g[m].op = "del" /\ next = none
         \/ g[m].op = "other" /\ next = its
  PROVE  Follows(Image(g, Put(q, m)), mine, next, none)
<1> DEFINE E == Event(V)
           e == g[m]
           p == Image(g, q)
<1> HIDE DEF E
<1>1. g \in [Msg -> E] /\ q \in Seq(Msg) /\ m \in Msg
  BY DEF E
<1>2. p \in Seq(E) /\ e \in E /\ Image(g, Put(q, m)) = Put(p, e)
  BY ONLY <1>1, ImageAppend
<1>3. /\ Follows(p, mine, its, none)
      /\ \/ e.op = "new" /\ e.val # none /\ its \in {none, e.val} /\ next = e.val
         \/ e.op = "del" /\ next = none
         \/ e.op = "other" /\ next = its
  OBVIOUS
<1> HIDE DEF e, p
<1>4. Follows(Append(p, e), mine, next, none)
  BY ONLY <1>2, <1>3, FollowsAppendNew, FollowsAppendDel, FollowsAppendOther
<1> QED BY ONLY <1>2, <1>4 DEF Put

(* The first message is read: what its event does to the value the events  *)
(* start from.                                                             *)
LEMMA FollowsRead ==
  ASSUME NEW V, NEW g \in [Msg -> Event(V)], NEW q \in Seq(Msg), q # <<>>,
         NEW mine, NEW its, NEW none, NEW next,
         Follows(Image(g, q), mine, its, none),
         LET e == g[Head(q)] IN
           /\ e.op = "new" /\ mine \in {none, e.val} /\ e.val # none => next = e.val
           /\ e.op = "del" => next = none
           /\ e.op = "other" => next = mine
  PROVE  Follows(Image(g, Tail(q)), next, its, none)
<1> DEFINE E == Event(V)
           e == g[Head(q)]
           p == Image(g, q)
<1> HIDE DEF E
<1>1. g \in [Msg -> E] /\ q \in Seq(Msg) /\ q # <<>>
  BY DEF E
<1>2. /\ p \in Seq(E) /\ p # <<>> /\ Head(q) \in Msg
      /\ Head(p) = e /\ Image(g, Tail(q)) = Tail(p)
  BY ONLY <1>1, ImageTail, SMTT(40)
<1>3. e \in E
  BY <1>1, <1>2
<1>4. /\ Follows(p, mine, its, none)
      /\ e.op = "new" /\ mine \in {none, e.val} /\ e.val # none => next = e.val
      /\ e.op = "del" => next = none
      /\ e.op = "other" => next = mine
  OBVIOUS
<1> HIDE DEF e, p
<1>5. e.op \in {"new", "del", "other"}
  BY <1>3 DEF E, Event
<1>6. CASE e.op = "new"
  <2>1. mine \in {none, e.val} /\ Follows(Tail(p), e.val, its, none)
    BY <1>2, <1>4, <1>6, FollowsTailNew
  <2>2. e.val # none
    <3>1. Len(p) \in Nat \ {0} /\ p[1] = Head(p) /\ 1 \in 1 .. Len(p)
      BY <1>2, TailFacts
    <3> QED BY <1>2, <1>4, <1>6, <3>1 DEF Follows, Chain
  <2> QED BY <1>2, <1>4, <1>6, <2>1, <2>2
<1>7. CASE e.op = "del"
  <2>1. Follows(Tail(p), none, its, none)
    BY <1>2, <1>4, <1>7, FollowsTailDel
  <2> QED BY <1>2, <1>4, <1>7, <2>1
<1>8. CASE e.op = "other"
  <2>1. Follows(Tail(p), mine, its, none)
    BY <1>2, <1>4, <1>8, FollowsTailOther
  <2> QED BY <1>2, <1>4, <1>8, <2>1
<1> QED BY <1>5, <1>6, <1>7, <1>8

(* If the first message sets a value, there is none or the same.           *)
LEMMA FollowsReadNew ==
  ASSUME NEW V, NEW g \in [Msg -> Event(V)], NEW q \in Seq(Msg), q # <<>>,
         NEW mine, NEW its, NEW none,
         Follows(Image(g, q), mine, its, none), g[Head(q)].op = "new"
  PROVE  mine \in {none, g[Head(q)].val} /\ g[Head(q)].val # none
<1> DEFINE E == Event(V)
           p == Image(g, q)
<1> HIDE DEF E
<1>1. g \in [Msg -> E] /\ q \in Seq(Msg) /\ q # <<>>
  BY DEF E
<1>2. p \in Seq(E) /\ p # <<>> /\ Head(p) = g[Head(q)]
  BY ONLY <1>1, ImageTail
<1>3. Follows(p, mine, its, none) /\ Head(p).op = "new"
  BY <1>2
<1> HIDE DEF p
<1>4. mine \in {none, Head(p).val}
  BY <1>2, <1>3, FollowsTailNew
<1>5. Len(p) \in Nat \ {0} /\ p[1] = Head(p) /\ 1 \in 1 .. Len(p)
  BY <1>2, TailFacts
<1>6. Head(p).val # none
  BY <1>3, <1>5 DEF Follows, Chain
<1> QED BY <1>2, <1>4, <1>6

(* SameRoute of the FIB of any family.                                     *)
LEMMA SameRouteIs ==
  \A f, e, s : RT(f)!SameRoute(e, s) <=> e.prefix = s.prefix /\ e.id = s.id
BY DEF RT!SameRoute

-----------------------------------------------------------------------------
(* The inductive invariant. *)

FibEntry(f) == {Entry(r) : r \in {x \in Route : x.family = f}}

Types ==
  /\ kroutes \subseteq Route
  /\ kneigh \in [Neigh -> Mac \union {NoMac}]
  /\ changes \in 0 .. MaxChange
  /\ sock \in Seq(Msg) /\ Len(sock) <= QueueLen
  /\ overrun \in BOOLEAN /\ running \in BOOLEAN
  /\ DOMAIN fib = Family /\ \A f \in Family : fib[f] \subseteq FibEntry(f)
  /\ head \in [Family -> [Port -> [Bucket -> Seq(HashEntry)]]]

(* Every entry is in the bucket of its address, once. *)
Buckets ==
  \A f \in Family, p \in Port, b \in Bucket :
    /\ Unique(head[f][p][b])
    /\ \A i \in DOMAIN head[f][p][b] : neigh_key_generate(head[f][p][b][i].addr) = b

(* Two routes of the kernel have the same key only if it went astray. *)
OnePerKey == \A r, s \in kroutes : Key(r) = Key(s) => r = s \/ Key(r) \in astray

Mine(r) == {e \in fib[r.family] : e.prefix = r.prefix /\ e.id = r.ifindex}
Its(r)  == {Entry(s) : s \in {k \in kroutes : Key(k) = Key(r)}}

RouteChain ==
  running /\ ~ overrun =>
    \A r \in Route : Key(r) \notin astray \union early =>
      Follows(Image(RouteEvent(Key(r)), sock), Mine(r), Its(r), {})

(* The neighbours a thread keeps, and their buckets. *)
Watched     == {n \in Neigh : n.ifindex \in Port /\ n.family \in Family}
BucketOf(n) == head[n.family][n.ifindex][neigh_key_generate(n.addr)]

NeighChain ==
  running /\ ~ overrun =>
    \A n \in Watched : n \notin astray =>
      /\ Follows(Image(NeighEvent(n), sock), neigh_lookup(n), kneigh[n], NoMac)
      /\ Places(BucketOf(n), n.addr) # {} => neigh_lookup(n) # NoMac

IInv == Types /\ Buckets /\ OnePerKey /\ RouteChain /\ NeighChain

-----------------------------------------------------------------------------
(* Types. *)

(* A message that is multicast is at the end of the buffer, or the socket  *)
(* has an error to report.                                                 *)
LEMMA MulticastIs ==
  ASSUME Types, NEW m \in Msg, Multicast(m)
  PROVE  /\ sock' \in Seq(Msg) /\ Len(sock') <= QueueLen /\ overrun' \in BOOLEAN
         /\ ~ overrun' => ~ overrun /\ sock' = Append(sock, m)
<1>1. sock \in Seq(Msg) /\ Len(sock) <= QueueLen /\ QueueLen \in Nat /\ overrun \in BOOLEAN
  BY NetlinkAssumption DEF Types
<1>2. CASE Len(sock) < QueueLen
  <2>1. sock' = Append(sock, m) /\ overrun' = overrun
    BY <1>2 DEF Multicast
  <2>2. Append(sock, m) \in Seq(Msg) /\ Len(Append(sock, m)) <= QueueLen
    BY <1>1, <1>2
  <2> QED BY <1>1, <2>1, <2>2
<1>3. CASE ~ Len(sock) < QueueLen
  <2>1. sock' = sock /\ overrun' = TRUE
    BY <1>3 DEF Multicast
  <2> QED BY <1>1, <2>1
<1> QED BY <1>2, <1>3

(* What the messages of the two kinds are made of. *)
LEMMA Messages ==
  /\ \A r \in Route : /\ [type |-> "NEWROUTE", route |-> r] \in Msg
                      /\ [type |-> "DELROUTE", route |-> r] \in Msg
  /\ \A n \in Neigh, m \in Mac \union {NoMac} :
       /\ [type |-> "NEWNEIGH", neigh |-> n, mac |-> m] \in Msg
       /\ [type |-> "DELNEIGH", neigh |-> n, mac |-> m] \in Msg
<1>1. \A r \in Route : /\ [type |-> "NEWROUTE", route |-> r] \in RouteMsg
                       /\ [type |-> "DELROUTE", route |-> r] \in RouteMsg
  BY DEF RouteMsg
<1>2. \A n \in Neigh, m \in Mac \union {NoMac} :
        /\ [type |-> "NEWNEIGH", neigh |-> n, mac |-> m] \in NeighMsg
        /\ [type |-> "DELNEIGH", neigh |-> n, mac |-> m] \in NeighMsg
  BY DEF NeighMsg
<1> QED BY <1>1, <1>2 DEF Msg

(* The first message and what is left of the buffer. *)
LEMMA ReadIs ==
  ASSUME Types, sock # <<>>
  PROVE  /\ Tail(sock) \in Seq(Msg) /\ Len(Tail(sock)) <= QueueLen
         /\ Head(sock) \in Msg
         /\ IsRoute(Head(sock)) => Head(sock) \in RouteMsg
         /\ ~ IsRoute(Head(sock)) => Head(sock) \in NeighMsg
<1>1. Head(sock) \in Msg
  BY DEF Types
<1>2. Tail(sock) \in Seq(Msg) /\ Len(Tail(sock)) <= QueueLen
  <2>1. Len(sock) \in Nat /\ Len(Tail(sock)) = Len(sock) - 1 /\ Tail(sock) \in Seq(Msg)
    BY TailFacts DEF Types
  <2> QED BY <2>1, NetlinkAssumption DEF Types
<1>3. /\ IsRoute(Head(sock)) => Head(sock) \in RouteMsg
      /\ ~ IsRoute(Head(sock)) => Head(sock) \in NeighMsg
  BY <1>1 DEF IsRoute, Msg, RouteMsg, NeighMsg
<1> QED BY <1>1, <1>2, <1>3

(* Types and buckets at first. *)
LEMMA InitTypes == Init => Types /\ Buckets
<1> SUFFICES ASSUME Init PROVE Types /\ Buckets
  OBVIOUS
<1>1. head \in [Family -> [Port -> [Bucket -> Seq(HashEntry)]]]
  BY DEF Init, neigh_alloc
<1>2. kroutes \subseteq Route /\ kneigh \in [Neigh -> Mac \union {NoMac}]
  BY DEF Init
<1>3. DOMAIN fib = Family /\ \A f \in Family : fib[f] \subseteq FibEntry(f)
  BY DEF Init
<1>4. /\ sock \in Seq(Msg) /\ Len(sock) <= QueueLen /\ changes \in 0 .. MaxChange
      /\ overrun \in BOOLEAN /\ running \in BOOLEAN
  <2>1. sock = <<>> /\ changes = 0 /\ overrun = FALSE /\ running = TRUE
    BY DEF Init
  <2>2. <<>> \in Seq(Msg) /\ Len(<<>>) <= QueueLen /\ 0 \in 0 .. MaxChange
    BY NetlinkAssumption
  <2> QED BY <2>1, <2>2
<1>5. Types
  BY <1>1, <1>2, <1>3, <1>4 DEF Types
<1>6. Buckets
  BY DEF Init, Buckets, neigh_alloc, Unique
<1> QED BY <1>5, <1>6

(* netlink_route keeps a FIB to entries of its family. *)
LEMMA RouteStepTypes ==
  ASSUME Types, Buckets, NEW m \in RouteMsg, netlink_route(m)
  PROVE  /\ DOMAIN fib' = Family
         /\ \A f \in Family : fib'[f] \subseteq FibEntry(f)
         /\ \A f \in Family : f # m.route.family => fib'[f] = fib[f]
         /\ m.route \in Route /\ m.route.family \in Family
         /\ m.type = "NEWROUTE" =>
              fib'[m.route.family] =
                IF Mine(m.route) # {} THEN fib[m.route.family]
                ELSE fib[m.route.family] \union {Entry(m.route)}
         /\ m.type # "NEWROUTE" =>
              fib'[m.route.family] = fib[m.route.family] \ Mine(m.route)
         /\ head' = head
<1> DEFINE f == m.route.family
           e == Entry(m.route)
<1>1. m.route \in Route /\ f \in Family
  BY NetlinkAssumption DEF RouteMsg
<1>2. e.prefix = m.route.prefix /\ e.id = m.route.ifindex /\ e \in FibEntry(f)
  BY <1>1 DEF Entry, FibEntry
<1>3. /\ fib' = [fib EXCEPT ![f] = IF m.type = "NEWROUTE" THEN Updated(f, e) ELSE Deleted(f, e)]
      /\ head' = head
  BY DEF netlink_route
<1> HIDE DEF e
<1>4. Updated(f, e) = IF Mine(m.route) # {} THEN fib[f] ELSE fib[f] \union {e}
  BY <1>2, SameRouteIs DEF Updated, Mine
<1>5. Deleted(f, e) = fib[f] \ Mine(m.route)
  BY <1>2, SameRouteIs DEF Deleted, Mine
<1>6. /\ DOMAIN fib' = Family
      /\ \A g \in Family : g # f => fib'[g] = fib[g]
      /\ fib'[f] = IF m.type = "NEWROUTE" THEN Updated(f, e) ELSE Deleted(f, e)
  BY <1>1, <1>3 DEF Types
<1>7. fib[f] \subseteq FibEntry(f) /\ \A g \in Family : fib[g] \subseteq FibEntry(g)
  BY <1>1 DEF Types
<1>8. fib'[f] \subseteq FibEntry(f)
  BY <1>2, <1>4, <1>5, <1>6, <1>7
<1> QED BY <1>1, <1>3, <1>4, <1>5, <1>6, <1>7, <1>8 DEF e

(* netlink_neigh changes one bucket, with hash_add or hash_delete.         *)
LEMMA NeighStepIs ==
  ASSUME Types, Buckets, NEW m \in NeighMsg, netlink_neigh(m)
  PROVE  /\ fib' = fib
         /\ m.neigh \in Neigh /\ m.neigh.addr \in Address
         /\ m.neigh \notin Watched => head' = head
         /\ m.neigh \in Watched =>
              /\ neigh_key_generate(m.neigh.addr) \in Bucket
              /\ BucketOf(m.neigh) \in Seq(HashEntry)
              /\ Unique(BucketOf(m.neigh))
              /\ head' = [head EXCEPT ![m.neigh.family][m.neigh.ifindex]
                                       [neigh_key_generate(m.neigh.addr)] =
                   IF m.type = "NEWNEIGH"
                   THEN hash_add(BucketOf(m.neigh), m.neigh.addr, m.mac)
                   ELSE hash_delete(BucketOf(m.neigh), m.neigh.addr)]
<1>1. m.neigh \in Neigh /\ m.neigh.addr \in Address /\ fib' = fib
  BY DEF NeighMsg, Address, netlink_neigh
<1>2. CASE m.neigh \notin Watched
  BY <1>1, <1>2, SMTT(40) DEF netlink_neigh, Watched
<1>3. CASE m.neigh \in Watched
  <2>1. m.neigh.ifindex \in Port /\ m.neigh.family \in Family
    BY <1>3 DEF Watched
  <2>2. neigh_key_generate(m.neigh.addr) \in Bucket
    BY <1>1 DEF neigh_key_generate, Bucket
  <2>3. BucketOf(m.neigh) \in Seq(HashEntry)
    BY <2>1, <2>2 DEF Types, BucketOf
  <2>4. Unique(BucketOf(m.neigh))
    BY <2>1, <2>2 DEF Buckets, BucketOf
  <2> QED BY <1>1, <1>3, <2>1, <2>2, <2>3, <2>4 DEF netlink_neigh, BucketOf
<1> QED BY <1>1, <1>2, <1>3

(* What every change of the kernel's tables does besides.                  *)
LEMMA KernelStepTypes ==
  ASSUME Types, Buckets, Change, NEW m \in Msg, Multicast(m),
         UNCHANGED <<tables, running>>,
         kroutes' \subseteq Route, kneigh' \in [Neigh -> Mac \union {NoMac}]
  PROVE  Types' /\ Buckets'
<1>1. sock' \in Seq(Msg) /\ Len(sock') <= QueueLen /\ overrun' \in BOOLEAN
  BY MulticastIs
<1>2. changes' \in 0 .. MaxChange
  <2>1. changes \in 0 .. MaxChange /\ changes < MaxChange /\ changes' = changes + 1
    BY DEF Types, Change
  <2> QED BY <2>1, NetlinkAssumption
<1>3. fib' = fib /\ head' = head /\ running' = running
  BY DEF tables
<1>4. Types'
  BY <1>1, <1>2, <1>3 DEF Types
<1>5. Buckets'
  BY <1>3 DEF Buckets
<1> QED BY <1>4, <1>5

(* The handler of a neighbour message keeps the tables well formed.        *)
LEMMA NeighStepTypes ==
  ASSUME Types, Buckets, NEW m \in NeighMsg, netlink_neigh(m)
  PROVE  /\ head' \in [Family -> [Port -> [Bucket -> Seq(HashEntry)]]]
         /\ Buckets'
         /\ m.neigh \in Watched =>
              /\ m.type = "NEWNEIGH" =>
                   BucketOf(m.neigh)' = hash_add(BucketOf(m.neigh), m.neigh.addr, m.mac)
              /\ m.type # "NEWNEIGH" =>
                   BucketOf(m.neigh)' = hash_delete(BucketOf(m.neigh), m.neigh.addr)
         /\ \A f \in Family, p \in Port, b \in Bucket :
              head'[f][p][b] = head[f][p][b] \/
              (/\ m.neigh \in Watched /\ f = m.neigh.family /\ p = m.neigh.ifindex
               /\ b = neigh_key_generate(m.neigh.addr))
<1>1. CASE m.neigh \notin Watched
  <2>1. head' = head
    BY <1>1, NeighStepIs
  <2> QED BY <1>1, <2>1 DEF Types, Buckets
<1>2. CASE m.neigh \in Watched
  <2> DEFINE n == m.neigh
             b == neigh_key_generate(n.addr)
             s == BucketOf(n)
             t == IF m.type = "NEWNEIGH" THEN hash_add(s, n.addr, m.mac) ELSE hash_delete(s, n.addr)
  <2>1. /\ n.ifindex \in Port /\ n.family \in Family /\ b \in Bucket /\ n.addr \in Address
        /\ s \in Seq(HashEntry) /\ Unique(s) /\ m.mac \in Mac \union {NoMac}
        /\ head' = [head EXCEPT ![n.family][n.ifindex][b] = t]
        /\ s = head[n.family][n.ifindex][b]
    BY <1>2, NeighStepIs DEF Watched, NeighMsg, BucketOf
  <2>2. BucketOf(n)' = head'[n.family][n.ifindex][b]
    BY DEF BucketOf, neigh_key_generate
  <2> HIDE DEF s, b, n
  <2>3. /\ t \in Seq(HashEntry) /\ Unique(t)
        /\ \A i \in DOMAIN t : t[i].addr = n.addr \/ \E j \in DOMAIN s : t[i].addr = s[j].addr
    <3>1. CASE m.type = "NEWNEIGH"
      <4>1. t = hash_add(s, n.addr, m.mac)
        BY <3>1
      <4> HIDE DEF t
      <4> QED BY ONLY <2>1, <4>1, HashAdd, SMTT(40)
    <3>2. CASE m.type # "NEWNEIGH"
      <4>1. t = hash_delete(s, n.addr)
        BY <3>2
      <4> HIDE DEF t
      <4>2. LET u == hash_delete(s, n.addr) IN
            /\ u \in Seq(HashEntry) /\ Unique(u)
            /\ \A i \in DOMAIN u : \E j \in DOMAIN s : u[i].addr = s[j].addr
        <5>1. s \in Seq(HashEntry) /\ Unique(s) /\ n.addr \in Address
          BY <2>1
        <5> QED BY ONLY <5>1, HashDelete
      <4> QED BY <4>1, <4>2
    <3> QED BY <3>1, <3>2, SMTT(40)
  <2>4. \A i \in DOMAIN s : neigh_key_generate(s[i].addr) = b
    <3> HIDE DEF t
    <3> QED BY <2>1 DEF Buckets
  <2>5. \A i \in DOMAIN t : neigh_key_generate(t[i].addr) = b
    BY <2>3, <2>4, SMTT(40) DEF b
  <2> HIDE DEF t
  <2>6. head' \in [Family -> [Port -> [Bucket -> Seq(HashEntry)]]]
    BY <2>1, <2>3 DEF Types
  <2>7. head'[n.family][n.ifindex][b] = t
    BY <2>1 DEF Types
  <2>8. ASSUME NEW f \in Family, NEW p \in Port, NEW c \in Bucket
        PROVE  head'[f][p][c] = head[f][p][c] \/ (f = n.family /\ p = n.ifindex /\ c = b)
    BY <2>1 DEF Types
  <2>9. Buckets'
    <3> SUFFICES ASSUME NEW f \in Family, NEW p \in Port, NEW c \in Bucket
                 PROVE  /\ Unique(head'[f][p][c])
                        /\ \A i \in DOMAIN head'[f][p][c] :
                             neigh_key_generate(head'[f][p][c][i].addr) = c
      BY DEF Buckets, neigh_key_generate, Unique
    <3>1. CASE f = n.family /\ p = n.ifindex /\ c = b
      BY <2>3, <2>5, <2>7, <3>1
    <3>2. CASE head'[f][p][c] = head[f][p][c]
      BY <3>2 DEF Buckets
    <3> QED BY <2>8, <3>1, <3>2
  <2>10. /\ m.type = "NEWNEIGH" => BucketOf(n)' = hash_add(s, n.addr, m.mac)
         /\ m.type # "NEWNEIGH" => BucketOf(n)' = hash_delete(s, n.addr)
    BY <2>2, <2>7 DEF t
  <2> QED BY <1>2, <2>6, <2>8, <2>9, <2>10 DEF s, b, n
<1> QED BY <1>1, <1>2

(* Types and buckets through a step. *)
LEMMA TypesStep == Types /\ Buckets /\ [Next]_vars => Types' /\ Buckets'
<1> SUFFICES ASSUME Types, Buckets, [Next]_vars PROVE Types' /\ Buckets'
  OBVIOUS
<1> USE Messages
<1>1. ASSUME NEW r \in Route, RouteAdd(r) PROVE Types' /\ Buckets'
  <2>1. Change /\ Multicast([type |-> "NEWROUTE", route |-> r]) /\ UNCHANGED <<tables, running>>
    BY <1>1 DEF RouteAdd
  <2>2. kroutes' \subseteq Route /\ kneigh' \in [Neigh -> Mac \union {NoMac}]
    BY <1>1 DEF RouteAdd, Types
  <2> QED BY <2>1, <2>2, KernelStepTypes
<1>2. ASSUME NEW r \in Route, RouteDel(r) PROVE Types' /\ Buckets'
  <2>1. Change /\ Multicast([type |-> "DELROUTE", route |-> r]) /\ UNCHANGED <<tables, running>>
    BY <1>2 DEF RouteDel
  <2>2. kroutes' \subseteq Route /\ kneigh' \in [Neigh -> Mac \union {NoMac}]
    BY <1>2 DEF RouteDel, Types
  <2> QED BY <2>1, <2>2, KernelStepTypes
<1>3. ASSUME NEW r \in Route, RouteReplace(r) PROVE Types' /\ Buckets'
  <2>1. Change /\ Multicast([type |-> "NEWROUTE", route |-> r]) /\ UNCHANGED <<tables, running>>
    BY <1>3 DEF RouteReplace
  <2>2. kroutes' \subseteq Route /\ kneigh' \in [Neigh -> Mac \union {NoMac}]
    BY <1>3 DEF RouteReplace, Types
  <2> QED BY <2>1, <2>2, KernelStepTypes
<1>4. ASSUME NEW n \in Neigh, NEW m \in Mac, NeighUpdate(n, m) PROVE Types' /\ Buckets'
  <2>1. /\ Change /\ Multicast([type |-> "NEWNEIGH", neigh |-> n, mac |-> m])
        /\ UNCHANGED <<tables, running>>
    BY <1>4 DEF NeighUpdate
  <2>2. kroutes' \subseteq Route /\ kneigh' \in [Neigh -> Mac \union {NoMac}]
    BY <1>4 DEF NeighUpdate, Types
  <2> QED BY <2>1, <2>2, KernelStepTypes
<1>5. ASSUME NEW n \in Neigh, NeighFailed(n) PROVE Types' /\ Buckets'
  <2>1. /\ Change /\ Multicast([type |-> "NEWNEIGH", neigh |-> n, mac |-> NoMac])
        /\ UNCHANGED <<tables, running>>
    BY <1>5 DEF NeighFailed
  <2>2. kroutes' \subseteq Route /\ kneigh' \in [Neigh -> Mac \union {NoMac}]
    BY <1>5 DEF NeighFailed, Types
  <2> QED BY <2>1, <2>2, KernelStepTypes
<1>6. ASSUME NEW n \in Neigh, NeighDel(n) PROVE Types' /\ Buckets'
  <2>1. /\ Change /\ Multicast([type |-> "DELNEIGH", neigh |-> n, mac |-> NoMac])
        /\ UNCHANGED <<tables, running>>
    BY <1>6 DEF NeighDel
  <2>2. kroutes' \subseteq Route /\ kneigh' \in [Neigh -> Mac \union {NoMac}]
    BY <1>6 DEF NeighDel, Types
  <2> QED BY <2>1, <2>2, KernelStepTypes
<1>7. ASSUME netlink_process PROVE Types' /\ Buckets'
  <2>1. /\ sock # <<>> /\ sock' = Tail(sock)
        /\ kroutes' = kroutes /\ kneigh' = kneigh /\ changes' = changes
        /\ overrun' = overrun /\ running' = running
    BY <1>7 DEF netlink_process, kernel
  <2>2. sock' \in Seq(Msg) /\ Len(sock') <= QueueLen
    BY <2>1, ReadIs
  <2>3. CASE IsRoute(Head(sock))
    <3>1. netlink_route(Head(sock)) /\ Head(sock) \in RouteMsg
      BY <1>7, <2>1, <2>3, ReadIs DEF netlink_process
    <3>2. /\ DOMAIN fib' = Family /\ head' = head
          /\ \A f \in Family : fib'[f] \subseteq FibEntry(f)
      BY <3>1, RouteStepTypes
    <3> QED BY <2>1, <2>2, <3>2 DEF Types, Buckets
  <2>4. CASE ~ IsRoute(Head(sock))
    <3>1. netlink_neigh(Head(sock)) /\ Head(sock) \in NeighMsg
      BY <1>7, <2>1, <2>4, ReadIs DEF netlink_process
    <3>2. fib' = fib
      BY <3>1, NeighStepIs
    <3>3. Buckets' /\ head' \in [Family -> [Port -> [Bucket -> Seq(HashEntry)]]]
      BY <3>1, NeighStepTypes
    <3> QED BY <2>1, <2>2, <3>2, <3>3 DEF Types
  <2> QED BY <2>3, <2>4
<1>8. ASSUME ProcessNoMemory PROVE Types' /\ Buckets'
  <2>1. /\ sock # <<>> /\ sock' = Tail(sock)
        /\ kroutes' = kroutes /\ kneigh' = kneigh /\ changes' = changes
        /\ overrun' = overrun /\ running' = running /\ fib' = fib /\ head' = head
    BY <1>8 DEF ProcessNoMemory, kernel, tables
  <2>2. sock' \in Seq(Msg) /\ Len(sock') <= QueueLen
    BY <2>1, ReadIs
  <2> QED BY <2>1, <2>2 DEF Types, Buckets
<1>9. ASSUME ReadError PROVE Types' /\ Buckets'
  <2>1. /\ kroutes' = kroutes /\ kneigh' = kneigh /\ changes' = changes /\ sock' = sock
        /\ overrun' = FALSE /\ running' = FALSE
        /\ fib' = [f \in Family |-> {}] /\ head' = [f \in Family |-> neigh_alloc]
    BY <1>9 DEF ReadError, kernel
  <2>2. head' \in [Family -> [Port -> [Bucket -> Seq(HashEntry)]]]
    BY <2>1 DEF neigh_alloc
  <2>3. DOMAIN fib' = Family /\ \A f \in Family : fib'[f] \subseteq FibEntry(f)
    BY <2>1
  <2>4. Types'
    BY <2>1, <2>2, <2>3 DEF Types
  <2>5. Buckets'
    BY <2>1 DEF Buckets, neigh_alloc, Unique
  <2> QED BY <2>4, <2>5
<1>10. CASE UNCHANGED vars
  BY <1>10 DEF vars, Types, Buckets
<1> QED BY <1>1, <1>2, <1>3, <1>4, <1>5, <1>6, <1>7, <1>8, <1>9, <1>10 DEF Next

-----------------------------------------------------------------------------
(* The routes. *)

(* The kernel has one route and one address of a key through a step. *)
LEMMA OnePerKeyStep == Types /\ OnePerKey /\ [Next]_vars => OnePerKey'
<1> SUFFICES ASSUME Types, OnePerKey, [Next]_vars PROVE OnePerKey'
  OBVIOUS
<1>1. ASSUME kroutes' \subseteq kroutes, astray \subseteq astray' PROVE OnePerKey'
  BY <1>1 DEF OnePerKey, Key
<1>2. ASSUME NEW r \in Route, RouteAdd(r) PROVE OnePerKey'
  <2>1. kroutes' = kroutes \union {r}
        /\ astray' = astray \union {Key(r) : s \in {k \in kroutes : Key(k) = Key(r)}}
    BY <1>2 DEF RouteAdd
  <2> SUFFICES ASSUME NEW s \in kroutes', NEW t \in kroutes', Key(s) = Key(t), s # t
               PROVE  Key(s) \in astray'
    BY DEF OnePerKey, Key
  <2>2. CASE s \in kroutes /\ t \in kroutes
    BY <2>1, <2>2 DEF OnePerKey
  <2>3. CASE s = r /\ t \in kroutes
    BY <2>1, <2>3
  <2>4. CASE t = r /\ s \in kroutes
    BY <2>1, <2>4
  <2> QED BY <2>1, <2>2, <2>3, <2>4
<1>3. ASSUME NEW r \in Route, RouteReplace(r) PROVE OnePerKey'
  <2>1. PICK o \in kroutes : /\ kroutes' = (kroutes \ {o}) \union {r}
                             /\ astray' = astray \union {Key(r), Key(o)}
    BY <1>3 DEF RouteReplace
  <2> QED BY <2>1 DEF OnePerKey, Key
<1>4. ASSUME NEW r \in Route, RouteDel(r) PROVE OnePerKey'
  BY <1>1, <1>4 DEF RouteDel
<1>5. ASSUME NEW n \in Neigh, NEW m \in Mac, NeighUpdate(n, m) PROVE OnePerKey'
  BY <1>1, <1>5 DEF NeighUpdate
<1>6. ASSUME NEW n \in Neigh, NeighFailed(n) PROVE OnePerKey'
  BY <1>1, <1>6 DEF NeighFailed
<1>7. ASSUME NEW n \in Neigh, NeighDel(n) PROVE OnePerKey'
  BY <1>1, <1>7 DEF NeighDel
<1>8. ASSUME netlink_process PROVE OnePerKey'
  BY <1>1, <1>8 DEF netlink_process, kernel
<1>9. ASSUME ProcessNoMemory PROVE OnePerKey'
  BY <1>1, <1>9 DEF ProcessNoMemory, kernel
<1>10. ASSUME ReadError PROVE OnePerKey'
  BY <1>1, <1>10 DEF ReadError, kernel
<1>11. CASE UNCHANGED vars
  BY <1>1, <1>11 DEF vars
<1> QED BY <1>2, <1>3, <1>4, <1>5, <1>6, <1>7, <1>8, <1>9, <1>10, <1>11 DEF Next

(* The kernel announces a change: a key that does not go astray sees the   *)
(* message at the end of its events.                                       *)
LEMMA RouteAnnounced ==
  ASSUME Types, RouteChain, NEW m \in Msg, Multicast(m), running, ~ overrun',
         fib' = fib, early' = early, astray \subseteq astray',
         NEW r \in Route, Key(r) \notin astray' \union early',
         NEW its, LET e == RouteEvent(Key(r))[m] IN
                  \/ e.op = "new" /\ e.val # {} /\ Its(r) \in {{}, e.val} /\ its = e.val
                  \/ e.op = "del" /\ its = {}
                  \/ e.op = "other" /\ its = Its(r)
  PROVE  Follows(Image(RouteEvent(Key(r)), sock'), Mine(r)', its, {})
<1> DEFINE g == RouteEvent(Key(r))
           V == SUBSET {Entry(x) : x \in Route}
<1>1. ~ overrun /\ sock' = Put(sock, m) /\ sock \in Seq(Msg)
  BY MulticastIs DEF Types, Put
<1>2. g \in [Msg -> Event(V)]
  BY EventTypes
<1>3. Follows(Image(g, sock), Mine(r), Its(r), {})
  BY <1>1 DEF RouteChain
<1>4. /\ \/ g[m].op = "new" /\ g[m].val # {} /\ Its(r) \in {{}, g[m].val} /\ its = g[m].val
         \/ g[m].op = "del" /\ its = {}
         \/ g[m].op = "other" /\ its = Its(r)
      /\ Mine(r)' = Mine(r)
  BY DEF Mine
<1> HIDE DEF g, V
<1>5. sock \in Seq(Msg) /\ m \in Msg
  BY <1>1
<1>6. Follows(Image(g, Put(sock, m)), Mine(r), its, {})
  BY ONLY <1>2, <1>3, <1>4, <1>5, FollowsQueued
<1> QED BY <1>1, <1>4, <1>6 DEF g

(* A message is read: what it does to the entries of a key is what its     *)
(* event says.                                                             *)
LEMMA RouteRead ==
  ASSUME Types, RouteChain, running, ~ overrun, sock # <<>>, sock' = Tail(sock),
         NEW r \in Route, Key(r) \notin astray \union early,
         Its(r)' = Its(r),
         LET e == RouteEvent(Key(r))[Head(sock)] IN
           /\ e.op = "new" /\ Mine(r) \in {{}, e.val} /\ e.val # {} => Mine(r)' = e.val
           /\ e.op = "del" => Mine(r)' = {}
           /\ e.op = "other" => Mine(r)' = Mine(r)
  PROVE  Follows(Image(RouteEvent(Key(r)), sock'), Mine(r)', Its(r)', {})
<1> DEFINE g == RouteEvent(Key(r))
           V == SUBSET {Entry(x) : x \in Route}
<1>1. sock \in Seq(Msg) /\ sock # <<>>
  BY DEF Types
<1>2. g \in [Msg -> Event(V)]
  BY EventTypes
<1>3. Follows(Image(g, sock), Mine(r), Its(r), {})
  BY DEF RouteChain
<1>4. LET e == g[Head(sock)] IN
      /\ e.op = "new" /\ Mine(r) \in {{}, e.val} /\ e.val # {} => Mine(r)' = e.val
      /\ e.op = "del" => Mine(r)' = {}
      /\ e.op = "other" => Mine(r)' = Mine(r)
  OBVIOUS
<1> HIDE DEF g, V
<1>5. Follows(Image(g, Tail(sock)), Mine(r)', Its(r), {})
  BY ONLY <1>1, <1>2, <1>3, <1>4, FollowsRead
<1> QED BY <1>5 DEF g

(* A step keeps the messages leading to the routes of the kernel. *)
LEMMA RouteChainStep ==
  Types /\ Buckets /\ OnePerKey /\ RouteChain /\ [Next]_vars => RouteChain'
<1> SUFFICES ASSUME Types, Buckets, OnePerKey, RouteChain, [Next]_vars,
                    running', ~ overrun',
                    NEW r \in Route, Key(r) \notin astray' \union early'
             PROVE  Follows(Image(RouteEvent(Key(r)), sock'), Mine(r)', Its(r)', {})
  BY DEF RouteChain, Key, RouteEvent, Msg, RouteMsg, NeighMsg, Entry, IsRoute
<1> DEFINE Goal == Follows(Image(RouteEvent(Key(r)), sock'), Mine(r)', Its(r)', {})
<1> USE Messages
<1> HIDE DEF Goal
<1>1. ASSUME NEW m \in Msg, m.type \notin {"NEWROUTE", "DELROUTE"} \/ Key(m.route) # Key(r)
      PROVE  RouteEvent(Key(r))[m].op = "other"
  BY <1>1 DEF RouteEvent, IsRoute
<1>2. ASSUME NEW s \in Route, RouteAdd(s) PROVE Goal
  <2> DEFINE m == [type |-> "NEWROUTE", route |-> s]
  <2>1. /\ Multicast(m) /\ running /\ fib' = fib /\ early' = early /\ astray \subseteq astray'
        /\ m \in Msg
    BY <1>2 DEF RouteAdd, Change, tables
  <2>2. /\ kroutes' = kroutes \union {s}
        /\ astray' = astray \union {Key(s) : t \in {k \in kroutes : Key(k) = Key(s)}}
    BY <1>2 DEF RouteAdd
  <2>3. CASE Key(s) = Key(r)
    <3>1. \A k \in kroutes : Key(k) # Key(r)
      BY <2>2, <2>3
    <3>2. Its(r) = {} /\ Its(r)' = {Entry(s)}
      BY <2>2, <2>3, <3>1 DEF Its, Key, Entry
    <3>3. RouteEvent(Key(r))[m] = [op |-> "new", val |-> {Entry(s)}]
      BY <2>1, <2>3 DEF RouteEvent, IsRoute
    <3> HIDE DEF m
    <3> QED BY <2>1, <3>2, <3>3, RouteAnnounced DEF Goal
  <2>4. CASE Key(s) # Key(r)
    <3>1. Its(r)' = Its(r)
      BY <2>2, <2>4 DEF Its, Key, Entry
    <3>2. RouteEvent(Key(r))[m].op = "other"
      BY <1>1, <2>1, <2>4
    <3> HIDE DEF m
    <3> QED BY <2>1, <3>1, <3>2, RouteAnnounced DEF Goal
  <2> QED BY <2>3, <2>4
<1>3. ASSUME NEW s \in Route, RouteDel(s) PROVE Goal
  <2> DEFINE m == [type |-> "DELROUTE", route |-> s]
  <2>1. /\ Multicast(m) /\ running /\ fib' = fib /\ early' = early /\ astray \subseteq astray'
        /\ m \in Msg
    BY <1>3 DEF RouteDel, Change, tables
  <2>2. s \in kroutes /\ kroutes' = kroutes \ {s} /\ astray' = astray
    BY <1>3 DEF RouteDel
  <2>3. CASE Key(s) = Key(r)
    <3>1. \A k \in kroutes' : Key(k) # Key(r)
      BY <2>2, <2>3 DEF OnePerKey
    <3>2. Its(r)' = {}
      BY <3>1 DEF Its, Key
    <3>3. RouteEvent(Key(r))[m] = [op |-> "del", val |-> {}]
      BY <2>1, <2>3 DEF RouteEvent, IsRoute
    <3> HIDE DEF m
    <3> QED BY <2>1, <3>2, <3>3, RouteAnnounced DEF Goal
  <2>4. CASE Key(s) # Key(r)
    <3>1. Its(r)' = Its(r)
      BY <2>2, <2>4 DEF Its, Key, Entry
    <3>2. RouteEvent(Key(r))[m].op = "other"
      BY <1>1, <2>1, <2>4
    <3> HIDE DEF m
    <3> QED BY <2>1, <3>1, <3>2, RouteAnnounced DEF Goal
  <2> QED BY <2>3, <2>4
<1>4. ASSUME NEW s \in Route, RouteReplace(s) PROVE Goal
  <2> DEFINE m == [type |-> "NEWROUTE", route |-> s]
  <2>1. PICK o \in kroutes : /\ kroutes' = (kroutes \ {o}) \union {s}
                             /\ astray' = astray \union {Key(s), Key(o)}
    BY <1>4 DEF RouteReplace
  <2>2. /\ Multicast(m) /\ running /\ fib' = fib /\ early' = early /\ astray \subseteq astray'
        /\ m \in Msg
    BY <1>4, <2>1 DEF RouteReplace, Change, tables
  <2>3. Key(s) # Key(r) /\ Key(o) # Key(r)
    BY <2>1
  <2>4. Its(r)' = Its(r)
    BY <2>1, <2>3 DEF Its, Key, Entry
  <2>5. RouteEvent(Key(r))[m].op = "other"
    BY <1>1, <2>2, <2>3
  <2> HIDE DEF m
  <2> QED BY <2>2, <2>4, <2>5, RouteAnnounced DEF Goal
<1>5. ASSUME NEW m \in Msg, ~ IsRoute(m), Multicast(m), running,
             fib' = fib, early' = early, astray \subseteq astray', kroutes' = kroutes
      PROVE  Goal
  <2>1. Its(r)' = Its(r)
    BY <1>5 DEF Its, Key, Entry
  <2>2. RouteEvent(Key(r))[m].op = "other"
    BY <1>1, <1>5 DEF IsRoute
  <2> QED BY <1>5, <2>1, <2>2, RouteAnnounced DEF Goal
<1>6. ASSUME NEW n \in Neigh, NEW a \in Mac, NeighUpdate(n, a) PROVE Goal
  <2> DEFINE m == [type |-> "NEWNEIGH", neigh |-> n, mac |-> a]
  <2>1. /\ m \in Msg /\ ~ IsRoute(m) /\ Multicast(m) /\ running
        /\ fib' = fib /\ early' = early /\ astray \subseteq astray' /\ kroutes' = kroutes
    BY <1>6 DEF NeighUpdate, Change, tables, IsRoute
  <2> QED BY <1>5, <2>1
<1>7. ASSUME NEW n \in Neigh, NeighFailed(n) PROVE Goal
  <2> DEFINE m == [type |-> "NEWNEIGH", neigh |-> n, mac |-> NoMac]
  <2>1. /\ m \in Msg /\ ~ IsRoute(m) /\ Multicast(m) /\ running
        /\ fib' = fib /\ early' = early /\ astray \subseteq astray' /\ kroutes' = kroutes
    BY <1>7 DEF NeighFailed, Change, tables, IsRoute
  <2> QED BY <1>5, <2>1
<1>8. ASSUME NEW n \in Neigh, NeighDel(n) PROVE Goal
  <2> DEFINE m == [type |-> "DELNEIGH", neigh |-> n, mac |-> NoMac]
  <2>1. /\ m \in Msg /\ ~ IsRoute(m) /\ Multicast(m) /\ running
        /\ fib' = fib /\ early' = early /\ astray \subseteq astray' /\ kroutes' = kroutes
    BY <1>8 DEF NeighDel, Change, tables, IsRoute
  <2> QED BY <1>5, <2>1
<1>9. ASSUME netlink_process PROVE Goal
  <2>1. /\ running /\ ~ overrun /\ sock # <<>> /\ sock' = Tail(sock)
        /\ kroutes' = kroutes /\ early' = early /\ astray' = astray
    BY <1>9 DEF netlink_process, kernel
  <2>2. Its(r)' = Its(r)
    BY <2>1 DEF Its, Key, Entry
  <2>3. r.family \in Family /\ Head(sock) \in Msg
    BY <2>1, ReadIs, NetlinkAssumption
  <2> DEFINE m == Head(sock)
             e == RouteEvent(Key(r))[m]
  <2> HIDE DEF e
  <2>4. CASE IsRoute(m)
    <3>1. netlink_route(m) /\ m \in RouteMsg
      BY <1>9, <2>1, <2>4, ReadIs DEF netlink_process
    <3> DEFINE f == m.route.family
    <3>2. /\ \A h \in Family : h # f => fib'[h] = fib[h]
          /\ m.route \in Route /\ f \in Family
          /\ m.type = "NEWROUTE" => fib'[f] = IF Mine(m.route) # {} THEN fib[f]
                                              ELSE fib[f] \union {Entry(m.route)}
          /\ m.type # "NEWROUTE" => fib'[f] = fib[f] \ Mine(m.route)
      BY <3>1, RouteStepTypes
    <3>3. CASE Key(m.route) = Key(r)
      <4>1. /\ m.route.family = r.family /\ m.route.prefix = r.prefix
            /\ m.route.ifindex = r.ifindex
        BY <3>3 DEF Key
      <4>2. Mine(m.route) = Mine(r)
        BY <4>1 DEF Mine
      <4>3. Entry(m.route).prefix = r.prefix /\ Entry(m.route).id = r.ifindex
        BY <4>1 DEF Entry
      <4>4. CASE m.type = "NEWROUTE"
        <5>1. e = [op |-> "new", val |-> {Entry(m.route)}]
          BY <2>3, <2>4, <3>3, <4>4 DEF e, RouteEvent
        <5>2. Mine(r) \in {{}, {Entry(m.route)}} => Mine(r)' = {Entry(m.route)}
          BY <3>2, <4>1, <4>2, <4>3, <4>4 DEF Mine
        <5>3. /\ e.op = "new" /\ Mine(r) \in {{}, e.val} /\ e.val # {} => Mine(r)' = e.val
              /\ e.op = "del" => Mine(r)' = {}
              /\ e.op = "other" => Mine(r)' = Mine(r)
          BY <5>1, <5>2
        <5> QED BY <2>1, <2>2, <5>3, RouteRead DEF Goal, e
      <4>5. CASE m.type # "NEWROUTE"
        <5>1. e = [op |-> "del", val |-> {}]
          BY <2>3, <2>4, <3>3, <4>5 DEF e, RouteEvent
        <5>2. Mine(r)' = {}
          BY <3>2, <4>1, <4>2, <4>5 DEF Mine
        <5>3. /\ e.op = "new" /\ Mine(r) \in {{}, e.val} /\ e.val # {} => Mine(r)' = e.val
              /\ e.op = "del" => Mine(r)' = {}
              /\ e.op = "other" => Mine(r)' = Mine(r)
          BY <5>1, <5>2
        <5> QED BY <2>1, <2>2, <5>3, RouteRead DEF Goal, e
      <4> QED BY <4>4, <4>5
    <3>4. CASE Key(m.route) # Key(r)
      <4>1. e.op = "other"
        BY <1>1, <2>3, <3>4 DEF e
      <4>2. Mine(r)' = Mine(r)
        <5>1. CASE r.family # f
          BY <2>3, <3>2, <5>1 DEF Mine
        <5>2. CASE r.family = f
          <6>1. m.route.prefix # r.prefix \/ m.route.ifindex # r.ifindex
            BY <3>4, <5>2 DEF Key
          <6>2. Entry(m.route).prefix # r.prefix \/ Entry(m.route).id # r.ifindex
            BY <6>1 DEF Entry
          <6> QED BY <3>2, <5>2, <6>1, <6>2 DEF Mine
        <5> QED BY <5>1, <5>2
      <4> QED BY <2>1, <2>2, <4>1, <4>2, RouteRead DEF Goal, e
    <3> QED BY <3>3, <3>4
  <2>5. CASE ~ IsRoute(m)
    <3>1. netlink_neigh(m) /\ m \in NeighMsg
      BY <1>9, <2>1, <2>5, ReadIs DEF netlink_process
    <3>2. Mine(r)' = Mine(r)
      BY <3>1, NeighStepIs DEF Mine
    <3>3. e.op = "other"
      BY <1>1, <2>3, <2>5 DEF e, IsRoute
    <3> QED BY <2>1, <2>2, <3>2, <3>3, RouteRead DEF Goal, e
  <2> QED BY <2>4, <2>5
<1>10. ASSUME ProcessNoMemory PROVE Goal
  <2> DEFINE m == Head(sock)
             e == RouteEvent(Key(r))[m]
  <2>1. /\ running /\ ~ overrun /\ sock # <<>> /\ sock' = Tail(sock)
        /\ kroutes' = kroutes /\ early' = early /\ fib' = fib
        /\ m.type \in {"NEWROUTE", "NEWNEIGH"}
        /\ astray' = astray \union {IF IsRoute(m) THEN Key(m.route) ELSE m.neigh}
    BY <1>10 DEF ProcessNoMemory, kernel, tables
  <2>2. Its(r)' = Its(r) /\ Mine(r)' = Mine(r)
    BY <2>1 DEF Its, Key, Entry, Mine
  <2>3. m \in Msg
    BY <2>1, ReadIs
  <2>4. e.op = "other"
    BY <1>1, <2>1, <2>3 DEF IsRoute
  <2>5. Key(r) \notin astray \union early
    BY <2>1
  <2> HIDE DEF m
  <2> QED BY <2>1, <2>2, <2>4, <2>5, RouteRead DEF Goal, m
<1>11. ASSUME ReadError PROVE Goal
  BY <1>11 DEF ReadError
<1>12. ASSUME UNCHANGED vars PROVE Goal
  <2>1. Mine(r)' = Mine(r) /\ Its(r)' = Its(r) /\ sock' = sock
    BY <1>12 DEF vars, Mine, Its, Key, Entry
  <2>2. running /\ ~ overrun /\ Key(r) \notin astray \union early
    BY <1>12 DEF vars
  <2> QED BY <2>1, <2>2 DEF RouteChain, Goal
<1>13. Goal
  BY <1>2, <1>3, <1>4, <1>6, <1>7, <1>8, <1>9, <1>10, <1>11, <1>12 DEF Next
<1> QED BY <1>13 DEF Goal

-----------------------------------------------------------------------------
(* The neighbours. *)

(* The kernel announces a change: a neighbour that does not go astray sees *)
(* the message at the end of its events.                                   *)
LEMMA NeighAnnounced ==
  ASSUME Types, NeighChain, NEW m \in Msg, Multicast(m), running, ~ overrun',
         head' = head, astray \subseteq astray',
         NEW n \in Watched, n \notin astray',
         LET e == NeighEvent(n)[m] IN
           \/ e.op = "new" /\ e.val # NoMac /\ kneigh[n] \in {NoMac, e.val} /\ kneigh'[n] = e.val
           \/ e.op = "del" /\ kneigh'[n] = NoMac
           \/ e.op = "other" /\ kneigh'[n] = kneigh[n]
  PROVE  /\ Follows(Image(NeighEvent(n), sock'), neigh_lookup(n)', kneigh'[n], NoMac)
         /\ Places(BucketOf(n)', n.addr) # {} => neigh_lookup(n)' # NoMac
<1> DEFINE g == NeighEvent(n)
           V == Mac \union {NoMac}
<1>1. ~ overrun /\ sock' = Put(sock, m) /\ sock \in Seq(Msg)
  BY MulticastIs DEF Types, Put
<1>2. g \in [Msg -> Event(V)]
  BY EventTypes
<1>3. /\ Follows(Image(g, sock), neigh_lookup(n), kneigh[n], NoMac)
      /\ Places(BucketOf(n), n.addr) # {} => neigh_lookup(n) # NoMac
  BY <1>1 DEF NeighChain
<1>4. \/ g[m].op = "new" /\ g[m].val # NoMac /\ kneigh[n] \in {NoMac, g[m].val}
         /\ kneigh'[n] = g[m].val
      \/ g[m].op = "del" /\ kneigh'[n] = NoMac
      \/ g[m].op = "other" /\ kneigh'[n] = kneigh[n]
  OBVIOUS
<1>5. neigh_lookup(n)' = neigh_lookup(n) /\ BucketOf(n)' = BucketOf(n)
  BY DEF neigh_lookup, BucketOf, neigh_key_generate, Places, First
<1> HIDE DEF g, V
<1>6. sock \in Seq(Msg) /\ m \in Msg
  BY <1>1
<1>7. Follows(Image(g, Put(sock, m)), neigh_lookup(n), kneigh'[n], NoMac)
  BY ONLY <1>2, <1>3, <1>4, <1>6, FollowsQueued
<1> QED BY <1>1, <1>3, <1>5, <1>7 DEF g

(* A message is read: what it does to a neighbour is what its event says.  *)
LEMMA NeighRead ==
  ASSUME Types, NeighChain, running, ~ overrun, sock # <<>>, sock' = Tail(sock),
         NEW n \in Watched, n \notin astray, kneigh' = kneigh,
         LET e == NeighEvent(n)[Head(sock)] IN
           /\ e.op = "new" /\ neigh_lookup(n) \in {NoMac, e.val} /\ e.val # NoMac =>
                neigh_lookup(n)' = e.val
           /\ e.op = "del" => neigh_lookup(n)' = NoMac
           /\ e.op = "other" => neigh_lookup(n)' = neigh_lookup(n)
  PROVE  Follows(Image(NeighEvent(n), sock'), neigh_lookup(n)', kneigh'[n], NoMac)
<1> DEFINE g == NeighEvent(n)
           V == Mac \union {NoMac}
<1>1. sock \in Seq(Msg) /\ sock # <<>>
  BY DEF Types
<1>2. g \in [Msg -> Event(V)]
  BY EventTypes
<1>3. Follows(Image(g, sock), neigh_lookup(n), kneigh[n], NoMac)
  BY DEF NeighChain
<1>4. LET e == g[Head(sock)] IN
      /\ e.op = "new" /\ neigh_lookup(n) \in {NoMac, e.val} /\ e.val # NoMac =>
           neigh_lookup(n)' = e.val
      /\ e.op = "del" => neigh_lookup(n)' = NoMac
      /\ e.op = "other" => neigh_lookup(n)' = neigh_lookup(n)
  OBVIOUS
<1> HIDE DEF g, V
<1>5. Follows(Image(g, Tail(sock)), neigh_lookup(n)', kneigh[n], NoMac)
  BY ONLY <1>1, <1>2, <1>3, <1>4, FollowsRead
<1> QED BY <1>5 DEF g

(* What the handler of a neighbour message does to a lookup.               *)
LEMMA NeighLookupStep ==
  ASSUME Types, Buckets, NEW m \in NeighMsg, netlink_neigh(m), NEW n \in Watched
  PROVE  /\ m.neigh # n => /\ neigh_lookup(n)' = neigh_lookup(n)
                           /\ Places(BucketOf(n)', n.addr) = {} <=> Places(BucketOf(n), n.addr) = {}
         /\ m.neigh = n /\ m.type # "NEWNEIGH" =>
              neigh_lookup(n)' = NoMac /\ Places(BucketOf(n)', n.addr) = {}
         /\ m.neigh = n /\ m.type = "NEWNEIGH" =>
              neigh_lookup(n)' = IF Places(BucketOf(n), n.addr) = {} THEN m.mac ELSE neigh_lookup(n)
<1> DEFINE s == BucketOf(n)
           t == BucketOf(n)'
           a == n.addr
           b == neigh_key_generate(a)
<1>1. /\ n \in Neigh /\ n.family \in Family /\ n.ifindex \in Port /\ b \in Bucket /\ a \in Address
      /\ m.neigh \in Neigh /\ m.neigh.addr \in Address /\ m.mac \in Mac \union {NoMac}
  BY DEF Watched, neigh_key_generate, Bucket, NeighMsg, Address
<1>2. s \in Seq(HashEntry) /\ Unique(s)
  BY <1>1 DEF Types, Buckets, BucketOf
<1>3. neigh_lookup(n) = Find(s, a) /\ neigh_lookup(n)' = Find(t, a)
  BY DEF neigh_lookup, Find, BucketOf, neigh_key_generate, Places, First
<1>4. s = head[n.family][n.ifindex][b] /\ t = head'[n.family][n.ifindex][b]
  BY DEF BucketOf, neigh_key_generate
<1> HIDE DEF s, t, b
<1>5. CASE m.neigh = n
  <2>1. /\ m.type = "NEWNEIGH" => t = hash_add(s, a, m.mac)
        /\ m.type # "NEWNEIGH" => t = hash_delete(s, a)
    BY <1>5, NeighStepTypes DEF s, t
  <2>2. CASE m.type = "NEWNEIGH"
    <3>1. CASE Places(s, a) = {}
      <4>1. Find(hash_add(s, a, m.mac), a) = m.mac
        BY ONLY <1>1, <1>2, <3>1, HashAdd
      <4> QED BY <1>3, <1>5, <2>1, <2>2, <3>1, <4>1 DEF s
    <3>2. CASE Places(s, a) # {}
      <4>1. hash_add(s, a, m.mac) = s
        BY <3>2 DEF hash_add
      <4> QED BY <1>3, <1>5, <2>1, <2>2, <3>2, <4>1 DEF s
    <3> QED BY <3>1, <3>2
  <2>3. CASE m.type # "NEWNEIGH"
    <3>1. Places(hash_delete(s, a), a) = {}
      BY ONLY <1>1, <1>2, HashDelete
    <3> QED BY <1>3, <1>5, <2>1, <2>3, <3>1 DEF Find, t
  <2> QED BY <2>2, <2>3
<1>6. CASE m.neigh # n
  <2> SUFFICES Find(t, a) = Find(s, a) /\ (Places(t, a) = {} <=> Places(s, a) = {})
    BY <1>3, <1>6 DEF s, t
  <2>1. CASE t = s
    BY <2>1
  <2>2. CASE t # s
    <3>1. /\ m.neigh \in Watched /\ n.family = m.neigh.family /\ n.ifindex = m.neigh.ifindex
          /\ b = neigh_key_generate(m.neigh.addr)
      BY <1>1, <1>4, <2>2, NeighStepTypes
    <3>2. m.neigh.addr # a
      BY <1>1, <1>6, <3>1, NetlinkAssumption
    <3>3. BucketOf(m.neigh) = s /\ BucketOf(m.neigh)' = t
      <4>1. /\ BucketOf(m.neigh) = head[m.neigh.family][m.neigh.ifindex][b]
            /\ BucketOf(m.neigh)' = head'[m.neigh.family][m.neigh.ifindex][b]
        BY <3>1 DEF BucketOf, neigh_key_generate
      <4> QED BY <1>4, <3>1, <4>1
    <3>4. CASE m.type = "NEWNEIGH"
      <4>1. t = hash_add(s, m.neigh.addr, m.mac)
        BY <3>1, <3>3, <3>4, NeighStepTypes
      <4>2. LET u == hash_add(s, m.neigh.addr, m.mac)
            IN  Find(u, a) = Find(s, a) /\ (Places(u, a) = {} <=> Places(s, a) = {})
        <5> DEFINE c == m.neigh.addr
                   u == hash_add(s, c, m.mac)
        <5>1. s \in Seq(HashEntry) /\ Unique(s) /\ c \in Address /\ m.mac \in Mac \union {NoMac}
          BY <1>1, <1>2
        <5>2. a # c
          BY <3>2
        <5> HIDE DEF c, a
        <5>3. Find(u, a) = Find(s, a)
          BY ONLY <5>1, <5>2, HashAdd
        <5>4. Places(u, a) = {} <=> Places(s, a) = {}
          BY ONLY <5>1, <5>2, HashAdd
        <5> QED BY <5>3, <5>4 DEF c
      <4> QED BY <4>1, <4>2
    <3>5. CASE m.type # "NEWNEIGH"
      <4>1. t = hash_delete(s, m.neigh.addr)
        BY <3>1, <3>3, <3>5, NeighStepTypes
      <4>2. LET u == hash_delete(s, m.neigh.addr)
            IN  Find(u, a) = Find(s, a) /\ (Places(u, a) = {} <=> Places(s, a) = {})
        BY ONLY <1>1, <1>2, <3>2, HashDelete
      <4> QED BY <4>1, <4>2
    <3> QED BY <3>4, <3>5
  <2> QED BY <2>1, <2>2
<1> QED BY <1>5, <1>6

(* A step keeps the messages leading to the neighbours of the kernel. *)
LEMMA NeighChainStep == Types /\ Buckets /\ NeighChain /\ [Next]_vars => NeighChain'
<1> SUFFICES ASSUME Types, Buckets, NeighChain, [Next]_vars, running', ~ overrun',
                    NEW n \in Watched, n \notin astray'
             PROVE  /\ Follows(Image(NeighEvent(n), sock'), neigh_lookup(n)', kneigh'[n], NoMac)
                    /\ Places(BucketOf(n)', n.addr) # {} => neigh_lookup(n)' # NoMac
  BY DEF NeighChain, NeighEvent, Msg, RouteMsg, NeighMsg, IsRoute, Places
<1> DEFINE Goal ==
      /\ Follows(Image(NeighEvent(n), sock'), neigh_lookup(n)', kneigh'[n], NoMac)
      /\ Places(BucketOf(n)', n.addr) # {} => neigh_lookup(n)' # NoMac
<1> USE Messages
<1> HIDE DEF Goal
<1>1. n \in Neigh /\ kneigh \in [Neigh -> Mac \union {NoMac}] /\ NoMac \notin Mac
  BY NetlinkAssumption DEF Watched, Types
<1>2. ASSUME NEW m \in Msg, IsRoute(m) \/ m.neigh # n
      PROVE  NeighEvent(n)[m].op = "other"
  BY <1>2 DEF NeighEvent
<1>3. ASSUME NEW m \in Msg, IsRoute(m), Multicast(m), running,
             head' = head, astray \subseteq astray', kneigh' = kneigh
      PROVE  Goal
  <2>1. NeighEvent(n)[m].op = "other"
    BY <1>2, <1>3
  <2> QED BY <1>3, <2>1, NeighAnnounced DEF Goal
<1>4. ASSUME NEW s \in Route, RouteAdd(s) PROVE Goal
  <2> DEFINE m == [type |-> "NEWROUTE", route |-> s]
  <2>1. /\ m \in Msg /\ IsRoute(m) /\ Multicast(m) /\ running
        /\ head' = head /\ astray \subseteq astray' /\ kneigh' = kneigh
    BY <1>4 DEF RouteAdd, Change, tables, IsRoute
  <2> QED BY <1>3, <2>1
<1>5. ASSUME NEW s \in Route, RouteDel(s) PROVE Goal
  <2> DEFINE m == [type |-> "DELROUTE", route |-> s]
  <2>1. /\ m \in Msg /\ IsRoute(m) /\ Multicast(m) /\ running
        /\ head' = head /\ astray \subseteq astray' /\ kneigh' = kneigh
    BY <1>5 DEF RouteDel, Change, tables, IsRoute
  <2> QED BY <1>3, <2>1
<1>6. ASSUME NEW s \in Route, RouteReplace(s) PROVE Goal
  <2> DEFINE m == [type |-> "NEWROUTE", route |-> s]
  <2>1. /\ m \in Msg /\ IsRoute(m) /\ Multicast(m) /\ running
        /\ head' = head /\ astray \subseteq astray' /\ kneigh' = kneigh
    BY <1>6 DEF RouteReplace, Change, tables, IsRoute
  <2> QED BY <1>3, <2>1
<1>7. ASSUME NEW k \in Neigh, NEW a \in Mac, NeighUpdate(k, a) PROVE Goal
  <2> DEFINE m == [type |-> "NEWNEIGH", neigh |-> k, mac |-> a]
  <2>1. /\ m \in Msg /\ ~ IsRoute(m) /\ Multicast(m) /\ running /\ head' = head
    BY <1>7 DEF NeighUpdate, Change, tables, IsRoute
  <2>2. /\ kneigh' = [kneigh EXCEPT ![k] = a]
        /\ astray' = astray \union {x \in {k} : kneigh[x] \notin {NoMac, a}}
    BY <1>7 DEF NeighUpdate
  <2>3. CASE k = n
    <3>1. NeighEvent(n)[m] = [op |-> "new", val |-> a]
      BY <2>1, <2>3 DEF NeighEvent
    <3>2. a # NoMac /\ kneigh[n] \in {NoMac, a} /\ kneigh'[n] = a /\ astray \subseteq astray'
      BY <1>1, <2>2, <2>3
    <3> HIDE DEF m
    <3> DEFINE e == NeighEvent(n)[m]
    <3>3. e.op = "new" /\ e.val # NoMac /\ kneigh[n] \in {NoMac, e.val} /\ kneigh'[n] = e.val
      BY <3>1, <3>2
    <3> QED BY <2>1, <3>2, <3>3, NeighAnnounced DEF Goal
  <2>4. CASE k # n
    <3>1. NeighEvent(n)[m].op = "other"
      BY <1>2, <2>1, <2>4
    <3>2. kneigh'[n] = kneigh[n] /\ astray \subseteq astray'
      BY <1>1, <2>2, <2>4
    <3> HIDE DEF m
    <3> QED BY <2>1, <3>1, <3>2, NeighAnnounced DEF Goal
  <2> QED BY <2>3, <2>4
<1>8. ASSUME NEW k \in Neigh, NeighFailed(k) PROVE Goal
  <2> DEFINE m == [type |-> "NEWNEIGH", neigh |-> k, mac |-> NoMac]
  <2>1. /\ m \in Msg /\ ~ IsRoute(m) /\ Multicast(m) /\ running /\ head' = head
    BY <1>8 DEF NeighFailed, Change, tables, IsRoute
  <2>2. kneigh' = [kneigh EXCEPT ![k] = NoMac] /\ astray' = astray \union {k}
    BY <1>8 DEF NeighFailed
  <2>3. NeighEvent(n)[m].op = "other"
    BY <1>2, <2>1, <2>2
  <2>4. kneigh'[n] = kneigh[n] /\ astray \subseteq astray'
    BY <1>1, <2>2
  <2> HIDE DEF m
  <2> QED BY <2>1, <2>3, <2>4, NeighAnnounced DEF Goal
<1>9. ASSUME NEW k \in Neigh, NeighDel(k) PROVE Goal
  <2> DEFINE m == [type |-> "DELNEIGH", neigh |-> k, mac |-> NoMac]
  <2>1. /\ m \in Msg /\ ~ IsRoute(m) /\ Multicast(m) /\ running /\ head' = head
        /\ astray \subseteq astray'
    BY <1>9 DEF NeighDel, Change, tables, IsRoute
  <2>2. kneigh' = [kneigh EXCEPT ![k] = NoMac]
    BY <1>9 DEF NeighDel
  <2>3. CASE k = n
    <3>1. NeighEvent(n)[m] = [op |-> "del", val |-> NoMac]
      BY <2>1, <2>3 DEF NeighEvent
    <3>2. kneigh'[n] = NoMac
      BY <1>1, <2>2, <2>3
    <3> HIDE DEF m
    <3> QED BY <2>1, <3>1, <3>2, NeighAnnounced DEF Goal
  <2>4. CASE k # n
    <3>1. NeighEvent(n)[m].op = "other"
      BY <1>2, <2>1, <2>4
    <3>2. kneigh'[n] = kneigh[n]
      BY <1>1, <2>2, <2>4
    <3> HIDE DEF m
    <3> QED BY <2>1, <3>1, <3>2, NeighAnnounced DEF Goal
  <2> QED BY <2>3, <2>4
<1>10. ASSUME running, ~ overrun, n \notin astray
       PROVE  /\ Follows(Image(NeighEvent(n), sock), neigh_lookup(n), kneigh[n], NoMac)
              /\ Places(BucketOf(n), n.addr) # {} => neigh_lookup(n) # NoMac
  BY <1>10 DEF NeighChain
<1>11. ASSUME netlink_process PROVE Goal
  <2> DEFINE m == Head(sock)
             e == NeighEvent(n)[m]
  <2>1. /\ running /\ ~ overrun /\ sock # <<>> /\ sock' = Tail(sock)
        /\ kneigh' = kneigh /\ n \notin astray
    BY <1>11 DEF netlink_process, kernel
  <2>2. m \in Msg
    BY <2>1, ReadIs
  <2>3. Places(BucketOf(n), n.addr) # {} => neigh_lookup(n) # NoMac
    BY <1>10, <2>1
  <2>4. CASE IsRoute(m)
    <3>1. head' = head
      <4>1. netlink_route(m) /\ m \in RouteMsg
        BY <1>11, <2>1, <2>4, ReadIs DEF netlink_process
      <4> QED BY <4>1, RouteStepTypes
    <3>2. neigh_lookup(n)' = neigh_lookup(n) /\ BucketOf(n)' = BucketOf(n)
      BY <3>1 DEF neigh_lookup, BucketOf, neigh_key_generate, Places, First
    <3>3. e.op = "other"
      BY <1>2, <2>2, <2>4
    <3> QED BY <2>1, <2>3, <3>2, <3>3, NeighRead DEF Goal
  <2>5. CASE ~ IsRoute(m)
    <3>1. netlink_neigh(m) /\ m \in NeighMsg
      BY <1>11, <2>1, <2>5, ReadIs DEF netlink_process
    <3>2. CASE m.neigh # n
      <4>1. /\ neigh_lookup(n)' = neigh_lookup(n)
            /\ Places(BucketOf(n)', n.addr) = {} <=> Places(BucketOf(n), n.addr) = {}
        BY <3>1, <3>2, NeighLookupStep
      <4>2. e.op = "other"
        BY <1>2, <2>2, <3>2
      <4> QED BY <2>1, <2>3, <4>1, <4>2, NeighRead DEF Goal
    <3>3. CASE m.neigh = n /\ m.type = "NEWNEIGH"
      <4>1. e = [op |-> "new", val |-> m.mac]
        BY <2>2, <2>5, <3>3 DEF NeighEvent
      <4>2. neigh_lookup(n) \in {NoMac, m.mac} /\ m.mac # NoMac
        <5> DEFINE V == Mac \union {NoMac}
                   g == NeighEvent(n)
        <5>1. g \in [Msg -> Event(V)] /\ sock \in Seq(Msg) /\ sock # <<>>
          BY <2>1, EventTypes DEF Types
        <5>2. Follows(Image(g, sock), neigh_lookup(n), kneigh[n], NoMac)
          BY <1>10, <2>1
        <5>3. g[Head(sock)].op = "new" /\ g[Head(sock)].val = m.mac
          BY <4>1
        <5> HIDE DEF g, V, m
        <5> QED BY ONLY <5>1, <5>2, <5>3, FollowsReadNew
      <4>3. neigh_lookup(n)' = IF Places(BucketOf(n), n.addr) = {} THEN m.mac ELSE neigh_lookup(n)
        BY <3>1, <3>3, NeighLookupStep
      <4>4. neigh_lookup(n)' = m.mac
        BY <2>3, <4>2, <4>3
      <4> HIDE DEF m
      <4>5. e.op = "new" /\ e.val = m.mac
        BY <4>1
      <4> HIDE DEF e
      <4>6. Follows(Image(NeighEvent(n), sock'), neigh_lookup(n)', kneigh'[n], NoMac)
        BY <2>1, <4>4, <4>5, NeighRead DEF e, m
      <4> QED BY <4>2, <4>4, <4>6 DEF Goal
    <3>4. CASE m.neigh = n /\ m.type # "NEWNEIGH"
      <4>1. e = [op |-> "del", val |-> NoMac]
        BY <2>2, <2>5, <3>4 DEF NeighEvent
      <4>2. neigh_lookup(n)' = NoMac /\ Places(BucketOf(n)', n.addr) = {}
        BY <3>1, <3>4, NeighLookupStep
      <4>3. e.op = "del"
        BY <4>1
      <4> HIDE DEF e
      <4>4. Follows(Image(NeighEvent(n), sock'), neigh_lookup(n)', kneigh'[n], NoMac)
        BY <2>1, <4>2, <4>3, NeighRead DEF e
      <4> QED BY <4>2, <4>4 DEF Goal
    <3> QED BY <3>2, <3>3, <3>4
  <2> QED BY <2>4, <2>5
<1>12. ASSUME ProcessNoMemory PROVE Goal
  <2> DEFINE m == Head(sock)
             e == NeighEvent(n)[m]
  <2>1. /\ running /\ ~ overrun /\ sock # <<>> /\ sock' = Tail(sock)
        /\ kneigh' = kneigh /\ head' = head /\ n \notin astray
        /\ astray' = astray \union {IF IsRoute(m) THEN Key(m.route) ELSE m.neigh}
    BY <1>12 DEF ProcessNoMemory, kernel, tables
  <2>2. m \in Msg
    BY <2>1, ReadIs
  <2>3. e.op = "other"
    BY <1>2, <2>1, <2>2
  <2>4. neigh_lookup(n)' = neigh_lookup(n) /\ BucketOf(n)' = BucketOf(n)
    BY <2>1 DEF neigh_lookup, BucketOf, neigh_key_generate, Places, First
  <2> HIDE DEF m
  <2>5. Follows(Image(NeighEvent(n), sock'), neigh_lookup(n)', kneigh'[n], NoMac)
    BY <2>1, <2>3, <2>4, NeighRead DEF m
  <2> QED BY <1>10, <2>1, <2>4, <2>5 DEF Goal
<1>13. ASSUME ReadError PROVE Goal
  BY <1>13 DEF ReadError
<1>14. ASSUME UNCHANGED vars PROVE Goal
  <2>1. neigh_lookup(n)' = neigh_lookup(n) /\ BucketOf(n)' = BucketOf(n)
    BY <1>14 DEF vars, neigh_lookup, BucketOf, neigh_key_generate, Places, First
  <2>2. running /\ ~ overrun /\ n \notin astray /\ sock' = sock /\ kneigh' = kneigh
    BY <1>14 DEF vars
  <2> QED BY <1>10, <2>1, <2>2 DEF Goal
<1>15. Goal
  BY <1>4, <1>5, <1>6, <1>7, <1>8, <1>9, <1>11, <1>12, <1>13, <1>14 DEF Next
<1> QED BY <1>15 DEF Goal

-----------------------------------------------------------------------------
(* The invariant at first. *)
LEMMA InitIInv == Init => IInv
<1> SUFFICES ASSUME Init PROVE IInv
  OBVIOUS
<1>1. Types /\ Buckets
  BY InitTypes
<1>2. OnePerKey
  BY DEF Init, OnePerKey
<1>3. ASSUME NEW g, NEW v, NEW none PROVE Follows(Image(g, sock), v, v, none)
  <2>1. Image(g, sock) = <<>>
    BY DEF Init, Image
  <2> QED BY <2>1 DEF Follows, Chain, Front
<1>4. RouteChain
  <2> SUFFICES ASSUME NEW r \in Route, Key(r) \notin astray \union early
               PROVE  Mine(r) = Its(r)
    BY <1>3 DEF RouteChain
  <2>1. Mine(r) = {}
    BY NetlinkAssumption DEF Init, Mine
  <2>2. Its(r) = {}
    BY DEF Init, Its
  <2> QED BY <2>1, <2>2
<1>5. NeighChain
  <2> SUFFICES ASSUME NEW n \in Watched
               PROVE  neigh_lookup(n) = kneigh[n] /\ Places(BucketOf(n), n.addr) = {}
    BY <1>3 DEF NeighChain
  <2>1. /\ n \in Neigh /\ n.family \in Family /\ n.ifindex \in Port
        /\ neigh_key_generate(n.addr) \in Bucket
    BY DEF Watched, neigh_key_generate, Bucket
  <2>2. BucketOf(n) = <<>>
    BY <2>1 DEF Init, BucketOf, neigh_alloc
  <2>3. Places(BucketOf(n), n.addr) = {}
    BY <2>2 DEF Places
  <2>4. neigh_lookup(n) = NoMac /\ kneigh[n] = NoMac
    BY <2>1, <2>3 DEF neigh_lookup, BucketOf, Init
  <2> QED BY <2>3, <2>4
<1> QED BY <1>1, <1>2, <1>4, <1>5 DEF IInv

(* The invariant through a step. *)
LEMMA StepIInv == IInv /\ [Next]_vars => IInv'
BY TypesStep, OnePerKeyStep, RouteChainStep, NeighChainStep DEF IInv

(* The inductive invariant holds in every state.                           *)
THEOREM NetlinkInvariant == Spec => []IInv
BY InitIInv, StepIInv, PTL DEF Spec

(* The tables of a thread are well formed whatever the kernel announces:   *)
(* the FIB of a family has entries netlink_route makes for that family,    *)
(* and hash_add and hash_delete keep every address in its bucket, once.    *)
THEOREM NetlinkTypes == Spec => []TypeOK
<1>1. IInv => TypeOK
  <2> SUFFICES ASSUME IInv PROVE TypeOK
    OBVIOUS
  <2>1. Types /\ Buckets
    BY DEF IInv
  <2>2. \A f \in Family, p \in Port, b \in Bucket :
          LET s == head[f][p][b]
          IN  \A i, j \in DOMAIN s : /\ neigh_key_generate(s[i].addr) = b
                                     /\ s[i].addr = s[j].addr => i = j
    BY <2>1 DEF Buckets, Unique
  <2> QED BY <2>1, <2>2 DEF Types, TypeOK, FibEntry
<1> QED BY <1>1, NetlinkInvariant, PTL

(* The events of a key are all about something else when no message in the *)
(* buffer is about it.                                                     *)
LEMMA FollowsSettled ==
  ASSUME NEW g, NEW q, NEW mine, NEW its, NEW none,
         Follows(Image(g, q), mine, its, none), Len(q) \in Nat,
         \A i \in 1 .. Len(q) : g[q[i]].op = "other"
  PROVE  mine = its
<1>1. Len(Image(g, q)) = Len(q)
  BY DEF Image
<1>2. \A i \in 1 .. Len(q) : Image(g, q)[i].op = "other"
  BY DEF Image
<1> QED BY <1>1, <1>2 DEF Follows, Front

(* netlink_process keeps the FIB in step with the kernel's routes: for a   *)
(* prefix and interface that did not go astray it has exactly what the     *)
(* kernel has, as soon as no message about them is waiting.                *)
THEOREM NetlinkRoutesFollow == Spec => []RoutesFollow
<1>1. IInv => RoutesFollow
  <2> SUFFICES ASSUME IInv, running, ~ overrun, NEW r \in Route,
                      Key(r) \notin astray \union early,
                      ~ \E i \in DOMAIN sock : IsRoute(sock[i]) /\ Key(sock[i].route) = Key(r)
               PROVE  RouteSynced(r)
    BY DEF RoutesFollow
  <2> DEFINE g == RouteEvent(Key(r))
  <2>1. Follows(Image(g, sock), Mine(r), Its(r), {})
    BY DEF IInv, RouteChain
  <2>2. sock \in Seq(Msg) /\ Len(sock) \in Nat /\ DOMAIN sock = 1 .. Len(sock)
    BY DEF IInv, Types
  <2>3. \A i \in 1 .. Len(sock) : g[sock[i]].op = "other"
    BY <2>2 DEF RouteEvent
  <2> HIDE DEF g
  <2>4. Mine(r) = Its(r)
    BY ONLY <2>1, <2>2, <2>3, FollowsSettled
  <2>5. Entry(r).prefix = r.prefix /\ Entry(r).id = r.ifindex
    BY DEF Entry
  <2>6. Mine(r) = {e \in fib[r.family] : RT(r.family)!SameRoute(e, Entry(r))}
    BY <2>5, SameRouteIs DEF Mine
  <2> QED BY <2>4, <2>6 DEF RouteSynced, Its
<1> QED BY <1>1, NetlinkInvariant, PTL

(* A lookup in a port's neighbour table gives the kernel's MAC address for *)
(* the neighbour, whatever shares its bucket, as soon as no message about  *)
(* it is waiting; unless the neighbour went astray.                        *)
THEOREM NetlinkNeighsFollow == Spec => []NeighsFollow
<1>1. IInv => NeighsFollow
  <2> SUFFICES ASSUME IInv, running, ~ overrun, NEW n \in Watched, n \notin astray,
                      ~ \E i \in DOMAIN sock : ~ IsRoute(sock[i]) /\ sock[i].neigh = n
               PROVE  neigh_lookup(n) = kneigh[n]
    BY DEF NeighsFollow, Watched
  <2> DEFINE g == NeighEvent(n)
  <2>1. Follows(Image(g, sock), neigh_lookup(n), kneigh[n], NoMac)
    BY DEF IInv, NeighChain
  <2>2. sock \in Seq(Msg) /\ Len(sock) \in Nat /\ DOMAIN sock = 1 .. Len(sock)
    BY DEF IInv, Types
  <2>3. \A i \in 1 .. Len(sock) : g[sock[i]].op = "other"
    BY <2>2 DEF NeighEvent
  <2> HIDE DEF g
  <2> QED BY ONLY <2>1, <2>2, <2>3, FollowsSettled
<1> QED BY <1>1, NetlinkInvariant, PTL
=============================================================================
