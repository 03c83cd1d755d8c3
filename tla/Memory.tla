------------------------------- MODULE Memory -------------------------------
(***************************************************************************)
(* The buddy allocator of lib/memory.c, which every FIB, LPM and neighbour *)
(* entry of a thread comes from.  A thread has an arena of its own, so a   *)
(* call is one step.                                                       *)
(*                                                                         *)
(* A struct ixmap_mnode is named by its place in the binary tree: the root *)
(* is 1, the children of n are 2n and 2n+1.  The memory of the mnodes      *)
(* themselves comes from numa_alloc_onnode and may run out.                *)
(***************************************************************************)
EXTENDS Integers, FiniteSetsExt

CONSTANTS
  ArenaSize,  \* size of the arena
  Requests,   \* sizes that are asked for, cache-line aligned, header included
  MaxFail     \* bound on the splits that fail during one call

ASSUME MemoryAssumption ==
  /\ ArenaSize \in Nat \ {0}
  /\ Requests \subseteq Nat \ {0}
  /\ MaxFail \in Nat

(* A node is split only if its halves are large enough for some request. *)
Node == 1 .. 2 * ArenaSize

VARIABLES
  tree,       \* the mnodes reachable from desc->node
  allocated,  \* those whose field allocated is set
  live,       \* the mnodes whose memory the program holds
  twice       \* history: since the arena was made, two splits failed in one call

vars == <<tree, allocated, live, twice>>

(* node->size, node->ptr and the other child of node's parent. *)
Size[n \in Node] == IF n = 1 THEN ArenaSize ELSE Size[n \div 2] \div 2
Ptr[n \in Node]  == IF n = 1 THEN 0 ELSE Ptr[n \div 2] + Size[n] * (n % 2)
Buddy(n)         == IF n % 2 = 0 THEN n + 1 ELSE n - 1

(* n and all nodes above it. *)
Path[n \in Node] == IF n = 1 THEN {1} ELSE {n} \union Path[n \div 2]
Below(roots)     == {n \in Node : Path[n] \cap roots # {}}

-----------------------------------------------------------------------------
(* _ixmap_mem_alloc(node, size) on node n: ret is the node it returns (0   *)
(* for NULL), made the mnodes it creates, cut the child pointers it        *)
(* overwrites.                                                             *)
Absent == [ret |-> 0, made |-> {}, cut |-> {}]

(* The call comes from the root and goes below a node that is not marked   *)
(* only by splitting it: what it finds there is new and not marked.        *)
Fresh(n)  == ~ (Path[n] \ {n} \subseteq allocated)
Unused(n) == Fresh(n) \/ n \notin allocated

(* Mutant: a node in use counts as free if it is large enough. *)
TakeInUse(n, size) == [Absent EXCEPT !.ret = IF Size[n] >= size THEN n ELSE 0]

Take(n, size) ==
  [Absent EXCEPT !.ret = IF Unused(n) /\ Size[n] >= size THEN n ELSE 0]

(* Mutant: the second child is not tried. *)
FirstOnly(l, r) == l

(* The loop over the two children stops at the first that returns a node. *)
FirstOf(l, r) ==
  IF l.ret # 0 THEN l
  ELSE [ret |-> r.ret, made |-> l.made \union r.made, cut |-> l.cut \union r.cut]

(* Mutant: that the second child could not be made is not noticed. *)
SplitUnnoticed(n, fails, sub) ==
  IF <<n, 0>> \in fails THEN [Absent EXCEPT !.cut = {2 * n}]
  ELSE [ret |-> sub.ret,
        made |-> sub.made \union {2 * n + k : k \in {j \in {0, 1} : <<n, j>> \notin fails}},
        cut |-> sub.cut \union {2 * n, 2 * n + 1}]

(* The split of n fails on its child k if <<n, k>> \in fails: a first child *)
(* that was made is released, a second one that was not tried keeps its    *)
(* old value.  sub is what the loop over the children gives.               *)
Split(n, fails, sub) ==
  IF <<n, 0>> \in fails THEN [Absent EXCEPT !.cut = {2 * n}]
  ELSE IF <<n, 1>> \in fails THEN [Absent EXCEPT !.cut = {2 * n, 2 * n + 1}]
  ELSE [ret |-> sub.ret,
        made |-> sub.made \union {2 * n, 2 * n + 1},
        cut |-> sub.cut \union {2 * n, 2 * n + 1}]

AllocAt(n, size, fails, sub) ==
  IF ~ Fresh(n) /\ n \notin tree THEN Absent
  ELSE IF Size[n] \div 2 < size THEN Take(n, size)
  ELSE IF Unused(n) THEN Split(n, fails, sub)
  ELSE sub

AllocFrom(size, fails) ==
  LET try[n \in Node] ==
        AllocAt(n, size, fails, FirstOf(try[2 * n], try[2 * n + 1]))
  IN  try[1]

(* The splits that fail in this call: any, each for its first or its second *)
(* child, as far as the bound goes.                                        *)
FailSets ==
  LET splits == {n \in Node : 2 * n + 1 \in Node} \X {0, 1}
  IN  UNION {kSubset(k, splits) : k \in 0 .. MaxFail}

(* The memory of a node in use was handed out a second time.  The owners   *)
(* then overwrite each other's headers, from which ixmap_mem_free takes    *)
(* the node: the program goes on only until the arena is destroyed.        *)
Overlapping == \E m, n \in live : m # n /\ m \in Path[n]

(* ixmap_mem_alloc: the node found and all above it are marked. *)
ixmap_mem_alloc(size) ==
  /\ tree # {} /\ ~ Overlapping
  /\ \E fails \in FailSets :
       LET a == AllocFrom(size, fails)
           got == IF a.ret = 0 THEN {} ELSE {a.ret}
       IN  /\ tree' = (tree \ Below(a.cut)) \union a.made
           /\ allocated' = (allocated \ Below(a.cut)) \union UNION {Path[n] : n \in got}
           /\ live' = live \union got
           /\ twice' = (twice \/ Cardinality(fails) > 1)

(* Mutant: coalescing stops after one level. *)
CoalesceOnce ==
  LET up[n \in Node] ==
        IF n = 1 THEN {1}
        ELSE IF Buddy(n) \in allocated THEN {n}
        ELSE {n, n \div 2}
  IN  up

(* _ixmap_mem_free clears allocated and, while the buddy is free too,      *)
(* releases both and goes on with the parent.                              *)
Coalesced ==
  LET up[n \in Node] ==
        IF n = 1 THEN {1}
        ELSE IF Buddy(n) \in allocated THEN {n}
        ELSE {n} \union up[n \div 2]
  IN  up

(* Mutant: nothing is released. *)
ReleasedNever(chain) == {}

(* The nodes of the chain that are released with their buddies: all but    *)
(* the last one.                                                           *)
Released(chain) ==
  LET gone == {n \in chain : n # 1 /\ n \div 2 \in chain}
  IN  gone \union {Buddy(n) : n \in gone}

(* ixmap_mem_free of memory the program holds. *)
ixmap_mem_free(n) ==
  /\ n \in live /\ ~ Overlapping
  /\ LET chain == Coalesced[n]
         gone == Below(Released(chain))
     IN  /\ tree' = tree \ gone
         /\ allocated' = allocated \ (chain \union gone)
         /\ live' = live \ {n}
         /\ UNCHANGED twice

(* ixmap_mem_destroy releases the whole tree; ixmap_mem_init makes a root. *)
ixmap_mem_destroy ==
  /\ tree # {}
  /\ tree' = {} /\ allocated' = {} /\ live' = {} /\ twice' = FALSE

ixmap_mem_init ==
  /\ tree = {}
  /\ tree' = {1} /\ UNCHANGED <<allocated, live, twice>>

Init == tree = {1} /\ allocated = {} /\ live = {} /\ twice = FALSE

Next ==
  \/ \E size \in Requests : ixmap_mem_alloc(size)
  \/ \E n \in live : ixmap_mem_free(n)
  \/ ixmap_mem_destroy
  \/ ixmap_mem_init

Spec == Init /\ [][Next]_vars

-----------------------------------------------------------------------------
(***************************************************************************)
(*                               Properties                                *)
(***************************************************************************)

(* The marks and the memory in use are those of mnodes that exist. *)
TypeOK ==
  /\ tree \subseteq Node
  /\ allocated \subseteq tree
  /\ live \subseteq allocated
  /\ twice \in BOOLEAN

(* Two pieces of memory in use never overlap, and all are in the arena,    *)
(* unless the splits of both halves of a node failed in one call: the loop *)
(* over the children then returns NULL and leaves them below a node that   *)
(* is not marked.  A single failure per call, however often, is harmless.  *)
NoOverlap ==
  ~ twice =>
    /\ \A n \in live : Ptr[n] + Size[n] <= ArenaSize
    /\ \A m, n \in live :
         m # n => Ptr[m] + Size[m] <= Ptr[n] \/ Ptr[n] + Size[n] <= Ptr[m]

(* _ixmap_mem_free dereferences the parent and the buddy of a marked node  *)
(* without a test: both exist, whatever splits failed before and with what *)
(* they left in the tree, as long as no memory is handed out twice.  (With *)
(* the types: what is marked or in use is never cut off the tree.)         *)
BuddyPresent ==
  /\ TypeOK
  /\ ~ Overlapping =>
       \A n \in allocated \ {1} : n \div 2 \in allocated /\ Buddy(n) \in tree

(* The mark of a node says exactly whether something below it is in use,   *)
(* whatever splits failed before: nothing stays marked after its memory    *)
(* was freed, and the memory in use is never taken for free.               *)
MarkedIffUsed ==
  \A n \in tree : n \in allocated <=> \E m \in live : n \in Path[m]

(* When all memory has been freed, the arena is one piece again, unless    *)
(* two splits failed in one call.                                          *)
FullyCoalesced == live = {} /\ ~ twice => tree \subseteq {1}

(* A request succeeds whenever some free node is large enough for it, no   *)
(* matter where in the tree and what splits failed before: the search does *)
(* not stop in a full half.                                                *)
FitIsFound ==
  \A size \in Requests :
    (\E n \in tree \ allocated : Size[n] >= size) => AllocFrom(size, {}).ret # 0

=============================================================================
