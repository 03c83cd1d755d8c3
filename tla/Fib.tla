-------------------------------- MODULE Fib ---------------------------------
(***************************************************************************)
(* The forwarding information base of a thread, src/fib.c, and the         *)
(* multi-level table src/lpm.c it is kept in.  A thread has tables of its  *)
(* own, so a call is one step.                                             *)
(*                                                                         *)
(* A struct lpm_node is named by the address bits that lead to it: First   *)
(* bits select a node of table->node, each next_table takes Stride bits    *)
(* more.  Prefixes and addresses are sequences of bits.  A struct          *)
(* fib_entry is named by its contents: at most one with a given prefix and *)
(* id outlives the call that creates it (Refines).                         *)
(***************************************************************************)
EXTENDS Integers, Sequences, FiniteSets

CONSTANTS
  First, Stride,  \* 16 and 8 in the code
  AddrLen,        \* 32 or 128
  Route,          \* the routes netlink may announce: prefix, id and nexthop
  MaxFail         \* bound on the allocations that fail

Bit == {0, 1}

(* The depths at which there are nodes. *)
Depth == {d \in First .. AddrLen : (d - First) % Stride = 0}
Node  == UNION {[1 .. d -> Bit] : d \in Depth}
Addr  == [1 .. AddrLen -> Bit]

ASSUME FibAssumption ==
  /\ First \in Nat \ {0} /\ Stride \in Nat \ {0}
  /\ AddrLen \in Depth
  /\ MaxFail \in Nat
  /\ \A r \in Route : r.prefix \in UNION {[1 .. n -> Bit] : n \in 0 .. AddrLen}

VARIABLES
  list,   \* node->head: for each node its fib_entries, first to last
  table,  \* the nodes whose next_table is allocated
  ref,    \* entry->refcount; a fib_entry is allocated while it is not 0
  fails,  \* number of allocations that failed
  fault   \* a fib_entry was freed twice, or while it is still in a list

vars == <<list, table, ref, fails, fault>>

-----------------------------------------------------------------------------
Covers(p, a) == Len(p) <= Len(a) /\ \A i \in 1 .. Len(p) : p[i] = a[i]

(* The depth of the nodes that hold a prefix of length len. *)
EntryDepth(len) == CHOOSE d \in Depth : d >= len /\ \A c \in Depth : c >= len => d <= c

(* node[index | i] for every i < range, and the nodes above them whose     *)
(* next_table leads there.                                                 *)
NodesOf(p)  == {n \in [1 .. EntryDepth(Len(p)) -> Bit] : Covers(p, n)}
TablesOf(p) == {SubSeq(p, 1, d) : d \in {c \in Depth : c < EntryDepth(Len(p))}}

(* The loops visit the nodes in the order of their indices. *)
Before(m, n) ==
  \E i \in 1 .. Len(n) : m[i] < n[i] /\ \A j \in 1 .. i - 1 : m[j] = n[j]
NodesBefore(n, p) == {m \in NodesOf(p) : Before(m, n)}

(* Mutant: the id is not compared. *)
IdentifyLength(e, r) == Len(e.prefix) = Len(r.prefix)

(* fib_entry_identify: the prefix itself is not compared. *)
fib_entry_identify(e, r) == e.id = r.id /\ Len(e.prefix) = Len(r.prefix)

Matches(s, r) == {i \in DOMAIN s : fib_entry_identify(s[i], r)}

(* The nodes of r's range that hold such an entry. *)
Holding(r) == {n \in NodesOf(r.prefix) : Matches(list[n], r) # {}}

(* Mutant: the entry goes to the head of the list. *)
InsertUnsorted(s, r) == <<r>> \o s

(* lpm_entry_insert: r goes behind the last entry with a longer prefix,    *)
(* i.e. fib_entry_compare.                                                 *)
lpm_entry_insert(s, r) ==
  LET prior == {i \in DOMAIN s : Len(s[i].prefix) > Len(r.prefix)}
      k     == CHOOSE i \in prior \union {0} : \A j \in prior : j <= i
  IN  [i \in 1 .. Len(s) + 1 |->
         IF i <= k THEN s[i] ELSE IF i = k + 1 THEN r ELSE s[i - 1]]

(* lpm_entry_delete: the first match is taken out. *)
FirstMatch(s, r) == CHOOSE i \in Matches(s, r) : \A j \in Matches(s, r) : i <= j
lpm_entry_delete(s, r) ==
  [i \in 1 .. Len(s) - 1 |-> IF i < FirstMatch(s, r) THEN s[i] ELSE s[i + 1]]

(* Mutant: only the deepest of the emptied tables is freed. *)
PrunedDeepest(lists, tables, path) ==
  LET Child(k) == {n \in Node : Len(n) = Len(k) + Stride /\ Covers(k, n)}
  IN  tables \ {m \in path : /\ \A k \in path : Len(k) <= Len(m)
                             /\ \A n \in Child(m) : lists[n] = <<>>}

(* From the deepest table of path up, each is freed that has no entry and  *)
(* no table left in it.                                                    *)
Pruned(lists, tables, path) ==
  LET Child(k) == {n \in Node : Len(n) = Len(k) + Stride /\ Covers(k, n)}
      Kept(m)  == \E k \in path : /\ Len(k) >= Len(m)
                                  /\ \E n \in Child(k) :
                                       lists[n] # <<>> \/ n \in tables \ path
  IN  tables \ {m \in path : ~ Kept(m)}

-----------------------------------------------------------------------------
Init ==
  /\ list = [n \in Node |-> <<>>]
  /\ table = {}
  /\ ref = [r \in Route |-> 0]
  /\ fails = 0
  /\ fault = FALSE

(* lpm_add of a new entry r to the nodes in at. *)
Inserted(r, at) ==
  [n \in Node |-> IF n \in at THEN lpm_entry_insert(list[n], r) ELSE list[n]]

(* Mutant: only a route with the same nexthop is refused. *)
UpdateOtherNexthop(r) ==
  /\ ~ fault
  /\ ref[r] = 0
  /\ list' = Inserted(r, NodesOf(r.prefix))
  /\ table' = table \union TablesOf(r.prefix)
  /\ ref' = [ref EXCEPT ![r] = @ + Cardinality(NodesOf(r.prefix))]
  /\ UNCHANGED <<fails, fault>>

(* Mutant: fib_route_update pulls the entry, once, and not each insertion. *)
UpdatePullOnce(r) ==
  /\ ~ fault
  /\ Holding(r) = {}
  /\ list' = Inserted(r, NodesOf(r.prefix))
  /\ table' = table \union TablesOf(r.prefix)
  /\ ref' = [ref EXCEPT ![r] = @ + 1]
  /\ UNCHANGED <<fails, fault>>

(* fib_route_update succeeds. *)
fib_route_update(r) ==
  /\ ~ fault
  /\ Holding(r) = {}
  /\ list' = Inserted(r, NodesOf(r.prefix))
  /\ table' = table \union TablesOf(r.prefix)
  /\ ref' = [ref EXCEPT ![r] = @ + Cardinality(NodesOf(r.prefix))]
  /\ UNCHANGED <<fails, fault>>

(* The loop of lpm_add stops at node n.  On the first level the entries    *)
(* inserted so far are deleted again, which frees r, and fib_route_update  *)
(* frees it once more.  Further down entry_allocated is never incremented, *)
(* so they stay, and fib_route_update frees r under them.                  *)
StopAt(r, n) ==
  LET done == NodesBefore(n, r.prefix)
  IN  /\ IF Len(r.prefix) <= First
         THEN UNCHANGED <<list, table, ref>>
         ELSE /\ list' = Inserted(r, done)
              /\ ref' = [ref EXCEPT ![r] = @ + Cardinality(done)]
              /\ table' = Pruned(list', table \union TablesOf(r.prefix), TablesOf(r.prefix))
      /\ fault' = (done # {})

(* fib_route_update fails because a node has an entry of this id and       *)
(* length.                                                                 *)
UpdateExists(r) ==
  /\ ~ fault
  /\ \E n \in Holding(r) :
       /\ \A m \in Holding(r) : ~ Before(m, n)
       /\ StopAt(r, n)
  /\ UNCHANGED fails

(* fib_route_update fails because there is no memory for an lpm_entry. *)
UpdateNoEntry(r) ==
  /\ ~ fault
  /\ fails < MaxFail
  /\ fails' = fails + 1
  /\ \E n \in NodesOf(r.prefix) :
       /\ \A m \in Holding(r) : ~ Before(m, n)
       /\ StopAt(r, n)

(* Mutant: the tables above the one that fails are freed unseen. *)
UpdateNoTableFree(r) ==
  /\ ~ fault
  /\ fails < MaxFail
  /\ fails' = fails + 1
  /\ \E m \in TablesOf(r.prefix) \ table :
       table' = table \ {k \in TablesOf(r.prefix) : Len(k) < Len(m)}
  /\ UNCHANGED <<list, ref, fault>>

(* fib_route_update fails because there is no memory for the next_table of *)
(* m.                                                                      *)
UpdateNoTable(r) ==
  /\ ~ fault
  /\ fails < MaxFail
  /\ fails' = fails + 1
  /\ \E m \in TablesOf(r.prefix) \ table :
       LET path == {k \in TablesOf(r.prefix) : Len(k) < Len(m)}
       IN  table' = Pruned(list, table \union path, path)
  /\ UNCHANGED <<list, ref, fault>>

(* lpm_delete at the nodes in at; fib_entry_put for each entry taken out. *)
Deleted(r, at) ==
  /\ list' = [n \in Node |-> IF n \in at THEN lpm_entry_delete(list[n], r) ELSE list[n]]
  /\ ref' = [e \in Route |->
               ref[e] - Cardinality({n \in at : list[n][FirstMatch(list[n], r)] = e})]

(* fib_route_delete succeeds. *)
fib_route_delete(r) ==
  /\ ~ fault
  /\ TablesOf(r.prefix) \subseteq table
  /\ Holding(r) = NodesOf(r.prefix)
  /\ Deleted(r, NodesOf(r.prefix))
  /\ table' = Pruned(list', table, TablesOf(r.prefix))
  /\ UNCHANGED <<fails, fault>>

(* fib_route_delete fails: a table is missing, or the loop stops at a node *)
(* without an entry of this id and length.                                 *)
DeleteMissing(r) ==
  /\ ~ fault
  /\ IF TablesOf(r.prefix) \subseteq table
     THEN \E n \in NodesOf(r.prefix) \ Holding(r) :
            /\ NodesBefore(n, r.prefix) \subseteq Holding(r)
            /\ Deleted(r, NodesBefore(n, r.prefix))
     ELSE UNCHANGED <<list, ref>>
  /\ UNCHANGED <<table, fails, fault>>

(* fib_release, lpm_delete_all: every list is emptied and every entry in   *)
(* it put; a new process starts with fib_alloc.                            *)
fib_release ==
  LET reached == {n \in Node : \A d \in Depth : d < Len(n) => SubSeq(n, 1, d) \in table}
  IN  /\ ~ fault
      /\ list' = [n \in Node |-> IF n \in reached THEN <<>> ELSE list[n]]
      /\ table' = table \ reached
      /\ ref' = [e \in Route |->
                   ref[e] - Cardinality({n \in reached : \E i \in DOMAIN list[n] : list[n][i] = e})]
      /\ UNCHANGED <<fails, fault>>

Next ==
  \/ \E r \in Route :
       \/ fib_route_update(r) \/ UpdateExists(r)
       \/ UpdateNoEntry(r) \/ UpdateNoTable(r)
       \/ fib_route_delete(r) \/ DeleteMissing(r)
  \/ fib_release

Spec == Init /\ [][Next]_vars

-----------------------------------------------------------------------------
(* fib_lookup, lpm_lookup: the first entry of the deepest node with an     *)
(* entry on the way of the address a; the empty set for NULL.              *)
fib_lookup(a) ==
  LET way     == {SubSeq(a, 1, d) : d \in Depth}
      reached == {n \in way : \A m \in way : Len(m) < Len(n) => m \in table}
      hit     == {n \in reached : list[n] # <<>>}
  IN  {list[n][1] : n \in {k \in hit : \A m \in hit : Len(m) <= Len(k)}}

(* The routes that are installed: their fib_entry is referenced. *)
Installed == {r \in Route : ref[r] > 0}

RT == INSTANCE RouteTable WITH routes <- Installed

(* Types; no refcount is negative, no entry is in a list that is not a     *)
(* route's.                                                                *)
TypeOK ==
  /\ \A n \in Node : \A i \in DOMAIN list[n] : list[n][i] \in Route
  /\ DOMAIN list = Node
  /\ table \subseteq Node
  /\ ref \in [Route -> Nat]
  /\ fails \in 0 .. MaxFail
  /\ fault \in BOOLEAN

(* fib_lookup finds a route with the longest of the installed prefixes     *)
(* that match, and none only if none matches, although identical lengths   *)
(* share a list and entries of different lengths are spread over tables.   *)
LookupLongest ==
  ~ fault =>
    \A a \in Addr :
      /\ fib_lookup(a) \subseteq RT!Best(a)
      /\ RT!Best(a) # {} => fib_lookup(a) # {}

(* The refcount that fib_entry_pull and fib_entry_put keep is the number   *)
(* of lists the entry is in, so it is freed with the last one.  (With the  *)
(* types.)                                                                 *)
RefcountExact ==
  /\ TypeOK
  /\ \A r \in Route :
       ref[r] = Cardinality({n \in Node : \E i \in DOMAIN list[n] : list[n][i] = r})

(* lpm_add and lpm_delete leave no table behind that has nothing in it,    *)
(* also when an allocation further down fails; and no table hangs in a     *)
(* freed one.                                                              *)
NoEmptyTable ==
  \A m \in table :
    /\ \E n \in Node : Covers(m, n) /\ m # n /\ list[n] # <<>>
    /\ \A k \in Node : Covers(k, m) /\ k # m => k \in table

(* The FIB implements the abstract route table: spread over many lists, a  *)
(* route is still installed, removed or refused as a whole, and there is   *)
(* never a second one with its prefix and id.                              *)
Refines == RT!Spec

(* fib_route_update refuses a route, and fib_route_delete finds it, if and *)
(* only if one with its prefix and id is installed, although               *)
(* fib_entry_identify does not look at the prefix.  Both then see it at    *)
(* every node of the range, behind tables that are all there, and          *)
(* otherwise at none, so that lpm_add does not stop after it has inserted  *)
(* an entry and lpm_delete does not stop after it has taken one out.       *)
RefusedAsMeant ==
  ~ fault =>
    \A r \in Route :
      IF \E s \in Installed : RT!SameRoute(r, s)
        THEN Holding(r) = NodesOf(r.prefix) /\ TablesOf(r.prefix) \subseteq table
        ELSE Holding(r) = {}

(* A fib_route_update that succeeds adds its route, and a fib_route_delete *)
(* that succeeds takes out the one with its prefix and id and no other,    *)
(* although lists are shared with other prefixes and ids.                  *)
RouteMeant ==
  [][\A r \in Route :
       /\ fib_route_update(r) => RT!Install(r)
       /\ fib_route_delete(r) => RT!Remove(r)]_vars

(* An update that fails for want of memory leaves everything as it was,    *)
(* unless it had inserted an entry before (fault).                         *)
FailedUpdateHarmless ==
  [][fails' # fails /\ ~ fault' => UNCHANGED <<list, table, ref>>]_vars
=============================================================================
