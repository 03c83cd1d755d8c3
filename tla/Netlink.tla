------------------------------ MODULE Netlink -------------------------------
(***************************************************************************)
(* The routing messages of the kernel and what a thread makes of them:     *)
(* src/netlink.c, the neighbour tables of src/neigh.c and the hash tables  *)
(* of src/hash.c.  The FIBs are used through RouteTable, which Fib         *)
(* implements.  A thread has a socket and tables of its own, so the        *)
(* handler of a message is one step; the kernel changes its tables, and    *)
(* queues a message for each change, between any two.                      *)
(***************************************************************************)
EXTENDS Integers, Sequences, FiniteSets

CONSTANTS
  Port,        \* the ifindex of each port's TAP interface
  Route,       \* kernel routes: family, table, metric, prefix, ifindex, gateway
  Neigh,       \* kernel neighbours: family, ifindex, addr
  Mac,
  NoGateway, NoMac,  \* the attribute is not in the message
  Hash,        \* the bucket of an address
  QueueLen,    \* what the receive buffer of the socket holds
  MaxChange,   \* bound on the changes of the kernel's tables
  MemoryFails  \* whether allocations may fail

Family == {"inet", "inet6"}
Bucket == {Hash[n.addr] : n \in Neigh}

ASSUME NetlinkAssumption ==
  /\ QueueLen \in Nat \ {0} /\ MaxChange \in Nat /\ MemoryFails \in BOOLEAN
  /\ NoMac \notin Mac
  /\ {n.addr : n \in Neigh} \subseteq DOMAIN Hash
  /\ {r.family : r \in Route} \subseteq Family
  /\ \A m, n \in Neigh :
       m.family = n.family /\ m.ifindex = n.ifindex /\ m.addr = n.addr => m = n

VARIABLES
  kroutes,  \* the kernel's routes
  kneigh,   \* the kernel's valid neighbours: their MAC address, or NoMac
  sock,     \* the messages in the socket's receive buffer
  overrun,  \* a message did not fit: the next read() fails with ENOBUFS
  fib,      \* thread->fib_inet and fib_inet6
  head,     \* table->head of thread->neigh_inet[port] and neigh_inet6[port]
  running,  \* the thread is in thread_wait
  changes,  \* number of changes of the kernel's tables
  early,    \* history: the keys of routes older than the socket
  astray    \* history: the keys of routes and neighbours that were changed in
            \* a way a thread does not follow

kernel == <<kroutes, kneigh, changes, early>>
tables == <<fib, head>>
vars   == <<kroutes, kneigh, changes, sock, overrun, fib, head, running, early, astray>>

RT(f) == INSTANCE RouteTable WITH routes <- fib[f], Route <- {}

-----------------------------------------------------------------------------
(* The kernel. *)

(* A message is multicast to the socket; one that does not fit is lost. *)
Multicast(m) ==
  IF Len(sock) < QueueLen
  THEN sock' = Append(sock, m) /\ UNCHANGED overrun
  ELSE overrun' = TRUE /\ UNCHANGED sock

(* Two routes of the kernel that exclude each other.  It keeps routes      *)
(* apart by table or metric that a thread does not: their key.             *)
SameKey(r, s) == /\ r.family = s.family /\ r.prefix = s.prefix
                 /\ r.table = s.table /\ r.metric = s.metric
Key(r)        == [family |-> r.family, prefix |-> r.prefix, ifindex |-> r.ifindex]

Change == running /\ changes < MaxChange /\ changes' = changes + 1

RouteAdd(r) ==
  /\ Change
  /\ ~ \E s \in kroutes : SameKey(r, s)
  /\ kroutes' = kroutes \union {r}
  /\ Multicast([type |-> "NEWROUTE", route |-> r])
  /\ astray' = astray \union {Key(r) : s \in {k \in kroutes : Key(k) = Key(r)}}
  /\ UNCHANGED <<kneigh, tables, running, early>>

RouteDel(r) ==
  /\ Change
  /\ r \in kroutes
  /\ kroutes' = kroutes \ {r}
  /\ Multicast([type |-> "DELROUTE", route |-> r])
  /\ UNCHANGED <<kneigh, tables, running, early, astray>>

(* ip route replace: announced by one RTM_NEWROUTE. *)
RouteReplace(r) ==
  /\ Change
  /\ r \notin kroutes
  /\ \E s \in kroutes :
       /\ SameKey(r, s)
       /\ kroutes' = (kroutes \ {s}) \union {r}
       /\ astray' = astray \union {Key(r), Key(s)}
  /\ Multicast([type |-> "NEWROUTE", route |-> r])
  /\ UNCHANGED <<kneigh, tables, running, early>>

(* A neighbour is resolved, or confirmed; its MAC address may have         *)
(* changed.                                                                *)
NeighUpdate(n, m) ==
  /\ Change
  /\ kneigh' = [kneigh EXCEPT ![n] = m]
  /\ Multicast([type |-> "NEWNEIGH", neigh |-> n, mac |-> m])
  /\ astray' = astray \union {k \in {n} : kneigh[k] \notin {NoMac, m}}
  /\ UNCHANGED <<kroutes, tables, running, early>>

(* Its resolution fails: announced without a MAC address. *)
NeighFailed(n) ==
  /\ Change
  /\ kneigh' = [kneigh EXCEPT ![n] = NoMac]
  /\ Multicast([type |-> "NEWNEIGH", neigh |-> n, mac |-> NoMac])
  /\ astray' = astray \union {n}
  /\ UNCHANGED <<kroutes, tables, running, early>>

NeighDel(n) ==
  /\ Change
  /\ kneigh[n] # NoMac
  /\ kneigh' = [kneigh EXCEPT ![n] = NoMac]
  /\ Multicast([type |-> "DELNEIGH", neigh |-> n, mac |-> NoMac])
  /\ UNCHANGED <<kroutes, tables, running, early, astray>>

-----------------------------------------------------------------------------
(* The thread. *)

(* The fib_entry that netlink_route makes of a message: its id is the      *)
(* ifindex, and a route via no port has port_index -1.                     *)
Entry(r) ==
  [prefix |-> r.prefix, id |-> r.ifindex, nexthop |-> r.gateway,
   port |-> IF r.ifindex \in Port THEN r.ifindex ELSE -1,
   type |-> IF r.table = "local" THEN "LOCAL"
            ELSE IF r.gateway # NoGateway THEN "FORWARD" ELSE "LINK"]

(* fib_route_update: RT!Install, or a refusal nobody looks at. *)
Updated(f, e) ==
  IF \E s \in fib[f] : RT(f)!SameRoute(e, s) THEN fib[f] ELSE fib[f] \union {e}

(* fib_route_delete: RT!Remove. *)
Deleted(f, e) == {s \in fib[f] : ~ RT(f)!SameRoute(e, s)}

netlink_route(m) ==
  LET f == m.route.family
      e == Entry(m.route)
  IN  /\ fib' = [fib EXCEPT ![f] = IF m.type = "NEWROUTE" THEN Updated(f, e) ELSE Deleted(f, e)]
      /\ UNCHANGED head

neigh_key_generate(a) == Hash[a]

(* The places of an address in a bucket; the loops stop at the first. *)
Places(s, a) == {i \in DOMAIN s : s[i].addr = a}
First(s, a)  == CHOOSE i \in Places(s, a) : \A j \in Places(s, a) : i <= j

(* Mutant: the bucket is not searched. *)
AddUnseen(s, a, m) == <<[addr |-> a, mac |-> m]>> \o s

(* hash_add: a new entry goes to the head, a second one is refused. *)
hash_add(s, a, m) ==
  IF Places(s, a) # {} THEN s ELSE <<[addr |-> a, mac |-> m]>> \o s

hash_delete(s, a) ==
  IF Places(s, a) = {} THEN s
  ELSE [i \in 1 .. Len(s) - 1 |-> IF i < First(s, a) THEN s[i] ELSE s[i + 1]]

(* Mutant: the interface is not compared with the ports'. *)
NeighAnyPort(m) ==
  LET n == m.neigh
      b == neigh_key_generate(n.addr)
      p == CHOOSE q \in Port : TRUE
  IN  /\ IF n.family \notin Family
         THEN UNCHANGED head
         ELSE head' = [head EXCEPT ![n.family][p][b] =
                         IF m.type = "NEWNEIGH" THEN hash_add(@, n.addr, m.mac)
                                                ELSE hash_delete(@, n.addr)]
      /\ UNCHANGED fib

(* netlink_neigh, neigh_add and neigh_delete: the table of the port; other *)
(* interfaces and families are ignored.  Without the attribute the MAC     *)
(* address is all zero, NoMac.                                             *)
netlink_neigh(m) ==
  LET n == m.neigh
      b == neigh_key_generate(n.addr)
  IN  /\ IF n.ifindex \notin Port \/ n.family \notin Family
         THEN UNCHANGED head
         ELSE head' = [head EXCEPT ![n.family][n.ifindex][b] =
                         IF m.type = "NEWNEIGH" THEN hash_add(@, n.addr, m.mac)
                                                ELSE hash_delete(@, n.addr)]
      /\ UNCHANGED fib

neigh_alloc == [p \in Port |-> [b \in Bucket |-> <<>>]]

IsRoute(m) == m.type \in {"NEWROUTE", "DELROUTE"}

(* The EPOLL_NETLINK case of thread_wait with netlink_process. *)
netlink_process ==
  /\ running /\ ~ overrun /\ sock # <<>>
  /\ sock' = Tail(sock)
  /\ LET m == Head(sock)
     IN  IF IsRoute(m) THEN netlink_route(m) ELSE netlink_neigh(m)
  /\ UNCHANGED <<kernel, overrun, running, astray>>

(* The same with no memory for an entry: the return value is ignored. *)
ProcessNoMemory ==
  /\ MemoryFails
  /\ running /\ ~ overrun /\ sock # <<>>
  /\ LET m == Head(sock)
     IN  /\ m.type \in {"NEWROUTE", "NEWNEIGH"}
         /\ astray' = astray \union {IF IsRoute(m) THEN Key(m.route) ELSE m.neigh}
  /\ sock' = Tail(sock)
  /\ UNCHANGED <<kernel, tables, overrun, running>>

(* Mutant: the thread goes on after a failed read. *)
ReadErrorIgnored ==
  /\ running /\ overrun
  /\ overrun' = FALSE
  /\ UNCHANGED <<kernel, sock, tables, running, astray>>

(* read() reports the overrun: thread_wait returns, the tables are         *)
(* released (neigh_release, fib_release) and the thread ends.              *)
ReadError ==
  /\ running /\ overrun
  /\ overrun' = FALSE
  /\ running' = FALSE
  /\ fib' = [f \in Family |-> {}]
  /\ head' = [f \in Family |-> neigh_alloc]
  /\ UNCHANGED <<kernel, sock, astray>>

-----------------------------------------------------------------------------
(* There is no dump of the kernel's tables: a route that is there before   *)
(* the socket is bound is not announced.                                   *)
Init ==
  /\ kroutes \in {{}} \union {{r} : r \in Route}
  /\ kneigh = [n \in Neigh |-> NoMac]
  /\ changes = 0
  /\ sock = <<>>
  /\ overrun = FALSE
  /\ fib = [f \in Family |-> {}]
  /\ head = [f \in Family |-> neigh_alloc]
  /\ running = TRUE
  /\ early = {Key(r) : r \in kroutes}
  /\ astray = {}

Next ==
  \/ \E r \in Route : RouteAdd(r) \/ RouteDel(r) \/ RouteReplace(r)
  \/ \E n \in Neigh : \/ \E m \in Mac : NeighUpdate(n, m)
                      \/ NeighFailed(n) \/ NeighDel(n)
  \/ netlink_process \/ ProcessNoMemory \/ ReadError

Spec == Init /\ [][Next]_vars

-----------------------------------------------------------------------------
(* neigh_lookup, hash_lookup: what forwarding finds for an address. *)
neigh_lookup(n) ==
  LET s == head[n.family][n.ifindex][neigh_key_generate(n.addr)]
  IN  IF Places(s, n.addr) = {} THEN NoMac ELSE s[First(s, n.addr)].mac

(* Types; and every entry of a neighbour table is in the bucket of its     *)
(* address, once.                                                          *)
TypeOK ==
  /\ kroutes \subseteq Route
  /\ kneigh \in [Neigh -> Mac \union {NoMac}]
  /\ changes \in 0 .. MaxChange
  /\ Len(sock) <= QueueLen
  /\ overrun \in BOOLEAN /\ running \in BOOLEAN
  /\ \A f \in Family : fib[f] \subseteq {Entry(r) : r \in {x \in Route : x.family = f}}
  /\ \A f \in Family, p \in Port, b \in Bucket :
       LET s == head[f][p][b]
       IN  \A i, j \in DOMAIN s : /\ neigh_key_generate(s[i].addr) = b
                                  /\ s[i].addr = s[j].addr => i = j

(* The FIB has exactly the kernel's routes for the key of r. *)
RouteSynced(r) ==
  {e \in fib[r.family] : RT(r.family)!SameRoute(e, Entry(r))}
    = {Entry(s) : s \in {k \in kroutes : Key(k) = Key(r)}}

(* At any moment the FIB has exactly the kernel's routes for a prefix and  *)
(* interface, unless a message about them is still to be read: a message   *)
(* that did not fit into the socket stops the thread, and a route that     *)
(* went astray (replaced, kept twice, refused for want of memory) does not *)
(* take others with it.                                                    *)
RoutesFollow ==
  running /\ ~ overrun =>
    \A r \in Route :
      \/ Key(r) \in astray \union early
      \/ \E i \in DOMAIN sock : IsRoute(sock[i]) /\ Key(sock[i].route) = Key(r)
      \/ RouteSynced(r)

(* A lookup in a port's table gives the MAC address the kernel has for the *)
(* address on that port, whatever else is in the bucket, unless a message  *)
(* about it is still to be read or the neighbour went astray.              *)
NeighsFollow ==
  running /\ ~ overrun =>
    \A n \in {k \in Neigh : k.ifindex \in Port /\ k.family \in Family} :
      \/ n \in astray
      \/ \E i \in DOMAIN sock : ~ IsRoute(sock[i]) /\ sock[i].neigh = n
      \/ neigh_lookup(n) = kneigh[n]

(* README: "The route/neighbor entries are automatically synchronized with *)
(* the kernel via NETLINK socket".  When every message has been read, what *)
(* the FIB has for a prefix and interface is a route of the kernel, and    *)
(* nothing if the kernel has none; apart from routes older than the        *)
(* socket.                                                                 *)
RoutesSynchronized ==
  running /\ ~ overrun /\ sock = <<>> =>
    \A r \in Route :
      LET mine == {e \in fib[r.family] : RT(r.family)!SameRoute(e, Entry(r))}
          its  == {Entry(s) : s \in {k \in kroutes : Key(k) = Key(r)}}
      IN  Key(r) \in early \/ (mine \subseteq its /\ (its # {} => mine # {}))
=============================================================================
