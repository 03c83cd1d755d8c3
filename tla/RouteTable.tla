----------------------------- MODULE RouteTable -----------------------------
(***************************************************************************)
(* What a FIB promises: a set of routes, at most one for a prefix and an   *)
(* id, in which a lookup finds a route with the longest matching prefix.   *)
(***************************************************************************)
EXTENDS Integers, Sequences

CONSTANTS
  Route    \* the routes: records with a prefix (a sequence of bits), an id
           \* and a nexthop

VARIABLE
  routes   \* the routes installed

Covers(p, a) == Len(p) <= Len(a) /\ \A i \in 1 .. Len(p) : p[i] = a[i]

SameRoute(r, s) == r.prefix = s.prefix /\ r.id = s.id

(* The routes a lookup of the address a may return. *)
Matching(a) == {r \in routes : Covers(r.prefix, a)}
Best(a)     == {r \in Matching(a) :
                  \A s \in Matching(a) : Len(s.prefix) <= Len(r.prefix)}

-----------------------------------------------------------------------------
Init == routes = {}

Install(r) ==
  /\ ~ \E s \in routes : SameRoute(r, s)
  /\ routes' = routes \union {r}

Remove(r) == routes' = {s \in routes : ~ SameRoute(r, s)}

Clear == routes' = {}

Next ==
  \/ \E r \in Route : Install(r) \/ Remove(r)
  \/ Clear

Spec == Init /\ [][Next]_routes
=============================================================================
