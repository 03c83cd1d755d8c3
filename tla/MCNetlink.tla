----------------------------- MODULE MCNetlink ------------------------------
(* Instances of Netlink for TLC: a port and an interface that is none,     *)
(* routes that share a prefix or an interface, and neighbours that share a *)
(* bucket, an address or nothing.                                          *)
EXTENDS Netlink, TLC

KRoute(p, i, g, t, k) ==
  [family |-> "inet", prefix |-> p, ifindex |-> i, gateway |-> g, table |-> t, metric |-> k]
KNeigh(f, i, a) == [family |-> f, ifindex |-> i, addr |-> a]

MCPort  == {1}
MCHash  == [a \in {"a", "b", "c"} |-> IF a = "c" THEN 2 ELSE 1]
MCRoute ==
  {KRoute(<<0>>, 1, NoGateway, "main", 1), KRoute(<<0>>, 1, "g", "main", 1),
   KRoute(<<0>>, 2, NoGateway, "main", 2), KRoute(<<0>>, 1, NoGateway, "local", 2)}
MCNeigh ==
  {KNeigh("inet", 1, "a"), KNeigh("inet", 1, "b"), KNeigh("inet", 2, "a"),
   KNeigh("bridge", 1, "c")}
MacSymmetry == Permutations(Mac)
=============================================================================
