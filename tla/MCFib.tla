------------------------------- MODULE MCFib --------------------------------
(* An instance of Fib for TLC: two nodes on the first level, two more      *)
(* levels of four; prefixes of every length, nested and side by side, some *)
(* with two ids or two nexthops.                                           *)
EXTENDS Fib

R(p, i, h) == [prefix |-> p, id |-> i, nexthop |-> h]

MCRoute ==
  {R(<<>>, 1, 1), R(<<0>>, 1, 1), R(<<0, 1>>, 1, 1), R(<<0, 1>>, 2, 1), R(<<0, 1>>, 1, 2),
   R(<<0, 1, 1>>, 1, 1), R(<<0, 1, 1, 0>>, 1, 1), R(<<0, 1, 1, 0>>, 2, 1),
   R(<<0, 1, 1, 0, 1>>, 1, 1), R(<<0, 0, 1, 1, 1>>, 1, 1)}
=============================================================================
