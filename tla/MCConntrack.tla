---------------------------- MODULE MCConntrack ----------------------------
(* Small instances of the data plane with the garbage collector.           *)
EXTENDS Conntrack

CONSTANTS cl1, cl2, fe1, be1, be2, ip1, r1

MCConfig == [external |-> 1, local |-> 1, remote |-> 1]

MCSteer == [c \in Client |-> CPU]

MCTable == [f \in Frontend |-> <<be1, be2>>]

MCTableOne == [f \in Frontend |-> <<be1>>]

=============================================================================
