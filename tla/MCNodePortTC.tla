---------------------------- MODULE MCNodePortTC ----------------------------
(* Small instances of the data plane.                                      *)
EXTENDS NodePortTC

CONSTANTS cl1, cl2, fe1, be1, be2, ip1

MCConfig == [external |-> 1, local |-> 1, remote |-> 0]

\* cl1 is received by CPU 1; packets of cl2 may land on either CPU.
MCSteer == [c \in Client |-> IF c = cl1 THEN {1} ELSE CPU]

MCTable == [f \in Frontend |-> <<be1, be2>>]

=============================================================================
