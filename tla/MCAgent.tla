------------------------------- MODULE MCAgent -------------------------------
(* A node with an uplink 1, a pod bridge 2, an overlay 3 and a veth 4.       *)
EXTENDS Agent

\* The manifest of the repository, and the same with the other switches.
MCDefault ==
    [external |-> 0, attach |-> 0, local |-> 0, remote |-> 0, inner |-> <<>>,
     snat |-> 2, mode |-> "", veths |-> FALSE, preCleanup |-> TRUE,
     cleanupOnExit |-> TRUE]

MCOptions ==
    {MCDefault,
     [MCDefault EXCEPT !.veths = TRUE, !.preCleanup = FALSE],
     [MCDefault EXCEPT !.inner = <<2, 3>>, !.mode = "encap",
                       !.cleanupOnExit = FALSE]}

MCRoutes ==
    {[node |-> 1, default |-> 1, local |-> 2, remote |-> 3],
     [node |-> 0, default |-> 1, local |-> 2, remote |-> 1],
     [node |-> 3, default |-> 1, local |-> 0, remote |-> 0]}

MCLocalCandidates == <<2>>
MCEncapCandidates == <<3>>

=============================================================================
