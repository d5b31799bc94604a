----------------------------- MODULE MCSyncer -----------------------------
(* Syncer for TLC: services 1 and 2 use the same nodePort one after the    *)
(* other, service 3 has its own; the backend lists have one or two slots.  *)
EXTENDS Syncer

MCPortOf == [id \in {1, 2, 3} |-> IF id = 3 THEN 31000 ELSE 30080]
MCFrontend == NodeIP \X {30080, 31000}
MCHostConfig ==
    {[external |-> 2, local |-> 3, remote |-> 4],
     [external |-> 2, local |-> 5, remote |-> 4]}

\* No service, or one of those that use the same nodePort: two changes hand it
\* over to the other one, in either order of the sort. The node and the host may
\* be any at first: no address or config differs from the others of its kind.
MCInitialCluster ==
    LET one   == CHOOSE b \in Backend : TRUE
        other == CHOOSE b \in Backend : b # one
    IN  [cache  : {NoEntries, [NoEntries EXCEPT ![1] = <<one>>],
                   [NoEntries EXCEPT ![2] = <<other, one>>]},
         nodeIP : {CHOOSE ip \in NodeIP : TRUE},
         host   : {[config |-> CHOOSE c \in HostConfig : TRUE,
                    snat   |-> CHOOSE ip \in SnatIP : TRUE]}]

=============================================================================
