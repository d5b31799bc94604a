----------------------------- MODULE Conntrack -----------------------------
(***************************************************************************)
(* The tc program and the garbage collectors on the same conntrack maps.   *)
(***************************************************************************)
EXTENDS NodePortTC, ConntrackGC

allVars == <<vars, gcVars>>

ConnSysInit == Init /\ GCInit

DataPlane ==
    /\ \/ \E c \in CPU : nodeport_tc(c) \/ Run(c)
       \/ ControlPlane
       \/ Tick
    /\ UNCHANGED gcVars

Collectors == GCNext /\ UNCHANGED tcVars

ConnSysNext == DataPlane \/ Collectors

ConnSysSpec == ConnSysInit /\ [][ConnSysNext]_allVars

\* The ticker of a collector fires and its pass goes on, and a process that
\* died is started again: a collector by the experiment's scripts, on the same
\* maps, the agent's syncer with the agent (then on new maps, which is the
\* easier case and not represented here). Nothing is asked of the clock, of
\* the packets or of the programs: an entry once expired is taken without them.
Fairness ==
    \A r \in Reaper :
        WF_allVars((ReapConntrack(r) \/ Restart(r)) /\ UNCHANGED tcVars)

FairConnSysSpec == ConnSysSpec /\ Fairness

---------------------------------------------------------------------------
(* Properties.                                                             *)

ConnTypeOK ==
    /\ TypeOK
    /\ gc \in [Reaper -> GCState]
    /\ faults \in Nat

\* What a pass is about to delete from the conntrack map had been idle for
\* longer than the timeout when the pass began, unless a packet touched it
\* during the pass: the collector deletes by key, without looking again.
ReapOnlyIdle ==
    \A r \in Reaper : \A k \in gc[r].staleCT :
        ct[k] # Absent =>
            \/ gc[r].now - ct[k].seen > Timeout
            \/ ct[k].seen >= gc[r].now

\* An entry idle for longer than the timeout does not stay: it is deleted, or
\* a packet refreshes it.
ExpiredEntryReaped ==
    \A k \in CtKey :
        (ct[k] # Absent /\ now - ct[k].seen > Timeout)
            ~> (ct[k] = Absent \/ now - ct[k].seen <= Timeout)

\* A forward entry that no conntrack entry belongs to does not stay, also
\* when a pass dies between the deletes of the two maps: later passes find it
\* as an orphan.
OrphanForwardReaped ==
    \A fl \in Flow :
        (fwd[fl] # Absent /\ ~\E k \in CtKey : ct[k] # Absent /\ ct[k].flow = fl)
            ~> (fwd[fl] = Absent
                \/ \E k \in CtKey : ct[k] # Absent /\ ct[k].flow = fl)

\* "The same connection has a fixed backend and SNAT": as long as no entry can
\* have been idle for longer than the timeout, all requests of a connection
\* leave towards one backend from one SNAT port.
OneBackendPerConnection ==
    now <= Timeout => \A x, y \in sent : x[1] = y[1] => x[2] = y[2]

=============================================================================
