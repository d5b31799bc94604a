-------------------------- MODULE ConntrackProofs --------------------------
(***************************************************************************)
(* The tc program and any number of garbage collectors on the same         *)
(* conntrack maps: what of the data plane survives the deletes, and what a *)
(* collector may delete.                                                   *)
(***************************************************************************)
EXTENDS Conntrack, NodePortTCProofs

\* A pass reads entries, then deletes: before the plan nothing is stale.
GCTyped ==
    /\ gc \in [Reaper -> GCState]
    /\ faults \in Nat
    /\ \A r \in Reaper :
          /\ gc[r].now <= now
          /\ gc[r].pc # "delete" => gc[r].staleCT = {}

\* A copied value is still the value in the map, unless the entry was written
\* after the pass began.
CopiesFresh ==
    \A r \in Reaper, k \in CtKey :
        (gc[r].ctEntries[k] # Absent /\ ct[k] # Absent) =>
            \/ ct[k].seen = gc[r].ctEntries[k].seen
            \/ ct[k].seen >= gc[r].now

ReapInv == Typed /\ GCTyped /\ CopiesFresh /\ ReapOnlyIdle

---------------------------------------------------------------------------
(* The steps.                                                              *)

\* A step of the data plane is one of NodePortTC's, and no collector moves.
LEMMA DataPlaneStep == DataPlane => [Next]_vars /\ UNCHANGED gcVars
BY DEF DataPlane, Next

\* A step of a collector deletes at most one entry of one map.
LEMMA CollectorsStep ==
    ASSUME Typed, Collectors
    PROVE  /\ UNCHANGED <<tableVars, snatNext, now, tcVars>>
           /\ ct' \in [CtKey -> CtVal \cup {Absent}]
           /\ fwd' \in [Flow -> FwdVal \cup {Absent}]
           /\ \A k \in CtKey : ct'[k] \in {ct[k], Absent}
           /\ \A fl \in Flow : fwd'[fl] \in {fwd[fl], Absent}
<1> USE DEF Typed, TypeOK, MapsTypeOK, mapVars, tableVars
<1>1. PICK r \in Reaper : ReapConntrack(r) \/ Abort(r) \/ Restart(r)
    BY DEF Collectors, GCNext
<1>2. CASE StartPass(r) \/ IterateCTEnd(r) \/ Plan(r) \/ EndPass(r)
           \/ Abort(r) \/ Restart(r)
    BY <1>2 DEF StartPass, IterateCTEnd, Plan, EndPass, Abort, Restart, Collectors
<1>3. ASSUME NEW k \in CtKey, IterateCT(r, k) \/ DeleteCT(r, k)
      PROVE  /\ UNCHANGED <<tableVars, snatNext, now>>
             /\ ct' \in [CtKey -> CtVal \cup {Absent}]
             /\ fwd' = fwd
             /\ \A x \in CtKey : ct'[x] \in {ct[x], Absent}
    BY <1>3 DEF IterateCT, DeleteCT
<1>4. ASSUME NEW fl \in Flow, IterateFwd(r, fl) \/ DeleteFwd(r, fl)
      PROVE  /\ UNCHANGED <<tableVars, snatNext, now>>
             /\ fwd' \in [Flow -> FwdVal \cup {Absent}]
             /\ ct' = ct
             /\ \A x \in Flow : fwd'[x] \in {fwd[x], Absent}
    BY <1>4 DEF IterateFwd, DeleteFwd
<1> QED BY <1>1, <1>2, <1>3, <1>4 DEF ReapConntrack, Collectors

LEMMA CollectorsTyped == ASSUME Typed, Collectors PROVE Typed'
BY CollectorsStep
   DEF Typed, TypeOK, MapsTypeOK, tableVars, tcVars, RegOK, RequestPC

\* The collectors delete and never install: the owners of the conntrack keys
\* stay what they are.
LEMMA CollectorsOwned == ASSUME Typed, Owned, Collectors PROVE Owned'
<1>1. /\ UNCHANGED <<pc, reg, owner, reused, sent, replies>>
      /\ \A k \in CtKey : ct'[k] \in {ct[k], Absent}
      /\ \A fl \in Flow : fwd'[fl] \in {fwd[fl], Absent}
    BY CollectorsStep DEF tcVars
<1> QED BY <1>1 DEF Owned, MapsOwned, WireOwned, RegOwned

LEMMA CollectorsSerial == ASSUME Typed, Serial, Collectors PROVE Serial'
<1>1. UNCHANGED <<pc, reg, stats, owner, reused, snatNext>>
    BY CollectorsStep DEF tcVars
<1> QED BY <1>1 DEF Serial, InOrder, Taken, Settled, InFlight

\* What the data plane writes to the conntrack map carries the current time.
LEMMA WritesAreFresh ==
    ASSUME Typed, [Next]_vars
    PROVE  /\ now' \in Nat /\ now <= now'
           /\ \A k \in CtKey : \/ ct'[k] \in {ct[k], Absent}
                               \/ ct'[k].seen = now
<1> USE DEF Typed, TypeOK, MapsTypeOK, mapVars, tableVars, connVars
<1>0. ASSUME NEW key \in CtKey, NEW flow,
             ct' = update_conntrack_entry(key, flow)
      PROVE  \A k \in CtKey : ct'[k] = ct[k] \/ ct'[k].seen = now
    BY <1>0 DEF update_conntrack_entry
<1>1. ASSUME NEW c \in CPU, ResponseRefresh(c) \/ PinnedRefresh(c) \/ InstallCt(c)
      PROVE  now' = now /\ \A k \in CtKey : ct'[k] = ct[k] \/ ct'[k].seen = now
    <2>1. CASE ResponseRefresh(c)
        BY <1>0, <2>1 DEF ResponseRefresh, RegOK
    <2>2. CASE PinnedRefresh(c)
        BY <1>0, <2>2 DEF PinnedRefresh, RegOK
    <2>3. CASE InstallCt(c)
        BY <1>0, <2>3 DEF InstallCt, RegOK
    <2> QED BY <1>1, <2>1, <2>2, <2>3
<1>2. ASSUME NEW c \in CPU, UndoCt(c)
      PROVE  now' = now /\ \A k \in CtKey : ct'[k] \in {ct[k], Absent}
    BY <1>2 DEF UndoCt
<1>3. ASSUME NEW c \in CPU, nodeport_tc(c) \/ Run(c),
             ~ResponseRefresh(c), ~PinnedRefresh(c), ~InstallCt(c), ~UndoCt(c)
      PROVE  now' = now /\ ct' = ct
    BY <1>3 DEF nodeport_tc, Run, handle_response, handle_request,
        select_backend, ResponseLookupRequest, ResponseLookupMiss,
        ResponseLookupHit, ServiceLookupMiss, ServiceLookupHit,
        ForwardLookupMiss, ForwardLookupHit, NoBackends, ReadRr,
        BackendLookupMiss, BackendLookupHit, WriteRr, ReadSnat, WriteSnat,
        InstallCtFull, InstallFwd, InstallFwdFull, RewriteFail,
        RewriteRequest, RewriteResponse
<1>4. CASE ControlPlane \/ Tick \/ UNCHANGED vars
    BY <1>4 DEF ControlPlane, Tick, vars
<1> QED BY <1>1, <1>2, <1>3, <1>4 DEF Next

LEMMA IdleTyped ==
    /\ Idle \in GCState /\ Idle.now = 0 /\ Idle.staleCT = {}
    /\ \A k \in CtKey : Idle.ctEntries[k] = Absent
BY DEF Idle, GCState

\* The copies and the plans of the collectors stay right under the steps of
\* the packets, the syncers and the clock.
LEMMA DataPlaneReap ==
    ASSUME ReapInv, [Next]_vars, UNCHANGED gcVars
    PROVE  (GCTyped /\ CopiesFresh /\ ReapOnlyIdle)'
<1>1. /\ now' \in Nat /\ now <= now' /\ now \in Nat
      /\ \A k \in CtKey : ct'[k] \in {ct[k], Absent} \/ ct'[k].seen = now
    BY WritesAreFresh DEF ReapInv, Typed, TypeOK, MapsTypeOK
<1>2. \A r \in Reaper : gc[r].now \in Nat /\ gc[r].now <= now
    BY DEF ReapInv, GCTyped, GCState
<1>3. GCTyped'
    BY <1>1, <1>2 DEF ReapInv, GCTyped, gcVars
<1>4. CopiesFresh'
    BY <1>1, <1>2 DEF ReapInv, CopiesFresh, gcVars
<1>5. ReapOnlyIdle'
    <2>1. \A r \in Reaper : gc[r].staleCT \subseteq CtKey
        BY DEF ReapInv, GCTyped, GCState
    <2> QED BY <1>1, <1>2, <2>1 DEF ReapInv, ReapOnlyIdle, gcVars
<1> QED BY <1>3, <1>4, <1>5

\* A collector's step changes its own state only; when it reads an entry the
\* copy is exact, and what it plans to delete is what expired in its copies.
LEMMA CollectorsReap ==
    ASSUME ReapInv, Collectors
    PROVE  (GCTyped /\ CopiesFresh /\ ReapOnlyIdle)'
<1>0. /\ now' = now /\ now \in Nat
      /\ \A k \in CtKey : ct'[k] \in {ct[k], Absent}
      /\ ct \in [CtKey -> CtVal \cup {Absent}]
      /\ ct' \in [CtKey -> CtVal \cup {Absent}]
    BY CollectorsStep DEF ReapInv, Typed, TypeOK, MapsTypeOK
<1>1. PICK r \in Reaper : ReapConntrack(r) \/ Abort(r) \/ Restart(r)
    BY DEF Collectors, GCNext
<1>2. gc \in [Reaper -> GCState] /\ gc[r] \in GCState /\ faults \in Nat
    BY DEF ReapInv, GCTyped
\* It is enough to look at the collector that moves.
<1>3. ASSUME NEW g \in GCState, gc' = [gc EXCEPT ![r] = g], faults' \in Nat,
             g.now <= now, g.pc # "delete" => g.staleCT = {},
             \A k \in CtKey : (g.ctEntries[k] # Absent /\ ct'[k] # Absent) =>
                ct'[k].seen = g.ctEntries[k].seen \/ ct'[k].seen >= g.now,
             \A k \in g.staleCT : ct'[k] # Absent =>
                g.now - ct'[k].seen > Timeout \/ ct'[k].seen >= g.now
      PROVE  (GCTyped /\ CopiesFresh /\ ReapOnlyIdle)'
    <2>1. /\ gc'[r] = g /\ gc' \in [Reaper -> GCState]
          /\ \A q \in Reaper \ {r} : gc'[q] = gc[q]
        BY <1>2, <1>3
    <2>2. GCTyped'
        BY <1>0, <1>3, <2>1 DEF ReapInv, GCTyped
    <2>3. CopiesFresh'
        BY <1>0, <1>3, <2>1 DEF ReapInv, CopiesFresh
    <2>4. \A q \in Reaper \ {r} : gc[q].staleCT \subseteq CtKey
        BY <1>2 DEF GCState
    <2>5. ReapOnlyIdle'
        BY <1>0, <1>3, <2>1, <2>4 DEF ReapInv, ReapOnlyIdle
    <2> QED BY <2>2, <2>3, <2>5
<1>4. /\ gc[r].now \in Nat /\ gc[r].now <= now
      /\ gc[r].staleCT \subseteq CtKey
      /\ gc[r].ctEntries \in [CtKey -> CtVal \cup {Absent}]
      /\ gc[r].pc # "delete" => gc[r].staleCT = {}
      /\ \A k \in CtKey : (gc[r].ctEntries[k] # Absent /\ ct'[k] # Absent) =>
            ct'[k].seen = gc[r].ctEntries[k].seen \/ ct'[k].seen >= gc[r].now
      /\ \A k \in gc[r].staleCT : ct'[k] # Absent =>
            gc[r].now - ct'[k].seen > Timeout \/ ct'[k].seen >= gc[r].now
    <2>1. gc[r].now \in Nat /\ gc[r].staleCT \subseteq CtKey
          /\ gc[r].ctEntries \in [CtKey -> CtVal \cup {Absent}]
        BY <1>2 DEF GCState
    <2> QED BY <1>0, <2>1 DEF ReapInv, GCTyped, CopiesFresh, ReapOnlyIdle
<1>5. CASE StartPass(r)
    <2> DEFINE g == [Idle EXCEPT !.pc = "iterct", !.now = now, !.ctTodo = Entries(ct)]
    <2>1. g \in GCState /\ g.now = now /\ g.staleCT = {}
          /\ \A k \in CtKey : g.ctEntries[k] = Absent
        BY <1>0 DEF Idle, GCState, Entries
    <2>2. gc' = [gc EXCEPT ![r] = g] /\ faults' = faults
        BY <1>5 DEF StartPass
    <2> HIDE DEF g
    <2>3. g.now <= now /\ faults' \in Nat
        BY <1>0, <1>2, <2>1, <2>2
    <2> QED BY <1>3, <2>1, <2>2, <2>3
<1>6. ASSUME NEW k \in CtKey, IterateCT(r, k)
      PROVE  (GCTyped /\ CopiesFresh /\ ReapOnlyIdle)'
    <2> DEFINE g == [gc[r] EXCEPT !.ctTodo = gc[r].ctTodo \ {k},
                        !.ctEntries = [gc[r].ctEntries EXCEPT ![k] = ct[k]]]
    <2>1. /\ g \in GCState /\ g.now = gc[r].now /\ g.staleCT = gc[r].staleCT
          /\ g.pc = gc[r].pc
          /\ g.ctEntries = [gc[r].ctEntries EXCEPT ![k] = ct[k]]
        BY <1>0, <1>2 DEF GCState
    <2>2. gc' = [gc EXCEPT ![r] = g] /\ faults' = faults /\ ct' = ct
        BY <1>6 DEF IterateCT, mapVars
    <2>3. \A x \in CtKey : g.ctEntries[x] = IF x = k THEN ct[x] ELSE gc[r].ctEntries[x]
        BY <1>4, <2>1
    <2> HIDE DEF g
    <2>4. \A x \in CtKey : (g.ctEntries[x] # Absent /\ ct'[x] # Absent) =>
             ct'[x].seen = g.ctEntries[x].seen \/ ct'[x].seen >= g.now
        BY <1>4, <2>1, <2>2, <2>3
    <2> QED BY <1>2, <1>3, <1>4, <2>1, <2>2, <2>4
<1>7. CASE IterateCTEnd(r)
    <2> DEFINE g == [gc[r] EXCEPT !.pc = "iterfwd", !.fwdTodo = Entries(fwd)]
    <2>1. /\ Entries(fwd) \subseteq Flow
          /\ gc[r].pc = "iterct"
        BY <1>7 DEF Entries, ReapInv, Typed, TypeOK, MapsTypeOK, IterateCTEnd
    <2>2. /\ g \in GCState /\ g.now = gc[r].now /\ g.staleCT = gc[r].staleCT
          /\ g.ctEntries = gc[r].ctEntries /\ g.pc = "iterfwd"
        BY <1>2, <2>1 DEF GCState
    <2>3. gc' = [gc EXCEPT ![r] = g] /\ faults' = faults
        BY <1>7 DEF IterateCTEnd
    <2> QED BY <1>2, <1>3, <1>4, <2>1, <2>2, <2>3
<1>8. ASSUME NEW fl \in Flow, IterateFwd(r, fl)
      PROVE  (GCTyped /\ CopiesFresh /\ ReapOnlyIdle)'
    <2> DEFINE keys == IF fwd[fl] # Absent THEN gc[r].fwdKeys \cup {fl}
                       ELSE gc[r].fwdKeys
               g == [gc[r] EXCEPT !.fwdTodo = gc[r].fwdTodo \ {fl}, !.fwdKeys = keys]
    <2>1. keys \subseteq Flow
        BY <1>2 DEF GCState
    <2>2. /\ g \in GCState /\ g.now = gc[r].now /\ g.staleCT = gc[r].staleCT
          /\ g.ctEntries = gc[r].ctEntries /\ g.pc = gc[r].pc
        BY <1>2, <2>1 DEF GCState
    <2>3. gc' = [gc EXCEPT ![r] = g] /\ faults' = faults
        BY <1>8 DEF IterateFwd
    <2> QED BY <1>2, <1>3, <1>4, <2>2, <2>3
<1>9. CASE Plan(r)
    <2> DEFINE stale == StaleCT(gc[r].now, gc[r].ctEntries)
               fwds == StaleFwd(gc[r].now, gc[r].ctEntries, gc[r].fwdKeys)
               g == [Idle EXCEPT !.pc = "delete", !.now = gc[r].now,
                                 !.staleCT = stale, !.staleFwd = fwds]
    <2>1. stale \subseteq CtKey
        BY DEF StaleCT
    <2>2. \A k \in stale :
             /\ gc[r].ctEntries[k] # Absent
             /\ gc[r].now - gc[r].ctEntries[k].seen > Timeout
        BY DEF StaleCT, conntrackExpired
    <2>3. fwds \subseteq Flow
        <3>1. \A k \in stale : gc[r].ctEntries[k].flow \in Flow
            BY <1>4, <2>1, <2>2 DEF CtVal
        <3> QED BY <1>2, <3>1 DEF StaleFwd, GCState
    <2>4. /\ g \in GCState /\ g.now = gc[r].now /\ g.staleCT = stale
          /\ g.pc = "delete" /\ \A k \in CtKey : g.ctEntries[k] = Absent
        BY <1>4, <2>1, <2>3 DEF Idle, GCState
    <2>5. gc' = [gc EXCEPT ![r] = g] /\ faults' = faults
        BY <1>9 DEF Plan
    <2> QED BY <1>2, <1>3, <1>4, <2>1, <2>2, <2>4, <2>5
<1>10. ASSUME NEW k \in CtKey, DeleteCT(r, k)
       PROVE  (GCTyped /\ CopiesFresh /\ ReapOnlyIdle)'
    <2> DEFINE g == [gc[r] EXCEPT !.staleCT = gc[r].staleCT \ {k}]
    <2>1. /\ g \in GCState /\ g.now = gc[r].now
          /\ g.staleCT = gc[r].staleCT \ {k}
          /\ g.ctEntries = gc[r].ctEntries /\ g.pc = gc[r].pc
        BY <1>2 DEF GCState
    <2>2. gc' = [gc EXCEPT ![r] = g] /\ faults' = faults
        BY <1>10 DEF DeleteCT
    <2> QED BY <1>2, <1>3, <1>4, <2>1, <2>2
<1>11. ASSUME NEW fl \in Flow, DeleteFwd(r, fl)
       PROVE  (GCTyped /\ CopiesFresh /\ ReapOnlyIdle)'
    <2> DEFINE g == [gc[r] EXCEPT !.staleFwd = gc[r].staleFwd \ {fl}]
    <2>1. /\ g \in GCState /\ g.now = gc[r].now /\ g.staleCT = gc[r].staleCT
          /\ g.ctEntries = gc[r].ctEntries /\ g.pc = gc[r].pc
        BY <1>2 DEF GCState
    <2>2. gc' = [gc EXCEPT ![r] = g] /\ faults' = faults
        BY <1>11 DEF DeleteFwd
    <2> QED BY <1>2, <1>3, <1>4, <2>1, <2>2
<1>12. CASE EndPass(r) \/ Restart(r)
    <2>1. gc' = [gc EXCEPT ![r] = Idle] /\ faults' = faults
        BY <1>12 DEF EndPass, Restart
    <2>2. Idle.now <= now /\ faults' \in Nat
        BY <1>0, <1>2, <2>1, IdleTyped
    <2> QED BY <1>3, <2>1, <2>2, IdleTyped
<1>13. CASE Abort(r)
    <2> DEFINE g == [Idle EXCEPT !.pc = "down"]
    <2>1. /\ g \in GCState /\ g.now = 0 /\ g.staleCT = {}
          /\ \A k \in CtKey : g.ctEntries[k] = Absent
        BY DEF Idle, GCState
    <2>2. gc' = [gc EXCEPT ![r] = g] /\ faults' = faults + 1
        BY <1>13 DEF Abort
    <2> HIDE DEF g
    <2>3. g.now <= now /\ faults' \in Nat
        BY <1>0, <1>2, <2>1, <2>2
    <2> QED BY <1>3, <2>1, <2>2, <2>3
<1> QED BY <1>1, <1>5, <1>6, <1>7, <1>8, <1>9, <1>10, <1>11, <1>12, <1>13
        DEF ReapConntrack

---------------------------------------------------------------------------
(* The theorems.                                                           *)

ConnInv == ReapInv /\ Owned /\ Serial

LEMMA ConnInvHolds == ConnSysSpec => []ConnInv
<1>1. ConnSysInit => ConnInv
    <2> SUFFICES ASSUME ConnSysInit PROVE ConnInv
        OBVIOUS
    <2>1. Typed
        BY InitTyped DEF ConnSysInit
    <2>2. GCTyped /\ CopiesFresh /\ ReapOnlyIdle
        BY IdleTyped
           DEF ConnSysInit, GCInit, Init, ConnInit, GCTyped, CopiesFresh,
               ReapOnlyIdle
    <2>3. Owned
        BY DEF ConnSysInit, Init, ConnInit, TCInit, Owned, MapsOwned,
               WireOwned, RegOwned
    <2>4. Serial
        BY SnatRangeAssumption
           DEF ConnSysInit, Init, TCInit, ConnInit, Serial, InOrder, Taken,
               Settled, InFlight, Stat, SnatPortFrom, SnatPort
    <2> QED BY <2>1, <2>2, <2>3, <2>4 DEF ConnInv, ReapInv
<1>2. ConnInv /\ [ConnSysNext]_allVars => ConnInv'
    <2> SUFFICES ASSUME ConnInv, [ConnSysNext]_allVars PROVE ConnInv'
        OBVIOUS
    <2> USE DEF ConnInv, ReapInv
    <2>1. CASE DataPlane \/ UNCHANGED allVars
        <3>1. [Next]_vars /\ UNCHANGED gcVars
            BY <2>1, DataPlaneStep DEF allVars
        <3> QED BY <3>1, StepTyped, StepOwned, StepSerial, DataPlaneReap
    <2>2. CASE Collectors
        BY <2>2, CollectorsTyped, CollectorsOwned, CollectorsSerial,
           CollectorsReap
    <2> QED BY <2>1, <2>2 DEF ConnSysNext
<1> QED BY <1>1, <1>2, PTL DEF ConnSysSpec

\* The maps, the locals of the program, and the state of every collector keep
\* their types.
THEOREM ConnTypeCorrect == ConnSysSpec => []ConnTypeOK
<1>1. ConnInv => ConnTypeOK
    BY DEF ConnInv, ReapInv, Typed, GCTyped, ConnTypeOK
<1> QED BY <1>1, ConnInvHolds, PTL

\* The keys that a pass of runConntrackGC is about to delete were idle beyond
\* the timeout when the pass began, or were touched during the pass: however
\* the two iterations, the plan and the deletes interleave with packets and
\* with other collectors.
THEOREM ReapsOnlyIdle == ConnSysSpec => []ReapOnlyIdle
<1>1. ConnInv => ReapOnlyIdle
    BY DEF ConnInv, ReapInv
<1> QED BY <1>1, ConnInvHolds, PTL

\* Reverse NAT isolates connections also while collectors delete entries under
\* the running programs.
THEOREM RepliesIsolatedUnderGC == ConnSysSpec => []ReplyIsolation
<1>1. ConnInv => ReplyIsolation
    BY DEF ConnInv, Owned, WireOwned, ReplyIsolation
<1> QED BY <1>1, ConnInvHolds, PTL

\* A single CPU gives out the whole SNAT range before it gives a port out
\* again, also while collectors delete entries.
THEOREM SerialPortsUnderGC == ConnSysSpec => []SerialPortsDistinct
<1>1. ConnInv => SerialPortsDistinct
    BY DEF ConnInv, Serial, SerialPortsDistinct, InOrder, Range
<1> QED BY <1>1, ConnInvHolds, PTL

=============================================================================
