-------------------------- MODULE NodePortTCProofs --------------------------
(***************************************************************************)
(* What the data plane guarantees for any number of CPUs, clients,         *)
(* frontends and backends, any SNAT range and any map sizes.               *)
(***************************************************************************)
EXTENDS NodePortTC, TLAPS

\* The labels at which the packet is known to be a request.
RequestPC == {"service", "forward", "pinned", "rr", "backend", "rrput",
              "snatget", "snatput", "ctput", "fwdput", "ctundo"}

\* The locals that the program has set by the time it stands at each label.
RegOK(c) ==
    /\ pc[c] # "idle" =>
          /\ reg[c].pkt \in Packet
          /\ reg[c].pkt.dir = "request" => reg[c].pkt.flow \in Flow
          /\ reg[c].pkt.dir = "response" => reg[c].pkt.key \in CtKey
    /\ pc[c] \in RequestPC => reg[c].pkt.dir = "request"
    /\ pc[c] = "refresh" => reg[c].pkt.dir = "response" /\ reg[c].flow \in Flow
    /\ pc[c] \in {"forward", "rr", "backend", "rrput", "snatget", "snatput"}
          => reg[c].svc \in SvcVal
    /\ pc[c] \in {"rrput", "snatget", "snatput"} => reg[c].be \in Backend
    /\ pc[c] = "snatput" => reg[c].port \in SnatPort
    /\ pc[c] \in {"pinned", "ctput", "fwdput", "ctundo"} => reg[c].key \in CtKey
    /\ pc[c] = "rewrite" =>
          /\ reg[c].pkt.dir = "request" => reg[c].key \in CtKey
          /\ reg[c].pkt.dir = "response" => reg[c].flow \in Flow

Typed == TypeOK /\ \A c \in CPU : RegOK(c)

---------------------------------------------------------------------------
(* The helpers of the program.                                             *)

\* Bumping counters of one CPU keeps all counters natural numbers.
LEMMA BumpTyped ==
    ASSUME stats \in [CPU -> [Stat -> Nat]], NEW c \in CPU, NEW which,
           bump_stat(c, which)
    PROVE  /\ stats' \in [CPU -> [Stat -> Nat]]
           /\ \A s \in Stat :
                 stats'[c][s] = stats[c][s] + (IF s \in which THEN 1 ELSE 0)
           /\ \A d \in CPU \ {c} : stats'[d] = stats[d]
BY DEF bump_stat

\* update_conntrack_entry keeps the type of the conntrack map, and at most
\* sets the one key to the one flow.
LEMMA UpdateTyped ==
    ASSUME ct \in [CtKey -> CtVal \cup {Absent}], now \in Nat,
           NEW key \in CtKey, NEW flow \in Flow
    PROVE  /\ update_conntrack_entry(key, flow)
                 \in [CtKey -> CtVal \cup {Absent}]
           /\ \A k \in CtKey :
                 \/ update_conntrack_entry(key, flow)[k] = ct[k]
                 \/ /\ k = key
                    /\ update_conntrack_entry(key, flow)[k] # Absent
                    /\ update_conntrack_entry(key, flow)[k].flow = flow
BY AbsentAssumption DEF update_conntrack_entry, CtVal

\* The allocator stays inside the SNAT range.
LEMMA SnatPortTyped ==
    /\ \A next : SnatPortFrom(next) \in SnatPort
    /\ \A port \in SnatPort : SnatPortAfter(port) \in SnatPort
BY SnatRangeAssumption DEF SnatPortFrom, SnatPortAfter, SnatPort

LEMMA InitTyped == Init => Typed
<1> SUFFICES ASSUME Init PROVE Typed
    OBVIOUS
<1> USE DEF Init, TableInit, ConnInit, TCInit
<1>1. svc \in [Frontend -> SvcVal \cup {Absent}]
    BY TableAssumption DEF SvcVal
<1>2. slots \in [Frontend \X Slot -> Backend \cup {Absent}]
    BY TableAssumption, MaxSlotsAssumption DEF Slot
<1>3. MapsTypeOK
    BY <1>1, <1>2, TableAssumption DEF MapsTypeOK
<1>4. NoReg \in Reg
    BY DEF NoReg, Reg
<1>5. TypeOK
    BY <1>3, <1>4 DEF TypeOK, PC
<1>6. \A c \in CPU : RegOK(c)
    BY DEF RegOK, RequestPC
<1> QED BY <1>5, <1>6 DEF Typed

\* Setting a local to a value of its type keeps the type of the locals.
LEMMA RegField ==
    ASSUME NEW r \in Reg
    PROVE  /\ \A v \in SvcVal : [r EXCEPT !.svc = v] \in Reg
           /\ \A v \in Nat : [r EXCEPT !.slot = v] \in Reg
           /\ \A v \in Backend : [r EXCEPT !.be = v] \in Reg
           /\ \A v \in Nat : [r EXCEPT !.port = v] \in Reg
           /\ \A v \in Flow : [r EXCEPT !.flow = v] \in Reg
           /\ \A k \in CtKey, v \in Nat :
                 [r EXCEPT !.key = k, !.egress = v] \in Reg
BY ZenonT(30) DEF Reg

LEMMA NoRegTyped == NoReg \in Reg
BY DEF NoReg, Reg

\* Every step keeps all types, and sets the locals that the next label needs.
LEMMA StepTyped == Typed /\ [Next]_vars => Typed'
<1> SUFFICES ASSUME Typed, [Next]_vars PROVE Typed'
    OBVIOUS
<1>0. ASSUME NEW c \in CPU, pc[c] \in RequestPC PROVE FrontendOf(c) \in Frontend
    BY <1>0 DEF Typed, RegOK, RequestPC, FrontendOf, Flow
<1> USE DEF Typed, TypeOK, MapsTypeOK, RegOK, Goto, Return, RequestPC, PC,
        mapVars, tableVars, connVars, ghostVars
<1>1. ASSUME NEW c \in CPU, nodeport_tc(c) PROVE Typed'
    <2>1. PICK p \in Incoming(c) :
             reg' = [reg EXCEPT ![c] = [NoReg EXCEPT !.pkt = p]]
        BY <1>1 DEF nodeport_tc
    <2>2. /\ p \in Packet
          /\ p.dir = "request" => p.flow \in Flow
          /\ p.dir = "response" => p.key \in CtKey
        BY DEF Incoming, Packet
    <2>3. [NoReg EXCEPT !.pkt = p] \in Reg /\ [NoReg EXCEPT !.pkt = p].pkt = p
        BY <2>2 DEF Reg, NoReg
    <2>4. /\ reg' \in [CPU -> Reg]
          /\ reg'[c].pkt = p
          /\ \A d \in CPU \ {c} : reg'[d] = reg[d]
        BY <2>1, <2>3
    <2>5. /\ pc' = [pc EXCEPT ![c] = "response"]
          /\ arrivals' \in Nat
          /\ UNCHANGED <<mapVars, writes, ghostVars>>
          /\ stats' \in [CPU -> [Stat -> Nat]]
        BY <1>1, BumpTyped DEF nodeport_tc
    <2> QED BY <2>2, <2>4, <2>5
<1>2. ASSUME NEW c \in CPU, ResponseLookupRequest(c) PROVE Typed'
    BY <1>2, NoRegTyped DEF ResponseLookupRequest
<1>3. ASSUME NEW c \in CPU, ResponseLookupMiss(c) PROVE Typed'
    BY <1>3, BumpTyped, NoRegTyped DEF ResponseLookupMiss
<1>4. ASSUME NEW c \in CPU, ResponseLookupHit(c) PROVE Typed'
    <2>1. ct[reg[c].pkt.key].flow \in Flow
        BY <1>4 DEF ResponseLookupHit, CtVal
    <2>2. reg' \in [CPU -> Reg]
        BY <1>4, <2>1, RegField DEF ResponseLookupHit
    <2> QED BY SMTT(40), <1>4, <2>1, <2>2 DEF ResponseLookupHit
<1>5. ASSUME NEW c \in CPU, ResponseRefresh(c) PROVE Typed'
    BY <1>5, BumpTyped, UpdateTyped, NoRegTyped DEF ResponseRefresh
<1>6. ASSUME NEW c \in CPU, ServiceLookupMiss(c) PROVE Typed'
    BY <1>6, NoRegTyped DEF ServiceLookupMiss
<1>7. ASSUME NEW c \in CPU, ServiceLookupHit(c) PROVE Typed'
    <2>1. svc[FrontendOf(c)] \in SvcVal
        BY <1>7, <1>0 DEF ServiceLookupHit
    <2>2. reg' \in [CPU -> Reg]
        BY <1>7, <2>1, RegField DEF ServiceLookupHit
    <2> QED BY <1>7, <2>1, <2>2, BumpTyped DEF ServiceLookupHit
<1>8. ASSUME NEW c \in CPU, ForwardLookupMiss(c) PROVE Typed'
    BY <1>8, NoRegTyped DEF ForwardLookupMiss
<1>9. ASSUME NEW c \in CPU, ForwardLookupHit(c) PROVE Typed'
    <2> DEFINE entry == fwd[reg[c].pkt.flow]
    <2>1. entry.key \in CtKey /\ entry.egress \in Nat
        BY <1>9 DEF ForwardLookupHit, FwdVal
    <2>2. reg' = [reg EXCEPT ![c] = [reg[c] EXCEPT !.key = entry.key,
                                                  !.egress = entry.egress]]
        BY <1>9 DEF ForwardLookupHit
    <2>3. reg' \in [CPU -> Reg]
        BY <2>1, <2>2, RegField
    <2>4. /\ reg'[c].key \in CtKey /\ reg'[c].pkt = reg[c].pkt
          /\ \A d \in CPU \ {c} : reg'[d] = reg[d]
        BY <2>1, <2>2 DEF Reg
    <2>5. /\ pc' = [pc EXCEPT ![c] = "pinned"]
          /\ UNCHANGED <<mapVars, arrivals, writes, ghostVars>>
          /\ stats' \in [CPU -> [Stat -> Nat]]
          /\ pc[c] = "forward"
        BY <1>9, BumpTyped DEF ForwardLookupHit
    <2> QED BY <2>3, <2>4, <2>5
<1>10. ASSUME NEW c \in CPU, PinnedRefresh(c) PROVE Typed'
    BY <1>10, UpdateTyped, NoRegTyped DEF PinnedRefresh
<1>11. ASSUME NEW c \in CPU, NoBackends(c) PROVE Typed'
    BY <1>11, BumpTyped, NoRegTyped DEF NoBackends
<1>12. ASSUME NEW c \in CPU, ReadRr(c) PROVE Typed'
    <2>1. (IF rr[FrontendOf(c)] = Absent THEN 0 ELSE rr[FrontendOf(c)]) \in Nat
        BY <1>12, <1>0 DEF ReadRr
    <2>2. PICK n \in Nat : reg' = [reg EXCEPT ![c].slot = n]
        BY <1>12, <2>1 DEF ReadRr
    <2>3. reg' \in [CPU -> Reg]
        BY <2>2, RegField
    <2> QED BY <1>12, <2>2, <2>3 DEF ReadRr
<1>13. ASSUME NEW c \in CPU, BackendLookupMiss(c) PROVE Typed'
    BY <1>13, BumpTyped, NoRegTyped DEF BackendLookupMiss
<1>14. ASSUME NEW c \in CPU, BackendLookupHit(c) PROVE Typed'
    <2>1. SlotValue(FrontendOf(c), reg[c].slot) \in Backend
        BY <1>14, <1>0 DEF BackendLookupHit, SlotValue
    <2>2. reg' \in [CPU -> Reg]
        BY <1>14, <2>1, RegField DEF BackendLookupHit
    <2> QED BY <1>14, <2>1, <2>2 DEF BackendLookupHit
<1>15. ASSUME NEW c \in CPU, WriteRr(c) PROVE Typed'
    <2>1. reg[c].slot + 1 \in Nat
        BY DEF Reg
    <2>2. rr' \in [Frontend -> Nat \cup {Absent}]
        BY <1>15, <1>0, <2>1 DEF WriteRr
    <2> QED BY <1>15, <2>2, BumpTyped DEF WriteRr
<1>16. ASSUME NEW c \in CPU, ReadSnat(c) PROVE Typed'
    <2>1. SnatPortFrom(snatNext) \in SnatPort /\ SnatPort \subseteq Nat
        BY <1>16, SnatPortTyped, SnatRangeAssumption DEF SnatPort
    <2>2. reg' \in [CPU -> Reg]
        BY <1>16, <2>1, RegField DEF ReadSnat
    <2> QED BY <1>16, <2>1, <2>2 DEF ReadSnat
<1>17. ASSUME NEW c \in CPU, WriteSnat(c) PROVE Typed'
    <2>1. <<reg[c].be, reg[c].svc.snat, reg[c].port>> \in CtKey
        BY <1>17, SnatRangeAssumption DEF WriteSnat, CtKey, SvcVal, Port, SnatPort
    <2>2. config.local \in Nat /\ config.remote \in Nat
        BY DEF ConfigVal
    <2>3. SnatPortAfter(reg[c].port) \in SnatPort
        BY <1>17, SnatPortTyped DEF WriteSnat
    <2>4. PICK e \in Nat : reg' = [reg EXCEPT ![c] = [reg[c] EXCEPT
             !.key = <<reg[c].be, reg[c].svc.snat, reg[c].port>>, !.egress = e]]
        BY <1>17, <2>2 DEF WriteSnat
    <2>5. reg' \in [CPU -> Reg]
        BY <2>1, <2>4, RegField
    <2>6. /\ reg'[c].key \in CtKey /\ reg'[c].pkt = reg[c].pkt
          /\ \A d \in CPU \ {c} : reg'[d] = reg[d]
        BY <2>1, <2>4 DEF Reg
    <2>7. /\ pc' = [pc EXCEPT ![c] = "ctput"] /\ pc[c] = "snatput"
          /\ snatNext' = SnatPortAfter(reg[c].port)
          /\ UNCHANGED <<tableVars, ct, fwd, now, stats, arrivals, writes,
                         ghostVars>>
        BY <1>17 DEF WriteSnat
    <2> QED BY <2>3, <2>5, <2>6, <2>7
<1>18. ASSUME NEW c \in CPU, InstallCtFull(c) PROVE Typed'
    BY <1>18, BumpTyped, NoRegTyped DEF InstallCtFull
<1>19. ASSUME NEW c \in CPU, InstallCt(c) PROVE Typed'
    BY <1>19, BumpTyped, UpdateTyped, NoRegTyped DEF InstallCt
<1>20. ASSUME NEW c \in CPU, InstallFwd(c) PROVE Typed'
    <2>1. reg[c].egress \in Nat
        BY DEF Reg
    <2>2. [key |-> reg[c].key, egress |-> reg[c].egress] \in FwdVal
        BY <1>20, <2>1 DEF InstallFwd, FwdVal
    <2> QED BY <1>20, <2>2, BumpTyped DEF InstallFwd
<1>21. ASSUME NEW c \in CPU, InstallFwdFull(c) PROVE Typed'
    BY <1>21, NoRegTyped DEF InstallFwdFull
<1>22. ASSUME NEW c \in CPU, UndoCt(c) PROVE Typed'
    BY <1>22, BumpTyped, NoRegTyped DEF UndoCt
<1>23. ASSUME NEW c \in CPU, RewriteFail(c) PROVE Typed'
    BY <1>23, BumpTyped, NoRegTyped DEF RewriteFail
<1>24. ASSUME NEW c \in CPU, RewriteRequest(c) PROVE Typed'
    BY <1>24, BumpTyped, NoRegTyped DEF RewriteRequest
<1>25. ASSUME NEW c \in CPU, RewriteResponse(c) PROVE Typed'
    <2>1. reg[c].pkt.flow # Absent => <<reg[c].pkt.flow, reg[c].flow>> \in Flow \X Flow
        BY <1>25 DEF RewriteResponse, Packet
    <2>2. replies' \subseteq Flow \X Flow
        BY <1>25, <2>1 DEF RewriteResponse
    <2> QED BY <1>25, <2>2, BumpTyped, NoRegTyped DEF RewriteResponse
<1>26. ASSUME ControlPlane PROVE Typed'
    <2>0. SyncedService \subseteq SvcVal /\ SyncedConfig \subseteq ConfigVal
        BY MaxSlotsAssumption
        DEF SyncedService, SvcVal, SyncedConfig, ConfigVal
    <2>1. svc' \in [Frontend -> SvcVal \cup {Absent}]
        BY <1>26, <2>0 DEF ControlPlane
    <2>2. slots' \in [Frontend \X Slot -> Backend \cup {Absent}]
        BY <1>26 DEF ControlPlane
    <2>3. rr' \in [Frontend -> Nat \cup {Absent}]
        BY <1>26 DEF ControlPlane
    <2>4. config' \in ConfigVal
        BY <1>26, <2>0 DEF ControlPlane
    <2> QED BY <1>26, <2>1, <2>2, <2>3, <2>4 DEF ControlPlane
<1>27. ASSUME Tick PROVE Typed'
    BY <1>27 DEF Tick, tcVars
<1>28. ASSUME UNCHANGED vars PROVE Typed'
    BY <1>28 DEF vars, tcVars
<1> QED
    BY ZenonT(30), <1>1, <1>2, <1>3, <1>4, <1>5, <1>6, <1>7, <1>8, <1>9, <1>10, <1>11,
       <1>12, <1>13, <1>14, <1>15, <1>16, <1>17, <1>18, <1>19, <1>20, <1>21,
       <1>22, <1>23, <1>24, <1>25, <1>26, <1>27, <1>28
    DEF Next, Run, handle_response, handle_request, select_backend

\* The maps, the locals and the counters keep their types: in particular the
\* allocator never leaves the SNAT range, and no step uses a local before the
\* program has set it.
THEOREM TypeCorrect == Spec => []TypeOK
<1>1. Init => Typed
    BY InitTyped
<1>2. Typed /\ [Next]_vars => Typed'
    BY StepTyped
<1>3. Typed => TypeOK
    BY DEF Typed
<1> QED BY <1>1, <1>2, <1>3, PTL DEF Spec

---------------------------------------------------------------------------
(* Reverse NAT.  The history variable owner fixes the flow of a conntrack  *)
(* key; as long as no key is given out twice, everything that mentions a   *)
(* key, in the maps, in the locals of a CPU, in a packet on the wire,      *)
(* agrees with it.                                                         *)

RegOwned(c) ==
    /\ (pc[c] # "idle" /\ reg[c].pkt.dir = "response"
           /\ reg[c].pkt.flow # Absent)
          => owner[reg[c].pkt.key] = reg[c].pkt.flow
    /\ (pc[c] \in {"refresh", "rewrite"} /\ reg[c].pkt.dir = "response")
          => owner[reg[c].pkt.key] = reg[c].flow
    /\ (pc[c] \in {"pinned", "fwdput", "ctundo", "rewrite"}
           /\ reg[c].pkt.dir = "request")
          => owner[reg[c].key] = reg[c].pkt.flow

MapsOwned ==
    /\ \A k \in CtKey : ct[k] # Absent => ct[k].flow = owner[k]
    /\ \A fl \in Flow : fwd[fl] # Absent => owner[fwd[fl].key] = fl

WireOwned ==
    /\ \A s \in sent : owner[s[2]] = s[1]
    /\ \A r \in replies : r[1] = r[2]

Owned == ~reused => MapsOwned /\ WireOwned /\ \A c \in CPU : RegOwned(c)

\* A CPU between its two installs has the reverse entry of its key, and
\* nobody else uses the key.
Installing(c) == pc[c] \in {"fwdput", "ctundo"}

Reversible ==
    ~reused =>
        /\ \A fl \in Flow : fwd[fl] # Absent => ct[fwd[fl].key] # Absent
        /\ \A c \in CPU : pc[c] = "fwdput" => ct[reg[c].key] # Absent
        /\ \A c \in CPU : Installing(c) =>
              /\ \A fl \in Flow : fwd[fl] # Absent => fwd[fl].key # reg[c].key
              /\ \A d \in CPU \ {c} : Installing(d) => reg[d].key # reg[c].key

\* A CPU that sets up a connection of a client that only it receives knows
\* that there is no forward entry.
Choosing(c) == pc[c] \in {"rr", "backend", "rrput", "snatget", "snatput",
                          "ctput", "fwdput"}

Unpinned ==
    \A c \in CPU :
        /\ (pc[c] # "idle" /\ reg[c].pkt.dir = "request")
              => c \in Steer[reg[c].pkt.flow[1]]
        /\ (Choosing(c) /\ OneQueue(reg[c].pkt.flow[1]))
              => fwd[reg[c].pkt.flow] = Absent

\* Every step respects the owners of the conntrack keys, as long as it gives
\* no key out for a second time.
LEMMA StepOwned == Typed /\ Owned /\ [Next]_vars => Owned'
<1> SUFFICES ASSUME Typed, Owned, [Next]_vars PROVE Owned'
    OBVIOUS
<1> USE DEF Typed, TypeOK, MapsTypeOK, RegOK, Goto, Return, RequestPC, PC,
        mapVars, tableVars, connVars, ghostVars,
        Owned, MapsOwned, WireOwned, RegOwned
<1>1. ASSUME NEW c \in CPU, nodeport_tc(c) PROVE Owned'
    <2>1. PICK p \in Incoming(c) :
             reg' = [reg EXCEPT ![c] = [NoReg EXCEPT !.pkt = p]]
        BY <1>1 DEF nodeport_tc
    <2>2. (p.dir = "response" /\ p.flow # Absent)
             => \E s \in sent : s[1] = p.flow /\ s[2] = p.key
        BY DEF Incoming
    <2>3. [NoReg EXCEPT !.pkt = p].pkt = p
        BY DEF NoReg
    <2>4. /\ reg'[c].pkt = p
          /\ \A d \in CPU \ {c} : reg'[d] = reg[d]
        BY <2>1, <2>3
    <2>5. /\ pc' = [pc EXCEPT ![c] = "response"]
          /\ UNCHANGED <<ct, fwd, ghostVars>>
        BY <1>1 DEF nodeport_tc
    <2> QED BY <2>2, <2>4, <2>5
<1>2. ASSUME NEW c \in CPU, ResponseLookupRequest(c) PROVE Owned'
    BY <1>2 DEF ResponseLookupRequest
<1>3. ASSUME NEW c \in CPU, ResponseLookupMiss(c) PROVE Owned'
    BY <1>3 DEF ResponseLookupMiss
<1>4. ASSUME NEW c \in CPU, ResponseLookupHit(c) PROVE Owned'
    BY <1>4 DEF ResponseLookupHit, Reg
<1>5. ASSUME NEW c \in CPU, ResponseRefresh(c) PROVE Owned'
    <2>1. reg[c].pkt.key \in CtKey /\ reg[c].flow \in Flow
        BY <1>5 DEF ResponseRefresh
    <2>2. ~reused => owner[reg[c].pkt.key] = reg[c].flow
        BY <1>5 DEF ResponseRefresh
    <2>3. \A k \in CtKey :
             ct'[k] = ct[k] \/ (k = reg[c].pkt.key /\ ct'[k].flow = reg[c].flow)
        BY <1>5, <2>1, UpdateTyped DEF ResponseRefresh
    <2>4. ~reused => \A k \in CtKey : ct'[k] # Absent => ct'[k].flow = owner[k]
        BY <2>2, <2>3
    <2> QED BY <1>5, <2>4 DEF ResponseRefresh
<1>6. ASSUME NEW c \in CPU, ServiceLookupMiss(c) PROVE Owned'
    BY <1>6 DEF ServiceLookupMiss
<1>7. ASSUME NEW c \in CPU, ServiceLookupHit(c) PROVE Owned'
    BY <1>7 DEF ServiceLookupHit, Reg
<1>8. ASSUME NEW c \in CPU, ForwardLookupMiss(c) PROVE Owned'
    BY <1>8 DEF ForwardLookupMiss
<1>9. ASSUME NEW c \in CPU, ForwardLookupHit(c) PROVE Owned'
    <2> DEFINE entry == fwd[reg[c].pkt.flow]
    <2>1. ~reused => owner[entry.key] = reg[c].pkt.flow
        BY <1>9 DEF ForwardLookupHit
    <2>2. reg' = [reg EXCEPT ![c] = [reg[c] EXCEPT !.key = entry.key,
                                                  !.egress = entry.egress]]
        BY <1>9 DEF ForwardLookupHit
    <2>3. /\ reg'[c].key = entry.key /\ reg'[c].pkt = reg[c].pkt
          /\ \A d \in CPU \ {c} : reg'[d] = reg[d]
        BY <2>2 DEF Reg
    <2>4. /\ pc' = [pc EXCEPT ![c] = "pinned"] /\ pc[c] = "forward"
          /\ UNCHANGED <<ct, fwd, ghostVars>>
        BY <1>9 DEF ForwardLookupHit
    <2> QED BY SMTT(40), <2>1, <2>3, <2>4
<1>10. ASSUME NEW c \in CPU, PinnedRefresh(c) PROVE Owned'
    <2>1. reg[c].key \in CtKey /\ reg[c].pkt.flow \in Flow
        BY <1>10 DEF PinnedRefresh
    <2>2. ~reused => owner[reg[c].key] = reg[c].pkt.flow
        BY <1>10 DEF PinnedRefresh
    <2>3. \A k \in CtKey :
             ct'[k] = ct[k] \/ (k = reg[c].key /\ ct'[k].flow = reg[c].pkt.flow)
        BY <1>10, <2>1, UpdateTyped DEF PinnedRefresh
    <2>4. ~reused => \A k \in CtKey : ct'[k] # Absent => ct'[k].flow = owner[k]
        BY <2>2, <2>3
    <2> QED BY <1>10, <2>4 DEF PinnedRefresh
<1>11. ASSUME NEW c \in CPU, NoBackends(c) PROVE Owned'
    BY <1>11 DEF NoBackends
<1>12. ASSUME NEW c \in CPU, ReadRr(c) PROVE Owned'
    BY <1>12 DEF ReadRr, Reg
<1>13. ASSUME NEW c \in CPU, BackendLookupMiss(c) PROVE Owned'
    BY <1>13 DEF BackendLookupMiss
<1>14. ASSUME NEW c \in CPU, BackendLookupHit(c) PROVE Owned'
    BY <1>14 DEF BackendLookupHit, Reg
<1>15. ASSUME NEW c \in CPU, WriteRr(c) PROVE Owned'
    BY <1>15 DEF WriteRr
<1>16. ASSUME NEW c \in CPU, ReadSnat(c) PROVE Owned'
    BY SMTT(20), <1>16 DEF ReadSnat, Reg
<1>17. ASSUME NEW c \in CPU, WriteSnat(c) PROVE Owned'
    <2>1. /\ reg'[c].pkt = reg[c].pkt
          /\ \A d \in CPU \ {c} : reg'[d] = reg[d]
        BY <1>17 DEF WriteSnat, Reg
    <2>2. /\ pc' = [pc EXCEPT ![c] = "ctput"] /\ pc[c] = "snatput"
          /\ UNCHANGED <<ct, fwd, ghostVars>>
        BY <1>17 DEF WriteSnat
    <2> QED BY <2>1, <2>2
<1>18. ASSUME NEW c \in CPU, InstallCtFull(c) PROVE Owned'
    BY <1>18 DEF InstallCtFull
<1>19. ASSUME NEW c \in CPU, InstallCt(c) PROVE Owned'
    <2> SUFFICES ASSUME ~reused' PROVE (MapsOwned /\ WireOwned)' /\ \A d \in CPU : RegOwned(d)'
        OBVIOUS
    <2> DEFINE key == reg[c].key
    <2>1. key \in CtKey /\ reg[c].pkt.flow \in Flow /\ reg[c].pkt.dir = "request"
        BY <1>19 DEF InstallCt
    <2>2. ~reused /\ owner[key] = Absent
        BY <1>19 DEF InstallCt
    <2>3. owner' = [owner EXCEPT ![key] = reg[c].pkt.flow]
        BY <1>19, <2>2 DEF InstallCt
    \* A key that belongs to a flow already is another key.
    <2>4. \A k \in CtKey : owner[k] \in Flow => owner'[k] = owner[k]
        BY <2>2, <2>3, AbsentAssumption
    <2>5. UNCHANGED <<fwd, sent, replies, reg>> /\ pc' = [pc EXCEPT ![c] = "fwdput"]
        BY <1>19 DEF InstallCt
    <2>6. \A k \in CtKey : ct'[k] # Absent => ct'[k].flow = owner'[k]
        <3> SUFFICES ASSUME NEW k \in CtKey, ct'[k] # Absent
                     PROVE  ct'[k].flow = owner'[k]
            OBVIOUS
        <3>1. ct'[k] = ct[k] \/ (k = key /\ ct'[k].flow = reg[c].pkt.flow)
            BY <1>19, <2>1, UpdateTyped DEF InstallCt
        <3>2. CASE ct'[k] = ct[k]
            BY <3>2, <2>2, <2>4 DEF CtVal
        <3>3. CASE k = key /\ ct'[k].flow = reg[c].pkt.flow
            BY <3>3, <2>1, <2>3
        <3> QED BY <3>1, <3>2, <3>3
    <2>7. \A fl \in Flow : fwd[fl] # Absent => owner'[fwd[fl].key] = fl
        BY <2>2, <2>4 DEF FwdVal
    <2>8. \A s \in sent : owner'[s[2]] = s[1]
        BY <2>2, <2>4
    <2>9. ASSUME NEW d \in CPU PROVE RegOwned(d)'
        <3>1. CASE d = c
            BY <3>1, <2>1, <2>3, <2>5
        <3>2. CASE d # c
            <4>1. pc'[d] = pc[d] /\ reg'[d] = reg[d]
                BY <3>2, <2>5
            <4>2. reg[d].pkt.flow \in Flow \cup {Absent} \/ pc[d] = "idle"
                BY DEF Packet
            <4> QED BY <4>1, <4>2, <2>2, <2>4
        <3> QED BY <3>1, <3>2
    <2> QED BY <2>2, <2>5, <2>6, <2>7, <2>8, <2>9
<1>20. ASSUME NEW c \in CPU, InstallFwd(c) PROVE Owned'
    BY <1>20 DEF InstallFwd
<1>21. ASSUME NEW c \in CPU, InstallFwdFull(c) PROVE Owned'
    BY <1>21 DEF InstallFwdFull
<1>22. ASSUME NEW c \in CPU, UndoCt(c) PROVE Owned'
    BY <1>22 DEF UndoCt
<1>23. ASSUME NEW c \in CPU, RewriteFail(c) PROVE Owned'
    BY <1>23 DEF RewriteFail
<1>24. ASSUME NEW c \in CPU, RewriteRequest(c) PROVE Owned'
    BY <1>24 DEF RewriteRequest
<1>25. ASSUME NEW c \in CPU, RewriteResponse(c) PROVE Owned'
    BY <1>25 DEF RewriteResponse
<1>26. ASSUME ControlPlane PROVE Owned'
    BY <1>26 DEF ControlPlane
<1>27. ASSUME Tick PROVE Owned'
    BY <1>27 DEF Tick, tcVars
<1>28. ASSUME UNCHANGED vars PROVE Owned'
    BY <1>28 DEF vars, tcVars
<1> QED
    BY ZenonT(30), <1>1, <1>2, <1>3, <1>4, <1>5, <1>6, <1>7, <1>8, <1>9, <1>10, <1>11,
       <1>12, <1>13, <1>14, <1>15, <1>16, <1>17, <1>18, <1>19, <1>20, <1>21,
       <1>22, <1>23, <1>24, <1>25, <1>26, <1>27, <1>28
    DEF Next, Run, handle_response, handle_request, select_backend

\* Reverse NAT never mixes up connections while no conntrack key is given
\* out twice: handle_response restores the tuple of the connection that the
\* backend answers, on any number of CPUs.
THEOREM RepliesIsolated == Spec => []ReplyIsolation
<1>1. Init => Typed /\ Owned
    BY InitTyped
    DEF Init, ConnInit, TCInit, Owned, MapsOwned, WireOwned, RegOwned
<1>2. Typed /\ Owned /\ [Next]_vars => (Typed /\ Owned)'
    BY StepTyped, StepOwned
<1>3. Owned => ReplyIsolation
    BY DEF Owned, WireOwned, ReplyIsolation
<1> QED BY <1>1, <1>2, <1>3, PTL DEF Spec

\* Every step keeps the reverse entry of every forward entry.
LEMMA StepReversible ==
    Typed /\ Owned /\ Reversible /\ [Next]_vars => Reversible'
<1> SUFFICES ASSUME Typed, Owned, Reversible, [Next]_vars PROVE Reversible'
    OBVIOUS
<1> USE DEF Typed, TypeOK, MapsTypeOK, RegOK, Goto, Return, RequestPC, PC,
        mapVars, tableVars, connVars, ghostVars, Reversible, Installing
<1>1. ASSUME NEW c \in CPU, nodeport_tc(c) PROVE Reversible'
    BY <1>1 DEF nodeport_tc
<1>2. ASSUME NEW c \in CPU, ResponseLookupRequest(c) PROVE Reversible'
    BY <1>2 DEF ResponseLookupRequest
<1>3. ASSUME NEW c \in CPU, ResponseLookupMiss(c) PROVE Reversible'
    BY <1>3 DEF ResponseLookupMiss
<1>4. ASSUME NEW c \in CPU, ResponseLookupHit(c) PROVE Reversible'
    BY <1>4 DEF ResponseLookupHit, Reg
<1>5. ASSUME NEW c \in CPU, ResponseRefresh(c) PROVE Reversible'
    <2>1. reg[c].pkt.key \in CtKey /\ reg[c].flow \in Flow
        BY <1>5 DEF ResponseRefresh
    <2>2. \A k \in CtKey : ct[k] # Absent => ct'[k] # Absent
        BY <1>5, <2>1, UpdateTyped DEF ResponseRefresh
    <2>3. \A fl \in Flow : fwd[fl] # Absent => fwd[fl].key \in CtKey
        BY DEF FwdVal
    <2>4. /\ pc' = [pc EXCEPT ![c] = "rewrite"]
          /\ UNCHANGED <<reg, fwd, reused>>
        BY <1>5 DEF ResponseRefresh
    <2> QED BY <2>2, <2>3, <2>4
<1>6. ASSUME NEW c \in CPU, ServiceLookupMiss(c) PROVE Reversible'
    BY <1>6 DEF ServiceLookupMiss
<1>7. ASSUME NEW c \in CPU, ServiceLookupHit(c) PROVE Reversible'
    BY <1>7 DEF ServiceLookupHit, Reg
<1>8. ASSUME NEW c \in CPU, ForwardLookupMiss(c) PROVE Reversible'
    BY SMTT(20), <1>8 DEF ForwardLookupMiss
<1>9. ASSUME NEW c \in CPU, ForwardLookupHit(c) PROVE Reversible'
    BY <1>9 DEF ForwardLookupHit, Reg
<1>10. ASSUME NEW c \in CPU, PinnedRefresh(c) PROVE Reversible'
    <2>1. reg[c].key \in CtKey /\ reg[c].pkt.flow \in Flow
        BY <1>10 DEF PinnedRefresh
    <2>2. \A k \in CtKey : ct[k] # Absent => ct'[k] # Absent
        BY <1>10, <2>1, UpdateTyped DEF PinnedRefresh
    <2>3. \A fl \in Flow : fwd[fl] # Absent => fwd[fl].key \in CtKey
        BY DEF FwdVal
    <2>4. /\ pc' = [pc EXCEPT ![c] = "rewrite"]
          /\ UNCHANGED <<reg, fwd, reused>>
        BY <1>10 DEF PinnedRefresh
    <2> QED BY <2>2, <2>3, <2>4
<1>11. ASSUME NEW c \in CPU, NoBackends(c) PROVE Reversible'
    BY <1>11 DEF NoBackends
<1>12. ASSUME NEW c \in CPU, ReadRr(c) PROVE Reversible'
    BY <1>12 DEF ReadRr, Reg
<1>13. ASSUME NEW c \in CPU, BackendLookupMiss(c) PROVE Reversible'
    BY <1>13 DEF BackendLookupMiss
<1>14. ASSUME NEW c \in CPU, BackendLookupHit(c) PROVE Reversible'
    BY <1>14 DEF BackendLookupHit, Reg
<1>15. ASSUME NEW c \in CPU, WriteRr(c) PROVE Reversible'
    BY <1>15 DEF WriteRr
<1>16. ASSUME NEW c \in CPU, ReadSnat(c) PROVE Reversible'
    BY <1>16 DEF ReadSnat, Reg
<1>17. ASSUME NEW c \in CPU, WriteSnat(c) PROVE Reversible'
    BY <1>17 DEF WriteSnat, Reg
<1>18. ASSUME NEW c \in CPU, InstallCtFull(c) PROVE Reversible'
    BY <1>18 DEF InstallCtFull
<1>19. ASSUME NEW c \in CPU, InstallCt(c) PROVE Reversible'
    <2> SUFFICES ASSUME ~reused' PROVE Reversible'
        OBVIOUS
    <2> DEFINE key == reg[c].key
    <2>1. key \in CtKey /\ reg[c].pkt.flow \in Flow
        BY <1>19 DEF InstallCt
    <2>2. ~reused /\ owner[key] = Absent
        BY <1>19 DEF InstallCt
    <2>3. \A k \in CtKey : ct[k] # Absent => ct'[k] # Absent
        BY <1>19, <2>1, UpdateTyped DEF InstallCt
    <2>4. ct'[key] # Absent
        BY <1>19, <2>1, AbsentAssumption
        DEF InstallCt, update_conntrack_entry, CtVal
    <2>5. /\ pc' = [pc EXCEPT ![c] = "fwdput"]
          /\ UNCHANGED <<reg, fwd>>
        BY <1>19 DEF InstallCt
    \* The key belongs to nobody yet.
    <2>6. \A fl \in Flow :
             fwd[fl] # Absent => fwd[fl].key \in CtKey /\ fwd[fl].key # key
        BY <2>2, AbsentAssumption DEF FwdVal, Owned, MapsOwned
    <2>7. \A d \in CPU : Installing(d) =>
             reg[d].key \in CtKey /\ owner[reg[d].key] \in Flow
        BY <2>2 DEF Owned, RegOwned
    <2>8. \A d \in CPU : Installing(d) => reg[d].key # key
        BY <2>2, <2>7, AbsentAssumption
    <2> QED BY <2>2, <2>3, <2>4, <2>5, <2>6, <2>7, <2>8
<1>20. ASSUME NEW c \in CPU, InstallFwd(c) PROVE Reversible'
    BY <1>20 DEF InstallFwd
<1>21. ASSUME NEW c \in CPU, InstallFwdFull(c) PROVE Reversible'
    BY <1>21 DEF InstallFwdFull
<1>22. ASSUME NEW c \in CPU, UndoCt(c) PROVE Reversible'
    BY <1>22 DEF UndoCt
<1>23. ASSUME NEW c \in CPU, RewriteFail(c) PROVE Reversible'
    BY <1>23 DEF RewriteFail
<1>24. ASSUME NEW c \in CPU, RewriteRequest(c) PROVE Reversible'
    BY <1>24 DEF RewriteRequest
<1>25. ASSUME NEW c \in CPU, RewriteResponse(c) PROVE Reversible'
    BY <1>25 DEF RewriteResponse
<1>26. ASSUME ControlPlane PROVE Reversible'
    BY <1>26 DEF ControlPlane
<1>27. ASSUME Tick PROVE Reversible'
    BY <1>27 DEF Tick, tcVars
<1>28. ASSUME UNCHANGED vars PROVE Reversible'
    BY <1>28 DEF vars, tcVars
<1> QED
    BY ZenonT(30), <1>1, <1>2, <1>3, <1>4, <1>5, <1>6, <1>7, <1>8, <1>9, <1>10, <1>11,
       <1>12, <1>13, <1>14, <1>15, <1>16, <1>17, <1>18, <1>19, <1>20, <1>21,
       <1>22, <1>23, <1>24, <1>25, <1>26, <1>27, <1>28
    DEF Next, Run, handle_response, handle_request, select_backend

\* A pinned connection always has its way back: while no conntrack key is
\* given out twice, each forward entry has a reverse entry of the same flow.
THEOREM ForwardReversible == Spec => []ForwardHasReverse
<1>1. Init => Typed /\ Owned /\ Reversible
    BY InitTyped
    DEF Init, ConnInit, TCInit, Owned, MapsOwned, WireOwned, RegOwned,
        Reversible, Installing
<1>2. Typed /\ Owned /\ Reversible /\ [Next]_vars
          => (Typed /\ Owned /\ Reversible)'
    BY StepTyped, StepOwned, StepReversible
<1>3. Typed /\ Owned /\ Reversible => ForwardHasReverse
    BY SMTT(20) DEF Typed, TypeOK, MapsTypeOK, Owned, MapsOwned, Reversible, FwdVal,
           ForwardHasReverse
<1> QED BY <1>1, <1>2, <1>3, PTL DEF Spec

\* The connection of a client that one CPU receives is pinned: a CPU that is
\* setting it up finds no forward entry to overwrite.
LEMMA StepUnpinned == Typed /\ Unpinned /\ [Next]_vars => Unpinned'
<1> SUFFICES ASSUME Typed, Unpinned, [Next]_vars PROVE Unpinned'
    OBVIOUS
<1> USE DEF Typed, TypeOK, MapsTypeOK, RegOK, Goto, Return, RequestPC, PC,
        mapVars, tableVars, connVars, ghostVars, Unpinned, Choosing
<1>1. ASSUME NEW c \in CPU, nodeport_tc(c) PROVE Unpinned'
    <2>1. PICK p \in Incoming(c) :
             reg' = [reg EXCEPT ![c] = [NoReg EXCEPT !.pkt = p]]
        BY <1>1 DEF nodeport_tc
    <2>2. p.dir = "request" => c \in Steer[p.flow[1]]
        BY DEF Incoming
    <2>3. [NoReg EXCEPT !.pkt = p].pkt = p
        BY DEF NoReg
    <2>4. /\ reg'[c].pkt = p
          /\ \A d \in CPU \ {c} : reg'[d] = reg[d]
        BY <2>1, <2>3
    <2>5. pc' = [pc EXCEPT ![c] = "response"] /\ UNCHANGED fwd
        BY <1>1 DEF nodeport_tc
    <2> QED BY <2>2, <2>4, <2>5
<1>2. ASSUME NEW c \in CPU, ResponseLookupRequest(c) PROVE Unpinned'
    BY <1>2 DEF ResponseLookupRequest
<1>3. ASSUME NEW c \in CPU, ResponseLookupMiss(c) PROVE Unpinned'
    BY <1>3 DEF ResponseLookupMiss
<1>4. ASSUME NEW c \in CPU, ResponseLookupHit(c) PROVE Unpinned'
    BY <1>4 DEF ResponseLookupHit, Reg
<1>5. ASSUME NEW c \in CPU, ResponseRefresh(c) PROVE Unpinned'
    BY <1>5 DEF ResponseRefresh
<1>6. ASSUME NEW c \in CPU, ServiceLookupMiss(c) PROVE Unpinned'
    BY <1>6 DEF ServiceLookupMiss
<1>7. ASSUME NEW c \in CPU, ServiceLookupHit(c) PROVE Unpinned'
    BY <1>7 DEF ServiceLookupHit, Reg
<1>8. ASSUME NEW c \in CPU, ForwardLookupMiss(c) PROVE Unpinned'
    BY <1>8 DEF ForwardLookupMiss
<1>9. ASSUME NEW c \in CPU, ForwardLookupHit(c) PROVE Unpinned'
    <2>1. /\ reg'[c].pkt = reg[c].pkt
          /\ \A d \in CPU \ {c} : reg'[d] = reg[d]
        BY <1>9 DEF ForwardLookupHit, Reg
    <2>2. pc' = [pc EXCEPT ![c] = "pinned"] /\ pc[c] = "forward" /\ UNCHANGED fwd
        BY <1>9 DEF ForwardLookupHit
    <2> QED BY <2>1, <2>2
<1>10. ASSUME NEW c \in CPU, PinnedRefresh(c) PROVE Unpinned'
    BY <1>10 DEF PinnedRefresh
<1>11. ASSUME NEW c \in CPU, NoBackends(c) PROVE Unpinned'
    BY <1>11 DEF NoBackends
<1>12. ASSUME NEW c \in CPU, ReadRr(c) PROVE Unpinned'
    BY <1>12 DEF ReadRr, Reg
<1>13. ASSUME NEW c \in CPU, BackendLookupMiss(c) PROVE Unpinned'
    BY <1>13 DEF BackendLookupMiss
<1>14. ASSUME NEW c \in CPU, BackendLookupHit(c) PROVE Unpinned'
    BY <1>14 DEF BackendLookupHit, Reg
<1>15. ASSUME NEW c \in CPU, WriteRr(c) PROVE Unpinned'
    BY <1>15 DEF WriteRr
<1>16. ASSUME NEW c \in CPU, ReadSnat(c) PROVE Unpinned'
    BY <1>16 DEF ReadSnat, Reg
<1>17. ASSUME NEW c \in CPU, WriteSnat(c) PROVE Unpinned'
    <2>1. /\ reg'[c].pkt = reg[c].pkt
          /\ \A d \in CPU \ {c} : reg'[d] = reg[d]
        BY <1>17 DEF WriteSnat, Reg
    <2>2. pc' = [pc EXCEPT ![c] = "ctput"] /\ pc[c] = "snatput" /\ UNCHANGED fwd
        BY <1>17 DEF WriteSnat
    <2> QED BY <2>1, <2>2
<1>18. ASSUME NEW c \in CPU, InstallCtFull(c) PROVE Unpinned'
    BY <1>18 DEF InstallCtFull
<1>19. ASSUME NEW c \in CPU, InstallCt(c) PROVE Unpinned'
    BY <1>19 DEF InstallCt
<1>20. ASSUME NEW c \in CPU, InstallFwd(c) PROVE Unpinned'
    <2> DEFINE flow == reg[c].pkt.flow
    <2>1. /\ pc' = [pc EXCEPT ![c] = "rewrite"] /\ UNCHANGED reg
          /\ \A fl \in Flow \ {flow} : fwd'[fl] = fwd[fl]
        BY <1>20 DEF InstallFwd
    <2>2. c \in Steer[flow[1]]
        BY <1>20 DEF InstallFwd
    <2>3. \A d \in CPU \ {c} :
             (Choosing(d) /\ OneQueue(reg[d].pkt.flow[1]))
                => reg[d].pkt.flow # flow /\ reg[d].pkt.flow \in Flow
        BY <2>2 DEF OneQueue
    <2>4. ASSUME NEW d \in CPU \ {c},
                 (Choosing(d) /\ OneQueue(reg[d].pkt.flow[1]))'
          PROVE  fwd'[reg'[d].pkt.flow] = Absent
        <3>1. Choosing(d) /\ OneQueue(reg[d].pkt.flow[1]) /\ reg'[d] = reg[d]
            BY <2>1, <2>4 DEF OneQueue
        <3> QED BY <2>1, <2>3, <3>1
    <2>5. ~Choosing(c)'
        BY <2>1
    <2>6. \A d \in CPU : (pc'[d] # "idle" /\ reg'[d].pkt.dir = "request")
             => d \in Steer[reg'[d].pkt.flow[1]]
        BY <1>20, <2>1 DEF InstallFwd
    <2> HIDE DEF Choosing
    <2> QED BY <2>4, <2>5, <2>6
<1>21. ASSUME NEW c \in CPU, InstallFwdFull(c) PROVE Unpinned'
    BY <1>21 DEF InstallFwdFull
<1>22. ASSUME NEW c \in CPU, UndoCt(c) PROVE Unpinned'
    BY <1>22 DEF UndoCt
<1>23. ASSUME NEW c \in CPU, RewriteFail(c) PROVE Unpinned'
    BY <1>23 DEF RewriteFail
<1>24. ASSUME NEW c \in CPU, RewriteRequest(c) PROVE Unpinned'
    BY <1>24 DEF RewriteRequest
<1>25. ASSUME NEW c \in CPU, RewriteResponse(c) PROVE Unpinned'
    BY <1>25 DEF RewriteResponse
<1>26. ASSUME ControlPlane PROVE Unpinned'
    BY <1>26 DEF ControlPlane
<1>27. ASSUME Tick PROVE Unpinned'
    BY <1>27 DEF Tick, tcVars
<1>28. ASSUME UNCHANGED vars PROVE Unpinned'
    BY <1>28 DEF vars, tcVars
<1> QED
    BY ZenonT(30), <1>1, <1>2, <1>3, <1>4, <1>5, <1>6, <1>7, <1>8, <1>9, <1>10, <1>11,
       <1>12, <1>13, <1>14, <1>15, <1>16, <1>17, <1>18, <1>19, <1>20, <1>21,
       <1>22, <1>23, <1>24, <1>25, <1>26, <1>27, <1>28
    DEF Next, Run, handle_response, handle_request, select_backend

\* nodeport_fwd_ct_map pins the connections of every client that one CPU
\* receives: no step of the program, on any CPU, and no write of a syncer
\* changes the backend, the SNAT port or the egress interface of one.
THEOREM ConnectionsPinned == Spec => PinnedForGood
<1>1. Init => Typed /\ Unpinned
    BY InitTyped DEF Init, TCInit, Unpinned, Choosing
<1>2. Typed /\ Unpinned /\ [Next]_vars => (Typed /\ Unpinned)'
    BY StepTyped, StepUnpinned
<1>3. Typed /\ Unpinned /\ [Next]_vars
         => [\A fl \in Flow :
                (OneQueue(fl[1]) /\ fwd[fl] # Absent) => fwd'[fl] = fwd[fl]]_vars
    <2> SUFFICES ASSUME Typed, Unpinned, [Next]_vars, NEW fl \in Flow,
                        OneQueue(fl[1]), fwd[fl] # Absent
                 PROVE  fwd'[fl] = fwd[fl]
        OBVIOUS
    <2>1. CASE \E c \in CPU : InstallFwd(c)
        BY SMTT(20), <2>1 DEF InstallFwd, Typed, TypeOK, MapsTypeOK, RegOK, RequestPC,
                    Unpinned, Choosing
    <2>2. CASE ~\E c \in CPU : InstallFwd(c)
        <3>1. fwd' = fwd
            BY ZenonT(30), <2>2 DEF Next, Run, handle_response, handle_request,
               select_backend, vars, mapVars, connVars, nodeport_tc,
               ResponseLookupMiss, ResponseLookupHit, ResponseRefresh,
               RewriteResponse, ResponseLookupRequest, ServiceLookupMiss,
               ServiceLookupHit, ForwardLookupMiss, ForwardLookupHit,
               PinnedRefresh, NoBackends, ReadRr, BackendLookupMiss,
               BackendLookupHit, WriteRr, ReadSnat, WriteSnat, InstallCtFull,
               InstallCt, InstallFwdFull, UndoCt, RewriteRequest, RewriteFail,
               ControlPlane, Tick
        <3> QED BY <3>1
    <2> QED BY <2>1, <2>2
<1> QED BY <1>1, <1>2, <1>3, PTL DEF Spec, PinnedForGood

---------------------------------------------------------------------------
(* The counters.                                                           *)

\* The counters in `which' balance a step of the program from one label to
\* another.
Bumped(s, which) == IF s \in which THEN 1 ELSE 0

At(label, labels) == IF label \in labels THEN 1 ELSE 0

Balancing(which, from, to) ==
    /\ Bumped("NODEPORT_HIT", which) + At(from, {"forward", "rr", "backend", "rrput"})
       = Bumped("FWD_CT_HIT", which) + Bumped("BACKEND_SELECTED", which)
         + Bumped("BACKEND_LOOKUP_MISS", which)
         + At(to, {"forward", "rr", "backend", "rrput"})
    /\ Bumped("BACKEND_SELECTED", which) + Bumped("BACKEND_LOOKUP_MISS", which)
         + Bumped("CT_LOOKUP_MISS", which)
         + At(from, {"snatget", "snatput", "ctput", "fwdput", "ctundo"})
       = Bumped("NEW_CONN", which) + Bumped("MAP_MISS", which)
         + At(to, {"snatget", "snatput", "ctput", "fwdput", "ctundo"})
    /\ Bumped("FWD_CT_HIT", which) + Bumped("NEW_CONN", which)
         + Bumped("REVNAT_HIT", which) + At(from, {"pinned", "rewrite"})
       = Bumped("REQUEST_REWRITE", which) + Bumped("RESPONSE_REWRITE", which)
         + Bumped("REWRITE_FAIL", which) + At(to, {"pinned", "rewrite"})
    /\ Bumped("REQUEST_REWRITE", which) + Bumped("RESPONSE_REWRITE", which)
       = Bumped("REDIRECT_OK", which) + Bumped("REDIRECT_FAIL", which)
    /\ Bumped("FALLBACK_PASS", which)
       = Bumped("MAP_MISS", which) + Bumped("REWRITE_FAIL", which)
         + Bumped("REDIRECT_FAIL", which)

\* A step whose counters balance keeps the sums of every CPU.
LEMMA BalancingStep ==
    ASSUME Typed, StatsBalance, NEW c \in CPU, NEW which, NEW to,
           bump_stat(c, which), Balancing(which, pc[c], to),
           pc' = [pc EXCEPT ![c] = to]
    PROVE  StatsBalance'
<1> DEFINE n == stats[c]
           m == stats'[c]
<1>1. \A s \in Stat : n[s] \in Nat /\ m[s] = n[s] + Bumped(s, which)
    BY BumpTyped DEF Typed, TypeOK, Bumped
<1>2. pc'[c] = to
    BY DEF Typed, TypeOK
<1>3. /\ m["NODEPORT_HIT"] = n["NODEPORT_HIT"] + Bumped("NODEPORT_HIT", which)
      /\ m["FWD_CT_HIT"] = n["FWD_CT_HIT"] + Bumped("FWD_CT_HIT", which)
      /\ m["BACKEND_SELECTED"]
            = n["BACKEND_SELECTED"] + Bumped("BACKEND_SELECTED", which)
      /\ m["BACKEND_LOOKUP_MISS"]
            = n["BACKEND_LOOKUP_MISS"] + Bumped("BACKEND_LOOKUP_MISS", which)
      /\ m["CT_LOOKUP_MISS"]
            = n["CT_LOOKUP_MISS"] + Bumped("CT_LOOKUP_MISS", which)
      /\ m["NEW_CONN"] = n["NEW_CONN"] + Bumped("NEW_CONN", which)
      /\ m["MAP_MISS"] = n["MAP_MISS"] + Bumped("MAP_MISS", which)
      /\ m["REVNAT_HIT"] = n["REVNAT_HIT"] + Bumped("REVNAT_HIT", which)
      /\ m["REQUEST_REWRITE"]
            = n["REQUEST_REWRITE"] + Bumped("REQUEST_REWRITE", which)
      /\ m["RESPONSE_REWRITE"]
            = n["RESPONSE_REWRITE"] + Bumped("RESPONSE_REWRITE", which)
      /\ m["REWRITE_FAIL"] = n["REWRITE_FAIL"] + Bumped("REWRITE_FAIL", which)
      /\ m["REDIRECT_OK"] = n["REDIRECT_OK"] + Bumped("REDIRECT_OK", which)
      /\ m["REDIRECT_FAIL"]
            = n["REDIRECT_FAIL"] + Bumped("REDIRECT_FAIL", which)
      /\ m["FALLBACK_PASS"]
            = n["FALLBACK_PASS"] + Bumped("FALLBACK_PASS", which)
    BY <1>1 DEF Stat
<1>4. /\ n["NODEPORT_HIT"] \in Nat /\ n["FWD_CT_HIT"] \in Nat
      /\ n["BACKEND_SELECTED"] \in Nat /\ n["BACKEND_LOOKUP_MISS"] \in Nat
      /\ n["CT_LOOKUP_MISS"] \in Nat /\ n["NEW_CONN"] \in Nat
      /\ n["MAP_MISS"] \in Nat /\ n["REVNAT_HIT"] \in Nat
      /\ n["REQUEST_REWRITE"] \in Nat /\ n["RESPONSE_REWRITE"] \in Nat
      /\ n["REWRITE_FAIL"] \in Nat /\ n["REDIRECT_OK"] \in Nat
      /\ n["REDIRECT_FAIL"] \in Nat /\ n["FALLBACK_PASS"] \in Nat
    BY <1>1 DEF Stat
<1>5. \A s : Bumped(s, which) \in Nat
    BY DEF Bumped
<1>6. \A labels : /\ InFlight(c, labels) = At(pc[c], labels)
                  /\ InFlight(c, labels)' = At(to, labels)
                  /\ At(pc[c], labels) \in Nat /\ At(to, labels) \in Nat
    BY <1>2 DEF InFlight, At
<1>7. Balance(c)
    BY DEF StatsBalance
<1>8. Balance(c)'
    <2> DEFINE hit  == {"forward", "rr", "backend", "rrput"}
               conn == {"snatget", "snatput", "ctput", "fwdput", "ctundo"}
               out  == {"pinned", "rewrite"}
    <2>1. m["NODEPORT_HIT"] = m["FWD_CT_HIT"] + m["BACKEND_SELECTED"]
             + m["BACKEND_LOOKUP_MISS"] + InFlight(c, hit)'
        <3>1. n["NODEPORT_HIT"] = n["FWD_CT_HIT"] + n["BACKEND_SELECTED"]
                 + n["BACKEND_LOOKUP_MISS"] + At(pc[c], hit)
            BY <1>6, <1>7 DEF Balance
        <3>2. Bumped("NODEPORT_HIT", which) + At(pc[c], hit)
              = Bumped("FWD_CT_HIT", which) + Bumped("BACKEND_SELECTED", which)
                + Bumped("BACKEND_LOOKUP_MISS", which) + At(to, hit)
            BY DEF Balancing
        <3>3. /\ InFlight(c, hit)' = At(to, hit)
              /\ At(pc[c], hit) \in Nat /\ At(to, hit) \in Nat
            BY <1>6
        <3>4. /\ Bumped("NODEPORT_HIT", which) \in Nat
              /\ Bumped("FWD_CT_HIT", which) \in Nat
              /\ Bumped("BACKEND_SELECTED", which) \in Nat
              /\ Bumped("BACKEND_LOOKUP_MISS", which) \in Nat
            BY <1>5
        <3> HIDE DEF hit, n, m
        <3> QED BY <1>3, <1>4, <3>1, <3>2, <3>3, <3>4
    <2>2. m["BACKEND_SELECTED"] + m["BACKEND_LOOKUP_MISS"] + m["CT_LOOKUP_MISS"]
          = m["NEW_CONN"] + m["MAP_MISS"] + InFlight(c, conn)'
        <3>1. n["BACKEND_SELECTED"] + n["BACKEND_LOOKUP_MISS"]
                 + n["CT_LOOKUP_MISS"]
              = n["NEW_CONN"] + n["MAP_MISS"] + At(pc[c], conn)
            BY <1>6, <1>7 DEF Balance
        <3>2. Bumped("BACKEND_SELECTED", which)
                 + Bumped("BACKEND_LOOKUP_MISS", which)
                 + Bumped("CT_LOOKUP_MISS", which) + At(pc[c], conn)
              = Bumped("NEW_CONN", which) + Bumped("MAP_MISS", which)
                 + At(to, conn)
            BY DEF Balancing
        <3>3. /\ InFlight(c, conn)' = At(to, conn)
              /\ At(pc[c], conn) \in Nat /\ At(to, conn) \in Nat
            BY <1>6
        <3>4. /\ Bumped("BACKEND_SELECTED", which) \in Nat
              /\ Bumped("BACKEND_LOOKUP_MISS", which) \in Nat
              /\ Bumped("CT_LOOKUP_MISS", which) \in Nat
              /\ Bumped("NEW_CONN", which) \in Nat
              /\ Bumped("MAP_MISS", which) \in Nat
            BY <1>5
        <3> HIDE DEF conn, n, m
        <3>5. /\ m["BACKEND_SELECTED"]
                    = n["BACKEND_SELECTED"] + Bumped("BACKEND_SELECTED", which)
              /\ m["BACKEND_LOOKUP_MISS"] = n["BACKEND_LOOKUP_MISS"]
                    + Bumped("BACKEND_LOOKUP_MISS", which)
              /\ m["CT_LOOKUP_MISS"]
                    = n["CT_LOOKUP_MISS"] + Bumped("CT_LOOKUP_MISS", which)
              /\ m["NEW_CONN"] = n["NEW_CONN"] + Bumped("NEW_CONN", which)
              /\ m["MAP_MISS"] = n["MAP_MISS"] + Bumped("MAP_MISS", which)
              /\ n["BACKEND_SELECTED"] \in Nat /\ n["BACKEND_LOOKUP_MISS"] \in Nat
              /\ n["CT_LOOKUP_MISS"] \in Nat /\ n["NEW_CONN"] \in Nat
              /\ n["MAP_MISS"] \in Nat
            BY <1>3, <1>4
        <3>6. m["BACKEND_SELECTED"] + m["BACKEND_LOOKUP_MISS"]
                 + m["CT_LOOKUP_MISS"]
              = (n["BACKEND_SELECTED"] + n["BACKEND_LOOKUP_MISS"]
                    + n["CT_LOOKUP_MISS"])
                + (Bumped("BACKEND_SELECTED", which)
                    + Bumped("BACKEND_LOOKUP_MISS", which)
                    + Bumped("CT_LOOKUP_MISS", which))
            BY <3>4, <3>5
        <3>7. m["NEW_CONN"] + m["MAP_MISS"] + At(to, conn)
              = (n["NEW_CONN"] + n["MAP_MISS"])
                + (Bumped("NEW_CONN", which) + Bumped("MAP_MISS", which)
                    + At(to, conn))
            BY <3>3, <3>4, <3>5
        <3> QED BY <3>1, <3>2, <3>3, <3>4, <3>5, <3>6, <3>7
    <2>3. m["FWD_CT_HIT"] + m["NEW_CONN"] + m["REVNAT_HIT"]
          = m["REQUEST_REWRITE"] + m["RESPONSE_REWRITE"] + m["REWRITE_FAIL"]
             + InFlight(c, out)'
        <3>1. n["FWD_CT_HIT"] + n["NEW_CONN"] + n["REVNAT_HIT"]
              = n["REQUEST_REWRITE"] + n["RESPONSE_REWRITE"]
                 + n["REWRITE_FAIL"] + At(pc[c], out)
            BY <1>6, <1>7 DEF Balance
        <3>2. Bumped("FWD_CT_HIT", which) + Bumped("NEW_CONN", which)
                 + Bumped("REVNAT_HIT", which) + At(pc[c], out)
              = Bumped("REQUEST_REWRITE", which)
                 + Bumped("RESPONSE_REWRITE", which)
                 + Bumped("REWRITE_FAIL", which) + At(to, out)
            BY DEF Balancing
        <3>3. /\ InFlight(c, out)' = At(to, out)
              /\ At(pc[c], out) \in Nat /\ At(to, out) \in Nat
            BY <1>6
        <3>4. /\ Bumped("FWD_CT_HIT", which) \in Nat
              /\ Bumped("NEW_CONN", which) \in Nat
              /\ Bumped("REVNAT_HIT", which) \in Nat
              /\ Bumped("REQUEST_REWRITE", which) \in Nat
              /\ Bumped("RESPONSE_REWRITE", which) \in Nat
              /\ Bumped("REWRITE_FAIL", which) \in Nat
            BY <1>5
        <3> HIDE DEF out, n, m
        <3> QED BY <1>3, <1>4, <3>1, <3>2, <3>3, <3>4
    <2>4. /\ m["REQUEST_REWRITE"] + m["RESPONSE_REWRITE"]
             = m["REDIRECT_OK"] + m["REDIRECT_FAIL"]
          /\ m["FALLBACK_PASS"] = m["MAP_MISS"] + m["REWRITE_FAIL"]
                + m["REDIRECT_FAIL"]
        <3>1. /\ n["REQUEST_REWRITE"] + n["RESPONSE_REWRITE"]
                 = n["REDIRECT_OK"] + n["REDIRECT_FAIL"]
              /\ n["FALLBACK_PASS"] = n["MAP_MISS"] + n["REWRITE_FAIL"]
                    + n["REDIRECT_FAIL"]
            BY <1>7 DEF Balance
        <3>2. /\ Bumped("REQUEST_REWRITE", which)
                    + Bumped("RESPONSE_REWRITE", which)
                 = Bumped("REDIRECT_OK", which) + Bumped("REDIRECT_FAIL", which)
              /\ Bumped("FALLBACK_PASS", which)
                 = Bumped("MAP_MISS", which) + Bumped("REWRITE_FAIL", which)
                    + Bumped("REDIRECT_FAIL", which)
            BY DEF Balancing
        <3>3. /\ Bumped("REQUEST_REWRITE", which) \in Nat
              /\ Bumped("RESPONSE_REWRITE", which) \in Nat
              /\ Bumped("REDIRECT_OK", which) \in Nat
              /\ Bumped("REDIRECT_FAIL", which) \in Nat
              /\ Bumped("FALLBACK_PASS", which) \in Nat
              /\ Bumped("MAP_MISS", which) \in Nat
              /\ Bumped("REWRITE_FAIL", which) \in Nat
            BY <1>5
        <3> HIDE DEF n, m
        <3>4. m["REQUEST_REWRITE"] + m["RESPONSE_REWRITE"]
              = m["REDIRECT_OK"] + m["REDIRECT_FAIL"]
            BY <1>3, <1>4, <3>1, <3>2, <3>3
        <3>5. m["FALLBACK_PASS"] = m["MAP_MISS"] + m["REWRITE_FAIL"]
                 + m["REDIRECT_FAIL"]
            BY <1>3, <1>4, <3>1, <3>2, <3>3
        <3> QED BY <3>4, <3>5 DEF m
    <2> QED BY <2>1, <2>2, <2>3, <2>4 DEF Balance
<1>9. ASSUME NEW d \in CPU \ {c} PROVE Balance(d)'
    <2>1. stats'[d] = stats[d] /\ pc'[d] = pc[d]
        BY BumpTyped DEF Typed, TypeOK
    <2>2. Balance(d)
        BY DEF StatsBalance
    <2> QED BY <2>1, <2>2 DEF Balance, InFlight
<1> QED BY <1>8, <1>9 DEF StatsBalance

\* Every step keeps the sums over the counters of the CPU that takes it.
LEMMA StepBalance == Typed /\ StatsBalance /\ [Next]_vars => StatsBalance'
<1> SUFFICES ASSUME Typed, StatsBalance, [Next]_vars PROVE StatsBalance'
    OBVIOUS
<1>0. ASSUME NEW c \in CPU, NEW to, UNCHANGED stats,
             pc' = [pc EXCEPT ![c] = to], Balancing({}, pc[c], to)
      PROVE  StatsBalance'
    <2>1. [s \in Stat |-> stats[c][s] + (IF s \in {} THEN 1 ELSE 0)] = stats[c]
        BY DEF Typed, TypeOK
    <2>2. bump_stat(c, {})
        BY <1>0, <2>1 DEF Typed, TypeOK, bump_stat
    <2> QED BY <1>0, <2>2, BalancingStep
<1> USE DEF Balancing, Bumped, At, Goto, Return
<1>1. ASSUME NEW c \in CPU, nodeport_tc(c) PROVE StatsBalance'
    <2>1. Balancing({"TCP_PACKETS"},
                    "idle", "response")
        OBVIOUS
    <2> QED BY <1>1, <2>1, BalancingStep DEF nodeport_tc
<1>2. ASSUME NEW c \in CPU, ResponseLookupRequest(c) PROVE StatsBalance'
    <2>1. Balancing({}, "response", "service")
        OBVIOUS
    <2> QED BY <1>2, <1>0, <2>1 DEF ResponseLookupRequest
<1>3. ASSUME NEW c \in CPU, ResponseLookupMiss(c) PROVE StatsBalance'
    <2>1. PICK which \in {{}, {"CT_LOOKUP_MISS", "MAP_MISS", "FALLBACK_PASS"}} :
             bump_stat(c, which)
        BY <1>3 DEF ResponseLookupMiss
    <2>2. Balancing(which, "response", "idle")
        OBVIOUS
    <2> QED BY <1>3, <2>1, <2>2, BalancingStep DEF ResponseLookupMiss
<1>4. ASSUME NEW c \in CPU, ResponseLookupHit(c) PROVE StatsBalance'
    <2>1. Balancing({}, "response", "refresh")
        OBVIOUS
    <2> QED BY <1>4, <1>0, <2>1 DEF ResponseLookupHit
<1>5. ASSUME NEW c \in CPU, ResponseRefresh(c) PROVE StatsBalance'
    <2>1. Balancing({"REVNAT_HIT"},
                    "refresh", "rewrite")
        OBVIOUS
    <2> QED BY <1>5, <2>1, BalancingStep DEF ResponseRefresh
<1>6. ASSUME NEW c \in CPU, ServiceLookupMiss(c) PROVE StatsBalance'
    <2>1. Balancing({}, "service", "idle")
        OBVIOUS
    <2> QED BY <1>6, <1>0, <2>1 DEF ServiceLookupMiss
<1>7. ASSUME NEW c \in CPU, ServiceLookupHit(c) PROVE StatsBalance'
    <2>1. Balancing({"NODEPORT_HIT"},
                    "service", "forward")
        OBVIOUS
    <2> QED BY <1>7, <2>1, BalancingStep DEF ServiceLookupHit
<1>8. ASSUME NEW c \in CPU, ForwardLookupMiss(c) PROVE StatsBalance'
    <2>1. Balancing({}, "forward", "rr")
        OBVIOUS
    <2> QED BY <1>8, <1>0, <2>1 DEF ForwardLookupMiss
<1>9. ASSUME NEW c \in CPU, ForwardLookupHit(c) PROVE StatsBalance'
    <2>1. Balancing({"FWD_CT_HIT"},
                    "forward", "pinned")
        OBVIOUS
    <2> QED BY <1>9, <2>1, BalancingStep DEF ForwardLookupHit
<1>10. ASSUME NEW c \in CPU, PinnedRefresh(c) PROVE StatsBalance'
    <2>1. Balancing({}, "pinned", "rewrite")
        OBVIOUS
    <2> QED BY <1>10, <1>0, <2>1 DEF PinnedRefresh
<1>11. ASSUME NEW c \in CPU, NoBackends(c) PROVE StatsBalance'
    <2>1. Balancing(LookupMiss,
                    "rr", "idle")
        BY DEF LookupMiss
    <2> QED BY ZenonT(30), <1>11, <2>1, BalancingStep DEF NoBackends
<1>12. ASSUME NEW c \in CPU, ReadRr(c) PROVE StatsBalance'
    <2>1. Balancing({}, "rr", "backend")
        OBVIOUS
    <2> QED BY <1>12, <1>0, <2>1 DEF ReadRr
<1>13. ASSUME NEW c \in CPU, BackendLookupMiss(c) PROVE StatsBalance'
    <2>1. Balancing(LookupMiss,
                    "backend", "idle")
        BY DEF LookupMiss
    <2> QED BY <1>13, <2>1, BalancingStep DEF BackendLookupMiss
<1>14. ASSUME NEW c \in CPU, BackendLookupHit(c) PROVE StatsBalance'
    <2>1. Balancing({}, "backend", "rrput")
        OBVIOUS
    <2> QED BY <1>14, <1>0, <2>1 DEF BackendLookupHit
<1>15. ASSUME NEW c \in CPU, WriteRr(c) PROVE StatsBalance'
    <2>1. Balancing({"RR_UPDATE", "BACKEND_SELECTED"},
                    "rrput", "snatget")
        OBVIOUS
    <2> QED BY <1>15, <2>1, BalancingStep DEF WriteRr
<1>16. ASSUME NEW c \in CPU, ReadSnat(c) PROVE StatsBalance'
    <2>1. Balancing({}, "snatget", "snatput")
        OBVIOUS
    <2> QED BY <1>16, <1>0, <2>1 DEF ReadSnat
<1>17. ASSUME NEW c \in CPU, WriteSnat(c) PROVE StatsBalance'
    <2>1. Balancing({}, "snatput", "ctput")
        OBVIOUS
    <2> QED BY <1>17, <1>0, <2>1 DEF WriteSnat
<1>18. ASSUME NEW c \in CPU, InstallCtFull(c) PROVE StatsBalance'
    <2>1. Balancing({"MAP_MISS", "FALLBACK_PASS"},
                    "ctput", "idle")
        OBVIOUS
    <2> QED BY <1>18, <2>1, BalancingStep DEF InstallCtFull
<1>19. ASSUME NEW c \in CPU, InstallCt(c) PROVE StatsBalance'
    <2>1. Balancing({"SNAT_INSTALL"},
                    "ctput", "fwdput")
        OBVIOUS
    <2> QED BY <1>19, <2>1, BalancingStep DEF InstallCt
<1>20. ASSUME NEW c \in CPU, InstallFwd(c) PROVE StatsBalance'
    <2>1. Balancing({"NEW_CONN"},
                    "fwdput", "rewrite")
        OBVIOUS
    <2> QED BY <1>20, <2>1, BalancingStep DEF InstallFwd
<1>21. ASSUME NEW c \in CPU, InstallFwdFull(c) PROVE StatsBalance'
    <2>1. Balancing({}, "fwdput", "ctundo")
        OBVIOUS
    <2> QED BY <1>21, <1>0, <2>1 DEF InstallFwdFull
<1>22. ASSUME NEW c \in CPU, UndoCt(c) PROVE StatsBalance'
    <2>1. Balancing({"MAP_MISS", "FALLBACK_PASS"},
                    "ctundo", "idle")
        OBVIOUS
    <2> QED BY <1>22, <2>1, BalancingStep DEF UndoCt
<1>23. ASSUME NEW c \in CPU, RewriteFail(c) PROVE StatsBalance'
    <2>1. Balancing({"REWRITE_FAIL", "FALLBACK_PASS"},
                    "rewrite", "idle")
        OBVIOUS
    <2> QED BY <1>23, <2>1, BalancingStep DEF RewriteFail
<1>24. ASSUME NEW c \in CPU, RewriteRequest(c) PROVE StatsBalance'
    <2>1. Balancing({"REQUEST_REWRITE"} \cup redirect_or_fallback(reg[c].egress),
                    "rewrite", "idle")
        BY DEF redirect_or_fallback
    <2> QED BY ZenonT(30), <1>24, <2>1, BalancingStep DEF RewriteRequest
<1>25. ASSUME NEW c \in CPU, RewriteResponse(c) PROVE StatsBalance'
    <2>1. Balancing({"RESPONSE_REWRITE"} \cup redirect_or_fallback(config.external),
                    "rewrite", "idle")
        BY DEF redirect_or_fallback
    <2> QED BY ZenonT(30), <1>25, <2>1, BalancingStep DEF RewriteResponse
<1>26. ASSUME ControlPlane PROVE StatsBalance'
    BY <1>26 DEF ControlPlane, StatsBalance, Balance, InFlight
<1>27. ASSUME Tick PROVE StatsBalance'
    BY <1>27 DEF Tick, tcVars, StatsBalance, Balance, InFlight
<1>28. ASSUME UNCHANGED vars PROVE StatsBalance'
    BY <1>28 DEF vars, tcVars, StatsBalance, Balance, InFlight
<1> QED
    BY ZenonT(30), <1>1, <1>2, <1>3, <1>4, <1>5, <1>6, <1>7, <1>8, <1>9, <1>10, <1>11,
       <1>12, <1>13, <1>14, <1>15, <1>16, <1>17, <1>18, <1>19, <1>20, <1>21,
       <1>22, <1>23, <1>24, <1>25, <1>26, <1>27, <1>28
    DEF Next, Run, handle_response, handle_request, select_backend

\* The counters of every CPU balance, on any number of CPUs.
THEOREM CountersBalance == Spec => []StatsBalance
<1>1. Init => Typed /\ StatsBalance
    BY InitTyped DEF Init, TCInit, StatsBalance, Balance, InFlight, Stat
<1>2. Typed /\ StatsBalance /\ [Next]_vars => (Typed /\ StatsBalance)'
    BY StepTyped, StepBalance
<1> QED BY <1>1, <1>2, PTL DEF Spec

---------------------------------------------------------------------------
(* The allocator on a single CPU.                                          *)

Range == SnatMax - SnatMin + 1

\* The SNAT ports that the program on CPU c has taken, and those of them that
\* it has installed or given up.
Taken(c) == stats[c]["BACKEND_SELECTED"] - InFlight(c, {"snatget", "snatput"})
Settled(c) == Taken(c) - InFlight(c, {"ctput"})

\* The allocator hands the ports of the range out in order, and only ports
\* that were handed out are installed.
InOrder(c) ==
    /\ ~reused
    /\ Settled(c) \in Nat
    /\ Taken(c) < Range => SnatPortFrom(snatNext) = SnatMin + Taken(c)
    /\ pc[c] = "snatput" => reg[c].port = SnatMin + Taken(c)
    /\ pc[c] = "ctput" => reg[c].key[3] = SnatMin + Settled(c)
    /\ \A k \in CtKey : owner[k] # Absent => k[3] < SnatMin + Settled(c)

Serial ==
    \A c \in CPU : (CPU = {c} /\ stats[c]["BACKEND_SELECTED"] <= Range)
                      => InOrder(c)

AllocPC == {"snatget", "snatput", "ctput"}

\* A step that takes no port and installs none.
LEMMA SerialOther ==
    ASSUME Serial, NEW c \in CPU,
           pc'[c] \notin AllocPC, pc[c] \notin AllocPC,
           stats'[c]["BACKEND_SELECTED"] = stats[c]["BACKEND_SELECTED"],
           UNCHANGED <<snatNext, owner, reused>>
    PROVE  Serial'
<1>1. SUFFICES ASSUME CPU = {c}, stats[c]["BACKEND_SELECTED"] <= Range
               PROVE  InOrder(c)'
    BY DEF Serial, Range
<1>2. InOrder(c)
    BY <1>1 DEF Serial
<1>3. Taken(c)' = Taken(c) /\ Settled(c)' = Settled(c)
    BY DEF Taken, Settled, InFlight, AllocPC
<1> QED BY <1>2, <1>3 DEF InOrder, AllocPC, Range

\* A step of the program, the control plane or the clock hands the ports out
\* in order.
LEMMA StepSerial == Typed /\ Serial /\ [Next]_vars => Serial'
<1> SUFFICES ASSUME Typed, Serial, [Next]_vars PROVE Serial'
    OBVIOUS
<1> USE DEF Typed, TypeOK, MapsTypeOK, Goto, Return, PC, mapVars, tableVars,
        connVars, ghostVars
<1>1. ASSUME NEW c \in CPU,
             \/ nodeport_tc(c) \/ ResponseLookupRequest(c)
             \/ ResponseLookupMiss(c) \/ ResponseLookupHit(c)
             \/ ResponseRefresh(c) \/ ServiceLookupMiss(c)
             \/ ServiceLookupHit(c) \/ ForwardLookupMiss(c)
             \/ ForwardLookupHit(c) \/ PinnedRefresh(c) \/ NoBackends(c)
             \/ ReadRr(c) \/ BackendLookupMiss(c) \/ BackendLookupHit(c)
             \/ InstallFwd(c) \/ InstallFwdFull(c) \/ UndoCt(c)
             \/ RewriteFail(c) \/ RewriteRequest(c) \/ RewriteResponse(c)
      PROVE  Serial'
    <2>1. \/ UNCHANGED stats
          \/ \E which \in SUBSET (Stat \ {"BACKEND_SELECTED"}) : bump_stat(c, which)
        <3> DEFINE Others == SUBSET (Stat \ {"BACKEND_SELECTED"})
        <3>1. /\ {"TCP_PACKETS"} \in Others /\ {} \in Others
              /\ {"CT_LOOKUP_MISS", "MAP_MISS", "FALLBACK_PASS"} \in Others
              /\ {"REVNAT_HIT"} \in Others /\ {"NODEPORT_HIT"} \in Others
              /\ {"FWD_CT_HIT"} \in Others /\ LookupMiss \in Others
              /\ {"NEW_CONN"} \in Others /\ {"MAP_MISS", "FALLBACK_PASS"} \in Others
              /\ {"REWRITE_FAIL", "FALLBACK_PASS"} \in Others
              /\ \A i : {"REQUEST_REWRITE"} \cup redirect_or_fallback(i) \in Others
              /\ \A i : {"RESPONSE_REWRITE"} \cup redirect_or_fallback(i) \in Others
            BY DEF Stat, LookupMiss, redirect_or_fallback
        <3>2. CASE nodeport_tc(c)
            BY <3>1, <3>2 DEF nodeport_tc
        <3>3. CASE ResponseLookupMiss(c)
            BY <3>1, <3>3 DEF ResponseLookupMiss
        <3>4. CASE ResponseRefresh(c) \/ ServiceLookupHit(c) \/ ForwardLookupHit(c)
            BY <3>1, <3>4 DEF ResponseRefresh, ServiceLookupHit, ForwardLookupHit
        <3>5. CASE NoBackends(c) \/ BackendLookupMiss(c)
            BY <3>1, <3>5 DEF NoBackends, BackendLookupMiss
        <3>6. CASE InstallFwd(c) \/ UndoCt(c) \/ RewriteFail(c)
            BY <3>1, <3>6 DEF InstallFwd, UndoCt, RewriteFail
        <3>7. CASE RewriteRequest(c) \/ RewriteResponse(c)
            BY <3>1, <3>7 DEF RewriteRequest, RewriteResponse
        <3>8. CASE \/ ResponseLookupRequest(c) \/ ResponseLookupHit(c)
                   \/ ServiceLookupMiss(c) \/ ForwardLookupMiss(c)
                   \/ PinnedRefresh(c) \/ ReadRr(c) \/ BackendLookupHit(c)
                   \/ InstallFwdFull(c)
            BY <3>8 DEF ResponseLookupRequest, ResponseLookupHit,
                ServiceLookupMiss, ForwardLookupMiss, PinnedRefresh, ReadRr,
                BackendLookupHit, InstallFwdFull
        <3> QED BY <1>1, <3>2, <3>3, <3>4, <3>5, <3>6, <3>7, <3>8
    <2>2. stats'[c]["BACKEND_SELECTED"] = stats[c]["BACKEND_SELECTED"]
        BY <2>1, BumpTyped DEF Stat
    <2>3. UNCHANGED <<snatNext, owner, reused>>
        BY <1>1 DEF nodeport_tc, ResponseLookupRequest, ResponseLookupMiss,
            ResponseLookupHit, ResponseRefresh, ServiceLookupMiss,
            ServiceLookupHit, ForwardLookupMiss, ForwardLookupHit,
            PinnedRefresh, NoBackends, ReadRr, BackendLookupMiss,
            BackendLookupHit, InstallFwd, InstallFwdFull, UndoCt, RewriteFail,
            RewriteRequest, RewriteResponse
    <2>4. pc[c] \notin AllocPC /\ pc'[c] \notin AllocPC
        BY <1>1 DEF AllocPC, nodeport_tc, ResponseLookupRequest,
            ResponseLookupMiss, ResponseLookupHit, ResponseRefresh,
            ServiceLookupMiss, ServiceLookupHit, ForwardLookupMiss,
            ForwardLookupHit, PinnedRefresh, NoBackends, ReadRr,
            BackendLookupMiss, BackendLookupHit, InstallFwd, InstallFwdFull,
            UndoCt, RewriteFail, RewriteRequest, RewriteResponse
    <2> QED BY <2>2, <2>3, <2>4, SerialOther
<1>2. ASSUME NEW c \in CPU,
             \/ WriteRr(c) \/ ReadSnat(c) \/ WriteSnat(c)
             \/ InstallCtFull(c) \/ InstallCt(c)
      PROVE  Serial'
    <2>1. SUFFICES ASSUME CPU = {c}, stats'[c]["BACKEND_SELECTED"] <= Range
                   PROVE  InOrder(c)'
        BY <1>2 DEF Serial, Range
    <2> DEFINE n == stats[c]["BACKEND_SELECTED"]
    <2>2. n \in Nat /\ SnatMin \in Nat /\ SnatMax \in Nat /\ Range \in Nat
        BY SnatRangeAssumption DEF Stat, Range
    <2>3. CASE WriteRr(c)
        <3>1. /\ pc[c] = "rrput" /\ pc'[c] = "snatget"
              /\ UNCHANGED <<snatNext, owner, reused>>
              /\ stats'[c]["BACKEND_SELECTED"] = n + 1
            BY <2>3, BumpTyped DEF WriteRr, Stat
        <3>2. InOrder(c)
            BY <2>1, <2>2, <3>1 DEF Serial
        <3>3. /\ InFlight(c, {"snatget", "snatput"}) = 0
              /\ InFlight(c, {"snatget", "snatput"})' = 1
              /\ InFlight(c, {"ctput"}) = 0
              /\ InFlight(c, {"ctput"})' = 0
            BY <3>1 DEF InFlight
        <3>4. /\ Taken(c) = n /\ Settled(c) = n
              /\ Taken(c)' = n /\ Settled(c)' = n
            <4>1. Taken(c) = n - 0 /\ Taken(c)' = (n + 1) - 1
                BY <3>1, <3>3 DEF Taken
            <4>2. Settled(c) = Taken(c) - 0 /\ Settled(c)' = Taken(c)' - 0
                BY <3>3 DEF Settled
            <4> QED BY <2>2, <4>1, <4>2
        <3> QED BY <3>1, <3>2, <3>4 DEF InOrder, Range
    <2>4. CASE ReadSnat(c)
        <3>1. /\ pc[c] = "snatget" /\ pc'[c] = "snatput"
              /\ UNCHANGED <<snatNext, owner, reused, stats>>
              /\ reg' = [reg EXCEPT ![c].port = SnatPortFrom(snatNext)]
            BY <2>4 DEF ReadSnat
        <3>2. InOrder(c)
            BY <2>1, <3>1 DEF Serial
        <3>3. /\ Taken(c)' = Taken(c) /\ Settled(c)' = Settled(c)
              /\ Taken(c) = n - 1
            BY <2>2, <3>1 DEF Taken, Settled, InFlight
        <3>4. SnatPortFrom(snatNext) = SnatMin + Taken(c)
            BY <2>1, <2>2, <3>1, <3>2, <3>3 DEF InOrder
        <3>5. reg'[c].port = SnatMin + Taken(c)
            BY <3>1, <3>4 DEF Reg
        <3> QED BY <3>1, <3>2, <3>3, <3>5 DEF InOrder, Range
    <2>5. CASE WriteSnat(c)
        <3>1. /\ pc[c] = "snatput" /\ pc'[c] = "ctput"
              /\ UNCHANGED <<owner, reused, stats>>
              /\ snatNext' = SnatPortAfter(reg[c].port)
              /\ reg'[c].key[3] = reg[c].port
            BY <2>5 DEF WriteSnat, Reg
        <3>2. InOrder(c)
            BY <2>1, <3>1 DEF Serial
        <3>3. /\ Taken(c) = n - 1 /\ Taken(c)' = n
              /\ Settled(c) = n - 1 /\ Settled(c)' = n - 1
            BY <2>2, <3>1 DEF Taken, Settled, InFlight
        <3>4. reg[c].port = SnatMin + (n - 1)
            BY <3>1, <3>2, <3>3 DEF InOrder
        <3>5. n < Range => SnatPortFrom(snatNext') = SnatMin + n
            BY <2>2, <3>1, <3>4 DEF SnatPortFrom, SnatPortAfter, SnatPort, Range
        <3>6. SnatPortFrom(snatNext)' = SnatPortFrom(snatNext')
            OBVIOUS
        <3> QED BY <3>1, <3>2, <3>3, <3>4, <3>5, <3>6 DEF InOrder, Range
    <2>6. CASE InstallCtFull(c) \/ InstallCt(c)
        <3>1. /\ pc[c] = "ctput" /\ pc'[c] \notin AllocPC
              /\ UNCHANGED <<snatNext>>
              /\ stats'[c]["BACKEND_SELECTED"] = n
              /\ reg[c].key \in CtKey
            <4>1. /\ pc[c] = "ctput" /\ pc'[c] \in {"idle", "fwdput"}
                  /\ UNCHANGED <<snatNext>>
                BY <2>6 DEF InstallCtFull, InstallCt, Return, Goto
            <4>2. PICK which :
                     /\ bump_stat(c, which)
                     /\ which \in {{"SNAT_INSTALL"}, {"MAP_MISS", "FALLBACK_PASS"}}
                BY <2>6 DEF InstallCtFull, InstallCt
            <4>3. stats'[c]["BACKEND_SELECTED"] = n
                <5>1. "BACKEND_SELECTED" \in Stat /\ "BACKEND_SELECTED" \notin which
                    BY <4>2 DEF Stat
                <5>2. stats'[c]["BACKEND_SELECTED"] = n + 0
                    BY <4>2, <5>1, BumpTyped
                <5> QED BY <2>2, <5>2
            <4>4. reg[c].key \in CtKey
                BY <4>1 DEF RegOK
            <4> QED BY <4>1, <4>3, <4>4 DEF AllocPC
        <3>2. InOrder(c)
            BY <2>1, <2>2, <3>1 DEF Serial
        <3>3. /\ Taken(c)' = Taken(c) /\ Taken(c) = n
              /\ Settled(c) = n - 1 /\ Settled(c)' = n
            BY <2>2, <3>1 DEF Taken, Settled, InFlight, AllocPC
        <3>4. reg[c].key[3] = SnatMin + (n - 1)
              /\ owner[reg[c].key] = Absent
            BY <2>2, <3>1, <3>2, <3>3 DEF InOrder
        <3>5. \/ UNCHANGED <<owner, reused>>
              \/ /\ reused' = reused
                 /\ owner' = [owner EXCEPT ![reg[c].key] = reg[c].pkt.flow]
            BY <2>6, <3>4 DEF InstallCtFull, InstallCt
        <3>6. \A k \in CtKey : k[3] \in Nat
            BY SnatRangeAssumption DEF CtKey, Port
        <3>7. \A k \in CtKey : owner'[k] # Absent => k[3] < SnatMin + n
            BY <2>2, <3>2, <3>3, <3>4, <3>5, <3>6 DEF InOrder
        <3> QED BY <2>2, <3>1, <3>2, <3>3, <3>5, <3>7 DEF InOrder, Range, AllocPC
    <2> QED BY <1>2, <2>3, <2>4, <2>5, <2>6
<1>3. CASE ControlPlane \/ Tick \/ UNCHANGED vars
    <2>1. UNCHANGED <<snatNext, pc, reg, stats, owner, reused>>
        BY <1>3 DEF ControlPlane, Tick, vars, tcVars
    <2> QED BY <2>1 DEF Serial, InOrder, Taken, Settled, InFlight, Range
<1> QED BY ZenonT(30), <1>1, <1>2, <1>3
        DEF Next, Run, handle_response, handle_request, select_backend

\* allocate_snat_port on a single CPU gives no port out twice before it has
\* given out the whole range, for any range, any backends and any clients.
THEOREM SerialPorts == Spec => []SerialPortsDistinct
<1>1. Init => Typed /\ Serial
    BY InitTyped, SnatRangeAssumption
       DEF Init, TCInit, ConnInit, Serial, InOrder, Taken, Settled, InFlight,
           Stat, SnatPortFrom, SnatPort
<1>2. Typed /\ Serial /\ [Next]_vars => (Typed /\ Serial)'
    BY StepTyped, StepSerial
<1>3. Serial => SerialPortsDistinct
    BY DEF Serial, SerialPortsDistinct, InOrder, Range
<1> QED BY <1>1, <1>2, <1>3, PTL DEF Spec

=============================================================================
