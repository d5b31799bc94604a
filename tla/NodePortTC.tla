----------------------------- MODULE NodePortTC -----------------------------
(***************************************************************************)
(* The data plane: the tc program nodeport_tc run on every packet, on      *)
(* several CPUs at once.  Each CPU runs one packet at a time; an action is *)
(* one access of the program to a shared map together with the local work  *)
(* up to the next one.  The control plane appears as the single map writes *)
(* of a syncer (ControlPlane), in any order, so that what holds here holds *)
(* whatever the syncers do.                                                *)
(***************************************************************************)
EXTENDS PinnedMaps

CONSTANTS
    CPU,
    Steer,       \* Steer[c]: the CPUs that may receive packets of client c
    Table,       \* the backends of each frontend when the model starts
    StartConfig, \* the delivery config when the model starts
    StartSnat,   \* the SNAT address when the model starts
    MaxPackets,  \* bound: packets that arrive
    MaxWrites,   \* bound: map writes by the control plane
    MaxTime      \* bound: the last instant of the clock

ASSUME SteerAssumption == Steer \in [Client -> SUBSET CPU]

ASSUME TableAssumption ==
    /\ Table \in [Frontend -> Seq(Backend)]
    /\ \A f \in Frontend : Len(Table[f]) <= MaxSlots
    /\ StartConfig \in ConfigVal
    /\ StartSnat \in SnatIP

VARIABLES
    pc,         \* pc[c]: the next map access of the program on CPU c
    reg,        \* reg[c]: the locals of the program on CPU c
    stats,      \* nodeport_stats_map, a per-CPU array
    arrivals,   \* number of packets that arrived
    writes,     \* number of control-plane writes
    \* History: what the environment and the properties look at.
    owner,      \* owner[k]: the first flow that installed conntrack key k
    reused,     \* some conntrack key was installed a second time
    sent,       \* <<flow, key>>: a request of flow left rewritten to key
    replies     \* <<flow, to>>: a reply for flow left rewritten to flow to

ghostVars == <<owner, reused, sent, replies>>
tcVars    == <<pc, reg, stats, arrivals, writes, owner, reused, sent, replies>>
vars      == <<mapVars, tcVars>>

Stat == {"TCP_PACKETS", "NODEPORT_HIT", "BACKEND_SELECTED",
         "BACKEND_LOOKUP_MISS", "RR_UPDATE", "SNAT_INSTALL",
         "REQUEST_REWRITE", "REVNAT_HIT", "CT_LOOKUP_MISS",
         "RESPONSE_REWRITE", "SAME_NODE_SKIP", "FWD_CT_HIT", "NEW_CONN",
         "MAP_MISS", "REWRITE_FAIL", "REDIRECT_OK", "REDIRECT_FAIL",
         "FALLBACK_PASS"}

PC == {"idle", "response", "refresh", "service", "forward", "pinned", "rr",
       "backend", "rrput", "snatget", "snatput", "ctput", "fwdput", "ctundo",
       "rewrite"}

\* A packet towards a frontend carries its flow; a packet towards a SNAT
\* address carries the key it is looked up by, and the flow it answers
\* (Absent when it answers none), which the program cannot see.
Packet == [dir : {"request", "response"}, flow : Flow \cup {Absent},
           key : CtKey \cup {Absent}]

Reg == [pkt : Packet \cup {Absent}, svc : SvcVal \cup {Absent}, slot : Nat,
        be : Backend \cup {Absent}, port : Nat, key : CtKey \cup {Absent},
        flow : Flow \cup {Absent}, egress : Nat]

NoReg == [pkt |-> Absent, svc |-> Absent, slot |-> 0, be |-> Absent,
          port |-> 0, key |-> Absent, flow |-> Absent, egress |-> 0]

FrontendOf(c) == reg[c].pkt.flow[2]

---------------------------------------------------------------------------
(* Helpers of the program.                                                 *)

Goto(c, label) == pc' = [pc EXCEPT ![c] = label]

\* The program returns: the CPU is free for the next packet.
Return(c) ==
    /\ pc' = [pc EXCEPT ![c] = "idle"]
    /\ reg' = [reg EXCEPT ![c] = NoReg]

bump_stat(c, which) ==
    stats' = [stats EXCEPT ![c] =
                 [s \in Stat |-> stats[c][s] + (IF s \in which THEN 1 ELSE 0)]]

is_snat_port(port) == SnatMin <= port /\ port <= SnatMax

\* The new conntrack map; the caller may ignore that there was no room.
update_conntrack_entry(key, flow) ==
    IF HasRoom(ct, key, CtMax)
    THEN [ct EXCEPT ![key] = [flow |-> flow, seen |-> now]]
    ELSE ct

\* Mutant: the fallback after a failed redirect is not counted.
redirect_uncounted(ifindex) ==
    IF ifindex > 0 THEN {"REDIRECT_OK"} ELSE {"REDIRECT_FAIL"}

\* The counters that redirect_or_fallback bumps for an interface index.
redirect_or_fallback(ifindex) ==
    IF ifindex > 0 THEN {"REDIRECT_OK"} ELSE {"REDIRECT_FAIL", "FALLBACK_PASS"}

\* The counters of a request that finds no backend.
LookupMiss == {"BACKEND_LOOKUP_MISS", "MAP_MISS", "FALLBACK_PASS"}

---------------------------------------------------------------------------
(* Packets that reach a hook on CPU c: requests of the clients steered to  *)
(* it, answers of backends to what they were sent, and strays, for example *)
(* the rewritten answers themselves when they pass the egress hook.        *)

Incoming(c) ==
    {[dir |-> "request", flow |-> fl, key |-> Absent] :
        fl \in {x \in Flow : c \in Steer[x[1]]}}
    \cup {[dir |-> "response", flow |-> s[1], key |-> s[2]] : s \in sent}
    \cup {[dir |-> "response", flow |-> Absent, key |-> k] : k \in CtKey}

\* nodeport_tc: the packet parses as TCP over IPv4.  One that does not is
\* passed with no effect, and is no step of this model.
nodeport_tc(c) ==
    /\ pc[c] = "idle"
    /\ arrivals < MaxPackets
    /\ \E p \in Incoming(c) :
          reg' = [reg EXCEPT ![c] = [NoReg EXCEPT !.pkt = p]]
    /\ bump_stat(c, {"TCP_PACKETS"})
    /\ Goto(c, "response")
    /\ arrivals' = arrivals + 1
    /\ UNCHANGED <<mapVars, writes, ghostVars>>

(* handle_response *)

\* The lookup misses for every packet towards a frontend: no backend has a
\* client's endpoint, and nodePorts lie below the SNAT range.
ResponseLookupRequest(c) ==
    /\ pc[c] = "response"
    /\ reg[c].pkt.dir = "request"
    /\ Goto(c, "service")
    /\ UNCHANGED <<mapVars, reg, stats, arrivals, writes, ghostVars>>

ResponseLookupMiss(c) ==
    /\ pc[c] = "response"
    /\ reg[c].pkt.dir = "response"
    /\ ct[reg[c].pkt.key] = Absent
    /\ bump_stat(c, IF is_snat_port(reg[c].pkt.key[3])
                    THEN {"CT_LOOKUP_MISS", "MAP_MISS", "FALLBACK_PASS"}
                    ELSE {})
    \* handle_request finds no service for a SNAT address and port either.
    /\ Return(c)
    /\ UNCHANGED <<mapVars, arrivals, writes, ghostVars>>

\* Mutant: the conntrack key lacks the backend.
ResponseLookupHitByPort(c) ==
    /\ pc[c] = "response"
    /\ reg[c].pkt.dir = "response"
    /\ \E k \in Entries(ct) :
          /\ k[3] = reg[c].pkt.key[3]
          /\ reg' = [reg EXCEPT ![c].flow = ct[k].flow]
    /\ Goto(c, "refresh")
    /\ UNCHANGED <<mapVars, stats, arrivals, writes, ghostVars>>

ResponseLookupHit(c) ==
    /\ pc[c] = "response"
    /\ reg[c].pkt.dir = "response"
    /\ ct[reg[c].pkt.key] # Absent
    /\ reg' = [reg EXCEPT ![c].flow = ct[reg[c].pkt.key].flow]
    /\ Goto(c, "refresh")
    /\ UNCHANGED <<mapVars, stats, arrivals, writes, ghostVars>>

\* The entry is written back from the copy, whatever it has become.
ResponseRefresh(c) ==
    /\ pc[c] = "refresh"
    /\ ct' = update_conntrack_entry(reg[c].pkt.key, reg[c].flow)
    /\ bump_stat(c, {"REVNAT_HIT"})
    /\ Goto(c, "rewrite")
    /\ UNCHANGED <<svc, slots, rr, config, fwd, snatNext, now, reg, arrivals,
                   writes, ghostVars>>

(* handle_request *)

ServiceLookupMiss(c) ==
    /\ pc[c] = "service"
    /\ svc[FrontendOf(c)] = Absent
    /\ Return(c)
    /\ UNCHANGED <<mapVars, stats, arrivals, writes, ghostVars>>

ServiceLookupHit(c) ==
    /\ pc[c] = "service"
    /\ svc[FrontendOf(c)] # Absent
    /\ reg' = [reg EXCEPT ![c].svc = svc[FrontendOf(c)]]
    /\ bump_stat(c, {"NODEPORT_HIT"})
    /\ Goto(c, "forward")
    /\ UNCHANGED <<mapVars, arrivals, writes, ghostVars>>

\* Mutant: the forward entry is not looked at.
ForwardNotConsulted(c) ==
    /\ pc[c] = "forward"
    /\ Goto(c, "rr")
    /\ UNCHANGED <<mapVars, reg, stats, arrivals, writes, ghostVars>>

ForwardLookupMiss(c) ==
    /\ pc[c] = "forward"
    /\ fwd[reg[c].pkt.flow] = Absent
    /\ Goto(c, "rr")
    /\ UNCHANGED <<mapVars, reg, stats, arrivals, writes, ghostVars>>

\* Mutant: the forward key lacks the client.
ForwardLookupHitByFrontend(c) ==
    /\ pc[c] = "forward"
    /\ \E fl \in Entries(fwd) :
          /\ fl[2] = FrontendOf(c)
          /\ reg' = [reg EXCEPT ![c].key = fwd[fl].key,
                                ![c].egress = fwd[fl].egress]
    /\ bump_stat(c, {"FWD_CT_HIT"})
    /\ Goto(c, "pinned")
    /\ UNCHANGED <<mapVars, arrivals, writes, ghostVars>>

ForwardLookupHit(c) ==
    /\ pc[c] = "forward"
    /\ fwd[reg[c].pkt.flow] # Absent
    /\ reg' = [reg EXCEPT ![c].key = fwd[reg[c].pkt.flow].key,
                          ![c].egress = fwd[reg[c].pkt.flow].egress]
    /\ bump_stat(c, {"FWD_CT_HIT"})
    /\ Goto(c, "pinned")
    /\ UNCHANGED <<mapVars, arrivals, writes, ghostVars>>

\* The result of the update is ignored.
PinnedRefresh(c) ==
    /\ pc[c] = "pinned"
    /\ ct' = update_conntrack_entry(reg[c].key, reg[c].pkt.flow)
    /\ Goto(c, "rewrite")
    /\ UNCHANGED <<svc, slots, rr, config, fwd, snatNext, now, reg, stats,
                   arrivals, writes, ghostVars>>

(* select_backend *)

NoBackends(c) ==
    /\ pc[c] = "rr"
    /\ reg[c].svc.count = 0
    /\ bump_stat(c, LookupMiss)
    /\ Return(c)
    /\ UNCHANGED <<mapVars, arrivals, writes, ghostVars>>

ReadRr(c) ==
    LET cursor == IF rr[FrontendOf(c)] = Absent THEN 0 ELSE rr[FrontendOf(c)]
    IN  /\ pc[c] = "rr"
        /\ reg[c].svc.count # 0
        /\ reg' = [reg EXCEPT ![c].slot =
                      IF cursor >= reg[c].svc.count THEN 0 ELSE cursor]
        /\ Goto(c, "backend")
        /\ UNCHANGED <<mapVars, stats, arrivals, writes, ghostVars>>

\* The value of a slot that the model does not represent is Absent.
SlotValue(f, s) == IF s \in Slot THEN slots[<<f, s>>] ELSE Absent

BackendLookupMiss(c) ==
    /\ pc[c] = "backend"
    /\ SlotValue(FrontendOf(c), reg[c].slot) = Absent
    /\ bump_stat(c, LookupMiss)
    /\ Return(c)
    /\ UNCHANGED <<mapVars, arrivals, writes, ghostVars>>

BackendLookupHit(c) ==
    /\ pc[c] = "backend"
    /\ SlotValue(FrontendOf(c), reg[c].slot) # Absent
    /\ reg' = [reg EXCEPT ![c].be = SlotValue(FrontendOf(c), reg[c].slot)]
    /\ Goto(c, "rrput")
    /\ UNCHANGED <<mapVars, stats, arrivals, writes, ghostVars>>

\* The cursor moves to the next slot; a full map is not noticed.
WriteRr(c) ==
    LET next == IF reg[c].slot + 1 >= reg[c].svc.count THEN 0
                ELSE reg[c].slot + 1
    IN  /\ pc[c] = "rrput"
        /\ rr' = IF HasRoom(rr, FrontendOf(c), RrMax)
                 THEN [rr EXCEPT ![FrontendOf(c)] = next]
                 ELSE rr
        /\ bump_stat(c, {"RR_UPDATE", "BACKEND_SELECTED"})
        /\ Goto(c, "snatget")
        /\ UNCHANGED <<svc, slots, config, connVars, now, reg, arrivals,
                       writes, ghostVars>>

(* allocate_snat_port: a read and a write with no lock in between. *)

\* Mutant: the stored port is never used.
SnatPortRestart(next) == SnatMin

SnatPortFrom(next) == IF next \in SnatPort THEN next ELSE SnatMin

\* Mutant: the range does not wrap.
SnatPortNoWrap(port) == port + 1

SnatPortAfter(port) == IF port + 1 > SnatMax THEN SnatMin ELSE port + 1

ReadSnat(c) ==
    /\ pc[c] = "snatget"
    /\ reg' = [reg EXCEPT ![c].port = SnatPortFrom(snatNext)]
    /\ Goto(c, "snatput")
    /\ UNCHANGED <<mapVars, stats, arrivals, writes, ghostVars>>

\* The delivery interface is read from the config right after.
WriteSnat(c) ==
    /\ pc[c] = "snatput"
    /\ snatNext' = SnatPortAfter(reg[c].port)
    /\ reg' = [reg EXCEPT
                 ![c].key = <<reg[c].be, reg[c].svc.snat, reg[c].port>>,
                 ![c].egress = IF reg[c].be \in Local THEN config.local
                               ELSE config.remote]
    /\ Goto(c, "ctput")
    /\ UNCHANGED <<tableVars, ct, fwd, now, stats, arrivals, writes,
                   ghostVars>>

(* Installing the connection: the reverse entry, then the forward entry.   *)

InstallCtFull(c) ==
    /\ pc[c] = "ctput"
    /\ ~HasRoom(ct, reg[c].key, CtMax)
    /\ bump_stat(c, {"MAP_MISS", "FALLBACK_PASS"})
    /\ Return(c)
    /\ UNCHANGED <<mapVars, arrivals, writes, ghostVars>>

\* Mutant: the forward entry is installed before the reverse entry.
InstallForwardFirst(c) ==
    /\ pc[c] = "ctput"
    /\ HasRoom(ct, reg[c].key, CtMax)
    /\ fwd' = [fwd EXCEPT ![reg[c].pkt.flow] =
                  [key |-> reg[c].key, egress |-> reg[c].egress]]
    /\ bump_stat(c, {"SNAT_INSTALL"})
    /\ Goto(c, "fwdput")
    /\ UNCHANGED <<tableVars, ct, snatNext, now, reg, arrivals, writes,
                   ghostVars>>

InstallCt(c) ==
    /\ pc[c] = "ctput"
    /\ HasRoom(ct, reg[c].key, CtMax)
    /\ ct' = update_conntrack_entry(reg[c].key, reg[c].pkt.flow)
    /\ bump_stat(c, {"SNAT_INSTALL"})
    /\ Goto(c, "fwdput")
    /\ reused' = (reused \/ owner[reg[c].key] # Absent)
    /\ owner' = IF owner[reg[c].key] = Absent
                THEN [owner EXCEPT ![reg[c].key] = reg[c].pkt.flow]
                ELSE owner
    /\ UNCHANGED <<tableVars, fwd, snatNext, now, reg, arrivals, writes, sent,
                   replies>>

InstallFwd(c) ==
    /\ pc[c] = "fwdput"
    /\ HasRoom(fwd, reg[c].pkt.flow, FwdMax)
    /\ fwd' = [fwd EXCEPT ![reg[c].pkt.flow] =
                  [key |-> reg[c].key, egress |-> reg[c].egress]]
    /\ bump_stat(c, {"NEW_CONN"})
    /\ Goto(c, "rewrite")
    /\ UNCHANGED <<tableVars, ct, snatNext, now, reg, arrivals, writes,
                   ghostVars>>

InstallFwdFull(c) ==
    /\ pc[c] = "fwdput"
    /\ ~HasRoom(fwd, reg[c].pkt.flow, FwdMax)
    /\ Goto(c, "ctundo")
    /\ UNCHANGED <<mapVars, reg, stats, arrivals, writes, ghostVars>>

\* The reverse entry is taken back by key.
UndoCt(c) ==
    /\ pc[c] = "ctundo"
    /\ ct' = [ct EXCEPT ![reg[c].key] = Absent]
    /\ bump_stat(c, {"MAP_MISS", "FALLBACK_PASS"})
    /\ Return(c)
    /\ UNCHANGED <<tableVars, fwd, snatNext, now, arrivals, writes, ghostVars>>

(* rewrite_tuple and the redirect *)

\* One of the helpers failed: the packet is passed as far as it was rewritten.
RewriteFail(c) ==
    /\ pc[c] = "rewrite"
    /\ bump_stat(c, {"REWRITE_FAIL", "FALLBACK_PASS"})
    /\ Return(c)
    /\ UNCHANGED <<mapVars, arrivals, writes, ghostVars>>

RewriteRequest(c) ==
    /\ pc[c] = "rewrite"
    /\ reg[c].pkt.dir = "request"
    /\ bump_stat(c, {"REQUEST_REWRITE"} \cup redirect_or_fallback(reg[c].egress))
    /\ sent' = sent \cup {<<reg[c].pkt.flow, reg[c].key>>}
    /\ Return(c)
    /\ UNCHANGED <<mapVars, arrivals, writes, owner, reused, replies>>

RewriteResponse(c) ==
    /\ pc[c] = "rewrite"
    /\ reg[c].pkt.dir = "response"
    /\ bump_stat(c, {"RESPONSE_REWRITE"} \cup redirect_or_fallback(config.external))
    /\ replies' = IF reg[c].pkt.flow = Absent THEN replies
                  ELSE replies \cup {<<reg[c].pkt.flow, reg[c].flow>>}
    /\ Return(c)
    /\ UNCHANGED <<mapVars, arrivals, writes, owner, reused, sent>>

handle_response(c) ==
    \/ ResponseLookupMiss(c) \/ ResponseLookupHit(c) \/ ResponseRefresh(c)
    \/ RewriteResponse(c)

select_backend(c) ==
    \/ NoBackends(c) \/ ReadRr(c) \/ BackendLookupMiss(c)
    \/ BackendLookupHit(c) \/ WriteRr(c)

handle_request(c) ==
    \/ ResponseLookupRequest(c)
    \/ ServiceLookupMiss(c) \/ ServiceLookupHit(c)
    \/ ForwardLookupMiss(c) \/ ForwardLookupHit(c) \/ PinnedRefresh(c)
    \/ select_backend(c)
    \/ ReadSnat(c) \/ WriteSnat(c)
    \/ InstallCtFull(c) \/ InstallCt(c)
    \/ InstallFwd(c) \/ InstallFwdFull(c) \/ UndoCt(c)
    \/ RewriteRequest(c)

\* A step of a program that is running.
Run(c) == handle_response(c) \/ handle_request(c) \/ RewriteFail(c)

---------------------------------------------------------------------------
(* The environment.                                                        *)

\* The values that a syncer writes: UpsertEntry never writes a count of 0,
\* which the program guards against all the same.
SyncedService == [count : 0 .. MaxSlots, snat : SnatIP]
SyncedConfig  == [external : {0, 1}, local : {0, 1}, remote : {0, 1}]

\* One map write of a syncer: what UpdateConfig, UpsertEntry and DeleteEntry
\* are made of, in any order and from any number of syncers.
ControlPlane ==
    /\ writes < MaxWrites
    /\ writes' = writes + 1
    /\ \/ \E f \in Frontend, val \in SyncedService \cup {Absent} :
             /\ svc' = [svc EXCEPT ![f] = val]
             /\ UNCHANGED <<slots, rr, config>>
       \/ \E f \in Frontend, s \in Slot, b \in Backend \cup {Absent} :
             /\ slots' = [slots EXCEPT ![<<f, s>>] = b]
             /\ UNCHANGED <<svc, rr, config>>
       \/ \E f \in Frontend :
             /\ rr' = [rr EXCEPT ![f] = Absent]
             /\ UNCHANGED <<svc, slots, config>>
       \/ \E cfg \in SyncedConfig :
             /\ config' = cfg
             /\ UNCHANGED <<svc, slots, rr>>
    /\ UNCHANGED <<connVars, now, pc, reg, stats, arrivals, ghostVars>>

Tick ==
    /\ now < MaxTime
    /\ now' = now + 1
    /\ UNCHANGED <<tableVars, connVars, tcVars>>

\* The maps after the first reconcile on freshly created maps.
TableInit ==
    /\ svc = [f \in Frontend |->
                 IF Len(Table[f]) = 0 THEN Absent
                 ELSE [count |-> Len(Table[f]), snat |-> StartSnat]]
    /\ slots = [x \in Frontend \X Slot |->
                   IF x[2] < Len(Table[x[1]]) THEN Table[x[1]][x[2] + 1]
                   ELSE Absent]
    /\ config = StartConfig

ConnInit ==
    /\ rr = [f \in Frontend |-> Absent]
    /\ ct = [k \in CtKey |-> Absent]
    /\ fwd = [fl \in Flow |-> Absent]
    /\ snatNext = 0
    /\ now = 0

TCInit ==
    /\ pc = [c \in CPU |-> "idle"]
    /\ reg = [c \in CPU |-> NoReg]
    /\ stats = [c \in CPU |-> [s \in Stat |-> 0]]
    /\ arrivals = 0
    /\ writes = 0
    /\ owner = [k \in CtKey |-> Absent]
    /\ reused = FALSE
    /\ sent = {}
    /\ replies = {}

Init == TableInit /\ ConnInit /\ TCInit

Next ==
    \/ \E c \in CPU : nodeport_tc(c) \/ Run(c)
    \/ ControlPlane
    \/ Tick

Spec == Init /\ [][Next]_vars

---------------------------------------------------------------------------
(* Properties.                                                             *)

TypeOK ==
    /\ MapsTypeOK
    /\ pc \in [CPU -> PC]
    /\ reg \in [CPU -> Reg]
    /\ stats \in [CPU -> [Stat -> Nat]]
    /\ arrivals \in Nat
    /\ writes \in Nat
    /\ owner \in [CtKey -> Flow \cup {Absent}]
    /\ reused \in BOOLEAN
    /\ sent \subseteq Flow \X CtKey
    /\ replies \subseteq Flow \X Flow

\* 1 while the program on CPU c stands at one of the labels.
InFlight(c, labels) == IF pc[c] \in labels THEN 1 ELSE 0

\* The sums over the counters of CPU c, up to the packet it is working on.
Balance(c) ==
    LET n == stats[c]
    IN  /\ n["NODEPORT_HIT"] = n["FWD_CT_HIT"] + n["BACKEND_SELECTED"]
             + n["BACKEND_LOOKUP_MISS"]
             + InFlight(c, {"forward", "rr", "backend", "rrput"})
        /\ n["BACKEND_SELECTED"] + n["BACKEND_LOOKUP_MISS"]
             + n["CT_LOOKUP_MISS"]
           = n["NEW_CONN"] + n["MAP_MISS"]
             + InFlight(c, {"snatget", "snatput", "ctput", "fwdput",
                            "ctundo"})
        /\ n["FWD_CT_HIT"] + n["NEW_CONN"] + n["REVNAT_HIT"]
           = n["REQUEST_REWRITE"] + n["RESPONSE_REWRITE"]
             + n["REWRITE_FAIL"] + InFlight(c, {"pinned", "rewrite"})
        /\ n["REQUEST_REWRITE"] + n["RESPONSE_REWRITE"]
           = n["REDIRECT_OK"] + n["REDIRECT_FAIL"]
        /\ n["FALLBACK_PASS"] = n["MAP_MISS"] + n["REWRITE_FAIL"]
             + n["REDIRECT_FAIL"]

\* The counters of every CPU balance: every NodePort hit is pinned, selects
\* a backend or misses one; every selection ends as a new connection or a
\* map miss; every connection step ends in a rewrite or a rewrite failure;
\* every rewrite is redirected or fails to be; and FALLBACK_PASS counts
\* exactly the packets given back to kube-proxy for a map miss, a failed
\* rewrite or a failed redirect.  The telemetry features (miss ratio,
\* redirect ratio) rest on these sums.
StatsBalance == \A c \in CPU : Balance(c)

\* Reverse NAT isolates connections as long as no (backend, SNAT address,
\* SNAT port) is given out twice: a reply is then restored to the client and
\* frontend of the very connection that the backend answers, however lookups,
\* refreshes from a stale copy, installs and undone installs interleave.
ReplyIsolation == ~reused => \A r \in replies : r[1] = r[2]

\* "revNAT CT restores src=NodeIP:NodePort, dst=clientIP:clientPort": a reply
\* reaches the client and comes from the frontend of the connection that the
\* backend answers.
ReplyRestored == \A r \in replies : r[1] = r[2]

\* As long as no conntrack key is given out twice, a forward entry always has
\* its reverse entry, and it names the same flow: a pinned connection has a
\* way back, also when an install on another CPU is taken back.
ForwardHasReverse ==
    ~reused => \A fl \in Flow : fwd[fl] # Absent =>
        /\ ct[fwd[fl].key] # Absent
        /\ ct[fwd[fl].key].flow = fl

\* All packets of the client are received by one CPU, as receive-side
\* scaling does for a TCP connection.
OneQueue(client) == \A a, b \in Steer[client] : a = b

\* nodeport_fwd_ct_map pins a connection: while no entry is aged out, the
\* backend, SNAT port and egress interface of a flow that one CPU receives
\* never change, whatever the syncer does to the service.
PinnedForGood ==
    [][\A fl \in Flow :
          (OneQueue(fl[1]) /\ fwd[fl] # Absent) => fwd'[fl] = fwd[fl]]_vars

\* A single CPU gives out no SNAT port twice before the whole range is used.
\* (BACKEND_SELECTED counts the allocations.)
SerialPortsDistinct ==
    (\E c \in CPU : CPU = {c} /\ stats[c]["BACKEND_SELECTED"]
                                  <= SnatMax - SnatMin + 1)
        => ~reused

=============================================================================
