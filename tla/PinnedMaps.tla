----------------------------- MODULE PinnedMaps -----------------------------
(***************************************************************************)
(* The BPF maps that nodeport_tc.c declares and pins, shared by every CPU  *)
(* that runs the tc program and by every syncer process.  A map is a total *)
(* function: a key that is not in the map has the value Absent.  One map   *)
(* helper call (lookup with the copy of the value, update, delete) is one  *)
(* atomic step.  The protocol field of the keys is always TCP and is left  *)
(* out, as is the routing_mode field of the config, which nothing reads.   *)
(***************************************************************************)
EXTENDS Integers, FiniteSets, Sequences

CONSTANTS
    Client,     \* client endpoints (client_ip, client_port)
    Frontend,   \* NodePort frontends (NodeIP, nodePort): struct nodeport_key
    Backend,    \* backend endpoints (address, port, node_ip)
    Local,      \* the backends whose node_ip is the frontend's own address
    SnatIP,     \* values of service_state.snat_ip
    SnatMin,    \* NODEPORT_SNAT_MIN
    SnatMax,    \* NODEPORT_SNAT_MAX
    MaxSlots,   \* slots of a service that are represented
    CtMax,      \* max_entries of nodeport_ct_map
    FwdMax,     \* max_entries of nodeport_fwd_ct_map
    RrMax,      \* max_entries of nodeport_rr_state_map
    Absent      \* the value of a key that is not in a map

ASSUME SnatRangeAssumption ==
    /\ SnatMin \in Nat /\ SnatMax \in Nat
    /\ 0 < SnatMin /\ SnatMin <= SnatMax

ASSUME LocalAssumption == Local \subseteq Backend

ASSUME MaxSlotsAssumption == MaxSlots \in Nat

VARIABLES
    svc,        \* nodeport_service_map
    slots,      \* nodeport_backend_map
    rr,         \* nodeport_rr_state_map
    config,     \* nodeport_config_map, an array map of one element
    ct,         \* nodeport_ct_map: reverse NAT, by backend-side tuple
    fwd,        \* nodeport_fwd_ct_map: request side, by client-side tuple
    snatNext,   \* nodeport_snat_port_map, an array map of one element
    now         \* the monotonic clock that bpf_ktime_get_ns reads

tableVars == <<svc, slots, rr, config>>
connVars  == <<ct, fwd, snatNext>>
mapVars   == <<svc, slots, rr, config, ct, fwd, snatNext, now>>

\* The ports of the SNAT range, and one more that stands for every port
\* outside of it.
SnatPort == SnatMin .. SnatMax
Port     == SnatMin .. (SnatMax + 1)

Slot == 0 .. (MaxSlots - 1)

SvcVal    == [count : Nat, snat : SnatIP]
ConfigVal == [external : Nat, local : Nat, remote : Nat]

\* struct nodeport_fwd_ct_key: the client side of a connection.
Flow == Client \X Frontend

\* struct nodeport_ct_key: the backend side of a connection.
CtKey  == Backend \X SnatIP \X Port
CtVal  == [flow : Flow, seen : Nat]
FwdVal == [key : CtKey, egress : Nat]

\* Absent is no value of any map.
ASSUME AbsentAssumption ==
    /\ Absent \notin Backend /\ Absent \notin SnatIP
    /\ Absent \notin SvcVal /\ Absent \notin Nat
    /\ Absent \notin Flow /\ Absent \notin CtKey
    /\ Absent \notin CtVal /\ Absent \notin FwdVal

\* An interface index of 0 means that no interface is configured.
NoConfig == [external |-> 0, local |-> 0, remote |-> 0]

MapsTypeOK ==
    /\ svc \in [Frontend -> SvcVal \cup {Absent}]
    /\ slots \in [Frontend \X Slot -> Backend \cup {Absent}]
    /\ rr \in [Frontend -> Nat \cup {Absent}]
    /\ config \in ConfigVal
    /\ ct \in [CtKey -> CtVal \cup {Absent}]
    /\ fwd \in [Flow -> FwdVal \cup {Absent}]
    /\ snatNext \in {0} \cup SnatPort
    /\ now \in Nat

Entries(map) == {k \in DOMAIN map : map[k] # Absent}

\* bpf_map_update_elem(..., BPF_ANY) on a hash map replaces an entry that is
\* there; it fails with E2BIG for a new key once the map holds max_entries.
HasRoom(map, key, max) ==
    map[key] # Absent \/ Cardinality(Entries(map)) < max

=============================================================================
