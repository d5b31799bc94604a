----------------------------- MODULE Endpoints -----------------------------
(***************************************************************************)
(* desiredEntries: what a syncer makes of the Services, Nodes and          *)
(* EndpointSlices in its caches.  The caches change and the syncer looks   *)
(* again; a cache lists its objects in an order that may differ each time. *)
(***************************************************************************)
EXTENDS Integers, Sequences, FiniteSets, SequencesExt

CONSTANTS
    None,           \* a field that is not set
    Service,        \* names of services
    ServiceSpecs,   \* what a service may be
    Node,           \* names of nodes
    SliceName,      \* names of endpoint slices
    Slices,         \* what an endpoint slice may be
    Addresses,      \* addresses of nodes and pods, as numbers (sorted as text)
    IPv4,           \* those of them that are IPv4
    NodeAddresses,  \* those a node may have as InternalIP
    Selector,       \* the only service to serve, or None
    Self,           \* the node of the syncer
    MaxChanges      \* bound: changes of the caches

\* A string of an object that is not set.
Unset == ""

\* corev1.ServicePort; nodePort 0 is unset, target 0 is a name.
ServicePort == [name : STRING, proto : {Unset, "TCP", "UDP"}, port : Nat,
                target : Nat, nodePort : Nat]

\* corev1.Service
ServiceSpec == [type : {"NodePort", "ClusterIP"},
                policy : {Unset, "Cluster", "Local"}, ports : Seq(ServicePort)]

\* discoveryv1.EndpointPort
SlicePort == [name : STRING, proto : {None, "TCP", "UDP"},
              port : Nat \cup {None}]

\* discoveryv1.Endpoint
Endpoint == [ready : BOOLEAN \cup {None}, serving : BOOLEAN \cup {None},
             terminating : BOOLEAN \cup {None}, kind : {Unset, "Pod", "Other"},
             node : Node \cup {None}, addresses : Seq(Addresses)]

\* discoveryv1.EndpointSlice; service is its label, None without one.
Slice == [service : Service \cup {None}, ports : Seq(SlicePort),
          endpoints : Seq(Endpoint)]

Backend == [address : Addresses, port : Nat, nodeIP : Addresses]

ASSUME EndpointsAssumption ==
    /\ None \notin Nat /\ None \notin BOOLEAN
    /\ Addresses \subseteq Nat /\ IPv4 \subseteq Addresses
    /\ NodeAddresses \subseteq IPv4
    /\ Self \in Node /\ Selector \in Service \cup {None}
    /\ ServiceSpecs \subseteq ServiceSpec /\ Slices \subseteq Slice
    /\ None \notin Node /\ None \notin Service
    /\ IsFiniteSet(SliceName) /\ MaxChanges \in Nat

\* The API server gives no node port to two TCP ports of a service.
ASSUME NodePortAssumption ==
    \A spec \in ServiceSpecs : \A i, j \in DOMAIN spec.ports :
        LET p == spec.ports[i]
            q == spec.ports[j]
        IN  (/\ p.proto \in {Unset, "TCP"} /\ q.proto \in {Unset, "TCP"}
             /\ p.nodePort # 0 /\ p.nodePort = q.nodePort) => p = q

VARIABLES
    services,       \* serviceLister
    slices,         \* sliceLister
    nodeIP,         \* of each node, its first IPv4 InternalIP, or None
    entries,        \* the last result of desiredEntries
    changed,        \* a cache changed since then
    changes

cacheVars == <<services, slices, nodeIP>>
endVars == <<cacheVars, entries, changed, changes>>

---------------------------------------------------------------------------
(* The helpers.                                                            *)

\* Mutant: a pod that is going away still gets connections.
EligibleWhileTerminating(e) ==
    /\ e.ready # FALSE
    /\ e.serving # FALSE
    /\ e.kind \in {Unset, "Pod"}
    /\ e.node # None

eligibleEndpoint(e) ==
    /\ e.ready # FALSE
    /\ e.serving # FALSE
    /\ e.terminating # TRUE
    /\ e.kind \in {Unset, "Pod"}
    /\ e.node # None

\* The first of a set of positions.
First(positions) == CHOOSE n \in positions : \A m \in positions : n <= m

firstIPv4Address(e) ==
    LET v4 == {n \in DOMAIN e.addresses : e.addresses[n] \in IPv4}
    IN  IF v4 = {} THEN None ELSE e.addresses[First(v4)]

\* Where in a slice the ports are that stand for a port of the service: those
\* with its name, else those with its target number, else the only one, else
\* those with its own number.
matchingSlicePorts(sp, slice) ==
    LET tcp     == {k \in DOMAIN slice.ports : /\ slice.ports[k].proto \in {None, "TCP"}
                                               /\ slice.ports[k].port # None}
        named   == {k \in tcp : slice.ports[k].name = sp.name}
        with(n) == {k \in tcp : slice.ports[k].port = n}
    IN  IF sp.name # Unset /\ named # {} THEN named
        ELSE IF sp.target # 0 /\ with(sp.target) # {} THEN with(sp.target)
        ELSE IF \E k \in tcp : tcp = {k} THEN tcp
        ELSE with(sp.port)

Usable(e) ==
    /\ eligibleEndpoint(e)
    /\ firstIPv4Address(e) # None
    /\ nodeIP[e.node] # None

\* related maps positions of the listing to slices.  A candidate comes from a
\* slice, an endpoint of it and a port of it, in this order.
Places(sp, related) ==
    {p \in UNION {{n} \X (DOMAIN related[n].endpoints)
                       \X matchingSlicePorts(sp, related[n]) : n \in DOMAIN related} :
        Usable(related[p[1]].endpoints[p[2]])}

Candidates(sp, related) ==
    [p \in Places(sp, related) |->
        LET e == related[p[1]].endpoints[p[2]]
        IN  [address |-> firstIPv4Address(e),
             port    |-> related[p[1]].ports[p[3]].port,
             nodeIP  |-> nodeIP[e.node]]]

Earlier(p, q) ==
    \/ p[1] < q[1]
    \/ p[1] = q[1] /\ p[2] < q[2]
    \/ p[1] = q[1] /\ p[2] = q[2] /\ p[3] < q[3]

\* The first candidate with an address and port counts.
Deduplicated(c) ==
    {p \in DOMAIN c : \A q \in DOMAIN c :
        Earlier(q, p) => c[q].address # c[p].address \/ c[q].port # c[p].port}

Before(a, b) ==
    \/ a.address < b.address
    \/ a.address = b.address /\ a.port < b.port
    \/ a.address = b.address /\ a.port = b.port /\ a.nodeIP < b.nodeIP

\* The candidates at some places, in order: at n, the one that n - 1 of them
\* precede.  (Which of two equal ones comes first is not to be seen.)
Sorted(c, places) ==
    LET Preceding(p) ==
            {q \in places : Before(c[q], c[p]) \/ (c[q] = c[p] /\ Earlier(q, p))}
    IN  [n \in 1 .. Cardinality(places) |->
            c[CHOOSE p \in places : Cardinality(Preceding(p)) = n - 1]]

\* Mutants: the result is not sorted; candidates are not compared.
CollectUnsorted(sp, related) ==
    LET c    == Candidates(sp, related)
        kept == Deduplicated(c)
        Preceding(p) == {q \in kept : Earlier(q, p)}
    IN  [n \in 1 .. Cardinality(kept) |->
            c[CHOOSE p \in kept : Cardinality(Preceding(p)) = n - 1]]

CollectDuplicates(sp, related) ==
    LET c == Candidates(sp, related) IN Sorted(c, DOMAIN c)

collectBackends(sp, related) ==
    LET c == Candidates(sp, related) IN Sorted(c, Deduplicated(c))

---------------------------------------------------------------------------
(* desiredEntries.                                                         *)

\* The slices of the service, where the lister has them.
buildSliceIndex(listing, s) ==
    [n \in {m \in DOMAIN listing : slices[listing[m]].service = s} |->
        slices[listing[n]]]

\* A service that is not skipped, and its ports that are not skipped.
Served(s) ==
    /\ services[s] # None
    /\ Selector \in {None, s}
    /\ services[s].type = "NodePort"
    /\ services[s].policy \in {Unset, "Cluster"}

ServedPorts(s) ==
    IF Served(s)
    THEN {sp \in ToSet(services[s].ports) :
             sp.proto \in {Unset, "TCP"} /\ sp.nodePort # 0}
    ELSE {}

desiredEntries(listing) ==
    {e \in UNION {{[service  |-> s,
                    nodePort |-> sp.nodePort,
                    backends |-> collectBackends(sp, buildSliceIndex(listing, s))] :
                       sp \in ServedPorts(s)} : s \in Service} :
        e.backends # <<>>}

\* The present slices, in any order.
Present == {n \in SliceName : slices[n] # None}

Listings ==
    {listing \in [1 .. Cardinality(Present) -> Present] :
        \A i, j \in DOMAIN listing : listing[i] = listing[j] => i = j}

Reconcile(listing) ==
    /\ nodeIP[Self] # None
    /\ entries' = desiredEntries(listing)
    /\ changed' = FALSE
    /\ UNCHANGED <<cacheVars, changes>>

Change ==
    /\ changes < MaxChanges
    /\ changes' = changes + 1
    /\ changed' = TRUE
    /\ UNCHANGED entries

ServiceChange(s) ==
    /\ services' \in {[services EXCEPT ![s] = v] : v \in ServiceSpecs \cup {None}}
    /\ Change
    /\ UNCHANGED <<slices, nodeIP>>

SliceChange(n) ==
    /\ slices' \in {[slices EXCEPT ![n] = v] : v \in Slices \cup {None}}
    /\ Change
    /\ UNCHANGED <<services, nodeIP>>

NodeChange(n) ==
    /\ nodeIP' \in {[nodeIP EXCEPT ![n] = a] : a \in NodeAddresses \cup {None}}
    /\ Change
    /\ UNCHANGED <<services, slices>>

EndInit ==
    /\ services \in [Service -> ServiceSpecs]
    /\ slices \in [SliceName -> Slices]
    /\ nodeIP \in [Node -> NodeAddresses]
    /\ \A m, n \in Node : nodeIP[m] = nodeIP[n] => m = n
    /\ entries = {}
    /\ changed = TRUE
    /\ changes = 0

EndNext ==
    \/ \E listing \in Listings : Reconcile(listing)
    \/ \E s \in Service : ServiceChange(s)
    \/ \E n \in SliceName : SliceChange(n)
    \/ \E n \in Node : NodeChange(n)

EndSpec == EndInit /\ [][EndNext]_endVars

---------------------------------------------------------------------------
(* Properties.                                                             *)

\* What is published is well formed: a nodePort of a service once, with at
\* least one backend, and each address and port once, so that the round robin
\* gives every backend the same share.
EndTypeOK ==
    /\ changed \in BOOLEAN /\ changes \in Nat
    /\ \A e \in entries :
          /\ e.service \in Service /\ e.nodePort \in Nat \ {0}
          /\ e.backends # <<>> /\ e.backends \in Seq(Backend)
          /\ \A i, j \in 1 .. Len(e.backends) :
                i # j => \/ e.backends[i].address # e.backends[j].address
                         \/ e.backends[i].port # e.backends[j].port
    /\ \A e, f \in entries :
          e.service = f.service /\ e.nodePort = f.nodePort => e = f

\* The pods that may get new connections through port sp of service s, read
\* off the slices without any order: those that are ready and not going away,
\* with the port that carries the name of sp.
ReadyPods(slice) ==
    {e \in ToSet(slice.endpoints) :
        /\ e.ready \in {TRUE, None}
        /\ e.serving \in {TRUE, None}
        /\ e.terminating \in {FALSE, None}
        /\ e.kind # "Other"
        /\ e.node # None /\ nodeIP[e.node] # None
        /\ firstIPv4Address(e) # None}

NamedPorts(slice, sp) ==
    {p \in ToSet(slice.ports) :
        /\ p.name = sp.name
        /\ p.proto \in {None, "TCP"}
        /\ p.port # None}

NamedBackends(s, sp) ==
    UNION {{[address |-> firstIPv4Address(e), port |-> p.port,
             nodeIP |-> nodeIP[e.node]] :
               e \in ReadyPods(slices[n]), p \in NamedPorts(slices[n], sp)} :
             n \in {m \in Present : slices[m].service = s}}

\* The endpoint controller writes for each port of the service its port of the
\* pods, under the same name.
Complete(s, sp) ==
    \A n \in Present : slices[n].service = s => NamedPorts(slices[n], sp) # {}

\* A pod address belongs to one node.
AddressOnOneNode ==
    \A m, n \in Present :
        \A i \in 1 .. Len(slices[m].endpoints), j \in 1 .. Len(slices[n].endpoints) :
            (ToSet(slices[m].endpoints[i].addresses)
                \cap ToSet(slices[n].endpoints[j].addresses)) # {}
            => slices[m].endpoints[i].node = slices[n].endpoints[j].node

\* Looking again at unchanged caches gives the same entries, in whatever order
\* the lister returns the slices: otherwise each reconcile would delete and
\* write again entries that connections are being balanced over.
StableWhileUnchanged ==
    [][(~changed /\ ~changed' /\ AddressOnOneNode) => entries' = entries]_endVars

\* Each nodePort is served by exactly the pods that its own service port
\* selects, and not by another port of the same pods.
ServesItsOwnPort ==
    ~changed =>
        \A s \in Service : \A sp \in ServedPorts(s) :
            (sp.name # Unset /\ Complete(s, sp) /\ AddressOnOneNode) =>
                LET own == {e \in entries : /\ e.service = s
                                            /\ e.nodePort = sp.nodePort}
                IN  UNION {ToSet(e.backends) : e \in own} = NamedBackends(s, sp)

=============================================================================
