---------------------------- MODULE MCEndpoints ----------------------------
(* A service with two named ports, an unnamed one, and the endpoint slices  *)
(* of three pods in the states that a rollout puts them through; the        *)
(* address of one is given to a pod of the other node.                      *)
EXTENDS Endpoints

Http    == [name |-> "http", proto |-> "TCP", port |-> 80, target |-> 8080,
            nodePort |-> 30080]
Metrics == [name |-> "metrics", proto |-> "", port |-> 90, target |-> 0,
            nodePort |-> 31000]
Plain   == [name |-> "", proto |-> "TCP", port |-> 80, target |-> 8080,
            nodePort |-> 30081]
Dns     == [name |-> "dns", proto |-> "UDP", port |-> 53, target |-> 53,
            nodePort |-> 30053]

MCServiceSpecs ==
    {[type |-> "NodePort", policy |-> "Cluster", ports |-> <<Http, Metrics, Dns>>],
     [type |-> "NodePort", policy |-> "", ports |-> <<Plain>>],
     [type |-> "NodePort", policy |-> "Local", ports |-> <<Http>>]}

TcpPort(name, n) == [name |-> name, proto |-> "TCP", port |-> n]
UdpPort(name, n) == [name |-> name, proto |-> "UDP", port |-> n]

MCPorts ==
    {<<TcpPort("http", 8080), TcpPort("metrics", 9090), UdpPort("dns", 53)>>,
     <<TcpPort("http", 8080)>>,
     <<TcpPort("", 8080)>>}

Pod(a, n) == [ready |-> TRUE, serving |-> None, terminating |-> None,
              kind |-> "Pod", node |-> n, addresses |-> <<a>>]

MCEndpointSeqs ==
    {<<Pod(12, "n1")>>,
     <<Pod(12, "n2")>>,
     <<Pod(11, "n2"), [Pod(13, "n1") EXCEPT !.ready = FALSE]>>,
     <<[Pod(11, "n2") EXCEPT !.terminating = TRUE],
       [Pod(13, "n1") EXCEPT !.addresses = <<90, 13>>]>>}

MCSlices ==
    {[service |-> "svc", ports |-> p, endpoints |-> e] :
        p \in MCPorts, e \in MCEndpointSeqs}
    \cup {[service |-> None, ports |-> <<TcpPort("http", 8080)>>,
           endpoints |-> <<Pod(12, "n1")>>]}

=============================================================================
