------------------------------- MODULE Agent -------------------------------
(***************************************************************************)
(* The life of a node agent: it detects the interfaces of its node,        *)
(* removes what an earlier agent left, compiles, loads and attaches the tc *)
(* program with new maps, runs the syncer as a child, and cleans up when   *)
(* it is told to stop.  Each step of Attach and Cleanup is a command of    *)
(* its own that may fail; log.Fatalf ends the agent without its deferred   *)
(* clean-up, and so does a kill.  The interfaces and routes of the node    *)
(* change meanwhile.                                                       *)
(***************************************************************************)
EXTENDS Integers, Sequences

CONSTANTS
    None,               \* no interface; smaller than all of them
    Iface,              \* interfaces, as numbers: dedupeStrings sorts names
    Veth,               \* those whose name matches veth-glob
    LocalCandidates,    \* localDeliveryCandidates, a sequence
    EncapCandidates,    \* encapCandidates, a sequence
    OptionChoices,      \* environments (configmaps) of the agent
    RouteChoices,       \* what the routes of the node may be
    MaxChanges,         \* bound: changes of interfaces and routes
    MaxFaults           \* bound: failures, kills and signals

\* agentOptions, as far as they matter here; inner is what normalizeCSV made
\* of the list, that is, sorted.
Options == [external : Iface \cup {None}, attach : Iface \cup {None},
            local : Iface \cup {None}, remote : Iface \cup {None},
            inner : Seq(Iface), snat : Iface \cup {None},
            mode : {"", "native", "encap"}, veths : BOOLEAN,
            preCleanup : BOOLEAN, cleanupOnExit : BOOLEAN]

\* The interface of the node address, of the default route, and of the routes
\* to the pods of this node and of the others.
Routes == [node : Iface \cup {None}, default : Iface \cup {None},
           local : Iface \cup {None}, remote : Iface \cup {None}]

ASSUME AgentAssumption ==
    /\ None \notin Iface /\ Iface \subseteq Nat /\ Veth \subseteq Iface
    /\ MaxChanges \in Nat /\ MaxFaults \in Nat
    /\ LocalCandidates \in Seq(Iface) /\ EncapCandidates \in Seq(Iface)
    /\ OptionChoices \subseteq Options /\ RouteChoices \subseteq Routes

Direction == {"ingress", "egress"}
Hook == Iface \X Direction

VARIABLES
    opts,           \* the configuration, the same for each agent here
    \* The node.
    ifaces,         \* interfaces that exist
    routes,
    filter,         \* the program attached to a hook, 0: none
    acceptLocal,    \* interfaces with accept_local
    prog, maps,     \* the program and the maps that are pinned, 0: none
    loads,          \* programs loaded so far; they are numbered
    \* The agent.
    pc,
    todo,           \* commands that are left of Attach or Cleanup
    profile,
    syncer,         \* the maps that the child has open, 0: no child
    term,           \* SIGTERM was received
    \* Bounds and history.
    changes, faults,
    appeared,       \* interfaces that appeared since the agent started
    abrupt          \* an agent ended, or a filter stayed, against the plan

nodeVars == <<ifaces, routes>>
tcctlVars == <<filter, acceptLocal, prog, maps, loads>>
histVars == <<changes, faults, appeared, abrupt>>
agentVars == <<opts, nodeVars, tcctlVars, pc, todo, profile, syncer, term,
               histVars>>

---------------------------------------------------------------------------
(* Detection of the interfaces.                                            *)

FirstIn(choices, set) ==
    LET good == {n \in DOMAIN choices : choices[n] \in set}
    IN  IF good = {} THEN None
        ELSE choices[CHOOSE n \in good : \A m \in good : n <= m]

FirstNonEmpty(choices) == FirstIn(choices, Iface)
FirstExisting(candidates) == FirstIn(candidates, ifaces)

Nth(n) == IF Len(opts.inner) >= n THEN opts.inner[n] ELSE None

External == FirstNonEmpty(<<opts.external, opts.attach, routes.node, routes.default>>)

LocalDelivery ==
    FirstNonEmpty(<<opts.local, routes.local, Nth(1),
                    FirstExisting(<<opts.snat>> \o LocalCandidates)>>)

RemoteDelivery ==
    FirstNonEmpty(<<opts.remote, routes.remote, Nth(2),
                    FirstExisting(EncapCandidates)>>)

RoutingMode ==
    IF opts.mode # "" THEN opts.mode
    ELSE IF RemoteDelivery \notin {None, External} THEN "encap" ELSE "native"

Detectable ==
    /\ FirstNonEmpty(<<opts.external, opts.attach>>) \in ifaces \cup {None}
    /\ {opts.local, opts.remote} \subseteq ifaces \cup {None}
    /\ External # None
    /\ LocalDelivery # None
    /\ RoutingMode = "encap" => RemoteDelivery # None

Detect == [external |-> External,
           inner |-> {LocalDelivery, RemoteDelivery} \ {None, External}]

NoProfile == [external |-> None, inner |-> {}]

---------------------------------------------------------------------------
(* The commands of Attach and Cleanup.                                     *)

\* The stages of Attach and Cleanup follow each other; within a stage the
\* interfaces come sorted, as dedupeStrings and Glob return them.
Command(stage, op, iface, dir) ==
    [stage |-> stage, op |-> op, iface |-> iface, dir |-> dir]

Precedes(c, d) ==
    \/ c.stage < d.stage
    \/ c = d
    \/ c.stage = d.stage /\ c.iface < d.iface

Pinning(stage, op) == {Command(stage, op, None, "none")}
Ingress(stage, op, set) == {Command(stage, op, i, "ingress") : i \in set}
VethStage(stage, op) == IF opts.veths THEN Pinning(stage, op) ELSE {}

AttachFilters(p) ==
    Ingress(4, "attach", {p.external})
        \cup {Command(5, "attach", p.external, "egress")}
        \cup Ingress(6, "attach", p.inner) \cup VethStage(7, "attach_veths")

\* Mutant: the pin of the old program stays.
AttachKeepsPin(p) ==
    Pinning(2, "clear") \cup Pinning(3, "load") \cup AttachFilters(p)

Attach(p) ==
    Pinning(1, "unpin") \cup Pinning(2, "clear") \cup Pinning(3, "load")
        \cup AttachFilters(p)

\* Mutant: only ingress filters are removed.
CleanupIngress(p) ==
    Ingress(1, "delete", {p.external})
        \cup Ingress(3, "delete", p.inner) \cup VethStage(4, "delete_veths")
        \cup Pinning(5, "unpin") \cup Pinning(6, "clear")

Cleanup(p) ==
    Ingress(1, "delete", {p.external})
        \cup {Command(2, "delete", p.external, "egress")}
        \cup Ingress(3, "delete", p.inner) \cup VethStage(4, "delete_veths")
        \cup Pinning(5, "unpin") \cup Pinning(6, "clear")

---------------------------------------------------------------------------
(* One command.                                                            *)

\* c is the next command.
First(c) == \A d \in todo : Precedes(c, d)

Do(c, op) == c.op = op /\ First(c) /\ todo' = todo \ {c}
At(c)     == <<c.iface, c.dir>>

\* Mutant: a filter that is there already is kept.
AttachFilterAdd(c) ==
    /\ Do(c, "attach")
    /\ prog # 0
    /\ IF c.iface \in ifaces
       THEN /\ filter' = [filter EXCEPT ![At(c)] = IF @ = 0 THEN prog ELSE @]
            /\ acceptLocal' = acceptLocal \cup {c.iface}
       ELSE UNCHANGED <<filter, acceptLocal>>
    /\ UNCHANGED <<prog, maps, loads>>

\* Mutant: the interface is not looked for.
AttachFilterUnchecked(c) ==
    /\ Do(c, "attach")
    /\ prog # 0
    /\ filter' = [filter EXCEPT ![At(c)] = prog]
    /\ acceptLocal' = acceptLocal \cup {c.iface}
    /\ UNCHANGED <<prog, maps, loads>>

\* attachIngress and attachEgress; a missing interface is skipped.
AttachFilter(c) ==
    /\ Do(c, "attach")
    /\ prog # 0
    /\ IF c.iface \in ifaces
       THEN /\ filter' = [filter EXCEPT ![At(c)] = prog]
            /\ acceptLocal' = acceptLocal \cup {c.iface}
       ELSE UNCHANGED <<filter, acceptLocal>>
    /\ UNCHANGED <<prog, maps, loads>>

\* deleteIngress and deleteEgress.
DeleteFilter(c) ==
    /\ Do(c, "delete")
    /\ filter' = [filter EXCEPT ![At(c)] = 0]
    /\ UNCHANGED <<acceptLocal, prog, maps, loads>>

UnpinProgram(c) ==
    /\ Do(c, "unpin")
    /\ prog' = 0
    /\ UNCHANGED <<filter, acceptLocal, maps, loads>>

clearMapDir(c) ==
    /\ Do(c, "clear")
    /\ maps' = 0
    /\ UNCHANGED <<filter, acceptLocal, prog, loads>>

\* clang and bpftool: the maps of the new program are pinned with it, which
\* works only when nothing is pinned there.
LoadProgram(c) ==
    /\ Do(c, "load")
    /\ prog = 0 /\ maps = 0
    /\ loads' = loads + 1
    /\ prog' = loads + 1
    /\ maps' = loads + 1
    /\ UNCHANGED <<filter, acceptLocal>>

\* The glob is evaluated when its turn comes.
GlobVeths(c) ==
    /\ First(c)
    /\ \/ c.op = "attach_veths"
          /\ todo' = (todo \ {c}) \cup Ingress(c.stage, "attach", ifaces \cap Veth)
       \/ c.op = "delete_veths"
          /\ todo' = (todo \ {c}) \cup Ingress(c.stage, "delete", ifaces \cap Veth)
    /\ UNCHANGED tcctlVars

RunCommand ==
    /\ pc \in {"precleanup", "attach", "exit"}
    /\ \E c \in todo :
          \/ AttachFilter(c) \/ DeleteFilter(c) \/ UnpinProgram(c)
          \/ clearMapDir(c) \/ LoadProgram(c) \/ GlobVeths(c)
    /\ UNCHANGED <<opts, nodeVars, pc, profile, syncer, term, histVars>>

\* The agent ends; the container's other process ends with it.
Ended ==
    /\ pc' = "down"
    /\ todo' = {}
    /\ syncer' = 0
    /\ term' = FALSE

Fault == faults < MaxFaults /\ faults' = faults + 1

\* A command fails: log.Fatalf, or the end of the clean-up at exit.
CommandFails ==
    /\ pc \in {"precleanup", "attach", "exit"}
    /\ todo # {}
    /\ Fault
    /\ Ended
    /\ abrupt' = TRUE
    /\ UNCHANGED <<opts, nodeVars, tcctlVars, profile, changes, appeared>>

\* runAllowError: tc failed to delete a filter, and that is ignored.
DeleteIgnored ==
    /\ pc \in {"precleanup", "exit"}
    /\ \E c \in todo : Do(c, "delete") /\ filter[At(c)] # 0
    /\ Fault
    /\ abrupt' = TRUE
    /\ UNCHANGED <<opts, nodeVars, tcctlVars, pc, profile, syncer, term,
                   changes, appeared>>

---------------------------------------------------------------------------
(* main.                                                                   *)

Start ==
    /\ pc = "down"
    /\ Detectable
    /\ profile' = Detect
    /\ IF opts.preCleanup
       THEN pc' = "precleanup" /\ todo' = Cleanup(Detect)
       ELSE pc' = "attach" /\ todo' = Attach(Detect)
    /\ appeared' = {}
    /\ UNCHANGED <<opts, nodeVars, tcctlVars, syncer, term, changes, faults,
                   abrupt>>

BeginAttach ==
    /\ pc = "precleanup"
    /\ todo = {}
    /\ pc' = "attach"
    /\ todo' = Attach(profile)
    /\ UNCHANGED <<opts, nodeVars, tcctlVars, profile, syncer, term, histVars>>

\* runSyncer; a signal that came before makes it return at once.
StartSyncer ==
    /\ pc = "attach"
    /\ todo = {}
    /\ ~term
    /\ pc' = "run"
    /\ syncer' = maps
    /\ UNCHANGED <<opts, nodeVars, tcctlVars, todo, profile, term, histVars>>

\* main returns, with the deferred clean-up if the options ask for it.
Return ==
    /\ syncer' = 0
    /\ pc' = "exit"
    /\ todo' = IF opts.cleanupOnExit THEN Cleanup(profile) ELSE {}

\* The signal kills the child, and main returns; or the child failed after
\* the signal, which counts as the same.
Stop ==
    /\ \/ pc = "run"
       \/ pc = "attach" /\ todo = {}
    /\ term
    /\ Return
    /\ UNCHANGED <<opts, nodeVars, tcctlVars, profile, term, histVars>>

\* The syncer comes to its end without an error, as in the mode "oneshot".
SyncerEnds ==
    /\ pc = "run"
    /\ ~term
    /\ Fault
    /\ Return
    /\ UNCHANGED <<opts, nodeVars, tcctlVars, profile, term, changes, appeared, abrupt>>

Exit ==
    /\ pc = "exit"
    /\ todo = {}
    /\ Ended
    /\ UNCHANGED <<opts, nodeVars, tcctlVars, profile, histVars>>

\* The syncer exits with an error: log.Fatalf.
SyncerFails ==
    /\ pc = "run"
    /\ ~term
    /\ Fault
    /\ Ended
    /\ abrupt' = TRUE
    /\ UNCHANGED <<opts, nodeVars, tcctlVars, profile, changes, appeared>>

Kill ==
    /\ pc # "down"
    /\ Fault
    /\ Ended
    /\ abrupt' = TRUE
    /\ UNCHANGED <<opts, nodeVars, tcctlVars, profile, changes, appeared>>

Signal ==
    /\ pc # "down"
    /\ ~term
    /\ Fault
    /\ term' = TRUE
    /\ UNCHANGED <<opts, nodeVars, tcctlVars, pc, todo, profile, syncer,
                   changes, appeared, abrupt>>

---------------------------------------------------------------------------
(* The node.                                                               *)

Change == changes < MaxChanges /\ changes' = changes + 1

IfaceUp(i) ==
    /\ i \notin ifaces
    /\ Change
    /\ ifaces' = ifaces \cup {i}
    /\ appeared' = appeared \cup {i}
    /\ UNCHANGED <<opts, routes, tcctlVars, pc, todo, profile, syncer, term,
                   faults, abrupt>>

\* Its filters, its settings and the routes through it go with an interface.
IfaceDown(i) ==
    /\ i \in ifaces
    /\ Change
    /\ ifaces' = ifaces \ {i}
    /\ filter' = [h \in Hook |-> IF h[1] = i THEN 0 ELSE filter[h]]
    /\ acceptLocal' = acceptLocal \ {i}
    /\ routes' = [r \in DOMAIN routes |-> IF routes[r] = i THEN None
                                          ELSE routes[r]]
    /\ UNCHANGED <<opts, prog, maps, loads, pc, todo, profile, syncer, term,
                   faults, appeared, abrupt>>

RouteChange ==
    /\ Change
    /\ routes' \in {r \in RouteChoices :
                       \A k \in DOMAIN r : r[k] \in ifaces \cup {None}}
    /\ UNCHANGED <<opts, ifaces, tcctlVars, pc, todo, profile, syncer, term,
                   faults, appeared, abrupt>>

AgentInit ==
    /\ opts \in OptionChoices
    /\ ifaces = Iface \ Veth
    /\ routes \in RouteChoices
    /\ filter = [h \in Hook |-> 0]
    /\ acceptLocal = {} /\ prog = 0 /\ maps = 0 /\ loads = 0
    /\ pc = "down" /\ todo = {} /\ profile = NoProfile /\ syncer = 0
    /\ term = FALSE
    /\ changes = 0 /\ faults = 0 /\ appeared = {} /\ abrupt = FALSE

main ==
    \/ Start \/ RunCommand \/ BeginAttach
    \/ StartSyncer \/ Stop \/ Exit

AgentNext ==
    \/ main
    \/ CommandFails \/ DeleteIgnored \/ SyncerFails \/ SyncerEnds \/ Kill \/ Signal
    \/ \E i \in Iface : IfaceUp(i) \/ IfaceDown(i)
    \/ RouteChange

AgentSpec == AgentInit /\ [][AgentNext]_agentVars

\* The agent runs, and the kubelet starts it again whenever it ended.
FairAgentSpec == AgentSpec /\ WF_agentVars(main)

---------------------------------------------------------------------------
(* Properties.                                                             *)

\* The types of the variables; a pinned program is one that was loaded.
AgentTypeOK ==
    /\ opts \in OptionChoices
    /\ ifaces \subseteq Iface /\ routes \in Routes
    /\ filter \in [Hook -> 0 .. loads] /\ acceptLocal \subseteq ifaces
    /\ prog \in {0, loads} /\ maps \in {0, loads} /\ loads \in Nat
    /\ pc \in {"down", "precleanup", "attach", "run", "exit"}
    /\ profile.external \in Iface \cup {None} /\ profile.inner \subseteq Iface
    /\ syncer \in 0 .. loads /\ term \in BOOLEAN
    /\ appeared \subseteq Iface /\ abrupt \in BOOLEAN

Covered ==
    {<<profile.external, d>> : d \in Direction}
        \cup {<<i, "ingress">> : i \in profile.inner}
        \cup {<<i, "ingress">> : i \in IF opts.veths THEN Veth ELSE {}}

\* While the syncer runs, every hook of the profile runs the program whose
\* maps the syncer writes, on an interface that accepts local sources; only an
\* interface that appeared after the start may have no program at all.  What
\* earlier agents left, however they ended, is never run there with old maps.
OneDataPlane ==
    pc = "run" =>
        /\ syncer = maps /\ prog = maps /\ maps # 0
        /\ \A h \in Covered :
              /\ filter[h] \in {0, prog}
              /\ h[1] \in ifaces \ appeared => filter[h] = prog
              /\ filter[h] # 0 => h[1] \in acceptLocal

\* Agents that are stopped by a signal, or end with their syncer, leave no
\* filter on any interface, no program and no maps, whatever the interfaces and routes did while they ran.
GracefulExitClean ==
    (pc = "down" /\ ~abrupt /\ opts.cleanupOnExit) =>
        /\ \A h \in Hook : filter[h] = 0
        /\ prog = 0 /\ maps = 0

\* After any failure the agent gets to run a syncer again: nothing that a
\* failed or killed predecessor left behind stops it for good.
ServesAgain == <>[](pc = "run" \/ ~Detectable)

=============================================================================
