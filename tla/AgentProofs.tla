---------------------------- MODULE AgentProofs ----------------------------
(***************************************************************************)
(* Proofs about the node agent: what runs on the hooks while the syncer    *)
(* runs, and what is left when an agent was stopped.  Both follow the      *)
(* commands that are left: a hook is as it should be, or a command that    *)
(* makes it so is still to come.                                           *)
(***************************************************************************)
EXTENDS Agent, WellFoundedInduction, TLAPS

USE AgentAssumption

---------------------------------------------------------------------------
(* The invariant.                                                          *)

Op == {"unpin", "clear", "load", "attach", "attach_veths", "delete", "delete_veths"}
Commands == [stage : Nat, op : Op, iface : Iface \cup {None},
             dir : Direction \cup {"none"}]
Profile == [external : Iface \cup {None}, inner : SUBSET Iface]

\* A filter goes with its interface, which was told to accept local sources.
FilterOnIface ==
    \A h \in Hook : filter[h] # 0 => h[1] \in ifaces /\ h[1] \in acceptLocal

AgentTyped ==
    /\ AgentTypeOK
    /\ FilterOnIface
    /\ profile \in Profile /\ todo \subseteq Commands
    /\ pc # "down" => profile.external \in Iface

\* What Attach is made of: it loads before it attaches, and it attaches to the
\* hooks of the profile.
AttachCommands ==
    \A c \in todo :
        \/ c = Command(1, "unpin", None, "none")
        \/ c = Command(2, "clear", None, "none")
        \/ c = Command(3, "load", None, "none")
        \/ c.stage > 3 /\ c.op = "attach" /\ At(c) \in Covered
        \/ c.stage > 3 /\ c.op = "attach_veths" /\ opts.veths

Pending(h, op, glob) ==
    \E c \in todo : \/ c.op = op /\ At(c) = h
                    \/ c.op = glob /\ h[2] = "ingress" /\ h[1] \in Veth

Settled(h) ==
    /\ filter[h] \in {0, prog}
    /\ h[1] \in ifaces \ appeared => filter[h] = prog

\* While commands of Attach are left, every hook of the profile has its command
\* or has its filter; none has the new filter before the program is loaded.
BeforeLoad ==
    /\ Command(3, "load", None, "none") \in todo
    /\ \A h \in Covered : Pending(h, "attach", "attach_veths")

AttachInv ==
    pc = "attach" =>
        /\ AttachCommands
        /\ \/ BeforeLoad
           \/ /\ \A c \in todo : c.stage > 3
              /\ prog = maps /\ maps # 0
              /\ \A h \in Covered :
                    Pending(h, "attach", "attach_veths") \/ Settled(h)

RunInv ==
    pc = "run" => /\ syncer = maps /\ prog = maps /\ maps # 0
                  /\ \A h \in Covered : Settled(h)

ServeInv == AttachInv /\ RunInv

\* Unless something went wrong, filters are on hooks of the profile, and
\* whatever is left at an exit has the command that removes it.
CleanupCommands ==
    pc \in {"precleanup", "exit"} =>
        \A c \in todo : c.op \in {"delete", "delete_veths", "unpin", "clear"}

ExitInv ==
    (opts.cleanupOnExit /\ ~abrupt) =>
        /\ pc = "down" => /\ \A h \in Hook : filter[h] = 0
                          /\ prog = 0 /\ maps = 0
        /\ pc \in {"precleanup", "attach", "run"} =>
              \A h \in Hook : filter[h] # 0 => h \in Covered
        /\ pc = "exit" =>
              /\ \A h \in Hook : filter[h] # 0 => Pending(h, "delete", "delete_veths")
              /\ prog # 0 => \E c \in todo : c.op = "unpin"
              /\ maps # 0 => \E c \in todo : c.op = "clear"

---------------------------------------------------------------------------
(* Types.                                                                  *)

\* The least of some natural numbers: the first candidate that will do.
LEMMA LeastOf ==
  ASSUME NEW S \in SUBSET Nat, S # {}
  PROVE  \E i \in S : \A j \in S : i <= j
<1>1. PICK i \in S : \A j \in S : ~ (<<j, i>> \in OpToRel(<, Nat))
  BY NatLessThanWellFounded, WFMin, Zenon
<1>2. \A j \in S : ~ (j < i)
  BY <1>1 DEF OpToRel
<1>. QED BY <1>2

\* FirstIn returns a member of the set, or none.
LEMMA FirstInTyped ==
  ASSUME NEW choices, NEW set, DOMAIN choices \in SUBSET Nat
  PROVE  FirstIn(choices, set) \in set \cup {None}
<1>. DEFINE good == {n \in DOMAIN choices : choices[n] \in set}
<1>1. CASE good = {}
  BY <1>1 DEF FirstIn
<1>2. CASE good # {}
  <2>1. PICK n \in good : \A m \in good : n <= m
    <3>1. good \in SUBSET Nat
      OBVIOUS
    <3>. HIDE DEF good
    <3>. QED BY <1>2, <3>1, LeastOf
  <2>2. (CHOOSE k \in good : \A m \in good : k <= m) \in good
    BY <2>1
  <2>. QED BY <1>2, <2>2 DEF FirstIn
<1>. QED BY <1>1, <1>2

\* Detect finds interfaces of the node, and an outer one.
LEMMA DetectTyped ==
  Detectable => Detect \in Profile /\ Detect.external \in Iface
<1>1. External \in Iface \cup {None}
  BY FirstInTyped DEF External, FirstNonEmpty
<1>2. LocalDelivery \in Iface \cup {None}
  <2>. DEFINE choices == <<opts.local, routes.local, Nth(1),
                           FirstExisting(<<opts.snat>> \o LocalCandidates)>>
  <2>1. DOMAIN choices = 1 .. 4
    OBVIOUS
  <2>. HIDE DEF choices
  <2>2. FirstIn(choices, Iface) \in Iface \cup {None}
    BY <2>1, FirstInTyped
  <2>. QED BY <2>2 DEF LocalDelivery, FirstNonEmpty, choices
<1>3. RemoteDelivery \in Iface \cup {None}
  <2>. DEFINE choices == <<opts.remote, routes.remote, Nth(2),
                           FirstExisting(EncapCandidates)>>
  <2>1. DOMAIN choices = 1 .. 4
    OBVIOUS
  <2>. HIDE DEF choices
  <2>2. FirstIn(choices, Iface) \in Iface \cup {None}
    BY <2>1, FirstInTyped
  <2>. QED BY <2>2 DEF RemoteDelivery, FirstNonEmpty, choices
<1>. QED BY <1>1, <1>2, <1>3 DEF Detectable, Detect, Profile

\* Attach and Cleanup are made of commands.
LEMMA CommandsTyped ==
  ASSUME NEW p \in Profile, p.external \in Iface
  PROVE  /\ Attach(p) \subseteq Commands
         /\ Cleanup(p) \subseteq Commands
<1>1. p.inner \subseteq Iface
  BY DEF Profile
<1>2. \A n \in Nat : \A o \in Op : \A i \in Iface \cup {None} :
         \A d \in Direction \cup {"none"} : Command(n, o, i, d) \in Commands
  BY DEF Command, Commands
<1>3. \A n \in Nat : \A o \in Op : Pinning(n, o) \subseteq Commands
  BY <1>2 DEF Pinning
<1>4. \A n \in Nat : \A o \in Op : \A S \in SUBSET Iface :
         Ingress(n, o, S) \subseteq Commands
  BY <1>2 DEF Ingress, Direction
<1>5. \A n \in Nat : \A o \in Op : VethStage(n, o) \subseteq Commands
  BY <1>3 DEF VethStage
<1>6. \A n \in Nat : \A o \in Op : {Command(n, o, p.external, "egress")} \subseteq Commands
  BY <1>2 DEF Direction
<1>7. {"unpin", "clear", "load", "attach", "attach_veths", "delete", "delete_veths"} = Op
      /\ {p.external} \in SUBSET Iface /\ p.inner \in SUBSET Iface
  BY <1>1 DEF Op
<1>8. AttachFilters(p) \subseteq Commands
  BY <1>4, <1>5, <1>6, <1>7 DEF AttachFilters
<1>9. Attach(p) \subseteq Commands
  BY <1>3, <1>7, <1>8 DEF Attach
<1>10. Cleanup(p) \subseteq Commands
  BY <1>3, <1>4, <1>5, <1>6, <1>7 DEF Cleanup
<1>. QED BY <1>9, <1>10

LEMMA InitTyped == AgentInit => AgentTyped
<1>. SUFFICES ASSUME AgentInit PROVE AgentTyped
  OBVIOUS
<1>1. routes \in Routes /\ ifaces \subseteq Iface
  BY DEF AgentInit
<1>2. NoProfile \in Profile
  BY DEF NoProfile, Profile
<1>3. \A h \in Hook : filter[h] = 0
  BY DEF AgentInit
<1>4. filter \in [Hook -> 0 .. loads] /\ acceptLocal = {} /\ loads = 0
  BY DEF AgentInit
<1>5. FilterOnIface
  BY <1>3 DEF FilterOnIface
<1>6. /\ opts \in OptionChoices /\ prog = 0 /\ maps = 0 /\ pc = "down" /\ todo = {}
      /\ syncer = 0 /\ term = FALSE /\ appeared = {} /\ abrupt = FALSE
      /\ profile = NoProfile
  BY DEF AgentInit
<1>7. profile.external \in Iface \cup {None} /\ profile.inner \subseteq Iface
  BY <1>6 DEF NoProfile
<1>8. prog \in {0, loads} /\ maps \in {0, loads} /\ loads \in Nat /\ syncer \in 0 .. loads
  BY <1>4, <1>6
<1>9. AgentTypeOK
  BY <1>1, <1>4, <1>6, <1>7, <1>8 DEF AgentTypeOK
<1>. QED
  BY <1>2, <1>5, <1>6, <1>9 DEF AgentTyped

LEMMA TypedStep ==
  ASSUME AgentTyped, [AgentNext]_agentVars
  PROVE  AgentTyped'
<1>. USE DEF AgentTyped, AgentTypeOK
<1>0. /\ filter \in [Hook -> 0 .. loads] /\ loads \in Nat /\ 0 \in 0 .. loads
      /\ prog \in 0 .. loads /\ {} \subseteq Commands
  OBVIOUS
<1>1. ASSUME UNCHANGED <<opts, nodeVars, tcctlVars, profile, appeared>>,
             todo' \subseteq Commands, syncer' \in 0 .. loads,
             pc' \in {"down", "precleanup", "attach", "run", "exit"},
             pc' # "down" => profile.external \in Iface,
             term' \in BOOLEAN, abrupt' \in BOOLEAN
      PROVE  AgentTyped'
  BY <1>1 DEF nodeVars, tcctlVars, FilterOnIface
<1>12. Ended => /\ todo' \subseteq Commands /\ syncer' \in 0 .. loads
                /\ pc' = "down" /\ term' \in BOOLEAN
  BY <1>0 DEF Ended
<1>2. CASE main
  <2>1. CASE Start
    <3>1. Detect \in Profile /\ Detect.external \in Iface
      BY <2>1, DetectTyped DEF Start
    <3>2. todo' \subseteq Commands
      BY <2>1, <3>1, CommandsTyped DEF Start
    <3>3. profile' = Detect /\ pc' \in {"precleanup", "attach"} /\ appeared' = {}
          /\ UNCHANGED <<opts, nodeVars, tcctlVars, syncer, term, changes, faults, abrupt>>
      BY <2>1 DEF Start
    <3>. HIDE DEF AgentTyped, AgentTypeOK
    <3>4. profile'.external \in Iface \cup {None} /\ profile'.inner \subseteq Iface
      BY <3>1, <3>3 DEF Profile
    <3>. QED
      BY <3>1, <3>2, <3>3, <3>4
      DEF nodeVars, tcctlVars, FilterOnIface, AgentTyped, AgentTypeOK
  <2>2. CASE RunCommand
    <3>1. PICK c \in todo :
             \/ AttachFilter(c) \/ DeleteFilter(c) \/ UnpinProgram(c)
             \/ clearMapDir(c) \/ LoadProgram(c) \/ GlobVeths(c)
      BY <2>2 DEF RunCommand
    <3>2. c \in Commands /\ c.iface \in Iface \cup {None}
      BY DEF Commands
    <3>3. /\ UNCHANGED <<opts, ifaces, routes, pc, profile, syncer, term>>
          /\ UNCHANGED <<changes, faults, appeared, abrupt>>
      BY <2>2 DEF RunCommand, nodeVars, histVars
    <3>4. ASSUME todo' \subseteq Commands, loads' \in Nat, loads <= loads',
                 prog' \in {0, loads'}, maps' \in {0, loads'},
                 UNCHANGED <<filter, acceptLocal>>
          PROVE  AgentTyped'
      <4>1. filter' \in [Hook -> 0 .. loads'] /\ syncer' \in 0 .. loads'
        BY <3>3, <3>4
      <4>. QED BY <3>3, <3>4, <4>1 DEF FilterOnIface
    <3>5. CASE AttachFilter(c)
      <4>1. todo' = todo \ {c} /\ UNCHANGED <<prog, maps, loads>>
        BY <3>5 DEF AttachFilter, Do
      <4>2. CASE c.iface \in ifaces
        <5>1. filter' = [filter EXCEPT ![At(c)] = prog]
              /\ acceptLocal' = acceptLocal \cup {c.iface}
          BY <3>5, <4>2 DEF AttachFilter
        <5>2. filter' \in [Hook -> 0 .. loads]
          <6>. HIDE DEF AgentTyped, AgentTypeOK
          <6>. QED BY <1>0, <5>1
        <5>3. \A h \in Hook : filter'[h] # 0 => h[1] \in ifaces /\ h[1] \in acceptLocal'
          BY <4>2, <5>1 DEF FilterOnIface, At
        <5>4. acceptLocal' \subseteq ifaces
          BY <4>2, <5>1
        <5>. QED BY <3>3, <4>1, <5>2, <5>3, <5>4 DEF FilterOnIface
      <4>3. CASE c.iface \notin ifaces
        BY <3>4, <3>5, <4>1, <4>3 DEF AttachFilter
      <4>. QED BY <4>2, <4>3
    <3>6. CASE DeleteFilter(c)
      <4>1. todo' = todo \ {c} /\ filter' = [filter EXCEPT ![At(c)] = 0]
            /\ UNCHANGED <<acceptLocal, prog, maps, loads>>
        BY <3>6 DEF DeleteFilter, Do
      <4>2. filter' \in [Hook -> 0 .. loads]
        <5>. HIDE DEF AgentTyped, AgentTypeOK
        <5>. QED BY <1>0, <4>1
      <4>3. \A h \in Hook : filter'[h] # 0 => filter[h] # 0
        BY <4>1
      <4>. QED BY <3>3, <4>1, <4>2, <4>3 DEF FilterOnIface
    <3>7. CASE UnpinProgram(c)
      BY <3>4, <3>7 DEF UnpinProgram, Do
    <3>8. CASE clearMapDir(c)
      BY <3>4, <3>8 DEF clearMapDir, Do
    <3>9. CASE LoadProgram(c)
      BY <3>4, <3>9 DEF LoadProgram, Do
    <3>10. CASE GlobVeths(c)
      <4>1. ASSUME NEW o \in {"attach", "delete"}
            PROVE  Ingress(c.stage, o, ifaces \cap Veth) \subseteq Commands
        <5>1. c.stage \in Nat
          BY DEF Commands
        <5>2. \A i \in Iface : Command(c.stage, o, i, "ingress") \in Commands
          BY <5>1 DEF Command, Commands, Op, Direction
        <5>. QED BY <5>2 DEF Ingress
      <4>2. todo' \subseteq Commands
        BY <3>10, <4>1 DEF GlobVeths
      <4>3. UNCHANGED <<filter, acceptLocal, prog, maps, loads>>
        BY <3>10 DEF GlobVeths, tcctlVars
      <4>. QED BY <3>4, <4>2, <4>3
    <3>. QED BY <3>1, <3>5, <3>6, <3>7, <3>8, <3>9, <3>10
  <2>3. CASE BeginAttach
    <3>1. Attach(profile) \subseteq Commands
      BY <2>3, CommandsTyped DEF BeginAttach
    <3>. QED BY <1>1, <2>3, <3>1 DEF BeginAttach, histVars
  <2>4. CASE StartSyncer
    BY <1>1, <2>4 DEF StartSyncer, histVars
  <2>5. CASE Stop
    <3>1. Cleanup(profile) \subseteq Commands
      BY <2>5, CommandsTyped DEF Stop
    <3>. QED BY <1>1, <2>5, <3>1 DEF Stop, Return, histVars
  <2>6. CASE Exit
    BY <1>1, <1>12, <2>6 DEF Exit, histVars
  <2>. QED BY <1>2, <2>1, <2>2, <2>3, <2>4, <2>5, <2>6 DEF main
<1>3. CASE CommandFails
  BY <1>1, <1>12, <1>3 DEF CommandFails
<1>4. CASE DeleteIgnored
  <2>1. todo' \subseteq Commands
    BY <1>4 DEF DeleteIgnored, Do
  <2>. QED BY <1>1, <1>4, <2>1 DEF DeleteIgnored
<1>5. CASE SyncerFails
  BY <1>1, <1>12, <1>5 DEF SyncerFails
<1>6. CASE Kill
  BY <1>1, <1>12, <1>6 DEF Kill
<1>7. CASE Signal
  BY <1>1, <1>7 DEF Signal
<1>8. ASSUME NEW i \in Iface, IfaceUp(i) PROVE AgentTyped'
  BY <1>8 DEF IfaceUp, tcctlVars, FilterOnIface
<1>9. ASSUME NEW i \in Iface, IfaceDown(i) PROVE AgentTyped'
  <2>1. routes' \in Routes
    BY <1>9 DEF IfaceDown, Routes
  <2>2. /\ ifaces' = ifaces \ {i} /\ acceptLocal' = acceptLocal \ {i}
        /\ filter' = [h \in Hook |-> IF h[1] = i THEN 0 ELSE filter[h]]
        /\ UNCHANGED <<opts, prog, maps, loads, pc, todo, profile, syncer, term,
                       faults, appeared, abrupt>>
    BY <1>9 DEF IfaceDown
  <2>3. filter' \in [Hook -> 0 .. loads]
    BY <2>2
  <2>4. \A h \in Hook : filter'[h] # 0 => filter[h] # 0 /\ h[1] # i
    BY <2>2
  <2>. QED BY <2>1, <2>2, <2>3, <2>4 DEF FilterOnIface
<1>10. CASE RouteChange
  BY <1>10 DEF RouteChange, tcctlVars, FilterOnIface
<1>11. CASE UNCHANGED agentVars
  BY <1>11 DEF agentVars, nodeVars, tcctlVars, histVars, FilterOnIface
<1>13. CASE SyncerEnds
  <2>1. Cleanup(profile) \subseteq Commands
    BY <1>13, CommandsTyped DEF SyncerEnds
  <2>. QED BY <1>1, <1>13, <2>1 DEF SyncerEnds, Return
<1>. QED
  BY <1>2, <1>3, <1>4, <1>5, <1>6, <1>7, <1>8, <1>9, <1>10, <1>11, <1>13 DEF AgentNext

\* AgentTypeOK: among the types, that a pinned program is the one that was
\* loaded last, and that a setting is kept for existing interfaces only.
THEOREM AgentTypeCorrect == AgentSpec => []AgentTypeOK
<1>1. AgentTyped => AgentTypeOK
  BY DEF AgentTyped
<1>. QED BY <1>1, InitTyped, TypedStep, PTL DEF AgentSpec

---------------------------------------------------------------------------
(* What runs on the hooks.                                                 *)

LEMMA CoveredHooks ==
  ASSUME AgentTyped, pc # "down"
  PROVE  Covered \subseteq Hook
<1>1. profile.external \in Iface /\ profile.inner \subseteq Iface /\ Veth \subseteq Iface
  BY DEF AgentTyped, AgentTypeOK
<1>. QED BY <1>1 DEF Covered, Hook, Direction

\* Attach has a command for every hook of the profile, and no other hooks.
LEMMA AttachComplete ==
  todo = Attach(profile) => AttachCommands /\ BeforeLoad
<1>. SUFFICES ASSUME todo = Attach(profile) PROVE AttachCommands /\ BeforeLoad
  OBVIOUS
<1>1. /\ <<profile.external, "ingress">> \in Covered
      /\ <<profile.external, "egress">> \in Covered
      /\ \A i \in profile.inner : <<i, "ingress">> \in Covered
  BY DEF Covered, Direction
<1>2. \A h \in Covered :
         \/ h = <<profile.external, "ingress">> \/ h = <<profile.external, "egress">>
         \/ \E i \in profile.inner : h = <<i, "ingress">>
         \/ opts.veths /\ \E i \in Veth : h = <<i, "ingress">>
  BY DEF Covered, Direction
<1>3. \A n, o, i, d : /\ Command(n, o, i, d).stage = n /\ Command(n, o, i, d).op = o
                      /\ At(Command(n, o, i, d)) = <<i, d>>
  BY DEF Command, At
<1>4. \A c \in todo :
         \/ c = Command(1, "unpin", None, "none")
         \/ c = Command(2, "clear", None, "none")
         \/ c = Command(3, "load", None, "none")
         \/ c = Command(4, "attach", profile.external, "ingress")
         \/ c = Command(5, "attach", profile.external, "egress")
         \/ \E i \in profile.inner : c = Command(6, "attach", i, "ingress")
         \/ opts.veths /\ c = Command(7, "attach_veths", None, "none")
  BY DEF Attach, AttachFilters, Pinning, Ingress, VethStage
<1>5. /\ Command(3, "load", None, "none") \in todo
      /\ Command(4, "attach", profile.external, "ingress") \in todo
      /\ Command(5, "attach", profile.external, "egress") \in todo
      /\ \A i \in profile.inner : Command(6, "attach", i, "ingress") \in todo
      /\ opts.veths => Command(7, "attach_veths", None, "none") \in todo
  BY DEF Attach, AttachFilters, Pinning, Ingress, VethStage
<1>6. AttachCommands
  <2>. SUFFICES ASSUME NEW c \in todo
                PROVE  \/ c = Command(1, "unpin", None, "none")
                       \/ c = Command(2, "clear", None, "none")
                       \/ c = Command(3, "load", None, "none")
                       \/ c.stage > 3 /\ c.op = "attach" /\ At(c) \in Covered
                       \/ c.stage > 3 /\ c.op = "attach_veths" /\ opts.veths
    BY DEF AttachCommands
  <2>1. CASE c = Command(4, "attach", profile.external, "ingress")
    <3>1. c.stage = 4 /\ c.op = "attach" /\ At(c) = <<profile.external, "ingress">>
      BY <1>3, <2>1
    <3>. QED BY <1>1, <3>1
  <2>2. CASE c = Command(5, "attach", profile.external, "egress")
    <3>1. c.stage = 5 /\ c.op = "attach" /\ At(c) = <<profile.external, "egress">>
      BY <1>3, <2>2
    <3>. QED BY <1>1, <3>1
  <2>3. ASSUME NEW i \in profile.inner, c = Command(6, "attach", i, "ingress")
        PROVE  c.stage > 3 /\ c.op = "attach" /\ At(c) \in Covered
    <3>1. c.stage = 6 /\ c.op = "attach" /\ At(c) = <<i, "ingress">>
      BY <1>3, <2>3
    <3>. QED BY <1>1, <3>1
  <2>4. CASE opts.veths /\ c = Command(7, "attach_veths", None, "none")
    <3>1. c.stage = 7 /\ c.op = "attach_veths"
      BY <1>3, <2>4
    <3>. QED BY <2>4, <3>1
  <2>. QED BY <1>4, <2>1, <2>2, <2>3, <2>4
<1>7. ASSUME NEW h \in Covered PROVE Pending(h, "attach", "attach_veths")
  <2>1. ASSUME NEW c \in todo, c.op = "attach", At(c) = h
        PROVE  Pending(h, "attach", "attach_veths")
    BY <2>1 DEF Pending
  <2>2. CASE h = <<profile.external, "ingress">>
    <3>. DEFINE c == Command(4, "attach", profile.external, "ingress")
    <3>1. c \in todo
      BY <1>5
    <3>2. c.op = "attach" /\ At(c) = h
      BY <1>3, <2>2
    <3>. HIDE DEF c
    <3>. QED BY <2>1, <3>1, <3>2
  <2>3. CASE h = <<profile.external, "egress">>
    <3>. DEFINE c == Command(5, "attach", profile.external, "egress")
    <3>1. c \in todo
      BY <1>5
    <3>2. c.op = "attach" /\ At(c) = h
      BY <1>3, <2>3
    <3>. HIDE DEF c
    <3>. QED BY <2>1, <3>1, <3>2
  <2>4. ASSUME NEW i \in profile.inner, h = <<i, "ingress">>
        PROVE  Pending(h, "attach", "attach_veths")
    <3>. DEFINE c == Command(6, "attach", i, "ingress")
    <3>1. c \in todo
      BY <1>5
    <3>2. c.op = "attach" /\ At(c) = h
      BY <1>3, <2>4
    <3>. HIDE DEF c
    <3>. QED BY <2>1, <3>1, <3>2
  <2>5. ASSUME opts.veths, NEW i \in Veth, h = <<i, "ingress">>
        PROVE  Pending(h, "attach", "attach_veths")
    <3>1. Command(7, "attach_veths", None, "none").op = "attach_veths"
      BY <1>3
    <3>2. h[1] = i /\ h[2] = "ingress"
      BY <2>5
    <3>. QED BY <1>5, <2>5, <3>1, <3>2 DEF Pending
  <2>. QED BY <1>2, <2>2, <2>3, <2>4, <2>5
<1>. QED BY <1>5, <1>6, <1>7 DEF BeforeLoad

\* A command of Attach: the pinning ones come before the filters, and a hook
\* whose command is done has its filter, or its interface is missing.
LEMMA AttachCommandStep ==
  ASSUME AgentTyped, AgentTyped', AttachInv, pc = "attach", RunCommand
  PROVE  AttachInv'
<1>1. PICK c \in todo :
         \/ AttachFilter(c) \/ DeleteFilter(c) \/ UnpinProgram(c)
         \/ clearMapDir(c) \/ LoadProgram(c) \/ GlobVeths(c)
  BY DEF RunCommand
<1>2. /\ UNCHANGED <<opts, ifaces, routes, pc, profile, syncer, term, appeared>>
      /\ Covered' = Covered
  BY DEF RunCommand, nodeVars, histVars, Covered
<1>3. First(c)
  BY <1>1 DEF AttachFilter, DeleteFilter, UnpinProgram, clearMapDir, LoadProgram,
              GlobVeths, Do
<1>4. /\ \A n, o, i, d : Command(n, o, i, d).stage = n /\ Command(n, o, i, d).op = o
                          /\ Command(n, o, i, d).iface = i
      /\ \A n, o, i : At(Command(n, o, i, "ingress")) = <<i, "ingress">>
  BY DEF Command, At
<1>5. c.stage \in Nat /\ \A d \in todo : d.stage \in Nat
  BY DEF AgentTyped, Commands
<1>6. AttachCommands /\ Covered \subseteq Hook
  BY CoveredHooks DEF AttachInv
<1>7. CASE BeforeLoad
  <2>. DEFINE load == Command(3, "load", None, "none")
  <2>1. load \in todo /\ load.stage = 3
    BY <1>4, <1>7 DEF BeforeLoad
  <2>2. c = load \/ c.stage <= 3
    BY <1>3, <1>5, <2>1 DEF First, Precedes
  <2>3. \/ c = Command(1, "unpin", None, "none")
        \/ c = Command(2, "clear", None, "none")
        \/ c = load
    BY <1>5, <1>6, <2>1, <2>2 DEF AttachCommands
  <2>4. c.op \in {"unpin", "clear", "load"}
    BY <1>4, <2>3
  <2>5. todo' = todo \ {c} /\ (UnpinProgram(c) \/ clearMapDir(c) \/ LoadProgram(c))
    BY <1>1, <2>4 DEF AttachFilter, DeleteFilter, UnpinProgram, clearMapDir,
                      LoadProgram, GlobVeths, Do
  <2>6. \A h \in Covered : Pending(h, "attach", "attach_veths")'
    BY <1>7, <2>4, <2>5 DEF BeforeLoad, Pending, At
  <2>7. AttachCommands'
    BY <1>2, <1>6, <2>5 DEF AttachCommands, At
  <2>8. CASE c # load
    <3>1. load \in todo'
      BY <2>1, <2>5, <2>8
    <3>. QED BY <1>2, <2>6, <2>7, <3>1 DEF AttachInv, BeforeLoad
  <2>9. CASE c = load
    <3>1. c.op = "load"
      BY <1>4, <2>9
    <3>2. prog' = loads + 1 /\ maps' = loads + 1
      BY <2>5, <3>1 DEF UnpinProgram, clearMapDir, LoadProgram, Do
    <3>3. prog' = maps' /\ maps' # 0
      BY <3>2 DEF AgentTyped, AgentTypeOK
    <3>4. ASSUME NEW d \in todo' PROVE d.stage > 3
      <4>1. d \in todo /\ d # c
        BY <2>5
      <4>2. ~ (d.stage = 3 /\ d = c) /\ Precedes(c, d) /\ c.stage = 3
        BY <1>3, <2>1, <2>9, <4>1 DEF First
      <4>3. d.stage >= 3
        BY <1>5, <4>1, <4>2 DEF Precedes
      <4>. QED BY <1>4, <1>5, <1>6, <2>9, <4>1, <4>3 DEF AttachCommands
    <3>. QED BY <1>2, <2>6, <2>7, <3>3, <3>4 DEF AttachInv
  <2>. QED BY <2>8, <2>9
<1>8. CASE /\ \A d \in todo : d.stage > 3
           /\ prog = maps /\ maps # 0
           /\ \A h \in Covered : Pending(h, "attach", "attach_veths") \/ Settled(h)
  <2>1. \/ c.op = "attach" /\ At(c) \in Covered
        \/ c.op = "attach_veths" /\ opts.veths
    BY <1>4, <1>5, <1>6, <1>8 DEF AttachCommands
  <2>2. \A h \in Hook : filter[h] # 0 => h[1] \in ifaces
    BY DEF AgentTyped, FilterOnIface
  <2>3. CASE c.op = "attach"
    <3>1. AttachFilter(c)
      BY <1>1, <2>3 DEF AttachFilter, DeleteFilter, UnpinProgram, clearMapDir,
                        LoadProgram, GlobVeths, Do
    <3>2. todo' = todo \ {c} /\ UNCHANGED <<prog, maps>>
      BY <3>1 DEF AttachFilter, Do
    <3>3. ASSUME NEW h \in Covered, Pending(h, "attach", "attach_veths"), At(c) # h
          PROVE  Pending(h, "attach", "attach_veths")'
      BY <2>3, <3>2, <3>3 DEF Pending, At
    <3>4. filter \in [Hook -> 0 .. loads]
      BY DEF AgentTyped, AgentTypeOK
    <3>5. ASSUME NEW h \in Covered, At(c) # h
          PROVE  filter'[h] = filter[h]
      <4>1. h \in Hook
        BY <1>6
      <4>. QED BY <3>1, <3>4, <3>5, <4>1 DEF AttachFilter
    <3>6. ASSUME NEW h \in Covered, At(c) = h PROVE Settled(h)'
      <4>1. h \in Hook /\ h[1] = c.iface
        BY <1>6, <3>6 DEF At
      <4>2. CASE c.iface \in ifaces
        BY <3>1, <3>2, <3>4, <3>6, <4>1, <4>2 DEF AttachFilter, Settled
      <4>3. CASE c.iface \notin ifaces
        BY <1>2, <2>2, <3>1, <4>1, <4>3 DEF AttachFilter, Settled
      <4>. QED BY <4>2, <4>3
    <3>7. \A h \in Covered : Pending(h, "attach", "attach_veths")' \/ Settled(h)'
      BY <1>2, <1>8, <3>2, <3>3, <3>5, <3>6 DEF Settled
    <3>8. AttachCommands' /\ \A d \in todo' : d.stage > 3
      BY <1>2, <1>6, <1>8, <3>2 DEF AttachCommands, At
    <3>. QED BY <1>2, <1>8, <3>2, <3>7, <3>8 DEF AttachInv
  <2>4. CASE c.op = "attach_veths"
    <3>1. GlobVeths(c)
      BY <1>1, <2>4 DEF AttachFilter, DeleteFilter, UnpinProgram, clearMapDir,
                        LoadProgram, GlobVeths, Do
    <3>2. todo' = (todo \ {c}) \cup Ingress(c.stage, "attach", ifaces \cap Veth)
          /\ UNCHANGED <<filter, prog, maps>>
      BY <2>4, <3>1 DEF GlobVeths, tcctlVars
    <3>3. \A d \in todo' : \/ d \in todo
                            \/ /\ d.stage = c.stage /\ d.op = "attach"
                               /\ \E i \in ifaces \cap Veth : At(d) = <<i, "ingress">>
      BY <1>4, <3>2 DEF Ingress
    <3>4. AttachCommands'
      <4>1. \A i \in Veth : <<i, "ingress">> \in Covered
        BY <2>1, <2>4 DEF Covered
      <4>2. c.stage > 3
        BY <1>8
      <4>3. ASSUME NEW d \in todo'
            PROVE  \/ d \in todo
                   \/ d.stage > 3 /\ d.op = "attach" /\ At(d) \in Covered
        BY <3>3, <4>1, <4>2
      <4>. QED BY <1>2, <1>6, <4>3 DEF AttachCommands, At
    <3>5. \A d \in todo' : d.stage > 3
      BY <1>8, <3>3
    <3>6. ASSUME NEW h \in Covered, Pending(h, "attach", "attach_veths")
          PROVE  Pending(h, "attach", "attach_veths")' \/ Settled(h)'
      <4>1. h \in Hook
        BY <1>6
      <4>2. PICK d \in todo :
               \/ d.op = "attach" /\ At(d) = h
               \/ d.op = "attach_veths" /\ h[2] = "ingress" /\ h[1] \in Veth
        BY <3>6 DEF Pending
      <4>3. CASE d # c
        BY <3>2, <4>2, <4>3 DEF Pending, At
      <4>4. CASE d = c /\ h[1] \in ifaces
        <5>. DEFINE e == Command(c.stage, "attach", h[1], "ingress")
        <5>1. h[2] = "ingress" /\ h[1] \in ifaces \cap Veth /\ h = <<h[1], "ingress">>
          BY <2>4, <4>1, <4>2, <4>4 DEF Hook
        <5>2. e \in todo'
          BY <3>2, <5>1 DEF Ingress
        <5>3. e.op = "attach" /\ At(e) = <<h[1], "ingress">>
          BY <1>4
        <5>. HIDE DEF e
        <5>. QED BY <5>1, <5>2, <5>3 DEF Pending, At
      <4>5. CASE h[1] \notin ifaces
        BY <1>2, <2>2, <3>2, <4>1, <4>5 DEF Settled
      <4>. QED BY <4>3, <4>4, <4>5
    <3>7. \A h \in Covered : Pending(h, "attach", "attach_veths")' \/ Settled(h)'
      BY <1>2, <1>8, <3>2, <3>6 DEF Settled
    <3>. QED BY <1>2, <1>8, <3>2, <3>4, <3>5, <3>7 DEF AttachInv
  <2>. QED BY <2>1, <2>3, <2>4
<1>. QED BY <1>7, <1>8 DEF AttachInv

LEMMA ServeStep ==
  ASSUME AgentTyped, AgentTyped', ServeInv, [AgentNext]_agentVars,
         (todo = Attach(profile) => AttachCommands /\ BeforeLoad)'
  PROVE  ServeInv'
<1>1. ASSUME pc' \notin {"attach", "run"} PROVE ServeInv'
  BY <1>1 DEF ServeInv, AttachInv, RunInv
<1>2. ASSUME UNCHANGED <<opts, ifaces, filter, prog, maps, pc, todo, profile, syncer, appeared>>
      PROVE  ServeInv'
  BY <1>2 DEF ServeInv, AttachInv, RunInv, AttachCommands, BeforeLoad, Pending, Settled,
              Covered, At
<1>3. ASSUME pc' = "attach", todo' = Attach(profile)' PROVE ServeInv'
  BY <1>3 DEF ServeInv, AttachInv, RunInv
<1>4. CASE Start
  <2>1. \/ pc' = "precleanup"
        \/ pc' = "attach" /\ todo' = Attach(Detect) /\ profile' = Detect /\ opts' = opts
    BY <1>4 DEF Start
  <2>2. Attach(Detect) = Attach(profile)' \/ profile' # Detect \/ opts' # opts
    BY DEF Attach, AttachFilters, VethStage
  <2>. QED BY <1>1, <1>3, <2>1, <2>2
<1>5. CASE RunCommand
  <2>1. CASE pc = "attach"
    <3>1. pc' = "attach"
      BY <1>5, <2>1 DEF RunCommand
    <3>. QED BY <1>5, <2>1, <3>1, AttachCommandStep DEF ServeInv, RunInv
  <2>2. CASE pc # "attach"
    BY <1>1, <1>5, <2>2 DEF RunCommand
  <2>. QED BY <2>1, <2>2
<1>6. CASE BeginAttach
  <2>1. pc' = "attach" /\ todo' = Attach(profile) /\ UNCHANGED <<profile, opts>>
    BY <1>6 DEF BeginAttach
  <2>2. Attach(profile) = Attach(profile)'
    BY <2>1 DEF Attach, AttachFilters, VethStage
  <2>. QED BY <1>3, <2>1, <2>2
<1>7. CASE StartSyncer
  <2>1. /\ pc = "attach" /\ todo = {} /\ pc' = "run" /\ syncer' = maps
        /\ UNCHANGED <<opts, ifaces, filter, prog, maps, profile, appeared>>
    BY <1>7 DEF StartSyncer, nodeVars, tcctlVars, histVars
  <2>2. \A h \in Covered : Settled(h)
    BY <2>1 DEF ServeInv, AttachInv, BeforeLoad, Pending
  <2>3. prog = maps /\ maps # 0
    BY <2>1 DEF ServeInv, AttachInv, BeforeLoad
  <2>. QED BY <2>1, <2>2, <2>3 DEF ServeInv, AttachInv, RunInv, Covered, Settled
<1>8. CASE \/ Stop \/ Exit \/ CommandFails \/ DeleteIgnored
           \/ SyncerFails \/ SyncerEnds \/ Kill
  BY <1>1, <1>8
  DEF Stop, SyncerEnds, Return, Exit, CommandFails, DeleteIgnored, SyncerFails, Kill, Ended
<1>9. CASE Signal \/ RouteChange
  BY <1>2, <1>9 DEF Signal, RouteChange, nodeVars, tcctlVars
<1>10. ASSUME UNCHANGED <<opts, prog, maps, pc, todo, profile, syncer>>,
              \A h \in Hook : Settled(h) => Settled(h)'
       PROVE  ServeInv'
  <2>1. Covered' = Covered /\ (pc \in {"attach", "run"} => Covered \subseteq Hook)
    BY <1>10, CoveredHooks DEF Covered
  <2>2. AttachInv'
    BY <1>10, <2>1 DEF ServeInv, AttachInv, AttachCommands, BeforeLoad, Pending, At
  <2>3. RunInv'
    BY <1>10, <2>1 DEF ServeInv, RunInv
  <2>. QED BY <2>2, <2>3 DEF ServeInv
<1>11. ASSUME NEW i \in Iface, IfaceUp(i) PROVE ServeInv'
  <2>1. /\ UNCHANGED <<opts, filter, prog, maps, pc, todo, profile, syncer>>
        /\ ifaces' = ifaces \cup {i} /\ appeared' = appeared \cup {i}
    BY <1>11 DEF IfaceUp, tcctlVars
  <2>. QED BY <1>10, <2>1 DEF Settled
<1>12. ASSUME NEW i \in Iface, IfaceDown(i) PROVE ServeInv'
  <2>1. /\ UNCHANGED <<opts, prog, maps, pc, todo, profile, syncer, appeared>>
        /\ ifaces' = ifaces \ {i}
        /\ filter' = [h \in Hook |-> IF h[1] = i THEN 0 ELSE filter[h]]
    BY <1>12 DEF IfaceDown
  <2>. QED BY <1>10, <2>1 DEF Settled
<1>13. CASE UNCHANGED agentVars
  BY <1>2, <1>13 DEF agentVars, nodeVars, tcctlVars, histVars
<1>. QED
  BY <1>4, <1>5, <1>6, <1>7, <1>8, <1>9, <1>11, <1>12, <1>13 DEF AgentNext, main

\* OneDataPlane: while the syncer runs, every hook of the profile runs the
\* program whose maps the syncer writes.
THEOREM OneDataPlaneHolds == AgentSpec => []OneDataPlane
<1>1. AgentInit => ServeInv
  BY DEF AgentInit, ServeInv, AttachInv, RunInv
<1>2. ASSUME AgentTyped, ServeInv PROVE OneDataPlane
  BY <1>2, CoveredHooks
  DEF ServeInv, RunInv, Settled, OneDataPlane, AgentTyped, FilterOnIface
<1>. QED
  BY <1>1, <1>2, InitTyped, TypedStep, ServeStep, AttachComplete, PTL DEF AgentSpec

---------------------------------------------------------------------------
(* What is left.                                                           *)

\* Cleanup removes what Attach adds, and adds nothing.
LEMMA CleanupComplete ==
  todo = Cleanup(profile) =>
      /\ \A h \in Covered : Pending(h, "delete", "delete_veths")
      /\ \E c \in todo : c.op = "unpin"
      /\ \E c \in todo : c.op = "clear"
      /\ \A c \in todo : c.op \in {"delete", "delete_veths", "unpin", "clear"}
<1>. SUFFICES ASSUME todo = Cleanup(profile)
              PROVE  /\ \A h \in Covered : Pending(h, "delete", "delete_veths")
                     /\ \E c \in todo : c.op = "unpin"
                     /\ \E c \in todo : c.op = "clear"
                     /\ \A c \in todo : c.op \in {"delete", "delete_veths", "unpin", "clear"}
  OBVIOUS
<1>1. \A h \in Covered :
         \/ h = <<profile.external, "ingress">> \/ h = <<profile.external, "egress">>
         \/ \E i \in profile.inner : h = <<i, "ingress">>
         \/ opts.veths /\ \E i \in Veth : h = <<i, "ingress">>
  BY DEF Covered, Direction
<1>2. \A n, o, i, d : Command(n, o, i, d).op = o /\ At(Command(n, o, i, d)) = <<i, d>>
  BY DEF Command, At
<1>3. /\ Command(1, "delete", profile.external, "ingress") \in todo
      /\ Command(2, "delete", profile.external, "egress") \in todo
      /\ \A i \in profile.inner : Command(3, "delete", i, "ingress") \in todo
      /\ opts.veths => Command(4, "delete_veths", None, "none") \in todo
      /\ Command(5, "unpin", None, "none") \in todo
      /\ Command(6, "clear", None, "none") \in todo
  BY DEF Cleanup, Pinning, Ingress, VethStage
<1>4. ASSUME NEW c \in todo
      PROVE  c.op \in {"delete", "delete_veths", "unpin", "clear"}
  <2>1. \/ c = Command(1, "delete", profile.external, "ingress")
        \/ c = Command(2, "delete", profile.external, "egress")
        \/ \E i \in profile.inner : c = Command(3, "delete", i, "ingress")
        \/ c = Command(4, "delete_veths", None, "none")
        \/ c = Command(5, "unpin", None, "none")
        \/ c = Command(6, "clear", None, "none")
    BY DEF Cleanup, Pinning, Ingress, VethStage
  <2>. QED BY <1>2, <2>1
<1>5. ASSUME NEW h \in Covered PROVE Pending(h, "delete", "delete_veths")
  <2>1. ASSUME NEW c \in todo, c.op = "delete", At(c) = h
        PROVE  Pending(h, "delete", "delete_veths")
    BY <2>1 DEF Pending
  <2>2. CASE h = <<profile.external, "ingress">>
    <3>. DEFINE c == Command(1, "delete", profile.external, "ingress")
    <3>1. c \in todo
      BY <1>3
    <3>2. c.op = "delete" /\ At(c) = h
      BY <1>2, <2>2
    <3>. HIDE DEF c
    <3>. QED BY <2>1, <3>1, <3>2
  <2>3. CASE h = <<profile.external, "egress">>
    <3>. DEFINE c == Command(2, "delete", profile.external, "egress")
    <3>1. c \in todo
      BY <1>3
    <3>2. c.op = "delete" /\ At(c) = h
      BY <1>2, <2>3
    <3>. HIDE DEF c
    <3>. QED BY <2>1, <3>1, <3>2
  <2>4. ASSUME NEW i \in profile.inner, h = <<i, "ingress">>
        PROVE  Pending(h, "delete", "delete_veths")
    <3>. DEFINE c == Command(3, "delete", i, "ingress")
    <3>1. c \in todo
      BY <1>3
    <3>2. c.op = "delete" /\ At(c) = h
      BY <1>2, <2>4
    <3>. HIDE DEF c
    <3>. QED BY <2>1, <3>1, <3>2
  <2>5. ASSUME opts.veths, NEW i \in Veth, h = <<i, "ingress">>
        PROVE  Pending(h, "delete", "delete_veths")
    <3>1. Command(4, "delete_veths", None, "none").op = "delete_veths"
      BY <1>2
    <3>2. h[1] = i /\ h[2] = "ingress"
      BY <2>5
    <3>. QED BY <1>3, <2>5, <3>1, <3>2 DEF Pending
  <2>. QED BY <1>1, <2>2, <2>3, <2>4, <2>5
<1>6. (\E c \in todo : c.op = "unpin") /\ (\E c \in todo : c.op = "clear")
  BY <1>2, <1>3
<1>. QED BY <1>4, <1>5, <1>6

\* A command of Attach puts its filter on a hook of the profile; one of Cleanup
\* puts none, and takes one thing away.
LEMMA ExitCommandStep ==
  ASSUME AgentTyped, AgentTyped', ServeInv, CleanupCommands, ExitInv, RunCommand
  PROVE  CleanupCommands' /\ ExitInv'
<1>1. PICK c \in todo :
         \/ AttachFilter(c) \/ DeleteFilter(c) \/ UnpinProgram(c)
         \/ clearMapDir(c) \/ LoadProgram(c) \/ GlobVeths(c)
  BY DEF RunCommand
<1>2. /\ UNCHANGED <<opts, ifaces, pc, profile, abrupt>>
      /\ pc \in {"precleanup", "attach", "exit"} /\ Covered' = Covered
  BY DEF RunCommand, nodeVars, histVars, Covered
<1>3. filter \in [Hook -> 0 .. loads]
  BY DEF AgentTyped, AgentTypeOK
<1>4. \A n, o, i : /\ Command(n, o, i, "ingress").op = o
                   /\ At(Command(n, o, i, "ingress")) = <<i, "ingress">>
  BY DEF Command, At
<1>5. CASE pc = "attach"
  <2>1. c.op = "attach" => At(c) \in Covered
    BY <1>4, <1>5 DEF ServeInv, AttachInv, AttachCommands, Command
  <2>2. ASSUME NEW h \in Hook, filter'[h] # 0
        PROVE  filter[h] # 0 \/ h \in Covered
    <3>1. CASE AttachFilter(c)
      BY <1>3, <2>1, <2>2, <3>1 DEF AttachFilter, Do
    <3>2. CASE DeleteFilter(c)
      BY <1>3, <2>2, <3>2 DEF DeleteFilter
    <3>3. CASE UnpinProgram(c) \/ clearMapDir(c) \/ LoadProgram(c) \/ GlobVeths(c)
      BY <2>2, <3>3 DEF UnpinProgram, clearMapDir, LoadProgram, GlobVeths, tcctlVars
    <3>. QED BY <1>1, <3>1, <3>2, <3>3
  <2>. QED BY <1>2, <1>5, <2>2 DEF CleanupCommands, ExitInv
<1>6. CASE pc # "attach"
  <2>1. c.op \in {"delete", "delete_veths", "unpin", "clear"}
    BY <1>2, <1>6 DEF CleanupCommands
  <2>2. DeleteFilter(c) \/ UnpinProgram(c) \/ clearMapDir(c) \/ GlobVeths(c)
    BY <1>1, <2>1 DEF AttachFilter, LoadProgram, Do
  <2>3. \/ todo' = todo \ {c} /\ c.op # "delete_veths"
        \/ /\ todo' = (todo \ {c}) \cup Ingress(c.stage, "delete", ifaces \cap Veth)
           /\ c.op = "delete_veths" /\ UNCHANGED tcctlVars
    BY <2>1, <2>2 DEF DeleteFilter, UnpinProgram, clearMapDir, GlobVeths, Do
  <2>4. \A d \in todo' : d \in todo \/ d.op = "delete"
    BY <1>4, <2>3 DEF Ingress
  <2>5. CleanupCommands'
    BY <1>2, <2>4 DEF CleanupCommands
  <2>6. ASSUME NEW h \in Hook, filter'[h] # 0
        PROVE  filter[h] # 0 /\ (c.op = "delete" => At(c) # h)
    <3>1. CASE DeleteFilter(c)
      BY <1>3, <2>6, <3>1 DEF DeleteFilter
    <3>2. CASE UnpinProgram(c) \/ clearMapDir(c) \/ GlobVeths(c)
      BY <2>6, <3>2 DEF UnpinProgram, clearMapDir, GlobVeths, Do, tcctlVars
    <3>. QED BY <2>2, <3>1, <3>2
  <2>7. ASSUME NEW h \in Hook, filter'[h] # 0, Pending(h, "delete", "delete_veths")
        PROVE  Pending(h, "delete", "delete_veths")'
    <3>1. PICK d \in todo :
             \/ d.op = "delete" /\ At(d) = h
             \/ d.op = "delete_veths" /\ h[2] = "ingress" /\ h[1] \in Veth
      BY <2>7 DEF Pending
    <3>2. CASE d # c
      <4>1. d \in todo'
        BY <2>3, <3>2
      <4>. QED BY <3>1, <4>1 DEF Pending, At
    <3>3. CASE d = c
      <4>1. c.op = "delete_veths" /\ h[2] = "ingress" /\ h[1] \in Veth
        BY <2>6, <2>7, <3>1, <3>3
      <4>2. h[1] \in ifaces \cap Veth /\ h = <<h[1], "ingress">>
        BY <2>6, <2>7, <4>1 DEF AgentTyped, FilterOnIface, Hook
      <4>. DEFINE e == Command(c.stage, "delete", h[1], "ingress")
      <4>3. e \in todo'
        BY <2>3, <4>1, <4>2 DEF Ingress
      <4>4. e.op = "delete" /\ At(e) = <<h[1], "ingress">>
        BY <1>4
      <4>. HIDE DEF e
      <4>. QED BY <4>2, <4>3, <4>4 DEF Pending, At
    <3>. QED BY <3>2, <3>3
  <2>8. ASSUME prog' # 0 PROVE prog # 0 /\ c.op # "unpin"
    BY <2>1, <2>2, <2>8 DEF DeleteFilter, UnpinProgram, clearMapDir, GlobVeths, Do, tcctlVars
  <2>9. ASSUME maps' # 0 PROVE maps # 0 /\ c.op # "clear"
    BY <2>1, <2>2, <2>9 DEF DeleteFilter, UnpinProgram, clearMapDir, GlobVeths, Do, tcctlVars
  <2>10. \A d \in todo : d = c \/ d \in todo'
    BY <2>3
  <2>11. CASE pc = "exit"
    <3>. SUFFICES ASSUME opts.cleanupOnExit, ~abrupt
                  PROVE  /\ \A h \in Hook : filter'[h] # 0 => Pending(h, "delete", "delete_veths")'
                         /\ prog' # 0 => \E d \in todo' : d.op = "unpin"
                         /\ maps' # 0 => \E d \in todo' : d.op = "clear"
      BY <1>2, <2>5, <2>11 DEF ExitInv
    <3>1. /\ \A h \in Hook : filter[h] # 0 => Pending(h, "delete", "delete_veths")
          /\ prog # 0 => \E d \in todo : d.op = "unpin"
          /\ maps # 0 => \E d \in todo : d.op = "clear"
      BY <2>11 DEF ExitInv
    <3>2. \A h \in Hook : filter'[h] # 0 => Pending(h, "delete", "delete_veths")'
      BY <2>6, <2>7, <3>1
    <3>3. prog' # 0 => \E d \in todo' : d.op = "unpin"
      BY <2>8, <2>10, <3>1
    <3>4. maps' # 0 => \E d \in todo' : d.op = "clear"
      BY <2>9, <2>10, <3>1
    <3>. QED BY <3>2, <3>3, <3>4
  <2>12. CASE pc = "precleanup"
    BY <1>2, <2>5, <2>6, <2>12 DEF ExitInv
  <2>. QED BY <1>2, <1>6, <2>11, <2>12
<1>. QED BY <1>5, <1>6

CleanupCovers ==
    todo = Cleanup(profile) =>
        /\ \A h \in Covered : Pending(h, "delete", "delete_veths")
        /\ \E c \in todo : c.op = "unpin"
        /\ \E c \in todo : c.op = "clear"
        /\ \A c \in todo : c.op \in {"delete", "delete_veths", "unpin", "clear"}

LEMMA ExitStep ==
  ASSUME AgentTyped, AgentTyped', ServeInv, CleanupCommands, ExitInv,
         [AgentNext]_agentVars, CleanupCovers'
  PROVE  CleanupCommands' /\ ExitInv'
<1>1. ASSUME UNCHANGED <<opts, filter, prog, maps, pc, todo, profile, abrupt>>
      PROVE  CleanupCommands' /\ ExitInv'
  BY <1>1 DEF CleanupCommands, ExitInv, Covered, Pending, At
<1>2. ASSUME pc' = "down", abrupt' PROVE CleanupCommands' /\ ExitInv'
  BY <1>2 DEF CleanupCommands, ExitInv
<1>3. CASE Start
  <2>1. /\ UNCHANGED <<opts, filter, prog, maps, abrupt>> /\ profile' = Detect
        /\ pc = "down" /\ pc' \in {"precleanup", "attach"}
        /\ pc' = "precleanup" => todo' = Cleanup(Detect)
    BY <1>3 DEF Start, tcctlVars
  <2>2. pc' = "precleanup" => todo' = Cleanup(profile)'
    BY <2>1 DEF Cleanup, VethStage
  <2>3. CleanupCommands'
    BY <2>1, <2>2 DEF CleanupCommands, CleanupCovers
  <2>4. ASSUME opts.cleanupOnExit, ~abrupt PROVE \A h \in Hook : filter'[h] = 0
    BY <2>1, <2>4 DEF ExitInv
  <2>. QED BY <2>1, <2>3, <2>4 DEF ExitInv
<1>4. CASE BeginAttach
  <2>1. /\ UNCHANGED <<opts, filter, prog, maps, abrupt, profile>>
        /\ pc = "precleanup" /\ pc' = "attach"
    BY <1>4 DEF BeginAttach, tcctlVars, histVars
  <2>. QED BY <2>1 DEF CleanupCommands, ExitInv, Covered
<1>5. CASE StartSyncer
  <2>1. /\ UNCHANGED <<opts, filter, prog, maps, abrupt, profile>>
        /\ pc = "attach" /\ pc' = "run"
    BY <1>5 DEF StartSyncer, tcctlVars, histVars
  <2>. QED BY <2>1 DEF CleanupCommands, ExitInv, Covered
<1>6. CASE Stop \/ SyncerEnds
  <2>1. /\ UNCHANGED <<opts, filter, prog, maps, abrupt, profile>>
        /\ pc \in {"attach", "run"} /\ pc' = "exit"
        /\ todo' = IF opts.cleanupOnExit THEN Cleanup(profile) ELSE {}
    BY <1>6 DEF Stop, SyncerEnds, Return, tcctlVars, histVars
  <2>2. opts.cleanupOnExit => todo' = Cleanup(profile)'
    BY <2>1 DEF Cleanup, VethStage
  <2>3. CleanupCommands'
    BY <2>1, <2>2 DEF CleanupCommands, CleanupCovers
  <2>4. ASSUME opts.cleanupOnExit, ~abrupt
        PROVE  \A h \in Hook : filter'[h] # 0 => Pending(h, "delete", "delete_veths")'
    <3>1. \A h \in Hook : filter'[h] # 0 => h \in Covered'
      BY <2>1, <2>4 DEF ExitInv, Covered
    <3>. QED BY <2>2, <2>4, <3>1 DEF CleanupCovers
  <2>. QED BY <2>1, <2>2, <2>3, <2>4 DEF ExitInv, CleanupCovers
<1>7. CASE Exit
  <2>1. /\ UNCHANGED <<opts, filter, prog, maps, abrupt>>
        /\ pc = "exit" /\ pc' = "down" /\ todo = {}
    BY <1>7 DEF Exit, Ended, tcctlVars, histVars
  <2>. QED BY <2>1 DEF CleanupCommands, ExitInv, Pending
<1>8. CASE CommandFails \/ SyncerFails \/ Kill
  BY <1>2, <1>8 DEF CommandFails, SyncerFails, Kill, Ended
<1>9. CASE DeleteIgnored
  <2>1. abrupt' = TRUE /\ UNCHANGED pc /\ todo' \subseteq todo
    BY <1>9 DEF DeleteIgnored, Do
  <2>. QED BY <2>1 DEF CleanupCommands, ExitInv
<1>10. CASE Signal \/ RouteChange
  BY <1>1, <1>10 DEF Signal, RouteChange, tcctlVars
<1>11. ASSUME NEW i \in Iface, IfaceUp(i) PROVE CleanupCommands' /\ ExitInv'
  BY <1>1, <1>11 DEF IfaceUp, tcctlVars
<1>12. ASSUME NEW i \in Iface, IfaceDown(i) PROVE CleanupCommands' /\ ExitInv'
  <2>1. /\ UNCHANGED <<opts, prog, maps, pc, todo, profile, abrupt>>
        /\ filter' = [h \in Hook |-> IF h[1] = i THEN 0 ELSE filter[h]]
    BY <1>12 DEF IfaceDown
  <2>2. \A h \in Hook : filter[h] = 0 => filter'[h] = 0
    BY <2>1
  <2>3. Covered' = Covered /\ \A h : Pending(h, "delete", "delete_veths")'
                                    = Pending(h, "delete", "delete_veths")
    BY <2>1 DEF Covered, Pending, At
  <2>. QED BY <2>1, <2>2, <2>3 DEF CleanupCommands, ExitInv
<1>13. CASE UNCHANGED agentVars
  BY <1>1, <1>13 DEF agentVars, tcctlVars, histVars
<1>. QED
  BY <1>3, <1>4, <1>5, <1>6, <1>7, <1>8, <1>9, <1>10, <1>11, <1>12, <1>13,
     ExitCommandStep
  DEF AgentNext, main

\* GracefulExitClean: agents that were stopped by a signal, or ended with their
\* syncer, leave nothing behind, whatever the interfaces and routes did.
THEOREM GracefulExitCleanHolds == AgentSpec => []GracefulExitClean
<1>1. AgentInit => ServeInv /\ CleanupCommands /\ ExitInv
  <2>1. AgentInit => \A h \in Hook : filter[h] = 0
    BY DEF AgentInit
  <2>. QED
    BY <2>1 DEF AgentInit, ServeInv, AttachInv, RunInv, CleanupCommands, ExitInv
<1>2. ExitInv => GracefulExitClean
  BY DEF ExitInv, GracefulExitClean
<1>3. CleanupCovers
  BY CleanupComplete DEF CleanupCovers
<1>. QED
  BY <1>1, <1>2, <1>3, InitTyped, TypedStep, ServeStep, AttachComplete, ExitStep, PTL
  DEF AgentSpec

=============================================================================
