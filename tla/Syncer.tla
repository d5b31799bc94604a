------------------------------- MODULE Syncer -------------------------------
(***************************************************************************)
(* The control plane: one nodeport-syncer process in watch or poll mode.   *)
(* The informer caches change and notify; runWatch collects notifications, *)
(* waits out the debounce and reconciles; reconcile writes the difference  *)
(* between what it applied last and what the caches ask for into the       *)
(* pinned maps, one map operation per step.  Any step may fail or the      *)
(* process may be killed; the agent then starts it again on new maps.      *)
(***************************************************************************)
EXTENDS PinnedMaps

CONSTANTS
    ServiceID,      \* (namespace, name, nodePort), numbered in sorted order
    NodePort,       \* nodePort numbers
    PortOf,         \* the nodePort of a service id
    NodeIP,         \* InternalIPs of the node
    HostConfig,     \* delivery configs that the interfaces of the host give
    InitialCluster, \* what the syncer may find when it starts first
    Modes,          \* the sync modes considered: "watch", "poll"
    TriggerCap,     \* capacity of triggerCh
    MaxChanges,     \* bound: changes of the cluster and the host
    MaxCrashes      \* bound: times that the process dies

ASSUME ServiceIDAssumption ==
    /\ ServiceID \subseteq Nat
    /\ PortOf \in [ServiceID -> NodePort]
    /\ Frontend = NodeIP \X NodePort
    /\ HostConfig \subseteq ConfigVal
    /\ Modes \subseteq {"watch", "poll"}
    /\ TriggerCap \in Nat \ {0}
    /\ Absent \notin Seq(Backend)
    /\ InitialCluster \subseteq [cache  : [ServiceID -> Seq(Backend) \cup {Absent}],
                                nodeIP : NodeIP,
                                host   : [config : HostConfig, snat : SnatIP]]
    /\ \A c \in InitialCluster, id \in ServiceID :
          c.cache[id] # Absent =>
             /\ Len(c.cache[id]) \in 1 .. MaxSlots
             /\ \A other \in ServiceID \ {id} :
                   c.cache[other] # Absent => PortOf[other] # PortOf[id]

VARIABLES
    \* The environment.
    cache,          \* the backends of each service id in the informer caches
    nodeIP,         \* the InternalIP of this node in the node cache
    host,           \* interface indexes and SNAT address, read from the host
    notifs,         \* notifications on their way to the event handlers
    changes,        \* number of changes so far
    crashes,        \* number of crashes so far
    \* The process.
    mode,
    triggers,       \* length of triggerCh
    applied,        \* c.appliedEntries
    appliedConfig,  \* c.appliedConfig
    desired,        \* desiredEntries in reconcile
    phase,          \* where the process is
    todo,           \* ids that the current loop of reconcile has left
    stage,          \* "delete" or "upsert": what is done for the first of them
    at              \* map operations already done in that stage

envVars  == <<cache, nodeIP, host, notifs, changes, crashes>>
procVars == <<mode, triggers, applied, appliedConfig, desired, phase, todo,
              stage, at>>
syncVars == <<mapVars, envVars, procVars>>

Phase == {"down", "wait", "debounce", "config", "plan", "remove", "upsert"}

Entry == [ip : NodeIP, port : NodePort, snat : SnatIP, backends : Seq(Backend)]

ASSUME EntryAssumption == Absent \notin Entry

NoEntries == [id \in ServiceID |-> Absent]

\* marshalFrontendKey
frontendKey(entry) == <<entry.ip, entry.port>>

\* marshalServiceValue
serviceValue(entry) == [count |-> Len(entry.backends), snat |-> entry.snat]

\* desiredEntries: an entry for every service that has backends.
desiredEntries ==
    [id \in ServiceID |->
        IF cache[id] = Absent THEN Absent
        ELSE [ip |-> nodeIP, port |-> PortOf[id], snat |-> host.snat,
              backends |-> cache[id]]]

\* Mutant: services that are gone stay in the maps.
RemovedForgotten(old, new) == {}

sortedRemovedIDs(old, new) ==
    {id \in ServiceID : old[id] # Absent /\ new[id] = Absent}

\* Mutant: every entry is written again.
AllDesiredIDs(old, new) == {id \in ServiceID : new[id] # Absent}

\* Mutant: an entry whose backends change is not noticed.
NewIDsOnly(old, new) ==
    {id \in ServiceID : new[id] # Absent /\ old[id] = Absent}

sortedChangedIDs(old, new) ==
    {id \in ServiceID : new[id] # Absent /\ new[id] # old[id]}

\* The loops go through the ids in sorted order.
IsFirst(id, ids) == id \in ids /\ \A other \in ids : id <= other

---------------------------------------------------------------------------
(* The environment: the cluster and the host.                              *)

\* A service, its endpoint slices or the services' ports change: the caches
\* first, the handlers are called later.  The apiserver gives a nodePort to
\* one service at a time.
ServiceChange(id, backends) ==
    /\ changes < MaxChanges
    /\ backends # cache[id]
    /\ backends # Absent =>
          /\ Len(backends) \in 1 .. MaxSlots
          /\ \A other \in ServiceID \ {id} :
                cache[other] # Absent => PortOf[other] # PortOf[id]
    /\ cache' = [cache EXCEPT ![id] = backends]
    /\ notifs' = notifs + 1
    /\ changes' = changes + 1
    /\ UNCHANGED <<mapVars, procVars, nodeIP, host, crashes>>

NodeChange(ip) ==
    /\ changes < MaxChanges
    /\ ip # nodeIP
    /\ nodeIP' = ip
    /\ notifs' = notifs + 1
    /\ changes' = changes + 1
    /\ UNCHANGED <<mapVars, procVars, cache, host, crashes>>

\* An interface is created again or its address changes: nobody is told.
HostChange(cfg, ip) ==
    /\ changes < MaxChanges
    /\ host' = [config |-> cfg, snat |-> ip]
    /\ host' # host
    /\ changes' = changes + 1
    /\ UNCHANGED <<mapVars, procVars, cache, nodeIP, notifs, crashes>>

---------------------------------------------------------------------------
(* Event handlers and the watch loop.                                      *)

\* Mutant: a trigger is never dropped.
EnqueueUnbounded ==
    /\ phase # "down"
    /\ notifs > 0
    /\ notifs' = notifs - 1
    /\ triggers' = triggers + 1
    /\ UNCHANGED <<mapVars, cache, nodeIP, host, changes, crashes, mode,
                   applied, appliedConfig, desired, phase, todo, stage, at>>

\* A handler runs and calls enqueue, which drops the trigger when the
\* channel is full.
enqueue ==
    /\ phase # "down"
    /\ notifs > 0
    /\ notifs' = notifs - 1
    /\ triggers' = IF triggers < TriggerCap THEN triggers + 1 ELSE triggers
    /\ UNCHANGED <<mapVars, cache, nodeIP, host, changes, crashes, mode,
                   applied, appliedConfig, desired, phase, todo, stage, at>>

runWatch ==
    /\ mode = "watch"
    /\ phase = "wait"
    /\ triggers > 0
    /\ triggers' = triggers - 1
    /\ phase' = "debounce"
    /\ UNCHANGED <<mapVars, envVars, mode, applied, appliedConfig, desired,
                   todo, stage, at>>

Drain ==
    /\ phase = "debounce"
    /\ triggers > 0
    /\ triggers' = triggers - 1
    /\ UNCHANGED <<mapVars, envVars, mode, applied, appliedConfig, desired,
                   phase, todo, stage, at>>

DebounceOver ==
    /\ phase = "debounce"
    /\ phase' = "config"
    /\ UNCHANGED <<mapVars, envVars, mode, triggers, applied, appliedConfig,
                   desired, todo, stage, at>>

runPoll ==
    /\ mode = "poll"
    /\ phase = "wait"
    /\ phase' = "config"
    /\ UNCHANGED <<mapVars, envVars, mode, triggers, applied, appliedConfig,
                   desired, todo, stage, at>>

---------------------------------------------------------------------------
(* reconcile                                                               *)

\* currentDeliveryConfig and UpdateConfig.
UpdateConfig ==
    /\ phase = "config"
    /\ config' = IF appliedConfig # host.config THEN host.config ELSE config
    /\ appliedConfig' = host.config
    /\ phase' = "plan"
    /\ UNCHANGED <<svc, slots, rr, connVars, now, envVars, mode, triggers,
                   applied, desired, todo, stage, at>>

PlanEntries ==
    /\ phase = "plan"
    /\ desired' = desiredEntries
    /\ phase' = "remove"
    /\ todo' = sortedRemovedIDs(applied, desiredEntries)
    /\ stage' = "delete"
    /\ at' = 0
    /\ UNCHANGED <<mapVars, envVars, mode, triggers, applied, appliedConfig>>

\* Mutant: the new entry is written over the old one.
UpsertInPlace(ids) == "upsert"

\* An entry that was applied is deleted before the new one is written.
FirstStage(ids) ==
    IF \E id \in ids : IsFirst(id, ids) /\ applied[id] # Absent
    THEN "delete" ELSE "upsert"

RemovalsDone ==
    /\ phase = "remove"
    /\ todo = {}
    /\ phase' = "upsert"
    /\ todo' = sortedChangedIDs(applied, desired)
    /\ stage' = FirstStage(todo')
    /\ at' = 0
    /\ UNCHANGED <<mapVars, envVars, mode, triggers, applied, appliedConfig,
                   desired>>

\* DeleteEntry: the slots one by one, then the service, then the cursor.
DeleteSlot(id) ==
    /\ phase \in {"remove", "upsert"} /\ stage = "delete" /\ IsFirst(id, todo)
    /\ at < Len(applied[id].backends)
    /\ slots' = [slots EXCEPT ![<<frontendKey(applied[id]), at>>] = Absent]
    /\ at' = at + 1
    /\ UNCHANGED <<svc, rr, config, connVars, now, envVars, mode, triggers,
                   applied, appliedConfig, desired, phase, todo, stage>>

DeleteService(id) ==
    /\ phase \in {"remove", "upsert"} /\ stage = "delete" /\ IsFirst(id, todo)
    /\ at = Len(applied[id].backends)
    /\ svc' = [svc EXCEPT ![frontendKey(applied[id])] = Absent]
    /\ at' = at + 1
    /\ UNCHANGED <<slots, rr, config, connVars, now, envVars, mode, triggers,
                   applied, appliedConfig, desired, phase, todo, stage>>

DeleteCursor(id) ==
    /\ phase \in {"remove", "upsert"} /\ stage = "delete" /\ IsFirst(id, todo)
    /\ at = Len(applied[id].backends) + 1
    /\ rr' = [rr EXCEPT ![frontendKey(applied[id])] = Absent]
    /\ at' = 0
    /\ \/ /\ phase = "remove"
          /\ todo' = todo \ {id}
          /\ stage' = stage
       \/ /\ phase = "upsert"
          /\ todo' = todo
          /\ stage' = "upsert"
    /\ UNCHANGED <<svc, slots, config, connVars, now, envVars, mode, triggers,
                   applied, appliedConfig, desired, phase>>

\* UpsertEntry: the service with its count, then the slots one by one.
UpsertService(id) ==
    /\ phase = "upsert" /\ stage = "upsert" /\ IsFirst(id, todo)
    /\ at = 0
    /\ svc' = [svc EXCEPT ![frontendKey(desired[id])] =
                  serviceValue(desired[id])]
    /\ at' = 1
    /\ UNCHANGED <<slots, rr, config, connVars, now, envVars, mode, triggers,
                   applied, appliedConfig, desired, phase, todo, stage>>

UpsertSlot(id) ==
    /\ phase = "upsert" /\ stage = "upsert" /\ IsFirst(id, todo)
    /\ at \in 1 .. Len(desired[id].backends)
    /\ slots' = [slots EXCEPT ![<<frontendKey(desired[id]), at - 1>>] =
                    desired[id].backends[at]]
    /\ IF at < Len(desired[id].backends)
       THEN /\ at' = at + 1
            /\ UNCHANGED <<todo, stage>>
       ELSE /\ at' = 0
            /\ todo' = todo \ {id}
            /\ stage' = FirstStage(todo')
    /\ UNCHANGED <<svc, rr, config, connVars, now, envVars, mode, triggers,
                   applied, appliedConfig, desired, phase>>

\* Mutant: triggers that came in during the reconcile are thrown away.
CommitAndDrain ==
    /\ phase = "upsert"
    /\ todo = {}
    /\ applied' = desired
    /\ phase' = "wait"
    /\ triggers' = 0
    /\ UNCHANGED <<mapVars, envVars, mode, appliedConfig, desired, todo,
                   stage, at>>

\* Only a reconcile that got to its end is remembered as applied.
Commit ==
    /\ phase = "upsert"
    /\ todo = {}
    /\ applied' = desired
    /\ phase' = "wait"
    /\ UNCHANGED <<mapVars, envVars, mode, triggers, appliedConfig, desired,
                   todo, stage, at>>

DeleteEntry(id) == DeleteSlot(id) \/ DeleteService(id) \/ DeleteCursor(id)

UpsertEntry(id) == UpsertService(id) \/ UpsertSlot(id)

reconcile ==
    \/ UpdateConfig \/ PlanEntries \/ RemovalsDone \/ Commit
    \/ \E id \in ServiceID : DeleteEntry(id) \/ UpsertEntry(id)

---------------------------------------------------------------------------
(* Failure.                                                                *)

\* An operation fails (log.Fatalf) or the process is killed.
Crash ==
    /\ crashes < MaxCrashes
    /\ phase # "down"
    /\ phase' = "down"
    /\ crashes' = crashes + 1
    /\ notifs' = 0
    /\ triggers' = 0
    /\ applied' = NoEntries
    /\ appliedConfig' = Absent
    /\ desired' = NoEntries
    /\ todo' = {}
    /\ stage' = "delete"
    /\ at' = 0
    /\ UNCHANGED <<mapVars, cache, nodeIP, host, changes, mode>>

\* The agent loads the program again, with new maps, and starts the syncer,
\* whose caches are listed anew before the initial reconcile; the handlers
\* may still be called for the objects of that list.
Start ==
    /\ phase = "down"
    /\ phase' = "config"
    /\ notifs' \in {0, 1}
    /\ svc' = [f \in Frontend |-> Absent]
    /\ slots' = [x \in Frontend \X Slot |-> Absent]
    /\ rr' = [f \in Frontend |-> Absent]
    /\ config' = NoConfig
    /\ ct' = [k \in CtKey |-> Absent]
    /\ fwd' = [fl \in Flow |-> Absent]
    /\ snatNext' = 0
    /\ UNCHANGED <<now, cache, nodeIP, host, changes, crashes, mode, triggers,
                   applied, appliedConfig, desired, todo, stage, at>>

---------------------------------------------------------------------------
MapsInit ==
    /\ svc = [f \in Frontend |-> Absent]
    /\ slots = [x \in Frontend \X Slot |-> Absent]
    /\ rr = [f \in Frontend |-> Absent]
    /\ config = NoConfig
    /\ ct = [k \in CtKey |-> Absent]
    /\ fwd = [fl \in Flow |-> Absent]
    /\ snatNext = 0
    /\ now = 0

SyncInit ==
    /\ MapsInit
    /\ \E c \in InitialCluster : cache = c.cache /\ nodeIP = c.nodeIP /\ host = c.host
    /\ notifs \in {0, 1}
    /\ changes = 0
    /\ crashes = 0
    /\ mode \in Modes
    /\ triggers = 0
    /\ applied = NoEntries
    /\ appliedConfig = Absent
    /\ desired = NoEntries
    /\ phase = "config"
    /\ todo = {}
    /\ stage = "delete"
    /\ at = 0

Cluster ==
    \/ \E id \in ServiceID, b \in Backend : ServiceChange(id, <<b>>)
    \/ \E id \in ServiceID, b1, b2 \in Backend :
          b1 # b2 /\ ServiceChange(id, <<b1, b2>>)
    \/ \E id \in ServiceID : ServiceChange(id, Absent)
    \/ \E ip \in NodeIP : NodeChange(ip)
    \/ \E cfg \in HostConfig, ip \in SnatIP : HostChange(cfg, ip)

Process ==
    \/ enqueue \/ runWatch \/ Drain \/ DebounceOver \/ runPoll \/ reconcile

SyncNext == Cluster \/ Process \/ Crash \/ Start

SyncSpec == SyncInit /\ [][SyncNext]_syncVars

\* The goroutines of the process run, its timers fire, and the kubelet starts
\* the agent's container again.
SyncFairness ==
    /\ WF_syncVars(enqueue)
    /\ WF_syncVars(runWatch)
    /\ WF_syncVars(DebounceOver)
    /\ WF_syncVars(runPoll)
    /\ WF_syncVars(reconcile)
    /\ WF_syncVars(Start)

FairSyncSpec == SyncSpec /\ SyncFairness

---------------------------------------------------------------------------
(* Properties.                                                             *)

SyncTypeOK ==
    /\ MapsTypeOK
    /\ cache \in [ServiceID -> Seq(Backend) \cup {Absent}]
    /\ nodeIP \in NodeIP
    /\ host \in [config : HostConfig, snat : SnatIP]
    /\ notifs \in Nat /\ changes \in Nat /\ crashes \in Nat
    /\ mode \in Modes
    /\ triggers \in 0 .. TriggerCap
    /\ applied \in [ServiceID -> Entry \cup {Absent}]
    /\ appliedConfig \in ConfigVal \cup {Absent}
    /\ desired \in [ServiceID -> Entry \cup {Absent}]
    /\ phase \in Phase
    /\ todo \subseteq ServiceID
    /\ stage \in {"delete", "upsert"}
    /\ at \in Nat

\* The entries of a table that are for frontend f.
EntriesFor(table, f) ==
    {table[id] : id \in {x \in ServiceID :
                            table[x] # Absent /\ frontendKey(table[x]) = f}}

\* The backend of an entry in slot s.
SlotOf(entry, s) ==
    IF s < Len(entry.backends) THEN entry.backends[s + 1] ELSE Absent

\* The maps have nothing of frontend f.
Vacant(f) == svc[f] = Absent /\ \A s \in Slot : slots[<<f, s>>] = Absent

\* The maps serve frontend f with exactly this entry.
Serves(f, entry) ==
    /\ svc[f] = serviceValue(entry)
    /\ \A s \in Slot : slots[<<f, s>>] = SlotOf(entry, s)

\* The maps have part of this entry, and of no other, for frontend f.
PartOf(f, entry) ==
    /\ svc[f] \in {Absent, serviceValue(entry)}
    /\ \A s \in Slot : slots[<<f, s>>] \in {Absent, SlotOf(entry, s)}

\* Between two reconciles the maps are exactly what the syncer remembers to
\* have applied: every entry complete, and no service, slot or count left
\* over from an earlier generation, whatever was added, removed, moved to
\* another node address or handed from one service to another meanwhile.
TableMatchesApplied ==
    phase \in {"wait", "debounce", "config", "plan"} =>
        \A f \in Frontend :
            IF EntriesFor(applied, f) = {} THEN Vacant(f)
            ELSE \A e \in EntriesFor(applied, f) : Serves(f, e)

\* The map operations of a reconcile are seen one by one by the data plane.
\* At each of them a frontend shows a single generation: the service value
\* and all slots that are there belong to one entry, the one being replaced
\* or the one being written, and are never mixed.
OneGeneration ==
    phase # "down" =>
        \A f \in Frontend :
            \/ Vacant(f)
            \/ \E e \in EntriesFor(applied, f) \cup EntriesFor(desired, f) :
                  PartOf(f, e)

\* A reconcile leaves the frontend of an entry that did not change alone, at
\* each of its steps.
UnchangedUndisturbed ==
    [][\A id \in ServiceID :
          (phase \in {"remove", "upsert"} /\ applied[id] # Absent
              /\ applied[id] = desired[id] /\ phase' # "down")
          => LET f == frontendKey(applied[id])
             IN  /\ svc'[f] = svc[f]
                 /\ \A s \in Slot : slots'[<<f, s>>] = slots[<<f, s>>]]_syncVars

\* What the caches ask for, leaving out the SNAT address, which no
\* notification announces.
UpToDate(id, entry) ==
    IF entry = Absent THEN cache[id] = Absent
    ELSE entry.ip = nodeIP /\ entry.backends = cache[id]

\* No wake-up is lost: when the watch loop waits with an empty channel and no
\* handler is due, what it applied is what the caches hold, even though
\* triggers are dropped while the channel is full, drained by the debounce,
\* or arrive in the middle of a reconcile.
NoLostWakeup ==
    (mode = "watch" /\ phase = "wait" /\ notifs = 0 /\ triggers = 0)
        => \A id \in ServiceID : UpToDate(id, applied[id])

\* The frontend of a service that has backends is served with them, and the
\* frontends of no service are vacant.
TableCurrent ==
    \A f \in Frontend :
        LET ids == {id \in ServiceID :
                       cache[id] # Absent /\ f = <<nodeIP, PortOf[id]>>}
        IN  IF ids = {} THEN Vacant(f)
            ELSE \A id \in ids :
                    \E ip \in SnatIP :
                       Serves(f, [ip |-> nodeIP, port |-> PortOf[id],
                                  snat |-> ip, backends |-> cache[id]])

\* "Event-driven convergence" of added and removed services and of changed
\* backends: once the cluster stops changing, the maps become and stay what
\* the cluster asks for, also when the process dies in the middle of a
\* reconcile and is started again.
Converges == <>[]TableCurrent

=============================================================================
