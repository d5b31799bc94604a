---------------------------- MODULE SyncerProofs ----------------------------
(***************************************************************************)
(* What the control plane guarantees for any number of services, nodePorts *)
(* and node addresses, any capacity of the trigger channel, and any number *)
(* of changes and crashes.                                                 *)
(***************************************************************************)
EXTENDS Syncer, TLAPS

---------------------------------------------------------------------------
(* The inductive invariant.                                                *)

\* An entry that the syncer may hold for a service id.
EntryOf(id, e) ==
    /\ e \in Entry
    /\ e.port = PortOf[id]
    /\ Len(e.backends) \in 1 .. MaxSlots

\* No two services of a table have the same nodePort.
PortsDistinct(table) ==
    \A i, j \in ServiceID :
        (i # j /\ table[i] # Absent /\ table[j] # Absent)
            => PortOf[i] # PortOf[j]

\* Entries and cache lists are well formed, and a process that is down has
\* forgotten what it applied.
Tables ==
    /\ \A id \in ServiceID :
          /\ cache[id] # Absent => Len(cache[id]) \in 1 .. MaxSlots
          /\ applied[id] # Absent => EntryOf(id, applied[id])
          /\ desired[id] # Absent => EntryOf(id, desired[id])
    /\ PortsDistinct(cache) /\ PortsDistinct(applied) /\ PortsDistinct(desired)
    /\ phase = "down" => applied = NoEntries

\* What is left to do is part of what was planned, and the current operation
\* is one of the entry that it is for.
Plan ==
    /\ phase = "remove" =>
          /\ todo \subseteq sortedRemovedIDs(applied, desired)
          /\ stage = "delete"
    /\ phase = "upsert" =>
          /\ todo \subseteq sortedChangedIDs(applied, desired)
          /\ stage = "delete" =>
                \E id \in todo : IsFirst(id, todo) /\ applied[id] # Absent
          /\ stage = "upsert" =>
                \A id \in todo : IsFirst(id, todo)
                                    => at <= Len(desired[id].backends)
    /\ (phase \in {"remove", "upsert"} /\ stage = "delete") =>
          \A id \in todo : IsFirst(id, todo)
                              => at <= Len(applied[id].backends) + 1

\* The operations of DeleteEntry already done for the applied entry of id.
Deleted(id) ==
    IF /\ phase \in {"remove", "upsert"} /\ stage = "delete"
       /\ IsFirst(id, todo)
    THEN at ELSE 0

\* The operations of UpsertEntry already done for the desired entry of id.
Written(id) ==
    IF phase = "upsert" /\ stage = "upsert" /\ IsFirst(id, todo)
    THEN at ELSE Len(desired[id].backends) + 1

\* The applied entry of id is in the maps, at least in part.
Old(id) ==
    /\ applied[id] # Absent
    /\ phase = "remove" => desired[id] # Absent \/ id \in todo
    /\ phase = "upsert" =>
          \/ desired[id] = applied[id]
          \/ id \in todo /\ ~(IsFirst(id, todo) /\ stage = "upsert")

\* The desired entry of id has been written to the maps, or is being written.
New(id) ==
    /\ phase = "upsert"
    /\ desired[id] # Absent /\ desired[id] # applied[id]
    /\ id \notin todo \/ (IsFirst(id, todo) /\ stage = "upsert")

\* The maps after n operations of DeleteEntry for e.
AfterDeletes(e, n) ==
    /\ svc[frontendKey(e)] =
          IF n <= Len(e.backends) THEN serviceValue(e) ELSE Absent
    /\ \A s \in Slot : slots[<<frontendKey(e), s>>] =
                          IF s < n THEN Absent ELSE SlotOf(e, s)

\* The maps after n operations of UpsertEntry for e.
AfterWrites(e, n) ==
    /\ svc[frontendKey(e)] = IF n > 0 THEN serviceValue(e) ELSE Absent
    /\ \A s \in Slot : slots[<<frontendKey(e), s>>] =
                          IF s + 1 < n THEN SlotOf(e, s) ELSE Absent

Owned(f) ==
    \E id \in ServiceID :
        \/ Old(id) /\ frontendKey(applied[id]) = f
        \/ New(id) /\ frontendKey(desired[id]) = f

\* The maps hold what the operations done so far have left there.
MapsFollow ==
    phase # "down" =>
        /\ \A id \in ServiceID :
              /\ Old(id) => AfterDeletes(applied[id], Deleted(id))
              /\ New(id) => AfterWrites(desired[id], Written(id))
        /\ \A f \in Frontend : ~Owned(f) => Vacant(f)

\* The inductive invariant behind the properties of the maps.
SyncInv == SyncTypeOK /\ Tables /\ Plan /\ MapsFollow

\* The inductive invariant behind NoLostWakeup: a change that the running
\* reconcile has not seen is still announced.
Announced ==
    (mode = "watch" /\ notifs = 0 /\ triggers = 0) =>
        \A id \in ServiceID :
            /\ phase = "wait" => UpToDate(id, applied[id])
            /\ phase \in {"remove", "upsert"} => UpToDate(id, desired[id])

---------------------------------------------------------------------------
(* Entries, plans and types.                                               *)

\* The fields of an entry, and what marshalFrontendKey and
\* marshalServiceValue make of it.
LEMMA EntryTyped ==
    ASSUME NEW e \in Entry
    PROVE  /\ e.ip \in NodeIP /\ e.port \in NodePort /\ e.snat \in SnatIP
           /\ e.backends \in Seq(Backend) /\ Len(e.backends) \in Nat
           /\ frontendKey(e) = <<e.ip, e.port>> /\ frontendKey(e) \in Frontend
           /\ serviceValue(e) \in SvcVal /\ serviceValue(e) # Absent
           /\ \A i \in 1 .. Len(e.backends) :
                 e.backends[i] \in Backend /\ e.backends[i] # Absent
<1>1. /\ e.ip \in NodeIP /\ e.port \in NodePort /\ e.snat \in SnatIP
      /\ e.backends \in Seq(Backend)
    BY DEF Entry
<1>2. Len(e.backends) \in Nat
      /\ \A i \in 1 .. Len(e.backends) : e.backends[i] \in Backend
    BY <1>1
<1>3. serviceValue(e) \in SvcVal
    BY <1>1, <1>2 DEF serviceValue, SvcVal
<1>4. frontendKey(e) \in Frontend
    BY <1>1, ServiceIDAssumption DEF frontendKey
<1> QED BY <1>1, <1>2, <1>3, <1>4, AbsentAssumption DEF frontendKey

\* desiredEntries gives every service that has backends, and no other, an
\* entry with its own nodePort, the address of the node and its backends.
LEMMA DesiredEntriesOf ==
    ASSUME cache \in [ServiceID -> Seq(Backend) \cup {Absent}],
           nodeIP \in NodeIP, host.snat \in SnatIP,
           \A id \in ServiceID :
              cache[id] # Absent => Len(cache[id]) \in 1 .. MaxSlots,
           PortsDistinct(cache)
    PROVE  /\ desiredEntries \in [ServiceID -> Entry \cup {Absent}]
           /\ \A id \in ServiceID :
                 /\ desiredEntries[id] # Absent => EntryOf(id, desiredEntries[id])
                 /\ UpToDate(id, desiredEntries[id])
           /\ PortsDistinct(desiredEntries)
<1> DEFINE E(id) == [ip |-> nodeIP, port |-> PortOf[id], snat |-> host.snat,
                     backends |-> cache[id]]
<1>1. ASSUME NEW id \in ServiceID, cache[id] # Absent
      PROVE  /\ E(id) \in Entry /\ E(id) # Absent
             /\ desiredEntries[id] = E(id)
             /\ EntryOf(id, desiredEntries[id])
             /\ UpToDate(id, desiredEntries[id])
    <2>1. cache[id] \in Seq(Backend) /\ PortOf[id] \in NodePort
        BY <1>1, ServiceIDAssumption
    <2>2. E(id) \in Entry
        BY <2>1 DEF Entry
    <2>3. E(id) # Absent
        BY <2>2, EntryAssumption
    <2>4. desiredEntries[id] = E(id)
        BY <1>1 DEF desiredEntries
    <2> QED BY <1>1, <2>2, <2>3, <2>4 DEF EntryOf, UpToDate
<1>2. ASSUME NEW id \in ServiceID, cache[id] = Absent
      PROVE  desiredEntries[id] = Absent /\ UpToDate(id, desiredEntries[id])
    BY <1>2 DEF desiredEntries, UpToDate
<1>3. desiredEntries \in [ServiceID -> Entry \cup {Absent}]
    <2>1. \A id \in ServiceID : desiredEntries[id] \in Entry \cup {Absent}
        BY <1>1, <1>2
    <2> QED BY <2>1 DEF desiredEntries
<1>4. PortsDistinct(desiredEntries)
    BY <1>1, <1>2 DEF PortsDistinct
<1> QED BY <1>1, <1>2, <1>3, <1>4

\* Only one id is the first of a set: the loops of reconcile work on one
\* entry at a time.
LEMMA FirstUnique ==
    ASSUME NEW ids \in SUBSET ServiceID, NEW i, NEW j,
           IsFirst(i, ids), IsFirst(j, ids)
    PROVE  i = j
BY ServiceIDAssumption DEF IsFirst

LEMMA FirstStageOf ==
    ASSUME NEW ids
    PROVE  /\ FirstStage(ids) \in {"delete", "upsert"}
           /\ FirstStage(ids) = "delete" =>
                 \E id \in ids : IsFirst(id, ids) /\ applied[id] # Absent
           /\ FirstStage(ids) = "upsert" =>
                 \A id \in ids : IsFirst(id, ids) => applied[id] = Absent
BY DEF FirstStage, IsFirst

Shape == SyncTypeOK /\ Tables /\ Plan

LEMMA InitShape == SyncInit => Shape
<1> SUFFICES ASSUME SyncInit PROVE Shape
    OBVIOUS
<1> USE DEF SyncInit, MapsInit
<1>1. NoEntries \in [ServiceID -> Entry \cup {Absent}]
    BY DEF NoEntries
<1>2. /\ cache \in [ServiceID -> Seq(Backend) \cup {Absent}]
      /\ PortsDistinct(cache)
      /\ \A id \in ServiceID : cache[id] # Absent => Len(cache[id]) \in 1 .. MaxSlots
      /\ nodeIP \in NodeIP /\ host \in [config : HostConfig, snat : SnatIP]
    <2>1. PICK c \in InitialCluster : cache = c.cache /\ nodeIP = c.nodeIP /\ host = c.host
        OBVIOUS
    <2> QED BY <2>1, ServiceIDAssumption DEF PortsDistinct
<1>3. MapsTypeOK
    BY DEF MapsTypeOK, NoConfig, ConfigVal
<1>4. SyncTypeOK
    BY <1>1, <1>2, <1>3, ServiceIDAssumption DEF SyncTypeOK, Phase
<1>5. Tables
    BY <1>2 DEF Tables, PortsDistinct, NoEntries
<1>6. Plan
    BY DEF Plan
<1> QED BY <1>4, <1>5, <1>6 DEF Shape

\* Every step keeps the types, the tables well formed and the plan a plan.
LEMMA ShapeStep == Shape /\ [SyncNext]_syncVars => Shape'
<1> SUFFICES ASSUME Shape, [SyncNext]_syncVars PROVE Shape'
    OBVIOUS
<1> USE DEF Shape, SyncTypeOK, Tables, mapVars, envVars, procVars
<1>1. ASSUME NEW id \in ServiceID, NEW b \in Seq(Backend) \cup {Absent},
             ServiceChange(id, b)
      PROVE  Shape'
    <2>1. cache' \in [ServiceID -> Seq(Backend) \cup {Absent}]
          /\ cache'[id] = b
          /\ \A i \in ServiceID \ {id} : cache'[i] = cache[i]
        BY <1>1 DEF ServiceChange
    <2>2. PortsDistinct(cache)'
        BY <1>1, <2>1 DEF ServiceChange, PortsDistinct
    <2>3. SyncTypeOK'
        BY <1>1, <2>1 DEF ServiceChange, MapsTypeOK
    <2>4. Tables'
        BY <1>1, <2>1, <2>2 DEF ServiceChange, PortsDistinct, EntryOf
    <2>5. Plan'
        BY <1>1 DEF ServiceChange, Plan, sortedRemovedIDs, sortedChangedIDs,
                    IsFirst
    <2> QED BY <2>3, <2>4, <2>5
<1>2. ASSUME Cluster \/ enqueue \/ runWatch \/ Drain \/ DebounceOver \/ runPoll
             \/ UpdateConfig \/ UNCHANGED syncVars
      PROVE  Shape'
    <2>1. \/ \E id \in ServiceID, b \in Seq(Backend) \cup {Absent} :
                ServiceChange(id, b)
          \/ \E ip \in NodeIP : NodeChange(ip)
          \/ \E cfg \in HostConfig, ip \in SnatIP : HostChange(cfg, ip)
          \/ enqueue \/ runWatch \/ Drain \/ DebounceOver \/ runPoll
          \/ UpdateConfig \/ UNCHANGED syncVars
        <3>1. \A b \in Backend : <<b>> \in Seq(Backend) \cup {Absent}
            OBVIOUS
        <3>2. \A b1, b2 \in Backend : <<b1, b2>> \in Seq(Backend) \cup {Absent}
            OBVIOUS
        <3> QED BY <1>2, <3>1, <3>2, Zenon DEF Cluster
    <2>2. CASE \E id \in ServiceID, b \in Seq(Backend) \cup {Absent} :
                ServiceChange(id, b)
        BY <2>2, <1>1
    <2>3. CASE \/ \E ip \in NodeIP : NodeChange(ip)
               \/ \E cfg \in HostConfig, ip \in SnatIP : HostChange(cfg, ip)
               \/ enqueue \/ runWatch \/ Drain \/ DebounceOver \/ runPoll
               \/ UpdateConfig \/ UNCHANGED syncVars
        <3>0. \/ \E ip \in NodeIP : NodeChange(ip)
              \/ \E cfg \in HostConfig, ip \in SnatIP : HostChange(cfg, ip)
              \/ enqueue
              \/ runWatch \/ Drain \/ DebounceOver \/ runPoll \/ UpdateConfig
              \/ UNCHANGED syncVars
            BY <2>3
        <3> USE DEF NodeChange, HostChange, enqueue, runWatch, Drain,
                DebounceOver, runPoll, UpdateConfig, syncVars
        <3>1. UNCHANGED <<svc, slots, rr, ct, fwd, snatNext, now, cache, mode,
                          applied, desired, todo, stage, at>>
            <4>1. CASE \/ \E ip \in NodeIP : NodeChange(ip)
                       \/ \E cfg \in HostConfig, ip \in SnatIP : HostChange(cfg, ip)
                BY <4>1
            <4>2. CASE enqueue \/ runWatch \/ Drain
                BY <4>2
            <4>3. CASE DebounceOver \/ runPoll
                BY <4>3
            <4>4. CASE UpdateConfig
                BY <4>4 DEF connVars
            <4>5. CASE UNCHANGED syncVars
                BY <4>5
            <4> QED BY <3>0, <4>1, <4>2, <4>3, <4>4, <4>5
        <3>2. \/ phase' = phase
              \/ phase \notin {"down", "remove", "upsert"}
                    /\ phase' \in Phase \ {"down", "remove", "upsert"}
            BY <3>0 DEF Phase
        <3>3. /\ config' \in ConfigVal
              /\ appliedConfig' \in ConfigVal \cup {Absent}
              /\ host' \in [config : HostConfig, snat : SnatIP]
              /\ nodeIP' \in NodeIP
            BY <3>0, ServiceIDAssumption DEF MapsTypeOK
        <3>4. notifs' \in Nat /\ changes' \in Nat /\ crashes' \in Nat
              /\ triggers' \in 0 .. TriggerCap
            BY <3>0, ServiceIDAssumption
        <3>5. MapsTypeOK'
            BY <3>1, <3>3 DEF MapsTypeOK
        <3>6. SyncTypeOK'
            BY <3>1, <3>2, <3>3, <3>4, <3>5
        <3>7. Tables'
            BY <3>1, <3>2 DEF EntryOf, PortsDistinct
        <3>8. Plan'
            BY <3>1, <3>2 DEF Plan, IsFirst, sortedRemovedIDs, sortedChangedIDs
        <3> QED BY <3>6, <3>7, <3>8
    <2> QED BY <2>1, <2>2, <2>3
<1>3. CASE PlanEntries
    <2>1. /\ desiredEntries \in [ServiceID -> Entry \cup {Absent}]
          /\ \A id \in ServiceID :
                desiredEntries[id] # Absent => EntryOf(id, desiredEntries[id])
          /\ PortsDistinct(desiredEntries)
        BY DesiredEntriesOf
    <2>2. SyncTypeOK'
        BY <1>3, <2>1 DEF PlanEntries, MapsTypeOK, Phase, sortedRemovedIDs
    <2>3. Tables'
        BY <1>3, <2>1 DEF PlanEntries, EntryOf, PortsDistinct
    <2>4. Plan'
        BY <1>3 DEF PlanEntries, Plan, sortedRemovedIDs, EntryOf
    <2> QED BY <2>2, <2>3, <2>4
<1>4. CASE RemovalsDone
    <2>1. /\ todo' = sortedChangedIDs(applied, desired)
          /\ stage' = FirstStage(todo') /\ at' = 0 /\ phase' = "upsert"
          /\ UNCHANGED <<mapVars, envVars, mode, triggers, applied,
                         appliedConfig, desired>>
        BY <1>4 DEF RemovalsDone
    <2>2. SyncTypeOK'
        BY <2>1, FirstStageOf DEF MapsTypeOK, Phase, sortedChangedIDs
    <2>3. Tables'
        BY <2>1 DEF EntryOf, PortsDistinct
    <2>4. \A id \in ServiceID :
             /\ desired[id] # Absent => Len(desired[id].backends) \in Nat
             /\ applied[id] # Absent => Len(applied[id].backends) \in Nat
        BY EntryTyped
    <2>5. \A id \in todo' :
             /\ desired[id] # Absent
             /\ (stage' = "delete" /\ IsFirst(id, todo')) => applied[id] # Absent
        BY <2>1, FirstStageOf, FirstUnique DEF sortedChangedIDs
    <2>6. \A id \in todo' :
             /\ at' <= Len(desired'[id].backends)
             /\ (stage' = "delete" /\ IsFirst(id, todo)')
                   => at' <= Len(applied'[id].backends) + 1
        BY <2>1, <2>4, <2>5 DEF IsFirst, sortedChangedIDs
    <2>7. stage' = "delete" =>
             \E id \in todo' : IsFirst(id, todo)' /\ applied'[id] # Absent
        BY <2>1, FirstStageOf DEF IsFirst
    <2>8. todo' \subseteq sortedChangedIDs(applied, desired)'
        BY <2>1 DEF sortedChangedIDs
    <2>9. Plan'
        BY <2>1, <2>6, <2>7, <2>8 DEF Plan
    <2> QED BY <2>2, <2>3, <2>9
<1>9. CASE Commit
    BY <1>9 DEF Commit, MapsTypeOK, Phase, Plan, EntryOf, PortsDistinct
<1>10. CASE Crash
    <2>1. NoEntries \in [ServiceID -> Entry \cup {Absent}]
          /\ \A id \in ServiceID : NoEntries[id] = Absent
        BY DEF NoEntries
    <2>2. SyncTypeOK'
        BY <1>10, <2>1, ServiceIDAssumption DEF Crash, MapsTypeOK, Phase
    <2>3. Tables'
        BY <1>10, <2>1 DEF Crash, PortsDistinct
    <2>4. Plan'
        BY <1>10 DEF Crash, Plan
    <2> QED BY <2>2, <2>3, <2>4
<1>11. CASE Start
    BY <1>11, ServiceIDAssumption
       DEF Start, MapsTypeOK, Phase, Plan, EntryOf, PortsDistinct, NoConfig,
           ConfigVal
<1>5. ASSUME NEW id \in ServiceID, DeleteSlot(id) \/ DeleteService(id)
      PROVE  Shape'
    <2>1. /\ UNCHANGED <<rr, config, connVars, now, envVars, mode, triggers,
                         applied, appliedConfig, desired, phase, todo, stage>>
          /\ svc' \in [Frontend -> SvcVal \cup {Absent}]
          /\ slots' \in [Frontend \X Slot -> Backend \cup {Absent}]
          /\ phase \in {"remove", "upsert"} /\ stage = "delete"
          /\ IsFirst(id, todo) /\ at' = at + 1
        BY <1>5 DEF DeleteSlot, DeleteService, MapsTypeOK
    <2>2. at' <= Len(applied[id].backends) + 1
        <3>1. id \in todo /\ applied[id] # Absent
            BY <2>1, FirstUnique
               DEF Plan, IsFirst, sortedRemovedIDs, sortedChangedIDs
        <3>2. Len(applied[id].backends) \in Nat
            BY <3>1, EntryTyped
        <3> QED BY <1>5, <3>2 DEF DeleteSlot, DeleteService
    <2>3. SyncTypeOK'
        BY <2>1 DEF MapsTypeOK, connVars
    <2>4. Tables'
        BY <2>1 DEF EntryOf, PortsDistinct
    <2>5. Plan'
        <3>1. \A i : IsFirst(i, todo)' <=> IsFirst(i, todo)
            BY <2>1 DEF IsFirst
        <3>2. \A i \in todo : IsFirst(i, todo) => i = id
            BY <2>1, FirstUnique
        <3> QED BY <2>1, <2>2, <3>1, <3>2
                DEF Plan, sortedRemovedIDs, sortedChangedIDs
    <2> QED BY <2>3, <2>4, <2>5
<1>6. ASSUME NEW id \in ServiceID, DeleteCursor(id)
      PROVE  Shape'
    <2>1. /\ UNCHANGED <<svc, slots, config, connVars, now, envVars, mode,
                         triggers, applied, appliedConfig, desired, phase>>
          /\ rr' \in [Frontend -> Nat \cup {Absent}]
          /\ phase \in {"remove", "upsert"} /\ stage = "delete"
          /\ IsFirst(id, todo) /\ at' = 0
          /\ todo' \subseteq todo
          /\ \/ phase = "remove" /\ stage' = "delete"
             \/ phase = "upsert" /\ todo' = todo /\ stage' = "upsert"
        BY <1>6 DEF DeleteCursor, MapsTypeOK
    <2>2. SyncTypeOK'
        BY <2>1 DEF MapsTypeOK, connVars
    <2>3. Tables'
        BY <2>1 DEF EntryOf, PortsDistinct
    <2>4. \A i \in ServiceID :
             /\ desired[i] # Absent => Len(desired[i].backends) \in Nat
             /\ applied[i] # Absent => Len(applied[i].backends) \in Nat
        BY EntryTyped
    <2>5. Plan'
        BY <2>1, <2>4 DEF Plan, sortedRemovedIDs, sortedChangedIDs
    <2> QED BY <2>2, <2>3, <2>5
<1>7. ASSUME NEW id \in ServiceID, UpsertService(id)
      PROVE  Shape'
    <2>1. /\ UNCHANGED <<slots, rr, config, connVars, now, envVars, mode,
                         triggers, applied, appliedConfig, desired, phase,
                         todo, stage>>
          /\ svc' = [svc EXCEPT ![frontendKey(desired[id])] =
                        serviceValue(desired[id])]
          /\ phase = "upsert" /\ stage = "upsert"
          /\ IsFirst(id, todo) /\ at' = 1
        BY <1>7 DEF UpsertService
    <2>2. /\ id \in todo /\ desired[id] # Absent
          /\ Len(desired[id].backends) \in 1 .. MaxSlots
          /\ serviceValue(desired[id]) \in SvcVal
        BY <2>1, EntryTyped DEF Plan, IsFirst, sortedChangedIDs, EntryOf
    <2>3. SyncTypeOK'
        BY <2>1, <2>2 DEF MapsTypeOK, connVars
    <2>4. Tables'
        BY <2>1 DEF EntryOf, PortsDistinct
    <2>5. Plan'
        <3>1. \A i : IsFirst(i, todo)' <=> IsFirst(i, todo)
            BY <2>1 DEF IsFirst
        <3>2. \A i \in todo : IsFirst(i, todo) => i = id
            BY <2>1, FirstUnique
        <3> QED BY <2>1, <2>2, <3>1, <3>2, MaxSlotsAssumption
                DEF Plan, sortedRemovedIDs, sortedChangedIDs
    <2> QED BY <2>3, <2>4, <2>5
<1>8. ASSUME NEW id \in ServiceID, UpsertSlot(id)
      PROVE  Shape'
    <2> DEFINE n == Len(desired[id].backends)
    <2>1. /\ UNCHANGED <<svc, rr, config, connVars, now, envVars, mode,
                         triggers, applied, appliedConfig, desired, phase>>
          /\ slots' = [slots EXCEPT ![<<frontendKey(desired[id]), at - 1>>] =
                          desired[id].backends[at]]
          /\ phase = "upsert" /\ stage = "upsert" /\ IsFirst(id, todo)
          /\ at \in 1 .. n
          /\ \/ at < n /\ at' = at + 1 /\ todo' = todo /\ stage' = stage
             \/ at' = 0 /\ todo' = todo \ {id} /\ stage' = FirstStage(todo')
        BY <1>8 DEF UpsertSlot
    <2>2. id \in todo /\ desired[id] # Absent /\ n \in 1 .. MaxSlots
        BY <2>1 DEF Plan, IsFirst, sortedChangedIDs, EntryOf
    <2>3. slots' \in [Frontend \X Slot -> Backend \cup {Absent}]
        <3>1. desired[id].backends[at] \in Backend
            BY <2>1, <2>2, EntryTyped
        <3> QED BY <2>1, <3>1 DEF MapsTypeOK
    <2>4. at' \in Nat /\ todo' \subseteq todo
          /\ stage' \in {"delete", "upsert"}
        BY <2>1, FirstStageOf
    <2>5. SyncTypeOK'
        BY <2>1, <2>3, <2>4 DEF MapsTypeOK, connVars
    <2>6. Tables'
        BY <2>1 DEF EntryOf, PortsDistinct
    <2>7. CASE at < n /\ at' = at + 1 /\ todo' = todo /\ stage' = stage
        <3>1. \A i : IsFirst(i, todo)' <=> IsFirst(i, todo)
            BY <2>7 DEF IsFirst
        <3>2. \A i \in todo : IsFirst(i, todo) => i = id
            BY <2>1, FirstUnique
        <3>3. Plan'
            BY <2>1, <2>2, <2>7, <3>1, <3>2, MaxSlotsAssumption
               DEF Plan, sortedRemovedIDs, sortedChangedIDs
        <3> QED BY <2>5, <2>6, <3>3
    <2>8. CASE at' = 0 /\ todo' = todo \ {id} /\ stage' = FirstStage(todo')
        <3>1. \A i \in ServiceID :
                 /\ desired[i] # Absent => Len(desired[i].backends) \in Nat
                 /\ applied[i] # Absent => Len(applied[i].backends) \in Nat
            BY EntryTyped
        <3>2. todo' \subseteq sortedChangedIDs(applied, desired)'
            BY <2>1, <2>4 DEF Plan, sortedChangedIDs
        <3>3. stage' = "delete" =>
                 \E i \in todo' : IsFirst(i, todo)' /\ applied'[i] # Absent
            BY <2>1, <2>8, FirstStageOf DEF IsFirst
        <3>4. \A i \in todo' :
                 /\ at' <= Len(desired'[i].backends)
                 /\ (stage' = "delete" /\ IsFirst(i, todo)')
                       => at' <= Len(applied'[i].backends) + 1
            <4>1. \A i \in todo' :
                     /\ i \in ServiceID /\ desired[i] # Absent
                     /\ (stage' = "delete" /\ IsFirst(i, todo)')
                           => applied[i] # Absent
                BY <2>1, <2>4, <3>2, <3>3, FirstUnique
                   DEF IsFirst, sortedChangedIDs
            <4> QED BY <2>1, <2>8, <3>1, <4>1
        <3>5. Plan'
            BY <2>1, <3>2, <3>3, <3>4 DEF Plan
        <3> QED BY <2>5, <2>6, <3>5
    <2> QED BY <2>1, <2>7, <2>8
<1> QED BY <1>2, <1>3, <1>4, <1>5, <1>6, <1>7, <1>8, <1>9, <1>10, <1>11
        DEF SyncNext, Process, reconcile, DeleteEntry, UpsertEntry

---------------------------------------------------------------------------
(* The maps.                                                               *)

\* Which entries are in the maps, in terms of the services alone.
LEMMA OwnersOf ==
    ASSUME Shape, NEW id \in ServiceID
    PROVE  /\ Old(id) => EntryOf(id, applied[id])
           /\ New(id) => EntryOf(id, desired[id])
           /\ ~(Old(id) /\ New(id))
           /\ \A other \in ServiceID \ {id} :
                 /\ (Old(id) /\ Old(other)) => PortOf[id] # PortOf[other]
                 /\ (New(id) /\ New(other)) => PortOf[id] # PortOf[other]
                 /\ (Old(id) /\ New(other)) => PortOf[id] # PortOf[other]
                 /\ (New(id) /\ Old(other)) => PortOf[id] # PortOf[other]
<1>1. /\ Old(id) => EntryOf(id, applied[id])
      /\ New(id) => EntryOf(id, desired[id])
    BY DEF Shape, Tables, Old, New
<1>2. ~(Old(id) /\ New(id))
    BY DEF Old, New
<1>3. ASSUME NEW i \in ServiceID, NEW j \in ServiceID, i # j, Old(i), New(j)
      PROVE  PortOf[i] # PortOf[j]
    <2>1. desired[i] # Absent /\ desired[j] # Absent
        BY <1>3 DEF Old, New, Shape, Plan, sortedChangedIDs
    <2> QED BY <1>3, <2>1 DEF Shape, Tables, PortsDistinct
<1>4. ASSUME NEW i \in ServiceID, NEW j \in ServiceID, i # j,
             (Old(i) /\ Old(j)) \/ (New(i) /\ New(j))
      PROVE  PortOf[i] # PortOf[j]
    BY <1>4 DEF Shape, Tables, PortsDistinct, Old, New
<1> QED BY <1>1, <1>2, <1>3, <1>4

\* Entries for different nodePorts are at different frontends.
LEMMA FrontendsDiffer ==
    ASSUME NEW i \in ServiceID, NEW j \in ServiceID, NEW d, NEW e,
           EntryOf(i, d), EntryOf(j, e), PortOf[i] # PortOf[j]
    PROVE  frontendKey(d) # frontendKey(e)
BY DEF EntryOf, frontendKey

\* The maps are read only at the frontend of the entry.
LEMMA SameMaps ==
    ASSUME NEW e,
           svc'[frontendKey(e)] = svc[frontendKey(e)],
           \A s \in Slot : slots'[<<frontendKey(e), s>>] =
                           slots[<<frontendKey(e), s>>]
    PROVE  /\ \A n : AfterDeletes(e, n)' <=> AfterDeletes(e, n)
           /\ \A n : AfterWrites(e, n)' <=> AfterWrites(e, n)
BY DEF AfterDeletes, AfterWrites

\* Nothing deleted yet, everything written: the maps serve the entry.
LEMMA WholeEntry ==
    ASSUME NEW e \in Entry
    PROVE  /\ AfterDeletes(e, 0) <=> Serves(frontendKey(e), e)
           /\ AfterWrites(e, Len(e.backends) + 1) <=> Serves(frontendKey(e), e)
           /\ AfterDeletes(e, Len(e.backends) + 1) <=> Vacant(frontendKey(e))
           /\ AfterWrites(e, 0) <=> Vacant(frontendKey(e))
<1>1. Len(e.backends) \in Nat
    BY EntryTyped
<1>2. Slot \subseteq Nat
    BY MaxSlotsAssumption DEF Slot
<1>3. AfterDeletes(e, 0) <=> Serves(frontendKey(e), e)
    BY <1>1, <1>2 DEF AfterDeletes, Serves
<1>4. AfterWrites(e, Len(e.backends) + 1) <=> Serves(frontendKey(e), e)
    BY <1>1, <1>2 DEF AfterWrites, Serves, SlotOf
<1>5. AfterDeletes(e, Len(e.backends) + 1) <=> Vacant(frontendKey(e))
    BY <1>1, <1>2 DEF AfterDeletes, Vacant, SlotOf
<1>6. AfterWrites(e, 0) <=> Vacant(frontendKey(e))
    BY <1>1, <1>2 DEF AfterWrites, Vacant
<1> QED BY <1>3, <1>4, <1>5, <1>6

\* At every point of the operations the maps have part of the entry only.
LEMMA PartEntry ==
    ASSUME NEW e \in Entry, NEW n \in Nat
    PROVE  /\ AfterDeletes(e, n) => PartOf(frontendKey(e), e)
           /\ AfterWrites(e, n) => PartOf(frontendKey(e), e)
BY DEF AfterDeletes, AfterWrites, PartOf

LEMMA InitMaps == SyncInit => MapsFollow
BY DEF SyncInit, MapsInit, MapsFollow, Old, New, NoEntries, Vacant

\* Steps at which neither the maps nor the progress of the entries change.
LEMMA MapsUndisturbed ==
    ASSUME SyncInv, phase # "down", svc' = svc, slots' = slots,
           \A id \in ServiceID :
              /\ Old(id)' <=> Old(id)
              /\ Old(id) => applied'[id] = applied[id] /\ Deleted(id)' = Deleted(id)
              /\ New(id)' <=> New(id)
              /\ New(id) => desired'[id] = desired[id] /\ Written(id)' = Written(id)
    PROVE  MapsFollow'
<1>1. ASSUME NEW id \in ServiceID, Old(id)'
      PROVE  AfterDeletes(applied[id], Deleted(id))'
    BY <1>1 DEF SyncInv, MapsFollow, AfterDeletes
<1>2. ASSUME NEW id \in ServiceID, New(id)'
      PROVE  AfterWrites(desired[id], Written(id))'
    BY <1>2 DEF SyncInv, MapsFollow, AfterWrites
<1>3. ASSUME NEW f \in Frontend, ~Owned(f)'
      PROVE  Vacant(f)'
    BY <1>3 DEF SyncInv, MapsFollow, Owned, Vacant
<1> QED BY <1>1, <1>2, <1>3 DEF MapsFollow

\* The steps of the environment, of the watch loop, and those of reconcile
\* that write no service and no slot.
LEMMA QuietStep ==
    ASSUME SyncInv,
           \/ Cluster \/ UNCHANGED syncVars
           \/ enqueue \/ runWatch \/ Drain \/ DebounceOver \/ runPoll
           \/ UpdateConfig \/ PlanEntries
    PROVE  MapsFollow'
<1> USE DEF mapVars, envVars, procVars, connVars
<1>1. CASE Cluster \/ UNCHANGED syncVars
    <2>1. UNCHANGED <<svc, slots, phase, applied, desired, todo, stage, at>>
        <3>1. CASE Cluster
            BY <3>1 DEF Cluster, ServiceChange, NodeChange, HostChange
        <3>2. CASE UNCHANGED syncVars
            BY <3>2 DEF syncVars
        <3> QED BY <1>1, <3>1, <3>2
    <2>2. CASE phase # "down"
        BY <2>1, <2>2, MapsUndisturbed DEF Old, New, Deleted, Written, IsFirst
    <2>3. CASE phase = "down"
        BY <2>1, <2>3 DEF MapsFollow
    <2> QED BY <2>2, <2>3
<1>2. CASE enqueue \/ runWatch \/ Drain \/ DebounceOver \/ runPoll \/ UpdateConfig
    <2>1. /\ UNCHANGED <<svc, slots, applied, desired, todo, stage, at>>
          /\ phase # "down" /\ phase' # "down"
          /\ \/ phase' = phase
             \/ {phase, phase'} \cap {"remove", "upsert"} = {}
        BY <1>2 DEF enqueue, runWatch, Drain, DebounceOver, runPoll, UpdateConfig
    <2> QED BY <2>1, MapsUndisturbed DEF Old, New, Deleted, Written, IsFirst
<1>3. CASE PlanEntries
    <2>1. /\ UNCHANGED <<svc, slots, applied>>
          /\ phase = "plan" /\ phase' = "remove" /\ at' = 0
          /\ todo' = {id \in ServiceID : applied[id] # Absent /\ desired'[id] = Absent}
        BY <1>3 DEF PlanEntries, sortedRemovedIDs
    <2>2. \A id \in ServiceID :
             /\ Old(id)' <=> Old(id)
             /\ Deleted(id)' = 0 /\ Deleted(id) = 0
             /\ ~New(id)' /\ ~New(id)
        BY <2>1 DEF Old, New, Deleted
    <2> QED BY <2>1, <2>2, MapsUndisturbed
<1> QED BY <1>1, <1>2, <1>3

\* The plan of the second loop: what stays is where it was, and the frontends
\* of new entries are vacant.
LEMMA RemovalsDoneStep == ASSUME SyncInv, RemovalsDone PROVE MapsFollow'
<1>1. /\ UNCHANGED <<svc, slots, applied, desired>>
      /\ phase = "remove" /\ todo = {} /\ phase' = "upsert" /\ at' = 0
      /\ todo' = sortedChangedIDs(applied, desired)
      /\ stage' = FirstStage(todo')
    BY DEF RemovalsDone, mapVars
<1>2. \A id \in ServiceID :
         /\ Old(id)' <=> Old(id)
         /\ Old(id) <=> applied[id] # Absent /\ desired[id] # Absent
         /\ Deleted(id)' = 0 /\ Deleted(id) = 0
         /\ ~New(id)
         /\ New(id)' => /\ applied[id] = Absent /\ desired[id] # Absent
                        /\ Written(id)' = 0
    <2>1. \A id \in todo' : /\ desired[id] # Absent
                            /\ (stage' = "upsert" /\ IsFirst(id, todo)')
                                  => applied[id] = Absent
        BY <1>1, FirstStageOf DEF sortedChangedIDs
    <2>2. \A id \in ServiceID : Deleted(id)' = 0 /\ Deleted(id) = 0 /\ ~New(id)
        BY <1>1 DEF Deleted, New, IsFirst
    <2>3. \A id \in ServiceID :
             /\ Old(id) <=> applied[id] # Absent /\ desired[id] # Absent
             /\ Old(id)' <=> applied[id] # Absent /\ desired[id] # Absent
        BY <1>1, <2>1 DEF Old, sortedChangedIDs
    <2>4. \A id \in ServiceID :
             New(id)' => /\ applied[id] = Absent /\ desired[id] # Absent
                         /\ Written(id)' = 0
        BY <1>1, <2>1 DEF New, Written, sortedChangedIDs
    <2> QED BY <2>2, <2>3, <2>4
<1>3. ASSUME NEW id \in ServiceID, Old(id)'
      PROVE  AfterDeletes(applied[id], Deleted(id))'
    <2>1. AfterDeletes(applied[id], 0)
        BY <1>1, <1>2, <1>3 DEF SyncInv, MapsFollow
    <2>2. AfterDeletes(applied[id], 0)'
        BY <1>1, <2>1, SameMaps DEF AfterDeletes
    <2> QED BY <1>2, <2>2
<1>4. ASSUME NEW id \in ServiceID, New(id)'
      PROVE  AfterWrites(desired[id], Written(id))'
    <2> DEFINE f == frontendKey(desired[id])
    <2>1. desired[id] \in Entry /\ EntryOf(id, desired[id])
        BY <1>2, <1>4 DEF SyncInv, Tables, EntryOf
    <2>2. \A i \in ServiceID : Old(i) => frontendKey(applied[i]) # f
        <3> SUFFICES ASSUME NEW i \in ServiceID, Old(i)
                     PROVE  frontendKey(applied[i]) # f
            OBVIOUS
        <3>1. i # id /\ EntryOf(i, applied[i]) /\ desired[i] # Absent
            BY <1>2, <1>4 DEF SyncInv, Tables
        <3>2. PortOf[i] # PortOf[id]
            BY <1>2, <1>4, <3>1 DEF SyncInv, Tables, PortsDistinct
        <3> QED BY <2>1, <3>1, <3>2, FrontendsDiffer
    <2>3. Vacant(f)
        BY <1>1, <1>2, <2>1, <2>2, EntryTyped DEF SyncInv, MapsFollow, Owned
    <2>4. AfterWrites(desired[id], 0)
        BY <2>1, <2>3, WholeEntry
    <2>5. AfterWrites(desired[id], 0)'
        BY <1>1, <2>4 DEF AfterWrites
    <2> QED BY <1>2, <1>4, <2>5
<1>5. ASSUME NEW f \in Frontend, ~Owned(f)'
      PROVE  Vacant(f)'
    BY <1>1, <1>2, <1>5 DEF SyncInv, MapsFollow, Owned, Vacant
<1> QED BY <1>3, <1>4, <1>5 DEF MapsFollow

\* The entry that DeleteEntry works on is one that was applied and is in the
\* maps; the one that UpsertEntry works on is one that is desired.
LEMMA CurrentEntry ==
    ASSUME SyncInv, NEW id \in ServiceID, IsFirst(id, todo),
           phase \in {"remove", "upsert"}
    PROVE  /\ id \in todo /\ desired[id] # applied[id]
           /\ \A i \in todo : IsFirst(i, todo) => i = id
           /\ phase = "remove" => desired[id] = Absent
           /\ phase = "upsert" => desired[id] # Absent
           /\ stage = "delete" =>
                 Old(id) /\ ~New(id) /\ EntryOf(id, applied[id])
           /\ stage = "upsert" =>
                 New(id) /\ ~Old(id) /\ EntryOf(id, desired[id])
<1>1. id \in todo /\ \A i \in todo : IsFirst(i, todo) => i = id
    BY FirstUnique DEF SyncInv, SyncTypeOK, IsFirst
<1>2. desired[id] # applied[id]
    BY <1>1 DEF SyncInv, Plan, sortedRemovedIDs, sortedChangedIDs
<1>3. /\ phase = "remove" => desired[id] = Absent /\ stage = "delete"
      /\ phase = "upsert" => desired[id] # Absent
      /\ stage = "delete" => applied[id] # Absent
    BY <1>1 DEF SyncInv, Plan, sortedRemovedIDs, sortedChangedIDs
<1>4. /\ stage = "delete" => Old(id) /\ ~New(id)
      /\ stage = "upsert" => New(id) /\ ~Old(id)
    BY <1>1, <1>2, <1>3 DEF Old, New
<1>5. /\ stage = "delete" => EntryOf(id, applied[id])
      /\ stage = "upsert" => EntryOf(id, desired[id])
    BY <1>3 DEF SyncInv, Tables
<1> QED BY <1>1, <1>2, <1>3, <1>4, <1>5

\* The frontend at which reconcile works belongs to no other entry.
LEMMA CurrentFrontend ==
    ASSUME SyncInv, NEW id \in ServiceID, IsFirst(id, todo),
           phase \in {"remove", "upsert"}, NEW other \in ServiceID \ {id}
    PROVE  /\ stage = "delete" =>
                 /\ Old(other) => frontendKey(applied[other]) # frontendKey(applied[id])
                 /\ New(other) => frontendKey(desired[other]) # frontendKey(applied[id])
           /\ phase = "upsert" =>
                 /\ Old(other) => frontendKey(applied[other]) # frontendKey(desired[id])
                 /\ New(other) => frontendKey(desired[other]) # frontendKey(desired[id])
<1>0. Shape
    BY DEF SyncInv, Shape
<1>1. ASSUME stage = "delete"
      PROVE  /\ Old(other) => frontendKey(applied[other]) # frontendKey(applied[id])
             /\ New(other) => frontendKey(desired[other]) # frontendKey(applied[id])
    BY <1>0, <1>1, CurrentEntry, OwnersOf, FrontendsDiffer
<1>2. ASSUME phase = "upsert"
      PROVE  /\ Old(other) => frontendKey(applied[other]) # frontendKey(desired[id])
             /\ New(other) => frontendKey(desired[other]) # frontendKey(desired[id])
    <2>1. desired[id] # Absent /\ EntryOf(id, desired[id])
        BY <1>2, CurrentEntry DEF SyncInv, Tables
    <2>2. Old(other) \/ New(other) => desired[other] # Absent
        BY <1>2 DEF Old, New, SyncInv, Plan, sortedChangedIDs
    <2>3. Old(other) \/ New(other) => PortOf[other] # PortOf[id]
        BY <2>1, <2>2 DEF SyncInv, Tables, PortsDistinct
    <2> QED BY <1>0, <2>1, <2>3, OwnersOf, FrontendsDiffer
<1> QED BY <1>1, <1>2

\* DeleteEntry removes the slots one after the other, then the service.
LEMMA DeleteStep ==
    ASSUME SyncInv, NEW id \in ServiceID, DeleteSlot(id) \/ DeleteService(id)
    PROVE  MapsFollow'
<1> DEFINE e == applied[id]
           f == frontendKey(e)
<1>1. /\ UNCHANGED <<applied, desired, phase, todo, stage>>
      /\ phase \in {"remove", "upsert"} /\ stage = "delete"
      /\ IsFirst(id, todo) /\ at' = at + 1
    BY DEF DeleteSlot, DeleteService
<1>2. /\ Old(id) /\ EntryOf(id, e)
      /\ \A i \in todo : IsFirst(i, todo) => i = id
    BY <1>1, CurrentEntry
<1>3. e \in Entry /\ Len(e.backends) \in 1 .. MaxSlots /\ f \in Frontend
    BY <1>2, EntryTyped DEF EntryOf
<1>4. AfterDeletes(e, at)
    BY <1>1, <1>2 DEF SyncInv, MapsFollow, Deleted
<1>5. /\ AfterDeletes(e, at)'
      /\ \A g \in Frontend \ {f} :
            svc'[g] = svc[g] /\ \A s \in Slot : slots'[<<g, s>>] = slots[<<g, s>>]
    <2> USE DEF AfterDeletes, SyncInv, SyncTypeOK, MapsTypeOK
    <2>1. CASE DeleteSlot(id)
        <3>1. at \in Slot
            BY <1>3, <2>1, MaxSlotsAssumption DEF DeleteSlot, Slot
        <3>2. \A g \in Frontend, s \in Slot :
                 slots'[<<g, s>>] =
                    IF g = f /\ s = at THEN Absent ELSE slots[<<g, s>>]
            BY <1>3, <2>1, <3>1 DEF DeleteSlot
        <3>3. svc' = svc /\ at < Len(e.backends)
            BY <2>1 DEF DeleteSlot
        <3> QED BY <1>1, <1>3, <1>4, <3>2, <3>3, MaxSlotsAssumption DEF Slot
    <2>2. CASE DeleteService(id)
        BY <1>1, <1>3, <1>4, <2>2, MaxSlotsAssumption
           DEF DeleteService, Slot, SlotOf
    <2> QED BY <2>1, <2>2
<1>6. \A i \in ServiceID :
         /\ Old(i)' <=> Old(i)
         /\ New(i)' <=> New(i)
         /\ Written(i)' = Written(i)
         /\ i # id => Deleted(i)' = Deleted(i)
    BY <1>1, <1>2 DEF Old, New, Written, Deleted, IsFirst
<1>7. Deleted(id)' = at'
    BY <1>1 DEF Deleted, IsFirst
<1>8. ASSUME NEW i \in ServiceID, Old(i)'
      PROVE  AfterDeletes(applied[i], Deleted(i))'
    <2>1. CASE i = id
        BY <1>1, <1>5, <1>7, <2>1 DEF AfterDeletes
    <2>2. CASE i # id
        <3>1. /\ AfterDeletes(applied[i], Deleted(i))
              /\ frontendKey(applied[i]) \in Frontend \ {f}
            BY <1>1, <1>6, <1>8, <2>2, CurrentFrontend, EntryTyped
               DEF SyncInv, MapsFollow, Tables, EntryOf, Old
        <3> QED BY <1>1, <1>5, <1>6, <2>2, <3>1 DEF AfterDeletes
    <2> QED BY <2>1, <2>2
<1>9. ASSUME NEW i \in ServiceID, New(i)'
      PROVE  AfterWrites(desired[i], Written(i))'
    <2>1. New(i) /\ i # id
        BY <1>1, <1>6, <1>9, CurrentEntry
    <2>2. /\ AfterWrites(desired[i], Written(i))
          /\ frontendKey(desired[i]) \in Frontend \ {f}
        BY <1>1, <2>1, CurrentFrontend, EntryTyped
           DEF SyncInv, MapsFollow, Tables, EntryOf, New
    <2> QED BY <1>1, <1>5, <1>6, <2>2 DEF AfterWrites
<1>10. ASSUME NEW g \in Frontend, ~Owned(g)'
       PROVE  Vacant(g)'
    <2>1. ~Owned(g) /\ g # f
        BY <1>1, <1>2, <1>6, <1>10 DEF Owned
    <2> QED BY <1>1, <1>5, <2>1 DEF SyncInv, MapsFollow, Vacant
<1> QED BY <1>8, <1>9, <1>10 DEF MapsFollow

\* With the cursor gone the old entry is out of the maps.
LEMMA CursorStep ==
    ASSUME SyncInv, NEW id \in ServiceID, DeleteCursor(id)
    PROVE  MapsFollow'
<1> DEFINE e == applied[id]
           f == frontendKey(e)
<1>1. /\ UNCHANGED <<svc, slots, applied, desired, phase>>
      /\ phase \in {"remove", "upsert"} /\ stage = "delete"
      /\ IsFirst(id, todo) /\ at = Len(e.backends) + 1 /\ at' = 0
      /\ \/ phase = "remove" /\ todo' = todo \ {id} /\ stage' = "delete"
         \/ phase = "upsert" /\ todo' = todo /\ stage' = "upsert"
    BY DEF DeleteCursor
<1>2. /\ Old(id) /\ ~New(id) /\ EntryOf(id, e) /\ e \in Entry /\ id \in todo
      /\ desired[id] # e /\ f \in Frontend
      /\ \A i \in todo : IsFirst(i, todo) => i = id
    BY <1>1, CurrentEntry, EntryTyped DEF EntryOf
<1>3. Vacant(f)
    <2>1. AfterDeletes(e, at)
        BY <1>1, <1>2 DEF SyncInv, MapsFollow, Deleted
    <2> QED BY <1>1, <1>2, <2>1, WholeEntry
<1>4. \A i \in ServiceID \ {id} :
         /\ Old(i)' <=> Old(i)
         /\ New(i)' <=> New(i)
         /\ Deleted(i)' = Deleted(i)
         /\ New(i) => Written(i)' = Written(i)
    BY <1>1, <1>2 DEF Old, New, Written, Deleted, IsFirst
<1>5. ~Old(id)'
    <2>1. phase = "remove" => desired[id] = Absent
        BY <1>1, CurrentEntry
    <2> QED BY <1>1, <1>2, <2>1 DEF Old, IsFirst
<1>6. ASSUME NEW i \in ServiceID, Old(i)'
      PROVE  AfterDeletes(applied[i], Deleted(i))'
    <2>1. i # id /\ AfterDeletes(applied[i], Deleted(i))
        BY <1>1, <1>4, <1>5, <1>6 DEF SyncInv, MapsFollow
    <2> QED BY <1>1, <1>4, <2>1 DEF AfterDeletes
<1>7. ASSUME NEW i \in ServiceID, New(i)'
      PROVE  AfterWrites(desired[i], Written(i))'
    <2>1. CASE i # id
        <3>1. New(i) /\ AfterWrites(desired[i], Written(i))
            BY <1>1, <1>4, <1>7, <2>1 DEF SyncInv, MapsFollow
        <3> QED BY <1>1, <1>4, <2>1, <3>1 DEF AfterWrites
    <2>2. CASE i = id
        <3>1. phase = "upsert" /\ desired[id] \in Entry
            BY <1>1, <1>7, <2>2 DEF New, SyncInv, Tables, EntryOf
        <3>2. Vacant(frontendKey(desired[id]))
            <4>1. CASE frontendKey(desired[id]) = f
                BY <1>3, <4>1
            <4>2. CASE frontendKey(desired[id]) # f
                <5>1. ~Owned(frontendKey(desired[id]))
                    BY <1>1, <1>2, <3>1, <4>2, CurrentFrontend DEF Owned
                <5> QED BY <1>1, <3>1, <5>1, EntryTyped DEF SyncInv, MapsFollow
            <4> QED BY <4>1, <4>2
        <3>3. AfterWrites(desired[id], 0) /\ Written(id)' = 0
            BY <1>1, <3>1, <3>2, WholeEntry DEF Written, IsFirst
        <3> QED BY <1>1, <2>2, <3>3 DEF AfterWrites
    <2> QED BY <2>1, <2>2
<1>8. ASSUME NEW g \in Frontend, ~Owned(g)'
      PROVE  Vacant(g)'
    <2>1. Owned(g) => g = f
        BY <1>1, <1>2, <1>4, <1>8 DEF Owned
    <2>2. Vacant(g)
        BY <1>1, <1>3, <2>1 DEF SyncInv, MapsFollow
    <2> QED BY <1>1, <2>2 DEF Vacant
<1> QED BY <1>6, <1>7, <1>8 DEF MapsFollow

\* The service of a new entry is written to a vacant frontend.
LEMMA UpsertServiceStep ==
    ASSUME SyncInv, NEW id \in ServiceID, UpsertService(id)
    PROVE  MapsFollow'
<1> DEFINE e == desired[id]
           f == frontendKey(e)
<1>1. /\ UNCHANGED <<slots, applied, desired, phase, todo, stage>>
      /\ svc' = [svc EXCEPT ![f] = serviceValue(e)]
      /\ phase = "upsert" /\ stage = "upsert"
      /\ IsFirst(id, todo) /\ at = 0 /\ at' = 1
    BY DEF UpsertService
<1>2. /\ New(id) /\ ~Old(id) /\ EntryOf(id, e) /\ e \in Entry /\ f \in Frontend
      /\ \A i \in todo : IsFirst(i, todo) => i = id
    BY <1>1, CurrentEntry, EntryTyped DEF EntryOf
<1>3. /\ AfterWrites(e, 1)'
      /\ \A g \in Frontend \ {f} : svc'[g] = svc[g]
    <2>1. AfterWrites(e, 0)
        BY <1>1, <1>2 DEF SyncInv, MapsFollow, Written
    <2> QED BY <1>1, <1>2, <2>1, MaxSlotsAssumption
            DEF AfterWrites, SyncInv, SyncTypeOK, MapsTypeOK, Slot
<1>4. \A i \in ServiceID :
         /\ Old(i)' <=> Old(i)
         /\ New(i)' <=> New(i)
         /\ Deleted(i)' = Deleted(i)
         /\ i # id => Written(i)' = Written(i)
    BY <1>1, <1>2 DEF Old, New, Written, Deleted, IsFirst
<1>5. Written(id)' = 1
    BY <1>1 DEF Written, IsFirst
<1>6. ASSUME NEW i \in ServiceID, Old(i)'
      PROVE  AfterDeletes(applied[i], Deleted(i))'
    <2>1. i # id /\ Old(i)
        BY <1>2, <1>4, <1>6
    <2>2. /\ AfterDeletes(applied[i], Deleted(i))
          /\ frontendKey(applied[i]) \in Frontend \ {f}
        BY <1>1, <2>1, CurrentFrontend, EntryTyped
           DEF SyncInv, MapsFollow, Tables, EntryOf, Old
    <2> QED BY <1>1, <1>3, <1>4, <2>2 DEF AfterDeletes
<1>7. ASSUME NEW i \in ServiceID, New(i)'
      PROVE  AfterWrites(desired[i], Written(i))'
    <2>1. CASE i = id
        BY <1>1, <1>3, <1>5, <2>1 DEF AfterWrites
    <2>2. CASE i # id
        <3>1. /\ AfterWrites(desired[i], Written(i))
              /\ frontendKey(desired[i]) \in Frontend \ {f}
            BY <1>1, <1>4, <1>7, <2>2, CurrentFrontend, EntryTyped
               DEF SyncInv, MapsFollow, Tables, EntryOf, New
        <3> QED BY <1>1, <1>3, <1>4, <2>2, <3>1 DEF AfterWrites
    <2> QED BY <2>1, <2>2
<1>8. ASSUME NEW g \in Frontend, ~Owned(g)'
      PROVE  Vacant(g)'
    <2>1. ~Owned(g) /\ g # f
        BY <1>1, <1>2, <1>4, <1>8 DEF Owned
    <2> QED BY <1>1, <1>3, <2>1 DEF SyncInv, MapsFollow, Vacant
<1> QED BY <1>6, <1>7, <1>8 DEF MapsFollow

\* The slots are written one after the other; after the last one the entry is
\* whole, and the next changed id has its turn.
LEMMA UpsertSlotStep ==
    ASSUME SyncInv, NEW id \in ServiceID, UpsertSlot(id)
    PROVE  MapsFollow'
<1> DEFINE e == desired[id]
           f == frontendKey(e)
           n == Len(e.backends)
<1>1. /\ UNCHANGED <<svc, applied, desired, phase>>
      /\ slots' = [slots EXCEPT ![<<f, at - 1>>] = e.backends[at]]
      /\ phase = "upsert" /\ stage = "upsert" /\ IsFirst(id, todo)
      /\ at \in 1 .. n
      /\ \/ at < n /\ at' = at + 1 /\ todo' = todo /\ stage' = stage
         \/ at = n /\ at' = 0 /\ todo' = todo \ {id} /\ stage' = FirstStage(todo')
    BY DEF UpsertSlot
<1>2. /\ New(id) /\ ~Old(id) /\ EntryOf(id, e) /\ e \in Entry /\ f \in Frontend
      /\ id \in todo /\ e # applied[id] /\ e # Absent
      /\ \A i \in todo : IsFirst(i, todo) => i = id
    BY <1>1, CurrentEntry, EntryTyped DEF EntryOf
<1>3. n \in 1 .. MaxSlots /\ at - 1 \in Slot
    BY <1>1, <1>2, MaxSlotsAssumption DEF EntryOf, Slot
<1>4. \A g \in Frontend, s \in Slot :
         slots'[<<g, s>>] =
            IF g = f /\ s = at - 1 THEN e.backends[at] ELSE slots[<<g, s>>]
    BY <1>1, <1>2, <1>3 DEF SyncInv, SyncTypeOK, MapsTypeOK
<1>5. AfterWrites(e, at)
    BY <1>1, <1>2 DEF SyncInv, MapsFollow, Written
<1>6. ASSUME NEW m, m = at + 1
      PROVE  AfterWrites(e, m)'
    BY SMTT(40), <1>1, <1>2, <1>3, <1>4, <1>5, <1>6, MaxSlotsAssumption
       DEF AfterWrites, Slot, SlotOf
<1>7. \A i \in ServiceID :
         /\ Old(i)' <=> Old(i)
         /\ Deleted(i)' = 0 /\ Deleted(i) = 0
         /\ New(i) => New(i)' /\ (i # id => Written(i)' = Written(i))
         /\ (New(i)' /\ ~New(i)) => i # id /\ ~Old(i) /\ Written(i)' = 0
    <2>1. CASE at < n /\ at' = at + 1 /\ todo' = todo /\ stage' = stage
        BY <1>1, <1>2, <2>1 DEF Old, New, Written, Deleted, IsFirst
    <2>2. CASE at = n /\ at' = 0 /\ todo' = todo \ {id} /\ stage' = FirstStage(todo')
        <3>1. \A i \in todo' :
                 (stage' = "upsert" /\ IsFirst(i, todo)') => applied[i] = Absent
            BY <2>2, FirstStageOf DEF IsFirst
        <3>2. \A i \in ServiceID : Deleted(i)' = 0 /\ Deleted(i) = 0
            BY <1>1, <2>2 DEF Deleted
        <3>3. \A i \in ServiceID : Old(i)' <=> Old(i)
            <4>1. ~Old(id)' /\ ~Old(id)
                BY <1>1, <1>2, <2>2 DEF Old
            <4>2. ASSUME NEW i \in ServiceID \ {id} PROVE Old(i)' <=> Old(i)
                BY <1>1, <1>2, <2>2, <3>1 DEF Old, IsFirst
            <4> QED BY <4>1, <4>2
        <3>4. \A i \in ServiceID :
                 New(i) => New(i)' /\ (i # id => Written(i)' = Written(i))
            BY <1>1, <1>2, <2>2 DEF New, Written, IsFirst
        <3>5. ASSUME NEW i \in ServiceID, New(i)', ~New(i)
              PROVE  i # id /\ ~Old(i) /\ Written(i)' = 0
            <4>1. i \in todo' /\ IsFirst(i, todo)' /\ stage' = "upsert"
                BY <1>1, <1>2, <2>2, <3>5 DEF New
            <4> QED BY <1>1, <1>2, <2>2, <3>1, <3>5, <4>1 DEF Old, Written
        <3> QED BY <3>2, <3>3, <3>4, <3>5
    <2> QED BY <1>1, <2>1, <2>2
<1>8. \A i \in ServiceID \ {id} :
         /\ Old(i) => frontendKey(applied[i]) \in Frontend \ {f}
         /\ New(i) => frontendKey(desired[i]) \in Frontend \ {f}
    BY <1>1, CurrentFrontend, EntryTyped DEF SyncInv, Tables, EntryOf, Old, New
<1>9. ASSUME NEW i \in ServiceID, Old(i)'
      PROVE  AfterDeletes(applied[i], Deleted(i))'
    <2>1. Old(i) /\ i # id /\ AfterDeletes(applied[i], Deleted(i))
        BY <1>1, <1>2, <1>7, <1>9 DEF SyncInv, MapsFollow
    <2> QED BY <1>1, <1>4, <1>7, <1>8, <2>1 DEF AfterDeletes
<1>10. ASSUME NEW i \in ServiceID, New(i)'
       PROVE  AfterWrites(desired[i], Written(i))'
    <2>1. CASE i = id
        <3>1. Written(id)' = at + 1
            BY <1>1, <1>3 DEF Written, IsFirst
        <3> QED BY <1>1, <1>6, <2>1, <3>1 DEF AfterWrites
    <2>2. CASE i # id /\ New(i)
        <3>1. AfterWrites(desired[i], Written(i))
            BY <1>1, <2>2 DEF SyncInv, MapsFollow
        <3> QED BY <1>1, <1>4, <1>7, <1>8, <2>2, <3>1 DEF AfterWrites
    <2>3. CASE ~New(i)
        <3> DEFINE g == frontendKey(desired[i])
        <3>1. i # id /\ ~Old(i) /\ Written(i)' = 0 /\ desired[i] # Absent
            BY <1>1, <1>7, <1>10, <2>3 DEF New
        <3>2. EntryOf(i, desired[i]) /\ desired[i] \in Entry /\ g \in Frontend
            BY <3>1, EntryTyped DEF SyncInv, Tables, EntryOf
        <3>3. \A j \in ServiceID \ {i} : Old(j) \/ New(j) => PortOf[j] # PortOf[i]
            <4>1. \A j \in ServiceID : Old(j) \/ New(j) => desired[j] # Absent
                BY <1>1 DEF Old, New, SyncInv, Plan, sortedChangedIDs
            <4> QED BY <3>1, <4>1 DEF SyncInv, Tables, PortsDistinct
        <3>4. \A j \in ServiceID :
                 /\ Old(j) => EntryOf(j, applied[j])
                 /\ New(j) => EntryOf(j, desired[j])
            BY DEF SyncInv, Tables, Old, New
        <3>5. ~Owned(g)
            BY <2>3, <3>1, <3>2, <3>3, <3>4, FrontendsDiffer DEF Owned
        <3>6. Vacant(g) /\ g # f
            BY <1>1, <1>2, <3>2, <3>5 DEF SyncInv, MapsFollow, Owned
        <3>7. AfterWrites(desired[i], 0)
            BY <3>2, <3>6, WholeEntry
        <3> QED BY <1>1, <1>4, <3>1, <3>2, <3>6, <3>7 DEF AfterWrites
    <2> QED BY <2>1, <2>2, <2>3
<1>11. ASSUME NEW g \in Frontend, ~Owned(g)'
       PROVE  Vacant(g)'
    <2>1. ~Owned(g) /\ g # f
        BY <1>1, <1>2, <1>7, <1>11 DEF Owned
    <2> QED BY <1>1, <1>4, <2>1 DEF SyncInv, MapsFollow, Vacant
<1> QED BY <1>9, <1>10, <1>11 DEF MapsFollow

\* A reconcile that got to its end has left every desired entry whole.
LEMMA CommitStep == ASSUME SyncInv, Commit PROVE MapsFollow'
<1>1. /\ UNCHANGED <<svc, slots, desired>>
      /\ phase = "upsert" /\ todo = {} /\ phase' = "wait" /\ applied' = desired
    BY DEF Commit, mapVars
<1>2. \A id \in ServiceID :
         /\ Old(id)' <=> desired[id] # Absent
         /\ Old(id) => applied[id] = desired[id]
         /\ Deleted(id)' = 0 /\ Deleted(id) = 0 /\ ~New(id)'
         /\ Old(id) \/ New(id) <=> desired[id] # Absent
    BY <1>1 DEF Old, New, Deleted, IsFirst
<1>3. ASSUME NEW id \in ServiceID, desired[id] # Absent
      PROVE  AfterDeletes(desired[id], 0)
    <2>1. desired[id] \in Entry
        BY <1>3 DEF SyncInv, SyncTypeOK
    <2>2. CASE Old(id)
        BY <1>1, <1>2, <2>2 DEF SyncInv, MapsFollow
    <2>3. CASE New(id)
        <3>1. AfterWrites(desired[id], Len(desired[id].backends) + 1)
            BY <1>1, <2>3 DEF SyncInv, MapsFollow, Written, IsFirst
        <3> QED BY <2>1, <3>1, WholeEntry
    <2> QED BY <1>2, <1>3, <2>2, <2>3
<1>4. ASSUME NEW id \in ServiceID, Old(id)'
      PROVE  AfterDeletes(applied[id], Deleted(id))'
    BY <1>1, <1>2, <1>3, <1>4 DEF AfterDeletes
<1>5. ASSUME NEW f \in Frontend, ~Owned(f)'
      PROVE  Vacant(f)'
    <2>1. ~Owned(f)
        BY <1>1, <1>2, <1>5 DEF Owned
    <2> QED BY <1>1, <2>1 DEF SyncInv, MapsFollow, Vacant
<1> QED BY <1>2, <1>4, <1>5 DEF MapsFollow

\* A new process starts on maps that are empty, having applied nothing.
LEMMA StartStep == ASSUME SyncInv, Start PROVE MapsFollow'
<1>1. /\ applied' = NoEntries /\ phase' = "config"
      /\ \A f \in Frontend : Vacant(f)'
    BY DEF Start, SyncInv, Tables, Vacant
<1> QED BY <1>1 DEF MapsFollow, Old, New, NoEntries

LEMMA SyncInvInductive == SyncInv /\ [SyncNext]_syncVars => SyncInv'
<1> SUFFICES ASSUME SyncInv, [SyncNext]_syncVars PROVE SyncInv'
    OBVIOUS
<1>1. Shape'
    BY ShapeStep DEF SyncInv, Shape
<1>2. MapsFollow'
    <2>1. CASE \/ Cluster \/ UNCHANGED syncVars
               \/ enqueue \/ runWatch \/ Drain \/ DebounceOver \/ runPoll
               \/ UpdateConfig \/ PlanEntries
        BY <2>1, QuietStep
    <2>2. CASE RemovalsDone
        BY <2>2, RemovalsDoneStep
    <2>3. CASE Commit
        BY <2>3, CommitStep
    <2>4. ASSUME NEW id \in ServiceID, DeleteEntry(id)
          PROVE  MapsFollow'
        BY <2>4, DeleteStep, CursorStep DEF DeleteEntry
    <2>5. ASSUME NEW id \in ServiceID, UpsertEntry(id)
          PROVE  MapsFollow'
        BY <2>5, UpsertServiceStep, UpsertSlotStep DEF UpsertEntry
    <2>6. CASE Crash
        BY <2>6 DEF Crash, MapsFollow
    <2>7. CASE Start
        BY <2>7, StartStep
    <2> QED BY <2>1, <2>2, <2>3, <2>4, <2>5, <2>6, <2>7
            DEF SyncNext, Process, reconcile
<1> QED BY <1>1, <1>2 DEF SyncInv, Shape

LEMMA SyncInvHolds == SyncSpec => []SyncInv
<1>1. SyncInit => SyncInv
    BY InitShape, InitMaps DEF SyncInv, Shape
<1> QED BY <1>1, SyncInvInductive, PTL DEF SyncSpec

---------------------------------------------------------------------------
(* The theorems.                                                           *)

\* The variables of the syncer and of the maps keep their types: the channel
\* of triggers stays within its capacity, and only well-formed entries are
\* applied.
THEOREM SyncTypeCorrect == SyncSpec => []SyncTypeOK
<1>1. SyncInv => SyncTypeOK
    BY DEF SyncInv
<1> QED BY <1>1, SyncInvHolds, PTL

\* Between two reconciles the maps are exactly what c.appliedEntries says,
\* for any history of changes, crashes and restarts.
THEOREM TableMatchesAppliedHolds == SyncSpec => []TableMatchesApplied
<1>1. SyncInv => TableMatchesApplied
    <2> SUFFICES ASSUME SyncInv, phase \in {"wait", "debounce", "config", "plan"},
                        NEW f \in Frontend
                 PROVE  /\ EntriesFor(applied, f) = {} => Vacant(f)
                        /\ \A e \in EntriesFor(applied, f) : Serves(f, e)
        BY DEF TableMatchesApplied
    <2>1. \A id \in ServiceID :
             (Old(id) <=> applied[id] # Absent) /\ Deleted(id) = 0 /\ ~New(id)
        BY DEF Old, New, Deleted
    <2>2. EntriesFor(applied, f) = {} => Vacant(f)
        BY <2>1 DEF SyncInv, MapsFollow, Owned, EntriesFor
    <2>3. ASSUME NEW id \in ServiceID, applied[id] # Absent,
                 frontendKey(applied[id]) = f
          PROVE  Serves(f, applied[id])
        <3>1. AfterDeletes(applied[id], 0) /\ applied[id] \in Entry
            BY <2>1, <2>3 DEF SyncInv, MapsFollow, Tables, EntryOf
        <3> QED BY <2>3, <3>1, WholeEntry
    <2> QED BY <2>2, <2>3 DEF EntriesFor
<1> QED BY <1>1, SyncInvHolds, PTL

\* At every single map operation of a reconcile a frontend shows nothing, or
\* part of one entry: DeleteEntry and UpsertEntry never mix generations.
THEOREM OneGenerationHolds == SyncSpec => []OneGeneration
<1>1. SyncInv => OneGeneration
    <2> SUFFICES ASSUME SyncInv, phase # "down", NEW f \in Frontend, ~Vacant(f)
                 PROVE  \E e \in EntriesFor(applied, f) \cup EntriesFor(desired, f) :
                           PartOf(f, e)
        BY DEF OneGeneration
    <2>1. PICK id \in ServiceID :
             \/ Old(id) /\ frontendKey(applied[id]) = f
             \/ New(id) /\ frontendKey(desired[id]) = f
        BY DEF SyncInv, MapsFollow, Owned
    <2>2. CASE Old(id) /\ frontendKey(applied[id]) = f
        <3>1. applied[id] \in EntriesFor(applied, f) /\ applied[id] \in Entry
            BY <2>2 DEF EntriesFor, Old, SyncInv, Tables, EntryOf
        <3>2. AfterDeletes(applied[id], Deleted(id)) /\ Deleted(id) \in Nat
            BY <2>2 DEF SyncInv, MapsFollow, SyncTypeOK, Deleted
        <3> QED BY <2>2, <3>1, <3>2, PartEntry
    <2>3. CASE New(id) /\ frontendKey(desired[id]) = f
        <3>1. desired[id] \in EntriesFor(desired, f) /\ desired[id] \in Entry
            BY <2>3 DEF EntriesFor, New, SyncInv, Tables, EntryOf
        <3>2. AfterWrites(desired[id], Written(id)) /\ Written(id) \in Nat
            BY <2>3, <3>1, EntryTyped
               DEF SyncInv, MapsFollow, SyncTypeOK, Written
        <3> QED BY <2>3, <3>1, <3>2, PartEntry
    <2> QED BY <2>1, <2>2, <2>3
<1> QED BY <1>1, SyncInvHolds, PTL

\* No map operation of a reconcile touches the frontend of an entry that is
\* applied and desired alike.
THEOREM UnchangedUndisturbedHolds == SyncSpec => UnchangedUndisturbed
<1>1. ASSUME SyncInv, SyncNext, NEW id \in ServiceID,
             phase \in {"remove", "upsert"}, applied[id] # Absent,
             applied[id] = desired[id], phase' # "down", NEW s \in Slot
      PROVE  LET f == frontendKey(applied[id])
             IN  svc'[f] = svc[f] /\ slots'[<<f, s>>] = slots[<<f, s>>]
    <2> DEFINE f == frontendKey(applied[id])
    <2>1. Old(id) /\ f \in Frontend
        BY <1>1, EntryTyped DEF Old, SyncInv, Tables, EntryOf
    <2>2. ASSUME NEW other \in ServiceID, DeleteEntry(other) \/ UpsertEntry(other)
          PROVE  svc'[f] = svc[f] /\ slots'[<<f, s>>] = slots[<<f, s>>]
        <3>1. IsFirst(other, todo)
            BY <2>2 DEF DeleteEntry, UpsertEntry, DeleteSlot, DeleteService,
                        DeleteCursor, UpsertService, UpsertSlot
        <3>2. other # id
            BY <1>1, <3>1, CurrentEntry
        <3>3. CASE DeleteEntry(other)
            <4>1. stage = "delete"
                BY <3>3 DEF DeleteEntry, DeleteSlot, DeleteService, DeleteCursor
            <4>2. frontendKey(applied[other]) # f
                BY <1>1, <2>1, <3>1, <3>2, <4>1, CurrentFrontend
            <4>3. CASE DeleteSlot(other)
                BY <2>1, <4>2, <4>3
                   DEF DeleteSlot, SyncInv, SyncTypeOK, MapsTypeOK
            <4>4. CASE DeleteService(other)
                BY <2>1, <4>2, <4>4
                   DEF DeleteService, SyncInv, SyncTypeOK, MapsTypeOK
            <4>5. CASE DeleteCursor(other)
                BY <4>5 DEF DeleteCursor
            <4> QED BY <3>3, <4>3, <4>4, <4>5 DEF DeleteEntry
        <3>4. CASE UpsertEntry(other)
            <4>1. phase = "upsert"
                BY <3>4 DEF UpsertEntry, UpsertService, UpsertSlot
            <4>2. frontendKey(desired[other]) # f
                BY <1>1, <2>1, <3>1, <3>2, <4>1, CurrentFrontend
            <4>3. CASE UpsertService(other)
                BY <2>1, <4>2, <4>3
                   DEF UpsertService, SyncInv, SyncTypeOK, MapsTypeOK
            <4>4. CASE UpsertSlot(other)
                BY <2>1, <4>2, <4>4
                   DEF UpsertSlot, SyncInv, SyncTypeOK, MapsTypeOK
            <4> QED BY <3>4, <4>3, <4>4 DEF UpsertEntry
        <3> QED BY <2>2, <3>3, <3>4
    <2>3. CASE ~\E other \in ServiceID : DeleteEntry(other) \/ UpsertEntry(other)
        <3>1. svc' = svc /\ slots' = slots
            <4> USE DEF mapVars
            <4>1. CASE Cluster
                BY <4>1 DEF Cluster, ServiceChange, NodeChange, HostChange
            <4>2. CASE enqueue \/ runWatch \/ Drain \/ DebounceOver \/ runPoll
                BY <4>2 DEF enqueue, runWatch, Drain, DebounceOver, runPoll
            <4>3. CASE UpdateConfig \/ PlanEntries \/ RemovalsDone \/ Commit
                BY <4>3 DEF UpdateConfig, PlanEntries, RemovalsDone, Commit
            <4>4. CASE Crash \/ Start
                BY <1>1, <4>4 DEF Crash, Start
            <4> QED BY <1>1, <2>3, <4>1, <4>2, <4>3, <4>4
                    DEF SyncNext, Process, reconcile
        <3> QED BY <3>1
    <2> QED BY <2>2, <2>3
<1>2. SyncInv /\ [SyncNext]_syncVars =>
         [\A id \in ServiceID :
            (phase \in {"remove", "upsert"} /\ applied[id] # Absent
                /\ applied[id] = desired[id] /\ phase' # "down")
            => LET f == frontendKey(applied[id])
               IN  /\ svc'[f] = svc[f]
                   /\ \A s \in Slot : slots'[<<f, s>>] = slots[<<f, s>>]]_syncVars
    <2>1. ASSUME SyncInv, SyncNext, NEW id \in ServiceID,
                 phase \in {"remove", "upsert"}, applied[id] # Absent,
                 applied[id] = desired[id], phase' # "down"
          PROVE  svc'[frontendKey(applied[id])] = svc[frontendKey(applied[id])]
        <3>1. 0 \in Slot
            <4>1. applied[id] \in Entry /\ Len(applied[id].backends) \in 1 .. MaxSlots
                BY <2>1 DEF SyncInv, Tables, EntryOf
            <4> QED BY <4>1, MaxSlotsAssumption DEF Slot
        <3> QED BY <1>1, <2>1, <3>1
    <2> QED BY <1>1, <2>1
<1> QED BY <1>2, SyncInvHolds, PTL DEF SyncSpec, UnchangedUndisturbed

LEMMA AnnouncedStep == SyncInv /\ Announced /\ [SyncNext]_syncVars => Announced'
<1> SUFFICES ASSUME SyncInv, Announced, [SyncNext]_syncVars PROVE Announced'
    OBVIOUS
<1> USE DEF Announced, UpToDate, SyncInv, SyncTypeOK, mapVars, envVars, procVars
<1>1. CASE Cluster
    <2>1. ASSUME NEW id \in ServiceID, NEW b, ServiceChange(id, b)
          PROVE  Announced'
        BY <2>1 DEF ServiceChange
    <2>2. ASSUME NEW ip \in NodeIP, NodeChange(ip)
          PROVE  Announced'
        BY <2>2 DEF NodeChange
    <2>3. ASSUME NEW cfg \in HostConfig, NEW ip \in SnatIP, HostChange(cfg, ip)
          PROVE  Announced'
        BY <2>3 DEF HostChange
    <2> QED BY <1>1, <2>1, <2>2, <2>3 DEF Cluster
<1>2. CASE enqueue
    BY <1>2, ServiceIDAssumption DEF enqueue
<1>3. CASE runWatch \/ Drain \/ DebounceOver \/ runPoll
    BY <1>3 DEF runWatch, Drain, DebounceOver, runPoll
<1>4. CASE UpdateConfig
    BY <1>4 DEF UpdateConfig
<1>5. CASE PlanEntries
    <2>1. \A id \in ServiceID : UpToDate(id, desiredEntries[id])
        BY DesiredEntriesOf DEF Tables
    <2> QED BY <1>5, <2>1 DEF PlanEntries
<1>6. CASE RemovalsDone
    BY <1>6 DEF RemovalsDone
<1>7. CASE Commit
    BY <1>7 DEF Commit
<1>8. ASSUME NEW id \in ServiceID, DeleteEntry(id) \/ UpsertEntry(id)
      PROVE  Announced'
    BY <1>8 DEF DeleteEntry, UpsertEntry, DeleteSlot, DeleteService,
                DeleteCursor, UpsertService, UpsertSlot
<1>9. CASE Crash \/ Start
    BY <1>9 DEF Crash, Start
<1>10. CASE UNCHANGED syncVars
    BY <1>10 DEF syncVars
<1> QED BY <1>1, <1>2, <1>3, <1>4, <1>5, <1>6, <1>7, <1>8, <1>9, <1>10
        DEF SyncNext, Process, reconcile

\* A watch loop that waits with an empty channel has applied what the caches
\* hold: no change is lost by the bounded channel, the drain of the debounce,
\* or a reconcile that was under way.
THEOREM NoLostWakeupHolds == SyncSpec => []NoLostWakeup
<1>1. SyncInit => Announced
    BY DEF SyncInit, Announced
<1>2. Announced => NoLostWakeup
    BY DEF Announced, NoLostWakeup
<1> QED BY <1>1, <1>2, AnnouncedStep, SyncInvHolds, PTL DEF SyncSpec

=============================================================================
