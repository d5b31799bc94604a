---------------------------- MODULE ConntrackGC ----------------------------
(***************************************************************************)
(* The conntrack garbage collector of conntrack_gc.go.  Every watch-mode   *)
(* syncer runs one (the agent's and, during an experiment, the collector   *)
(* next to it), so there may be several on the same maps.  A pass iterates *)
(* the conntrack map key by key, then the forward map, plans from the two  *)
(* copies and deletes by key, while packets go on.                         *)
(***************************************************************************)
EXTENDS PinnedMaps

CONSTANTS
    Reaper,     \* the running collectors
    Timeout,    \* ct-entry-timeout
    MaxFaults   \* bound: times that a pass ends in an error or a kill

ASSUME TimeoutAssumption == Timeout \in Nat

VARIABLES
    gc,         \* gc[r]: the state of collector r
    faults      \* passes that were cut short

gcVars == <<gc, faults>>

Idle == [pc |-> "idle", now |-> 0, ctTodo |-> {},
         ctEntries |-> [k \in CtKey |-> Absent], fwdTodo |-> {},
         fwdKeys |-> {}, staleCT |-> {}, staleFwd |-> {}]

GCState == [pc : {"idle", "iterct", "iterfwd", "delete", "down"}, now : Nat,
            ctTodo : SUBSET CtKey, ctEntries : [CtKey -> CtVal \cup {Absent}],
            fwdTodo : SUBSET Flow, fwdKeys : SUBSET Flow,
            staleCT : SUBSET CtKey, staleFwd : SUBSET Flow]

GCInit ==
    /\ gc = [r \in Reaper |-> Idle]
    /\ faults = 0

\* Mutant: an entry exactly as old as the timeout expires.
ExpiredEarly(nowMono, lastSeen, timeout) ==
    /\ timeout # 0
    /\ nowMono > lastSeen
    /\ nowMono - lastSeen >= timeout

\* Mutant: the two times are swapped.
ExpiredSwapped(nowMono, lastSeen, timeout) ==
    /\ timeout # 0
    /\ lastSeen > nowMono
    /\ lastSeen - nowMono > timeout

conntrackExpired(nowMono, lastSeen, timeout) ==
    /\ timeout # 0
    /\ nowMono > lastSeen
    /\ nowMono - lastSeen > timeout

\* buildConntrackGCPlan: the keys to delete, given the two copies.
StaleCT(nowMono, ctEntries) ==
    {k \in CtKey : /\ ctEntries[k] # Absent
                   /\ conntrackExpired(nowMono, ctEntries[k].seen, Timeout)}

ActiveFwd(nowMono, ctEntries) ==
    {ctEntries[k].flow : k \in {x \in CtKey :
        ctEntries[x] # Absent /\ x \notin StaleCT(nowMono, ctEntries)}}

\* Mutant: orphaned forward entries are not looked for.
StaleFwdNoOrphans(nowMono, ctEntries, fwdKeys) ==
    {ctEntries[k].flow : k \in StaleCT(nowMono, ctEntries)}

StaleFwd(nowMono, ctEntries, fwdKeys) ==
    {ctEntries[k].flow : k \in StaleCT(nowMono, ctEntries)}
    \cup (fwdKeys \ ActiveFwd(nowMono, ctEntries))

\* The ticker of runConntrackGC fires; with a timeout of 0 there is no GC.
StartPass(r) ==
    /\ Timeout > 0
    /\ gc[r].pc = "idle"
    /\ gc' = [gc EXCEPT ![r] = [Idle EXCEPT !.pc = "iterct", !.now = now,
                                            !.ctTodo = Entries(ct)]]
    /\ UNCHANGED <<mapVars, faults>>

\* An iteration returns the keys that were there from its start, with the
\* value found when the cursor reaches them, and may or may not return keys
\* that are inserted meanwhile.
IterateCT(r, k) ==
    /\ gc[r].pc = "iterct"
    /\ k \in gc[r].ctTodo \/ (ct[k] # Absent /\ gc[r].ctEntries[k] = Absent)
    /\ gc' = [gc EXCEPT ![r].ctTodo = gc[r].ctTodo \ {k},
                        ![r].ctEntries = [gc[r].ctEntries EXCEPT ![k] = ct[k]]]
    /\ UNCHANGED <<mapVars, faults>>

IterateCTEnd(r) ==
    /\ gc[r].pc = "iterct"
    /\ gc[r].ctTodo = {}
    /\ gc' = [gc EXCEPT ![r].pc = "iterfwd", ![r].fwdTodo = Entries(fwd)]
    /\ UNCHANGED <<mapVars, faults>>

IterateFwd(r, fl) ==
    /\ gc[r].pc = "iterfwd"
    /\ fl \in gc[r].fwdTodo \/ (fwd[fl] # Absent /\ fl \notin gc[r].fwdKeys)
    /\ gc' = [gc EXCEPT ![r].fwdTodo = gc[r].fwdTodo \ {fl},
                        ![r].fwdKeys = IF fwd[fl] # Absent
                                       THEN gc[r].fwdKeys \cup {fl}
                                       ELSE gc[r].fwdKeys]
    /\ UNCHANGED <<mapVars, faults>>

Plan(r) ==
    LET g == gc[r]
    IN  /\ g.pc = "iterfwd"
        /\ g.fwdTodo = {}
        /\ gc' = [gc EXCEPT ![r] =
                     [Idle EXCEPT !.pc = "delete", !.now = g.now,
                        !.staleCT = StaleCT(g.now, g.ctEntries),
                        !.staleFwd = StaleFwd(g.now, g.ctEntries, g.fwdKeys)]]
        /\ UNCHANGED <<mapVars, faults>>

DeleteCT(r, k) ==
    /\ gc[r].pc = "delete"
    /\ k \in gc[r].staleCT
    /\ ct' = [ct EXCEPT ![k] = Absent]
    /\ gc' = [gc EXCEPT ![r].staleCT = gc[r].staleCT \ {k}]
    /\ UNCHANGED <<svc, slots, rr, config, fwd, snatNext, now, faults>>

DeleteFwd(r, fl) ==
    /\ gc[r].pc = "delete"
    /\ gc[r].staleCT = {}
    /\ fl \in gc[r].staleFwd
    /\ fwd' = [fwd EXCEPT ![fl] = Absent]
    /\ gc' = [gc EXCEPT ![r].staleFwd = gc[r].staleFwd \ {fl}]
    /\ UNCHANGED <<svc, slots, rr, config, ct, snatNext, now, faults>>

EndPass(r) ==
    /\ gc[r].pc = "delete"
    /\ gc[r].staleCT = {} /\ gc[r].staleFwd = {}
    /\ gc' = [gc EXCEPT ![r] = Idle]
    /\ UNCHANGED <<mapVars, faults>>

\* An aborted iteration or a failed delete ends the process, a kill does so
\* between any two steps.
Abort(r) ==
    /\ faults < MaxFaults
    /\ gc[r].pc # "down"
    /\ gc' = [gc EXCEPT ![r] = [Idle EXCEPT !.pc = "down"]]
    /\ faults' = faults + 1
    /\ UNCHANGED mapVars

\* The process is started again on the same pinned maps.
Restart(r) ==
    /\ gc[r].pc = "down"
    /\ gc' = [gc EXCEPT ![r] = Idle]
    /\ UNCHANGED <<mapVars, faults>>

\* A step of a pass.
ReapConntrack(r) ==
    \/ StartPass(r)
    \/ \E k \in CtKey : IterateCT(r, k)
    \/ IterateCTEnd(r)
    \/ \E fl \in Flow : IterateFwd(r, fl)
    \/ Plan(r)
    \/ \E k \in CtKey : DeleteCT(r, k)
    \/ \E fl \in Flow : DeleteFwd(r, fl)
    \/ EndPass(r)

GCNext == \E r \in Reaper : ReapConntrack(r) \/ Abort(r) \/ Restart(r)

=============================================================================
