----------------------------- MODULE Experiment -----------------------------
(***************************************************************************)
(* A fault-injection experiment next to the telemetry of the node that it  *)
(* watches: the script clears the shared event log, starts a collector,    *)
(* lets the fault happen, logs it as an event, copies its log to the node  *)
(* and stops the collector.  Two kinds of scripts exist.  Those that know  *)
(* how long the fault will last log it before it begins (traffic_burst.sh, *)
(* conntrack_pressure.sh, path_degradation_netem.sh); the others measure   *)
(* when it ended and log it then (map_rebuild.sh, agent_restart.sh,        *)
(* backend_rollout_restart.sh, endpointslice_churn.sh,                     *)
(* service_delete_recreate.sh).                                            *)
(***************************************************************************)
EXTENDS Telemetry

CONSTANTS
    Kinds,      \* the kinds of scripts considered: "announced", "measured"
    Duration,   \* how long an announced fault lasts
    RecoveryTail \* RECOVERY_TAIL_MS

VARIABLES
    kind,
    script,     \* the next command of the script
    eventStart, \* EVENT_START_MS
    log         \* EVENTS_FILE, the log on the machine of the script

scriptVars == <<kind, script, eventStart, log>>
expVars    == <<telVars, scriptVars>>

Goto(label) == script' = label /\ UNCHANGED kind

\* append_event
LoggedUntil(end) ==
    log' = Append(log, [start |-> eventStart', end |-> end, tail |-> RecoveryTail,
                        label |-> "fault", target |-> Target])

\* clear_shared_events
ClearEvents ==
    /\ script = "setup"
    /\ log' = <<>>
    /\ events' = <<>>
    /\ known' = <<>>
    /\ Goto("collect")
    /\ UNCHANGED <<clock, total, packets, boundVars, noteVars, collVars,
                   fileVars, histVars, eventStart>>

StartCollector ==
    /\ script = "collect"
    /\ Start
    /\ Goto("begin")
    /\ UNCHANGED <<eventStart, log>>

\* The fault begins.  When its end is known, the event is logged at once.
BeginFault ==
    /\ script = "begin"
    /\ eventStart' = clock
    /\ \/ /\ kind = "announced"
          /\ LoggedUntil(clock + Duration)
          /\ Goto("truncate")
       \/ /\ kind = "measured"
          /\ Goto("fault")
          /\ UNCHANGED log
    /\ UNCHANGED telVars

\* The command that causes the fault, and waits for its end, returns.
EndFault ==
    /\ script = "fault"
    /\ UNCHANGED eventStart
    /\ LoggedUntil(clock)
    /\ Goto("truncate")
    /\ UNCHANGED telVars

\* sync_events_to_agents: the shell empties the shared log and cat fills it.
SyncTruncate ==
    /\ script = "truncate"
    /\ events' = <<>>
    /\ known' = <<>>
    /\ Goto("copy")
    /\ UNCHANGED <<clock, total, packets, boundVars, noteVars, collVars,
                   fileVars, histVars, eventStart, log>>

SyncCopy ==
    /\ script = "copy"
    /\ events' = log
    /\ known' = [i \in 1 .. Len(log) |-> clock]
    /\ Goto("finish")
    /\ UNCHANGED <<clock, total, packets, boundVars, noteVars, collVars,
                   fileVars, histVars, eventStart, log>>

\* stop_collectors, of finalize_experiment_artifacts or, after a failed
\* command, of cleanup_experiment.
StopCollector ==
    /\ script \notin {"setup", "collect", "done"}
    /\ pc' = "down"
    /\ Goto("done")
    /\ UNCHANGED <<worldVars, boundVars, noteVars, tick, opened, index,
                   previousStats, previousBackend, windowStart, stats, win,
                   writerErr, fileVars, histVars, eventStart, log>>

ExpInit ==
    /\ TelInit
    /\ kind \in Kinds
    /\ script = "setup"
    /\ eventStart = 0
    /\ log = <<>>

Script ==
    \/ ClearEvents \/ StartCollector \/ BeginFault \/ EndFault \/ SyncTruncate
    \/ SyncCopy \/ StopCollector

Collector ==
    /\ \/ captureBaseline \/ collectWindow \/ WriteSample \/ SkipWindow
       \/ WriteRefused \/ Elapse \/ Notes
       \/ \E s \in Counter : CountPacket(s)
    /\ UNCHANGED scriptVars

ExpNext == Script \/ Collector

ExpSpec == ExpInit /\ [][ExpNext]_expVars

---------------------------------------------------------------------------
(* Properties.                                                             *)

\* "If the window overlaps the interval of an anomaly event, then
\* anomaly_active=1."
OverlapIsAnomaly ==
    \A i \in 1 .. Len(csv), k \in 1 .. Len(events) :
        (csv[i].start < events[k].end /\ events[k].start < csv[i].end)
            => csv[i].anomaly = 1

=============================================================================
