----------------------------- MODULE Telemetry -----------------------------
(***************************************************************************)
(* The telemetry of a syncer: a goroutine that takes a sample per window   *)
(* from the counters of the tc program, from what the other goroutines     *)
(* noted in the accumulator since the last window, from the applied        *)
(* entries and from the event log of the experiment, and appends it to a   *)
(* CSV file.  Every source is read at a moment of its own, and any of the  *)
(* reads, or the write, may fail.                                          *)
(***************************************************************************)
EXTENDS Integers, Sequences

CONSTANTS
    StatCount,      \* counters are 0 .. StatCount - 1, and read in this order
    Window,         \* telemetry-window, in units of the clock
    LogEvents,      \* the events that may be added to the event log
    Target,         \* the service that the telemetry is about
    MaxBackends,    \* bound: backends of the target
    MaxTime,        \* bound: the last instant of the clock
    MaxPackets,     \* bound: counter increments
    MaxNotes,       \* bound: reconciles, collector passes and events noted
    MaxEvents,      \* bound: events in the log
    MaxFaults,      \* bound: operations that fail, and kills of the process
    None            \* no value

Counter == 0 .. (StatCount - 1)

\* struct telemetryEventManifest; an empty target stands for every service.
Event == [start : Nat, end : Nat, tail : Nat, label : STRING, target : STRING]

ASSUME TelemetryAssumption ==
    /\ StatCount \in Nat \ {0}
    /\ Window \in Nat \ {0}
    /\ MaxBackends \in Nat
    /\ None \notin Nat
    /\ LogEvents \subseteq Event

Flag == {"service", "slice", "node"}
Note == {"reconciles", "upserted", "removed", "gcruns", "gcct", "gcfwd"}

\* telemetryWindowSummary
Summary == [flags : SUBSET Flag, counts : [Note -> Nat]]
NoSummary == [flags |-> {}, counts |-> [n \in Note |-> 0]]

VARIABLES
    \* The environment.
    clock,
    total,          \* nodeport_stats_map, summed over the CPUs
    packets,        \* number of increments
    events,         \* the event log: the lines of telemetry-events-file
    known,          \* known[i]: the time at which line i was in the log
    \* Bounded: notes; operations that failed and kills.
    notes, faults,
    \* What the other goroutines of the process keep.
    acc,            \* c.telemetry, the accumulator
    backends,       \* the backends of the target in c.appliedEntries
    pending,        \* those of a reconcile that was noted and not yet applied
    \* The collector.
    tick,           \* the channel of the ticker, of capacity 1
    opened,         \* when the ticker was made
    pc, index,      \* the next access of the collector
    previousStats, previousBackend, windowStart,
    stats,          \* the snapshot that is being read
    win,            \* the window that is being collected
    writerErr,      \* csv.Writer keeps the first error and refuses from then
    \* The file.
    header, csv,
    \* History.
    base,           \* previousStats when the process had its baseline
    reported,       \* the sums of the deltas in the samples it wrote
    noted, told,    \* the counts it noted, and those in the samples it wrote
    rows,           \* samples in the file when the process started
    lost,           \* what a skipped window of this process took along
    refused         \* a sample was dropped with no operation of it failing

worldVars == <<clock, total, packets, events, known>>
boundVars == <<notes, faults>>
noteVars  == <<acc, backends, pending>>
collVars  == <<tick, opened, pc, index, previousStats, previousBackend,
               windowStart, stats, win, writerErr>>
fileVars  == <<header, csv>>
histVars  == <<base, reported, noted, told, rows, lost, refused>>
telVars   == <<worldVars, boundVars, noteVars, collVars, fileVars, histVars>>

PC == {"down", "baseline", "wait", "stats", "ctcount", "fwdcount", "consume",
       "target", "label", "write"}

Zero == [s \in Counter |-> 0]

\* The labels of a window.
Labels == {e.label : e \in LogEvents} \cup {"normal"}

\* telemetrySample, and what collectWindow has of it so far.
Sample == [start : Nat, end : Nat, delta : [Counter -> Nat],
           summary : Summary, total : Nat, backendDelta : Int,
           label : Labels, anomaly : {0, 1}, recovery : {0, 1}]

NoSample == [start |-> 0, end |-> 0, delta |-> Zero,
             summary |-> NoSummary, total |-> 0, backendDelta |-> 0,
             label |-> "normal", anomaly |-> 0, recovery |-> 0]

---------------------------------------------------------------------------
(* The environment.                                                        *)

\* The ticker puts a tick into its channel, and drops it when the last one
\* has not been received.
Elapse ==
    /\ clock < MaxTime
    /\ clock' = clock + 1
    /\ tick' = IF /\ pc \notin {"down", "baseline"}
                  /\ tick = None
                  /\ (clock + 1 - opened) % Window = 0
               THEN clock + 1 ELSE tick
    /\ UNCHANGED <<total, packets, events, known, boundVars, noteVars, opened,
                   pc, index, previousStats, previousBackend, windowStart, stats, win,
                   writerErr, fileVars, histVars>>

CountPacket(s) ==
    /\ packets < MaxPackets
    /\ total' = [total EXCEPT ![s] = @ + 1]
    /\ packets' = packets + 1
    /\ UNCHANGED <<clock, events, known, boundVars, noteVars, collVars,
                   fileVars, histVars>>

\* A line is appended to the event log.
LogEvent(e) ==
    /\ Len(events) < MaxEvents
    /\ events' = Append(events, e)
    /\ known' = Append(known, clock)
    /\ UNCHANGED <<clock, total, packets, boundVars, noteVars, collVars,
                   fileVars, histVars>>

---------------------------------------------------------------------------
(* What the other goroutines note.                                         *)

Up == pc # "down"

\* The accumulator and the history after n was noted.
Add(counts, n) ==
    [x \in Note |-> counts[x] + (IF x \in DOMAIN n THEN n[x] ELSE 0)]

NoteCounts(n) ==
    /\ Up
    /\ notes < MaxNotes
    /\ notes' = notes + 1
    /\ acc' = [acc EXCEPT !.counts = Add(acc.counts, n)]
    /\ noted' = Add(noted, n)
    /\ UNCHANGED <<worldVars, faults, backends, collVars, fileVars, base,
                   reported, told, rows, lost, refused>>

\* noteServiceEvent, noteSliceEvent and noteNodeEvent, for an object that
\* concerns the target.
NoteEvent(f) ==
    /\ Up
    /\ notes < MaxNotes
    /\ notes' = notes + 1
    /\ acc' = [acc EXCEPT !.flags = acc.flags \cup {f}]
    /\ UNCHANGED <<worldVars, faults, backends, pending, collVars,
                   fileVars, histVars>>

\* The end of a reconcile of the target, which is the only service that a
\* collector looks at: it is noted first, its entries are published after.
noteReconcile(desired) ==
    /\ pending = None
    /\ NoteCounts([reconciles |-> 1,
                   upserted |-> IF desired \notin {0, backends} THEN 1 ELSE 0,
                   removed |-> IF desired = 0 /\ backends # 0 THEN 1 ELSE 0])
    /\ pending' = desired

PublishEntries ==
    /\ Up
    /\ pending # None
    /\ backends' = pending
    /\ pending' = None
    /\ UNCHANGED <<worldVars, boundVars, acc, collVars, fileVars, histVars>>

noteGC(deletedCT, deletedFwd) ==
    /\ NoteCounts([gcruns |-> 1, gcct |-> deletedCT, gcfwd |-> deletedFwd])
    /\ UNCHANGED pending

---------------------------------------------------------------------------
(* Labels.                                                                 *)

\* Mutant: a window has to lie within the event.
Contained(startA, endA, startB, endB) == startA >= startB /\ endA <= endB

rangesOverlap(startA, endA, startB, endB) == startA < endB /\ endA > startB

\* The lines that make sense, and the events that concern the target.
Sensible(e) == e.label # "" /\ e.end > e.start
loadEvents == {i \in 1 .. Len(events) : Sensible(events[i])}
OfTarget(e) == e.target \in {"", Target}

Active(e, start, end) == rangesOverlap(start, end, e.start, e.end)

Recovering(e, start, end) ==
    e.tail > 0 /\ rangesOverlap(start, end, e.end, e.end + e.tail)

\* The first event of the log that the window touches gives the label.
LabelWindow(start, end) ==
    LET hits == {i \in loadEvents :
                    /\ OfTarget(events[i])
                    /\ Active(events[i], start, end)
                          \/ Recovering(events[i], start, end)}
        first == events[CHOOSE i \in hits : \A j \in hits : i <= j]
    IN  IF hits = {} THEN [label |-> "normal", anomaly |-> 0, recovery |-> 0]
        ELSE IF Active(first, start, end)
        THEN [label |-> first.label, anomaly |-> 1, recovery |-> 0]
        ELSE [label |-> first.label, anomaly |-> 0, recovery |-> 1]

---------------------------------------------------------------------------
(* The collector.                                                          *)

\* The process starts, on the pinned maps or on new ones.  The initial
\* reconcile is over when the collector opens its file, which gets a header
\* only when it is empty.
Start ==
    /\ pc = "down"
    /\ total' \in {total, Zero}
    /\ \E n \in 0 .. MaxBackends :
          LET first == [reconciles |-> 1, upserted |-> IF n > 0 THEN 1 ELSE 0]
          IN  /\ backends' = n
              /\ acc' = [NoSummary EXCEPT !.counts = Add(NoSummary.counts, first)]
              /\ noted' = acc'.counts
    /\ pending' = None
    /\ header' = IF header = 0 THEN 1 ELSE header
    /\ pc' = "baseline"
    /\ index' = 0
    /\ tick' = None
    /\ previousBackend' = 0
    /\ stats' = Zero
    /\ win' = NoSample
    /\ writerErr' = FALSE
    /\ reported' = Zero
    /\ told' = NoSummary.counts
    /\ rows' = Len(csv)
    /\ lost' = {}
    /\ UNCHANGED <<clock, packets, events, known, boundVars, opened,
                   previousStats, windowStart, csv, base, refused>>

\* ReadStatsSnapshot reads one counter after the other.
NextStats == [stats EXCEPT ![index] = total[index]]

\* Mutant: one index too many.
ReadStatPast ==
    /\ pc \in {"baseline", "stats"}
    /\ index < StatCount
    /\ stats' = NextStats
    /\ index' = index + 1
    /\ UNCHANGED <<worldVars, boundVars, noteVars, tick, opened, pc,
                   previousStats, previousBackend, windowStart, win, writerErr,
                   fileVars, histVars>>

ReadStat ==
    /\ pc \in {"baseline", "stats"}
    /\ index < StatCount - 1
    /\ stats' = NextStats
    /\ index' = index + 1
    /\ UNCHANGED <<worldVars, boundVars, noteVars, tick, opened, pc,
                   previousStats, previousBackend, windowStart, win, writerErr,
                   fileVars, histVars>>

captureBaseline ==
    /\ pc = "baseline"
    /\ index = StatCount - 1
    /\ previousStats' = NextStats
    /\ base' = NextStats
    /\ stats' = Zero
    /\ windowStart' = clock
    /\ opened' = clock
    /\ pc' = "wait"
    /\ UNCHANGED <<worldVars, boundVars, noteVars, tick, index,
                   previousBackend, win, writerErr, fileVars, reported, noted,
                   told, rows, lost, refused>>

BeginWindow ==
    /\ pc = "wait"
    /\ tick # None
    /\ win' = [NoSample EXCEPT !.start = windowStart, !.end = tick]
    /\ tick' = None
    /\ pc' = "stats"
    /\ index' = 0
    /\ UNCHANGED <<worldVars, boundVars, noteVars, opened, previousStats,
                   previousBackend, windowStart, stats, writerErr, fileVars, histVars>>

diff(current, previous) ==
    [s \in Counter |-> IF current[s] >= previous[s]
                       THEN current[s] - previous[s] ELSE current[s]]

\* Mutant: the window before is not moved on.
DiffFromBaseline ==
    /\ pc = "stats"
    /\ index = StatCount - 1
    /\ win' = [win EXCEPT !.delta = diff(NextStats, previousStats)]
    /\ stats' = Zero
    /\ pc' = "ctcount"
    /\ UNCHANGED <<worldVars, boundVars, noteVars, tick, opened, index,
                   previousStats, previousBackend, windowStart, writerErr,
                   fileVars, histVars>>

Diff ==
    /\ pc = "stats"
    /\ index = StatCount - 1
    /\ win' = [win EXCEPT !.delta = diff(NextStats, previousStats)]
    /\ stats' = Zero
    /\ previousStats' = NextStats
    /\ pc' = "ctcount"
    /\ UNCHANGED <<worldVars, boundVars, noteVars, tick, opened, index,
                   previousBackend, windowStart, writerErr, fileVars, histVars>>

\* CountConntrackEntries and CountForwardConntrackEntries; only whether they
\* succeed is represented.
CountEntries ==
    /\ \/ pc = "ctcount" /\ pc' = "fwdcount"
       \/ pc = "fwdcount" /\ pc' = "consume"
    /\ UNCHANGED <<worldVars, boundVars, noteVars, tick, opened, index,
                   previousStats, previousBackend, windowStart, stats, win, writerErr,
                   fileVars, histVars>>

\* Mutant: the accumulator is not reset.
ConsumeKeeps ==
    /\ pc = "consume"
    /\ win' = [win EXCEPT !.summary = acc]
    /\ pc' = "target"
    /\ UNCHANGED <<worldVars, boundVars, acc, backends, pending, tick, opened,
                   index, previousStats, previousBackend, windowStart,
                   stats, writerErr, fileVars, histVars>>

consume ==
    /\ pc = "consume"
    /\ win' = [win EXCEPT !.summary = acc]
    /\ acc' = NoSummary
    /\ pc' = "target"
    /\ UNCHANGED <<worldVars, boundVars, backends, pending, tick, opened,
                   index, previousStats, previousBackend, windowStart,
                   stats, writerErr, fileVars, histVars>>

currentTelemetryTargetState ==
    /\ pc = "target"
    /\ win' = [win EXCEPT !.total = backends]
    /\ pc' = "label"
    /\ UNCHANGED <<worldVars, boundVars, noteVars, tick, opened, index,
                   previousStats, previousBackend, windowStart, stats, writerErr,
                   fileVars, histVars>>

\* The log is read, and the sample is complete.
Label ==
    LET l == LabelWindow(win.start, win.end)
    IN  /\ pc = "label"
        /\ win' = [win EXCEPT !.label = l.label, !.anomaly = l.anomaly,
                              !.recovery = l.recovery,
                              !.backendDelta = win.total - previousBackend]
        /\ previousBackend' = win.total
        /\ pc' = "write"
        /\ UNCHANGED <<worldVars, boundVars, noteVars, tick, opened, index,
                       previousStats, windowStart, stats, writerErr, fileVars,
                       histVars>>

\* Mutant: the window start is not moved on.
WriteKeepsStart ==
    /\ pc = "write"
    /\ ~writerErr
    /\ csv' = Append(csv, win)
    /\ win' = NoSample
    /\ pc' = "wait"
    /\ reported' = [s \in Counter |-> reported[s] + win.delta[s]]
    /\ told' = Add(told, win.summary.counts)
    /\ UNCHANGED <<worldVars, boundVars, noteVars, tick, opened, index,
                   previousStats, previousBackend, windowStart, stats,
                   writerErr, header,
                   base, noted, rows, lost, refused>>

WriteSample ==
    /\ pc = "write"
    /\ ~writerErr
    /\ csv' = Append(csv, win)
    /\ windowStart' = win.end
    /\ win' = NoSample
    /\ pc' = "wait"
    /\ reported' = [s \in Counter |-> reported[s] + win.delta[s]]
    /\ told' = Add(told, win.summary.counts)
    /\ UNCHANGED <<worldVars, boundVars, noteVars, tick, opened, index,
                   previousStats, previousBackend, stats, writerErr, header,
                   base, noted, rows, lost, refused>>

\* What a window that is given up here takes along: what was taken out of its
\* source and is in no sample.
TakenAlong ==
    IF pc \in {"label", "write"} THEN {"delta", "notes"}
    ELSE IF pc \in {"ctcount", "fwdcount"} THEN {"delta"} ELSE {}

\* A lookup, an iteration, the log or the write fails: the window is skipped.
\* The writer keeps an error of its own.
SkipWindow ==
    /\ pc \in {"stats", "ctcount", "fwdcount", "label", "write"}
    /\ faults < MaxFaults
    /\ faults' = faults + 1
    /\ writerErr' = (writerErr \/ pc = "write")
    /\ windowStart' = win.end
    /\ stats' = Zero
    /\ win' = NoSample
    /\ pc' = "wait"
    /\ lost' = lost \cup TakenAlong
    /\ UNCHANGED <<worldVars, notes, noteVars, tick, opened, index,
                   previousStats, previousBackend, fileVars, base,
                   reported, noted, told, rows, refused>>

\* A writer that failed once refuses every later sample.
WriteRefused ==
    /\ pc = "write"
    /\ writerErr
    /\ windowStart' = win.end
    /\ win' = NoSample
    /\ pc' = "wait"
    /\ lost' = lost \cup TakenAlong
    /\ refused' = TRUE
    /\ UNCHANGED <<worldVars, boundVars, noteVars, tick, opened, index,
                   previousStats, previousBackend, stats, writerErr, fileVars,
                   base, reported, noted, told, rows>>

\* The process is stopped, killed, or ended by an error (of the baseline, or
\* of another goroutine).
Kill ==
    /\ Up
    /\ faults < MaxFaults
    /\ faults' = faults + 1
    /\ pc' = "down"
    /\ tick' = None
    /\ stats' = Zero
    /\ win' = NoSample
    /\ acc' = NoSummary
    /\ pending' = None
    /\ UNCHANGED <<worldVars, notes, backends, opened, index, previousStats,
                   previousBackend, windowStart, writerErr, fileVars, histVars>>

collectWindow ==
    \/ BeginWindow \/ ReadStat \/ Diff \/ CountEntries \/ consume
    \/ currentTelemetryTargetState \/ Label

runTelemetry ==
    \/ Start \/ captureBaseline \/ collectWindow \/ WriteSample \/ SkipWindow
    \/ WriteRefused

Notes ==
    \/ \E f \in Flag : NoteEvent(f)
    \/ \E n \in 0 .. MaxBackends : noteReconcile(n)
    \/ PublishEntries
    \/ \E d, f \in {0, 1} : noteGC(d, f)

TelInit ==
    /\ clock = 0 /\ total = Zero /\ packets = 0 /\ events = <<>> /\ known = <<>>
    /\ notes = 0 /\ faults = 0
    /\ acc = NoSummary /\ backends = 0 /\ pending = None
    /\ tick = None /\ opened = 0 /\ pc = "down" /\ index = 0
    /\ previousStats = Zero /\ previousBackend = 0 /\ windowStart = 0
    /\ stats = Zero /\ win = NoSample /\ writerErr = FALSE
    /\ header = 0 /\ csv = <<>>
    /\ base = Zero /\ reported = Zero /\ noted = NoSummary.counts
    /\ told = NoSummary.counts /\ rows = 0 /\ lost = {} /\ refused = FALSE

TelNext ==
    \/ Elapse
    \/ \E s \in Counter : CountPacket(s)
    \/ \E e \in LogEvents : LogEvent(e)
    \/ Notes
    \/ runTelemetry
    \/ Kill

TelSpec == TelInit /\ [][TelNext]_telVars

---------------------------------------------------------------------------
(* Properties.                                                             *)

\* The types of the variables; a sample holds counts and never a counter
\* beyond the last one.
TelTypeOK ==
    /\ clock \in Nat /\ total \in [Counter -> Nat] /\ packets \in Nat
    /\ Len(events) = Len(known)
    /\ notes \in Nat /\ faults \in Nat
    /\ acc \in Summary /\ backends \in Nat /\ pending \in Nat \cup {None}
    /\ tick \in Nat \cup {None} /\ opened \in Nat /\ pc \in PC
    /\ index \in Counter
    /\ previousStats \in [Counter -> Nat] /\ previousBackend \in Nat
    /\ windowStart \in Nat /\ stats \in [Counter -> Nat]
    /\ win \in Sample /\ writerErr \in BOOLEAN
    /\ header \in {0, 1} /\ csv \in Seq(Sample)
    /\ base \in [Counter -> Nat] /\ reported \in [Counter -> Nat]
    /\ noted \in [Note -> Nat] /\ told \in [Note -> Nat] /\ rows \in Nat
    /\ lost \subseteq {"delta", "notes"} /\ refused \in BOOLEAN

Running == pc \notin {"down", "baseline"}

\* The delta of the window in progress, once it is taken.
DeltaInHand(s) ==
    IF pc \in {"ctcount", "fwdcount", "consume", "target", "label", "write"}
    THEN win.delta[s] ELSE 0

\* The deltas of the samples add up to what the counters did between the
\* baseline and the last snapshot: nothing is counted twice, also not by the
\* window after one that failed, and nothing is left out unless a window was
\* given up after its snapshot had become the new base.
DeltasTelescope ==
    Running =>
        \A s \in Counter :
            LET sum == reported[s] + DeltaInHand(s)
            IN  /\ sum <= previousStats[s] - base[s]
                /\ "delta" \notin lost => sum = previousStats[s] - base[s]

NoteInHand(n) ==
    IF pc \in {"target", "label", "write"} THEN win.summary.counts[n] ELSE 0

\* Every reconcile and every deletion that was noted is in exactly one sample,
\* or waits for the next one, however the notes interleave with a window that
\* is being collected; only a window given up after it had consumed the
\* accumulator takes its notes along.
NotesConserved ==
    Running =>
        \A n \in Note :
            LET sum == told[n] + acc.counts[n] + NoteInHand(n)
            IN  /\ sum <= noted[n]
                /\ "notes" \notin lost => sum = noted[n]

\* The windows in the file follow each other and never overlap, through
\* dropped ticks, skipped windows and restarts of the process.
WindowsDisjoint ==
    /\ \A i \in 1 .. Len(csv) : csv[i].start < csv[i].end
    /\ \A i, j \in 1 .. Len(csv) : i < j => csv[i].end <= csv[j].start

\* A window that overlaps an event which was in the log before the window
\* ended, on a line that makes sense, does not count as normal.
KnownEventLabelled ==
    \A i \in 1 .. Len(csv), k \in 1 .. Len(events) :
        LET e == events[k]
        IN  (/\ k \in loadEvents
             /\ OfTarget(e)
             /\ known[k] < csv[i].end
             /\ csv[i].start < e.end /\ e.start < csv[i].end)
            => csv[i].anomaly + csv[i].recovery = 1

\* "A failure of a single window is degraded: log it and skip that window":
\* a later window of which no operation fails gets into the file.
FailureSkipsOneWindow == ~refused

=============================================================================
