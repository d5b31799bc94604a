# A verification project for the eBPF NodePort load balancer

The repository replaces kube-proxy's NodePort handling on a node by a tc/eBPF
program, keeps the program's maps in step with the cluster from a Go syncer,
runs telemetry and fault-injection experiments on top, and turns their results
into data sets, models and tables. This directory holds TLA+ modules that model its core, TLC configurations that check them on small
instances, and TLAPS proofs for every size of them.

## The system

| Component | Code | State | Operations |
|---|---|---|---|
| tc program | `nodeport_tc.c` | the pinned maps: service, backend, round-robin, config, conntrack, forward conntrack, SNAT port, per-CPU counters | one program run per packet, on all CPUs at once |
| conntrack collector | `cmd/nodeport-syncer/conntrack_gc.go` | none beyond a pass: two copies of maps and a plan | a pass: iterate, iterate, plan, delete, delete |
| map syncer | `cmd/nodeport-syncer/main.go` | informer caches, trigger channel, `appliedEntries`, `appliedConfig` | event handlers, watch loop with debounce, poll loop, reconcile, oneshot |
| backend selection | `main.go` `desiredEntries` ... `eligibleEndpoint` | none (pure) | EndpointSlices and Services to map entries |
| telemetry | `telemetry*.go` | window accumulator, counter baseline, output file | a sample per window, with a label from the event log |
| node agent | `cmd/nodeport-agent/main.go` | a child process | clean up, attach, run the syncer, clean up |
| tc control | `internal/tcctl` | qdiscs, filters, pinned maps | attach, cleanup |
| environment detection | `internal/envdetect` | none | cluster facts and routes to interfaces |
| experiment drivers | `experiments/*.sh` | collectors, event log, netem rules | start, stop and restart collectors, inject faults |
| dataset construction | `scripts/phase3_*.py` | `raw_index.csv`, `windows_*.csv`, `splits.json`, reports, manifest | build, split, report |
| training and evaluation | `scripts/phase4_train_baselines.py`, `phase6_run_*.py` | metrics, predictions, manifests, a model directory per run | train, ablation, generalization |
| paper assets | `scripts/phase*_export_paper_assets.py` | copies of sources, tables, figures, READMEs | one export per phase |
| overhead matrix | `experiments/phase5_run_matrix.sh`, `scripts/phase5_http_bench.py` | raw files per scenario; threads, rows, connections | run the scenarios, benchmark, export |

The parts meet in the pinned maps. The tc program reads the service, backend
and config maps and writes the connection maps; a syncer writes the former in
single map operations, with the data plane reading in between; every watch-mode
syncer also runs a collector that deletes from the connection maps. The agent
decides which maps exist at all: it removes the pinned maps and loads the
program anew whenever it starts. There is no lock anywhere between these
parts: a map operation is atomic, a sequence of them is not. That is where the
hard behaviours are:

- the allocation of a SNAT port and the round-robin choice are a read and a
  write of a map, run by several CPUs at once;
- a connection is two entries in two maps, installed, refreshed, undone and
  deleted separately, by several CPUs and collectors, and either map may be
  full;
- a collector plans from copies taken at different times and deletes by key
  without looking again; it may be killed between any two deletes;
- a reconcile is many map operations, any of which may fail, and its plan is
  made from caches that go on changing; triggers are dropped when the channel
  is full and drained by the debounce;
- the process dies on the first error and is started again on new maps;
- a telemetry window reads five sources at five moments, any of which may fail
  after an earlier one was consumed;
- the agent's filters and pins outlive the agent, and the interfaces it chose
  may be others at the next start.

The scripts share nothing but files. Each reads what earlier ones left, computes,
and overwrites its output files one after the other; nothing is ever rolled back:

- a script that raises or is stopped half way leaves new files beside old ones,
  and the next script reads both;
- scripts may be started again in any order, on another selection of
  experiments, or after a training that failed;
- the same choice (the best model) is made by two scripts from differently
  ordered data;
- the threads of the benchmark look at a clock that goes on between two looks,
  and main waits for all of them.

What makes each part correct:

- *tc program*: an answer goes back to the client whose request it answers; a
  request side entry is useless without its reverse entry; a connection keeps
  its backend; the counters the telemetry is built from account for every
  packet.
- *collector*: it takes only what was idle, it takes that eventually, and
  nothing half deleted stays.
- *telemetry*: what the counters and the other goroutines did is in exactly one
  window; windows do not overlap; a fault that is known labels its windows.
- *agent*: the program that runs on the node's interfaces and the syncer use the
  same maps; what a dead agent left neither runs nor stops its successor.
- *backend selection*: a nodePort is served by the ready pods of its own port,
  and the same caches give the same entries.
- *dataset*: no experiment is both trained and tested on, every label is trained
  on, and a report without errors means what it says.
- *training, evaluation, assets*: a manifest names a whole directory; the two
  models of an evaluation, and the copies, tables and figures of an export, are
  of one run; the row of the best family shows the best model.
- *overhead matrix*: the benchmark ends, counts exactly the requests that began in
  the measurement, and is paired with the CPU time of the same run.
- *syncer*: the maps become what the cluster asks for and, at every single map
  operation on the way, a lookup sees one generation of a frontend; frontends
  that did not change are not touched.

## Modules

| Module | Models |
|---|---|
| `PinnedMaps` | the maps and their capacity, shared by all other modules |
| `NodePortTC` | the tc program; one action per map access, on every CPU |
| `ConntrackGC` | the passes of the collectors, key by key |
| `Conntrack` | composition: tc program and collectors on the same maps |
| `Syncer` | caches, handlers, trigger channel, debounce, reconcile, crash and restart |
| `Endpoints` | `desiredEntries` over caches that change: services, slices, nodes |
| `Telemetry` | accumulator, counter snapshots, windows, labels, CSV writer, ticker |
| `Experiment` | composition: a fault-injection script and the telemetry of a node |
| `Agent` | agent, `tcctl`, `envdetect` on a node whose interfaces change |
| `Publication` | abstract: what a directory whose manifest is written last promises |
| `Batch` | how a script runs: launch, one step per output file, kill |
| `Dataset` | `phase3_build_dataset.py`, `phase3_split_dataset.py`, `phase3_dataset_report.py` |
| `Baselines` | `phase4_train_baselines.py`, `phase6_run_ablation.py`, `phase6_run_generalization.py` |
| `PaperAssets` | the three export scripts |
| `HttpBench` | the threads of `phase5_http_bench.py` |
| `Overhead` | composition: `phase5_run_matrix.sh`, the benchmark, the export |
| `Pipeline` | composition: an operator who runs all scripts, and the matrix |
| `NodePortTCProofs`, `ConntrackProofs`, `SyncerProofs`, `TelemetryProofs`, `AgentProofs`, `EndpointsProofs`, `HttpBenchProofs`, `PipelineProofs` | the theorems about the module of that name and their proofs |
| `MCNodePortTC`, `MCConntrack`, `MCSyncer`, `MCEndpoints`, `MCTelemetry`, `MCExperiment`, `MCAgent`, `MCPipeline` | the constants of the runs |

Two groups of modules are composed: `PinnedMaps` below `NodePortTC`,
`ConntrackGC`, `Conntrack` and `Syncer`; and `Batch` < `Dataset` < `Baselines` <
`PaperAssets`, with `HttpBench`, below `Overhead` and `Pipeline`.

**PinnedMaps.** A map is a total function with the value `Absent` for a missing
key, and one helper call is one step. A key that the code builds of addresses,
ports and the protocol is a tuple of model values: a client is an address and
port, a frontend a node address and nodePort, a backend an address, port and
node address. `HasRoom` is the failure of an update of a full hash map.

**NodePortTC.** `pc[c]` names the map access that the program on CPU `c` will do
next and `reg[c]` holds its locals, so that everything between two accesses is
one step. `handle_response` is `ResponseLookup*`, `ResponseRefresh` and
`RewriteResponse`; `handle_request` runs from `ServiceLookup*` over
`ForwardLookup*`, `select_backend` (`NoBackends`, `ReadRr`, `BackendLookup*`,
`WriteRr`), `allocate_snat_port` (`ReadSnat`, `WriteSnat`) and the installation
of the two entries (`InstallCt` ... `UndoCt`) to `RewriteRequest`. A failure of
a rewriting helper may happen to any packet (`RewriteFail`). The control plane
is any single write that a syncer could do (`ControlPlane`), in any order, so
what is shown of the data plane does not rest on the syncer. Four history
variables serve the properties and the environment, no action of the code reads
them: `owner` (the first flow that installed a conntrack key), `reused` (some
key was installed twice), `sent` and `replies`.

**ConntrackGC.** An iteration of a BPF hash map returns what was there all the
time with the value of the moment, and may or may not return what is inserted
meanwhile. `Plan` is `buildConntrackGCPlan`. `Abort` is an error (which ends
the process) or a kill; `Restart` runs a new process on the same maps.

**Syncer.** `cache` is what `desiredEntries` would return for each service but
for the node address and the SNAT address: the backends of its endpoint slices.
A change reaches the cache first and the handlers later (`notifs`). `reconcile`
is taken apart into its map operations: `UpdateConfig`, `PlanEntries`, then for
each removed identifier `DeleteEntry` (slot by slot, service, cursor), then for
each changed one `DeleteEntry` of the old and `UpsertEntry` of the new (service,
then slots), in sorted order, and `Commit`. A failing operation is `log.Fatalf`:
`Crash`, after which the agent's container is restarted with new maps (`Start`).

**Endpoints.** `collectBackends`, `matchingSlicePorts`, `eligibleEndpoint` and
`firstIPv4Address` are operators of the same names; addresses are numbers, so
that the sort has an order. A candidate is a place in the listing (slice, endpoint,
port; `Candidates`), deduplication keeps the first place of each address and
port (`Deduplicated`), and the sorted sequence is given by the number of candidates
that come before one (`Sorted`). `Reconcile(listing)` lists the slices in an
arbitrary order, as an informer's cache does.

**Telemetry.** The collector is one sequence of steps, named by `pc`:
`ReadStat` per counter, `Diff`, `CountEntries`, `consume`,
`currentTelemetryTargetState`, `Label`, `WriteSample`. `Elapse` is the clock and
the ticker, whose channel holds one tick. `SkipWindow` is a failure at any of the
steps that can fail; what was already consumed is gone with it (`TakenAlong`,
`lost`). `writerErr` is the error that the `bufio.Writer` under `csv.Writer`
keeps. `noteReconcile` and `PublishEntries` are two steps because the code notes
a reconcile before it publishes its entries. Two runs of the process may follow
each other on the same file (`Kill`, `Start`). `base`, `reported`, `noted`,
`told`, `known` and `refused` are history.

**Experiment.** The script of `experiments/*.sh` as a sequence of commands beside
the collector. `sync_events_to_agents` is two steps: the shell truncates the log,
`cat` fills it.

**Agent.** `Attach` and `Cleanup` are sets of commands that carry their place in the
order (`todo`); a step does one that no other precedes (`RunCommand`), or it fails (`CommandFails`: `log.Fatalf`, which
skips the deferred clean-up). A failure after the effect of a command is the
failure of the next command, or a kill. A syncer may also end without an error
(`SyncerEnds`), as one in the mode `oneshot` does: the agent cleans up as after a signal. Programs are numbered as they are loaded
and share the number with their maps. `Detect` is
`envdetect.Detect` over what the routes and interfaces of the node say at the
moment of the start.

**Batch.** `fs` maps each output file to its content. `Launch` is everything a
script does before it opens its first output: one script runs at a time, so
reading all inputs at once is what the code does, step for step. `job.left` is
what it has still to write; `WriteFile` is one file, `Kill` the death of the
script in it. `Torn` says what a cut file holds: windows files are longer than
the write buffer and lose their end; a short file is empty until it is closed,
and neither an empty nor a cut JSON file can be parsed. A script that raises
before its first write changes nothing and is not launched; one that raises
later has fewer writes and `ok` FALSE. `dirty` remembers the scripts whose last
launch did not come to its end.

**Dataset, Baselines, PaperAssets.** For each script an operator of the files
(`Build`, `Split`, `Report`, `Train`, `Ablation`, `Generalization`,
`Phase4Export`, `Phase6Export`, `Phase5Export`) gives the sequence of writes.
Contents carry what the properties tell apart: the launch (`stamp`) that wrote
them, the launches of the inputs they were computed from, and rows, assignments,
columns and chosen models as far as a script decides by them. A window keeps
its experiment, label, recovery flag, split and whether it is malformed. What a
model scores is an input (`scores`); which candidate `max` then returns, in
which order the candidates are looked at, which columns, splits and model files
are used, and which inputs make pandas or scikit-learn raise (`Trainable`,
`ScoresForAllLabels`, `Evaluable`) is what the code does. Files of one kind that
are written next to each other (val and test predictions, the two confusion
matrices) are one file.

**HttpBench.** `thread[w]` is the program counter and the locals of a thread. The
clock is read by the loop condition (`CheckDeadline`) and again for `current`
(`Send`); it may go on in between. `Drip` is a piece of an answer that
comes in time and is not the last: the thread then reads (`"read"`) as long as the
server goes on. `Receive` is the end of an answer or an exception, which
closes the connection. `sent` and `sockets` are history: what an observer of the
network would count.

**Overhead, Pipeline.** `matrix` is the shell script: remove the raw directory,
prepare, run the benchmark, write the summaries, next scenario, export; it may
fail anywhere (`FailExperiment`). `Pipeline` adds the operator: `Session` says
which scripts have run before, how often each may still be started, and which
selections, artifacts and scores are possible. `Kill` and `FailExperiment` share
the bound `MaxKills`.

**Publication.** The abstract specification of a directory with a manifest: it is
whole only from the moment the running launch publishes it until a file is
overwritten, and a manifest that can be read names an earlier launch. Four
instances of it, for the data set, the split, the ablation and the
generalization, are refined by `Pipeline` (`PublishesWhole`). The results of
phase 4 are deliberately not among them: training writes its manifest before the
models and after the metrics, so its manifest promises nothing about either.

## Runs

| Run | Instance | Shows |
|---|---|---|
| `tc_concurrent` | 2 CPUs, 2 clients, 2 backends, 2 SNAT ports, 3 packets, 1 control-plane write, 1 clock tick | the five properties of the data plane below |
| `reply_race` | the same with room in all maps and no writes | a finding: an answer can be restored to another client |
| `conntrack_gc` | 1 CPU, 2 clients, room for 1 entry in each connection map, a collector, 3 packets, clock 0..2, timeout 1, 1 kill, fair | the collector takes only what was idle; isolation and distinct ports with it running; expired entries and orphaned forward entries go, also after a kill |
| `pin_broken` | 2 backends, a collector | a finding: a pass can unpin a connection that is active |
| `syncer` | 3 services on 2 nodePorts, none or one of them there at first, 2 node addresses, 2 SNAT addresses, 2 configs, 2 changes, 1 crash, both modes, fair | tables, generations, wake-ups, undisturbed entries, convergence |
| `endpoints` | 2 slices of 13 kinds, 3 kinds of services, 2 nodes, an address given to a pod of the other node, 2 changes | selection and stability of backends |
| `telemetry` | 2 counters, 3 windows, 1 packet, 1 note, 1 event, 1 failure or kill | what a window counts and how it is labelled |
| `writer_sticky` | the same without traffic | a finding: one failed write ends the recording |
| `late_labels` | a script that measures its fault, 6 instants, windows of 2 | a finding: the windows of the fault are normal |
| `agent` | 4 interfaces, 3 configurations, 3 sets of routes, 2 changes, 2 failures or signals, fair | service, clean-up and recovery of agents |
| `pipeline` | 6 sessions, 6 experiments of 2 faults (6 kinds of irregular ones), 3 outcomes of training, 2 threads, 2 scenarios, 1 kill, fair | splits, reports, models, exports, manifests, benchmark and matrix |
| `best_tested` | a first training and its export, 3 outcomes | a finding: the best model's test metrics are not in the table |

Properties of the data plane: `StatsBalance` (at each stage, the packets that entered are
the packets that left it one way or another, plus the one in flight; the
telemetry's ratios are built on these sums); `ReplyIsolation` (as long as no conntrack key was
installed twice, an answer is restored to the flow that it answers, whatever
the maps did meanwhile); `ForwardHasReverse` (without a collector, a forward
entry has its reverse entry, also when either map is full, an installation is
undone, or two CPUs install the same flow; again as long as no key is installed
twice); `PinnedForGood` (without a collector, the backend, SNAT port and
interface of a flow whose packets one CPU receives never change again, whatever
the control plane writes; two CPUs that both miss the entry may replace it). `SerialPortsDistinct` says that the allocation gives distinct
ports to the connections of one CPU until the range wraps.

Properties of the telemetry: `DeltasTelescope` (the deltas in the file add up to
the change of the counters since the baseline; exactly, unless a window was
given up after its snapshot had become the new base, and never to more),
`NotesConserved` (the same for reconciles and deletions), `WindowsDisjoint`,
`KnownEventLabelled` (a window that overlaps an event that was in the log
before the window ended is not normal). Properties of the agent: `OneDataPlane`,
`GracefulExitClean`, `ServesAgain`. Properties of the backend selection:
`ServesItsOwnPort`, `StableWhileUnchanged` and, in `EndTypeOK`, that no backend
counts twice in the round robin.

Properties of the collector: `ReapOnlyIdle`, `ExpiredEntryReaped`,
`OrphanForwardReaped`. Properties of the syncer: `TableMatchesApplied`,
`OneGeneration`, `UnchangedUndisturbed`, `NoLostWakeup`, `Converges`.

Properties of the scripts, at every step of every session: `SplitsDisjoint` (no
experiment in two of the files a model is trained, chosen and tested on),
`EveryPrimaryTrained` (each primary label, the first fault of an experiment or none, is
trained on; if two experiments have it one is tested on, if three one is chosen on; of
a second fault in an experiment it says nothing, and such a fault may be in val or test
alone, where training then ends early), `ReportHolds` (while index and windows are those
that a report without errors has seen, each included experiment with a fault has
windows of it and of the recovery; without warnings each fault is in the val and
the test file), `PublishesWhole` (the refinement above), `ModelsPaired` (the two
models of a generalization are of one training), `ExportsOfOneRun` (copies, tables
and figures of an export are of the same files; those are of one training, or of
one generalization and one ablation, as long as that is the last that came to its
end; a generalization or an ablation does not fail half way, so that without a kill
an export of phase 6 is always of one),
`BestFamilyRow` (the row of the best model's family scores as well as it on the
validation windows), `OverheadPaired` (a row of the exported matrix has throughput
and CPU time of one run). Of the benchmark: `LateRows` (each row began in the
measurement and a thread has at most one that ended after it),
`EveryRequestCounted` (when the threads are joined, the list is every request that
began in the measurement, failed ones too, and no connection is open), `BenchEnds`
(the benchmark ends, also when the server is silent, as long as no answer that has
begun goes on for ever).

### Five findings

1. *Shared SNAT port.* `allocate_snat_port` and `select_backend` read and write
   their maps without a lock. Two CPUs that see the first packets of two clients
   at the same time may choose the same backend and port, and the second
   installation overwrites the first: the answer for one client is rewritten to
   the other (`reply_race`). `ReplyIsolation` is the positive half: this reuse is
   the only way.
2. *Unpinned connection.* A collector copies the conntrack map before the
   forward map. A connection that is installed in between looks like an orphan
   and loses its forward entry; its next packet goes to another backend
   (`pin_broken`).

3. *Sticky writer.* `runTelemetry` treats a failed write as the loss of one window,
   but the writer it keeps using refuses everything after its first error: all
   later windows are lost (`writer_sticky`).
4. *Late labels.* Scripts that measure when their fault ended log it then, and the
   collector has labelled the windows of the fault by that time: only those of
   the recovery tail carry the label (`late_labels`). Scripts that announce the
   fault (`traffic_burst.sh`) have the events in the log at once.

5. *Untested best row.* Training keeps the first of equal candidates in the order
   in which it fitted them and evaluates that one on the test split; the export
   reads the candidates back in the order of their names and takes the first of
   equals there. When two forests tie, as in the committed tables, the row of the
   family is another forest's and the test metrics of the best model are in no row
   (`best_tested`). `BestFamilyRow` is the positive half: the validation scores of
   that row are the best model's.

Each contradicts a line of the repository's documents, quoted in `PROJECT.json`.

Without a run, since no line of the repository says otherwise: in
`matchingSlicePorts`, a service port whose target is a name that a pod does not
declare is matched, when the slice of that pod has one other port, to that other
port; `Complete` in `ServesItsOwnPort` excludes it. `accept_local` is set by
`Attach` and never reset. An agent that ends by `log.Fatalf` or a kill leaves
filters and maps; when the next one detects other interfaces, a filter on a former
interface stays with its old maps (`OneDataPlane` speaks of the hooks of the profile
only). `normalizeCSV` sorts, so the first and second of `NODEPORT_INNER_IFACES` are
not those the user wrote first and second. A training that raises half way, for a
label in val or test that it did not learn, leaves metrics of its own beside the
manifest of the last one; an export copies both without a complaint, and stays such
a mixture when a later training succeeds. `ExportsOfOneRun` speaks of exports of a
training that came to its end, which is what the code can promise; an earlier form,
of every export as long as nothing is killed, was refuted in the attempt to prove
it.

### Bounds and why they are enough

Two CPUs are enough for each race of the data plane: the races are between one
program and one other access, and a third CPU adds only repetitions. Three
packets let two installations race and a third packet observe; two SNAT ports
make the range wrap; a forward map smaller than the number of clients and the
conntrack map make both full-map paths happen. The clock runs to one more than
the timeout, the first instant at which an entry expires. The identifiers of the
syncer, and the services that the cluster has at first (`InitialCluster`), are chosen so
that two changes hand a nodePort from one service to another within one reconcile, in
both orders of the sort; slots go from one to two and back; with two changes one
is applied, or being applied, when the other arrives. In `conntrack_gc` the two connection maps have
room for one connection, so that a second one depends on what the collector took
and when, and an orphan blocks it; several entries at a time are the subject of
`tc_concurrent`. The constants `MaxPackets`,
`MaxWrites`, `MaxTime`, `MaxFaults`, `MaxChanges` and `MaxCrashes` are the only
artificial bounds. The proofs hold for all their values.

Two counters show the order of reads, one failure each place where a window can
be given up, three windows a skipped one between two others. `MaxNotes` and
`MaxEvents` bound the notes and the log, which has one event in the run: that the first
of several decides is left to the theorem. In `agent`, two failures let an agent
fail, and its successor fail in turn before a third one starts; the changes of
interfaces and routes fall anywhere between.

In `pipeline`, six experiments are three of each of two faults: the smallest group
that reaches train, val and test. The six sessions are a first pass with
irregular artifacts (no recovery, no rows, two faults, not collected, another
header, no header at all), a second build and splits of another selection, a
training after them that fails half way and its export, two
trainings with an export and a generalization, a second round of phase 6 with its
export, and two matrix runs of which the second measures one scenario again; the
scripts of a session run in every order. One kill (`MaxKills`) falls into any
write of any script: what a second one leaves is what one leaves in a later
launch. Three candidate forests, one regression and the others make ties within
and between families happen. The clock of the benchmark goes to one tick after the
end of the measurement (`LastTick`), where late answers are; once it stands still
a request may end without a tick, so that every thread comes to its end.

No run uses symmetry: most check liveness.

Deadlock is not checked: a run that has used up its packets, changes and time
stops, as the system without traffic does.

### Fairness

`Conntrack`: a collector's ticker fires and its pass goes on, and a process that
died is started again (the agent by the kubelet, a collector by the experiment
scripts); nothing is assumed about the program or the clock.
`Syncer`: goroutines run, timers fire, the container is restarted. `Agent`: the
agent goes on and the kubelet starts it again. `Pipeline`: each thread of the
benchmark goes on by itself (`GoesOn`: it checks, sends, closes, and gives up a server
that does not answer, since each operation of the socket has a timeout of two seconds),
the clock too, and main goes on when its threads are joined. That timeout does not end
an answer which comes in pieces: there is no fairness for a thread that reads one, and
`BenchEnds` has the condition `AnswersEnd`. Nothing is assumed about the other scripts,
about packets or cluster changes. Kills and changes are bounded, so no
strong fairness is needed.

## Theorems

Every theorem is about the specification that the runs check, for all values of
its constants that satisfy the named assumptions; the lemmas it rests on are in
the same module. In each proof the inductive invariant was first checked by TLC,
as an invariant of the run of that module. A proof that a step preserves it has
one step per action.

**`NodePortTCProofs`**, of `Spec`, for any set of CPUs, clients, frontends and
backends, any ports and map capacities and any bounds:

| Theorem | Property | Inductive invariant |
|---|---|---|
| `TypeCorrect` | `TypeOK` | `Typed` |
| `RepliesIsolated` | `ReplyIsolation` | `Typed`, `Owned` |
| `ForwardReversible` | `ForwardHasReverse` | `Typed`, `Reversible` |
| `ConnectionsPinned` | `PinnedForGood` | `Typed`, `Unpinned` |
| `CountersBalance` | `StatsBalance` | `Typed`, `Balancing` |
| `SerialPorts` | `SerialPortsDistinct` | `Typed`, `Serial` |

None of the properties is inductive. `Typed` adds to `TypeOK` which locals are
set at which program counter (`RegOK`): without it the keys that a step builds
are unknown. `Owned` says that, unless a key was reused, everything that carries
a conntrack key with a flow, in either map, in the locals of a CPU, or on the
wire, agrees with the first owner of that key; the property is about the wire
only, and the chain through the maps and locals is what makes it hold.
`Reversible` adds the window in which a CPU has installed the reverse entry and
not yet the forward entry, and that nobody else's undo can take that key.
`Unpinned` says that, while a CPU is between the miss and the installation, a
flow that only this CPU receives has no forward entry.
`Balancing` counts, per CPU, what the packet in flight has already been counted
in. `Serial` orders the ports that one CPU has taken behind the port in its hand
and that behind the next one in the map, up to the wrap.

**`ConntrackProofs`**, of `ConnSysSpec`, the same program with any number of
collectors that may be killed between any two deletes:

| Theorem | Property | Inductive invariant |
|---|---|---|
| `ConnTypeCorrect` | `ConnTypeOK` | `ConnInv` |
| `ReapsOnlyIdle` | `ReapOnlyIdle` | `ConnInv` |
| `RepliesIsolatedUnderGC` | `ReplyIsolation` | `ConnInv` |
| `SerialPortsUnderGC` | `SerialPortsDistinct` | `ConnInv` |

`ConnInv` joins `Typed`, `Owned` and `Serial` with `GCTyped` and `CopiesFresh`: a
copied `last_seen` is that of the map, or the entry was written after the pass
read its clock. That is why a delete by key takes only an entry that was idle
when the pass began or was refreshed since, which is what `ReapOnlyIdle` says.
The steps of the program are those of `NodePortTCProofs` (`StepTyped`,
`StepOwned`, `StepSerial`); what is new is one lemma per action of a pass.

**`SyncerProofs`**, of `SyncSpec`, for any services, nodePorts, table sizes, channel
capacity, changes and crashes:

| Theorem | Property | Inductive invariant |
|---|---|---|
| `SyncTypeCorrect` | `SyncTypeOK` | `SyncInv` |
| `TableMatchesAppliedHolds` | `TableMatchesApplied` | `SyncInv` |
| `OneGenerationHolds` | `OneGeneration` | `SyncInv` |
| `UnchangedUndisturbedHolds` | `UnchangedUndisturbed` (action) | `SyncInv` |
| `NoLostWakeupHolds` | `NoLostWakeup` | `Announced` |

`SyncInv` is `SyncTypeOK`, `Tables`, `Plan` (what is left to do is part of what was
planned) and `MapsFollow`, which says of every frontend what the maps hold after
exactly the operations done so far: after `n` operations of `DeleteEntry` of the
old entry (`AfterDeletes`), after `n` of `UpsertEntry` of the new one
(`AfterWrites`), and nothing for a frontend that no entry owns. The proof rests on the
order of the plan: removals first, then each identifier deleted and written, so
that a nodePort that changes hands is empty in between. `Announced` is about
another thing, the channel: a change that the reconcile under way has not seen
is in a notification or in the channel.

**`TelemetryProofs`**, of `TelSpec`, for any number of counters, any window and log:

| Theorem | Property | Inductive invariant |
|---|---|---|
| `TelTypeCorrect` | `TelTypeOK` | `TelTyped` |
| `DeltasTelescopeHolds` | `DeltasTelescope` | `TelTyped`, `CountsInv` |
| `NotesConservedHolds` | `NotesConserved` | `TelTyped`, `NotesInv` |
| `WindowsDisjointHolds` | `WindowsDisjoint` | `TelTyped`, `WindowsInv` |
| `KnownEventLabelledHolds` | `KnownEventLabelled` | `TelTyped`, `LabelsInv` |

`CountsInv` orders the snapshots (baseline, previous, the one being read, the
counters), also in the middle of reading one: that is why no difference is
negative and the sum telescopes. `NotesInv`
follows a note from the accumulator through the window in hand to the file.
`WindowsInv` relates the window, the tick that waits and the file: a window
starts where the last one ended, and the tick that waits is later. `LabelsInv`
adds the labelled window that is not yet in the file.

**`AgentProofs`**, of `AgentSpec`, for any interfaces, routes, options, changes and
failures:

| Theorem | Property | Inductive invariant |
|---|---|---|
| `AgentTypeCorrect` | `AgentTypeOK` | `AgentTyped` |
| `OneDataPlaneHolds` | `OneDataPlane` | `AgentTyped`, `ServeInv` |
| `GracefulExitCleanHolds` | `GracefulExitClean` | `AgentTyped`, `ExitInv` |

`ServeInv` says that, until it is attached, each hook of the profile has a command
left that will attach it, or has the filter of the program just loaded; `ExitInv`,
that whatever filter, program or maps are left while an agent cleans up have a
command left that removes them, and that an agent that met no failure leaves
nothing. Both are about the commands that are left, because the order of `Attach`
and `Cleanup` is all the code has.

**`EndpointsProofs`**, of `EndSpec`, for any services, slices and nodes:

| Theorem | Property | Inductive invariant |
|---|---|---|
| `EndTypeCorrect` | `EndTypeOK` | `EndInv` |
| `StableHolds` | `StableWhileUnchanged` (action) | `EndInv` |
| `ServesItsOwnPortHolds` | `ServesItsOwnPort` | `EndInv` |

The core is `DesiredIsWanted`: whatever order the lister returns the slices in,
`desiredEntries` is a set that does not mention the order, provided no address is
offered on two nodes. Deduplication keeps the first candidate in the order of the
listing and sorting is by address; that the outcome is independent of the order
is a statement about ranks in finite sets (`Rank`, `KeptOfEach`,
`SortedIsRanked`).
`EndInv` then only says that the published entries are these while no cache
changed.

**`HttpBenchProofs`**, of `BenchSpec`, for any finite set of threads and any lengths
of warmup and measurement:

| Theorem | Property | Inductive invariant |
|---|---|---|
| `RowsOfTheMeasurement` | `LateRows` | `BenchInv` |
| `NothingUncounted` | `EveryRequestCounted` | `BenchInv` |

`BenchInv` is `BenchTyped` (which locals a thread has where), `Connected` (the
number of sockets of a thread is what its `connection` says), `Recorded`
(`in_measurement` is what the clock said when the request was sent, and the rows
are the requests that began in the measurement) and `OnceLate` (no
row is in the future, and a thread that has passed the check of the loop has no
late row yet). `LateRows` alone is not
inductive: that a second late row cannot come needs where the thread is.

**`PipelineProofs`**, of the composition's `Spec`, for any session, artifacts, scores
and number of kills:

| Theorem | Property | Inductive invariant |
|---|---|---|
| `PipelineRunsBench` | implements `BenchSpec` | |
| `MatrixRowsOfTheMeasurement` | `LateRows` | `BenchInv` |
| `OverheadPairedHolds` | `OverheadPaired` | `FilesInv` |
| `ModelsPairedHolds` | `ModelsPaired` | `FilesInv` |
| `BestFamilyRowHolds` | `BestFamilyRow` | `FilesInv` |
| `PublishesWholeHolds` | `PublishesWhole` (implements `Publication`, four times) | `FilesInv`, `PubInv` |
| `SplitsDisjointHolds` | `SplitsDisjoint` | `FilesInv`, `SplitInv` |
| `EveryPrimaryTrainedHolds` | `EveryPrimaryTrained` | `FilesInv`, `SplitInv` |
| `ReportHoldsAlways` | `ReportHolds` | `FilesInv`, `SplitInv`, `ReportInv` |
| `ExportsOfOneRunHolds` | `ExportsOfOneRun` | `FilesInv`, `ExportInv` |

`PipelineRunsBench` shows that each step of a script, an operator or the
matrix is a step of the benchmark or leaves its variables alone, which carries
the theorems about the benchmark over to every session.

`FilesInv` speaks of the files and of the writes that are still to come:
`SoundFiles` and `SoundWrites` say of each content that some property is about what
it is sound to hold, whether it is in its file or in the hands of a script; a kill
cuts a file to something that is sound too. `RawPaired` says that the two raw
summaries of a scenario are of one run or the second is missing, and `MatrixPlace`
how far the matrix script has come between them; it is what removing the raw
directory first buys. `OneModel` says that no two models, stored or about to be,
are of one training, which makes a model that a generalization picks for each task
by the run's name the right one. `BestRowShown` compares the two choices of the best model: the
first of the largest score in the order of training, and the first in the order of
names of each family.

`PubInv` says what the script that runs is about to do to each manifest (`PubPlan`):
it writes the manifest last, each file that the manifest speaks of at most once, and,
if it is the manifest's own script, all of them for its own launch; another script that
writes one of them (`split` rewrites `windows_all`, `report` the data set's manifest)
makes no content of an older launch out of it. Each script's plan is one lemma
(`BuildPlans`, `SplitPlans`, ...), and `PlanStep` says that the plan holds of what is left
after a write. What a kill leaves of a file was whole before, or is not whole
(`TornClaims`). Each step is then a step of `Publication` or leaves it alone (`PubStep`).

`SplitInv` speaks of the future instead: what the three parts will be when the
running split ends (`AfterWrites(fs, job.left)`), which a write does not change
(`OneAfterTheOther`), is three parts of one list of windows. The two theorems then are
about `RowsOfSplit` and `split_group` alone: a part holds the rows of its experiments
(`PartExperiments`), the parts together have the experiments and labels of
the list (`RowsKept`), and the n-th member of a group exists (`GroupShares`).

`ReportInv` says of every index, list of windows and quality report, stored or about to
be (`Known`), what it claims (`Claims`): the label of an index is that of the
experiment's artifact (`IndexTrue`); if a report found no error, then each index and each
complete list of windows of the builds it names show every fault of an included
experiment and its recovery (`NoErrorsTrue`); a split that was found to have each fault in
val and test has it there in every pair of files of that split (`NoWarningsTrue`). The
claims are about the launches that the contents name, since a kill may leave any of them
beside files of another launch. Two parts make them inductive: `ReportedStays` (once
there is a report, there are an index and windows that can be read) and `WindowsFirst`
(a split writes the windows before the parts, and parts that are still there are of
another split). The artifacts stay as they are, as said below.

`ExportInv` follows a run from its script (`ProducerInv`: if the script comes to its end,
its files will all be of its launch; only a training fails half way without a kill)
through the copies that an export is about to leave (`CopiesToCome`) to those it left
(`CopiesThere`): they are of one run, or the script that wrote them may fail half way, and
then it has not come to its end since or its manifest is another now. `ExporterInv` says
that the tables and figures will be of the same files as the copies.

The initial files of a session are what earlier scripts left, a recursive function
over their sequence. Such a script came to its end, or failed before its first write
(`AfterScript`): what is left after any of them is `FilesOK`, the part of the invariants
above that holds between two scripts. The provers cannot apply the induction theorems of the
library, which take an operator; the proof takes a least counterexample instead
(`LeastNumber`, from well-foundedness of the numbers), and that the recursive
function exists is proved in the same way (`AfterScriptsSteps`).

**Assumptions.** The proofs use the named assumptions of the modules and no others;
TLC evaluates each in the runs. `PinnedMaps`, `NodePortTC`: the SNAT range is
not empty, local backends are backends, `Absent` is no value of any map, the
initial table has no more than `MaxSlots` slots. `ServiceIDAssumption`,
`EntryAssumption`: a service id is a number in the order of the sort and has one nodePort, the
trigger channel has room for one, `Absent` is no entry. `TelemetryAssumption`: there is a
counter, a window has a length, the log holds events. `AgentAssumption`: the
candidates of `envdetect` are interface names, options and routes are of the
forms that are modelled. `EndpointsAssumption`, `NodePortAssumption`: the caches
hold objects of the modelled forms, and the API server gives no nodePort to two
TCP ports of a service. `BenchAssumption`: finitely many threads, a measurement that
has a length. `PipelineAssumption`: each selected experiment has an artifact, if
only an incomplete one, a matrix run has a scenario, and training gives each
candidate a score.

**Only model-checked.** Liveness (`ExpiredEntryReaped`, `OrphanForwardReaped`,
`Converges`, `ServesAgain`, `BenchEnds`) is out of the prover's reach, as everything is that
rests on fairness. Every invariant and every action property that a run checks has
a theorem.
What a fold or `SelectSeq` computes (`DropRepeats`, the order of the headers in
`Build`) is induction over data; no theorem depends on it.

## What is left out

- The bytes of a packet: checksums and the order of the rewriting helpers. A
  rewrite succeeds or fails as a whole. A packet that was partly rewritten
  before a failure is passed on as it is, and this is not represented.
- The kernel may reuse the memory of a preallocated hash element while a program
  still reads it. A lookup here copies the value in one step.
- `update_conntrack_entry` reads the clock and writes the entry in one step;
  `UpdateConfig` reads the interfaces and writes the config map in one, and
  `AttachFilter` replaces the qdisc and the filter and sets `accept_local` in one, with
  `SetAcceptLocal` as it is by default.
- `desiredEntries` lists nodes, services and slices one after the other, so it
  may see caches of slightly different moments; a notification always follows
  the later change, and the model has the reconcile see one of the moments.
- A failed write of the telemetry file leaves no partial line; the two conntrack
  counts of a window are only read or not read. Columns that copy a value of the
  moment (addresses, routing mode) are left out.
- In `Agent`, bpffs is mounted and its directories exist, a removal takes all map
  files or none, and the daemon is started again whether it was stopped or died.
- In `Syncer` no packet runs, so the cursor map stays empty there.
- An experiment has one telemetry file; the build reads all that match.
- Files that the model keeps as one (the two confusion matrices, val and test
  predictions) are written at once: a state with a new one beside an old one is not
  represented. Nor are the figures of phase 6, the per-class figure of phase 4 and the
  removal of a manifest that an earlier version left among the sources of phase 6.
- `Evaluable` lets an ablation go on with a val or test part that has no normal window,
  where `roc_auc_score` may raise: the model has more results there than the code.
- A killed script leaves a CSV file cut between two rows; a row that is cut in
  the middle and the missing columns a reader would see are not represented.
- In `Pipeline` the artifacts stay as they are, no two scripts run at the same
  time, two trainings do not start in the same second (their directories would
  have one name), and the data set of the generalization is a fixed one.
- A kill of the matrix script while a summary is written leaves none that can be
  read.
- The report's `backend_total` warnings and its check of the success rate:
  `ReportHolds` says more without the former, and the build computes the rate as
  a quotient that is always in range.

## Not modelled

- What scikit-learn and pandas compute: fits, predictions, metrics, the quantile
  of the rule-based detector, the groups of the generalization. They are
  functions of floating-point data without state; the models take their outcome
  as an input, so every statement about the choice of a model holds for any.
- Wording, LaTeX, rounding, percentiles and drawings in reports and assets.
- `phase5_common.sh` and most of the experiment shell code: `kubectl`, `ssh` and
  topology changes against a live cluster.
- `dump_nodeport_stats_map.py` (prints the sum of each counter over the CPUs),
  `build_nodeport_syncer.sh`, `Dockerfile`, manifests: no state.
- Option parsing, the Kubernetes client library, mounting bpffs.
- The oneshot mode of the syncer with `clear-target-state`, and two syncers on the
  same maps: `Syncer` keeps `appliedEntries` of one process. The hazards
  concerned are in `PROJECT.json` without a property.

## Plan

Done: `PinnedMaps`, `NodePortTC`, `ConntrackGC`, `Conntrack`, `Syncer`,
`NodePortTCProofs`; `Endpoints`, `Telemetry`, `Experiment`, `Agent`; `Batch`,
`Dataset`, `Baselines`, `PaperAssets`, `HttpBench`, `Overhead`, `Pipeline`,
`Publication`, `HttpBenchProofs`, `PipelineProofs`; then the proofs about the
other components, `ConntrackProofs`, `SyncerProofs`, `TelemetryProofs`,
`AgentProofs`, `EndpointsProofs`, and the first ones about the files of the scripts.

In this order, what is left:

1. A second syncer on the same maps: `oneshot` with `clear-target-state` next to
   the agent, as the recovery experiment runs it. The doc says that it does not
   break the main data plane (`aipr_phase2_test_record_round02.md:108`).
2. `Agent`: what a run shows of exits other than by a signal
   (`nodeport_snat_test_record_2026-05-11.md:1126`).
3. `Experiment`: collectors across agent restarts, netem rules and the traps that
   remove them.
4. `Syncer` and `NodePortTC` on the same maps: the cursor that a packet writes
   back, generations as a packet sees them.
5. Proofs: an abstract load balancer that `NodePortTC` implements.
