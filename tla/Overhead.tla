----------------------------- MODULE Overhead ------------------------------
(* experiments/phase5_run_matrix.sh around phase5_http_bench.py: for each   *)
(* chosen scenario the raw directory is removed, the benchmark runs while   *)
(* the CPU counters are read before and after it, and its two files and the *)
(* CPU summary are written; at the end the paper assets are exported.       *)
EXTENDS PaperAssets, HttpBench

CONSTANT Scenario   \* SCENARIO_ORDER

VARIABLE matrix     \* the script: where it is, the scenarios it has still to run

NoMatrix == [at |-> "idle", todo |-> << >>]

\* The raw directory of a scenario: one file of it is written or removed.
RawFile(f, s, stamp) == fs' = [fs EXCEPT ![f][s] = stamp]

StartMatrix(scenarios) ==
    /\ job = Idle /\ matrix = NoMatrix
    /\ matrix' = [at |-> "remove", todo |-> scenarios]
    /\ launches' = launches + 1
    /\ UNCHANGED <<fs, job, kills, dirty, benchVars>>

\* Mutant of RemoveRaw: the files of the last run are kept.
KeepRaw ==
    /\ matrix.at = "remove"
    /\ matrix' = [matrix EXCEPT !.at = "prepare"]
    /\ UNCHANGED <<batchVars, benchVars>>

\* rm -rf raw/<scenario>
RemoveRaw ==
    /\ matrix.at = "remove"
    /\ fs' = [fs EXCEPT !["bench_summary"][Head(matrix.todo)] = 0,
                        !["cpu_summary"][Head(matrix.todo)] = 0]
    /\ matrix' = [matrix EXCEPT !.at = "prepare"]
    /\ UNCHANGED <<job, launches, kills, dirty, benchVars>>

\* The topology is prepared, the counters are read and the benchmark starts.
StartBench ==
    /\ matrix.at = "prepare"
    /\ matrix' = [matrix EXCEPT !.at = "bench"]
    /\ StartThreads
    /\ UNCHANGED batchVars

\* main joins the threads and writes what they recorded.
WriteBenchSummary ==
    /\ matrix.at = "bench" /\ Joined
    /\ RawFile("bench_summary", Head(matrix.todo), launches)
    /\ matrix' = [matrix EXCEPT !.at = "cpu"]
    /\ UNCHANGED <<job, launches, kills, dirty, benchVars>>

WriteCpuSummary ==
    /\ matrix.at = "cpu"
    /\ RawFile("cpu_summary", Head(matrix.todo), launches)
    /\ matrix' = [matrix EXCEPT !.at = IF Len(matrix.todo) > 1 THEN "remove" ELSE "export",
                                !.todo = Tail(@)]
    /\ StopThreads
    /\ UNCHANGED <<job, launches, kills, dirty>>

\* The script ends by running the export.
ExportMatrix ==
    /\ matrix.at = "export"
    /\ LET export == Phase5Export(fs, launches + 1)
       IN  \/ Launch("phase5_export", export.writes, export.ok)
           \/ export.writes = << >> /\ UNCHANGED batchVars
    /\ matrix' = NoMatrix
    /\ UNCHANGED benchVars

\* fail_experiment, or the operator stops the script: nothing is removed. A
\* summary that was being written cannot be read.
FailExperiment ==
    /\ matrix # NoMatrix
    /\ kills < MaxKills
    /\ matrix' = NoMatrix
    /\ kills' = kills + 1
    /\ StopThreads
    /\ UNCHANGED <<fs, job, launches, dirty>>

BenchRuns == BenchStep /\ UNCHANGED <<batchVars, matrix>>

MatrixStep ==
    \/ RemoveRaw \/ StartBench \/ WriteBenchSummary \/ WriteCpuSummary
    \/ ExportMatrix \/ FailExperiment

=============================================================================
