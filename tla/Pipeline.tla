------------------------------ MODULE Pipeline ------------------------------
(* The scripts under scripts/ and the overhead matrix, composed: an         *)
(* operator starts them in any order, edits the selection of experiments in *)
(* between, and any of them may be stopped half way. The scripts share      *)
(* nothing but their files.                                                 *)
EXTENDS Overhead

CONSTANTS
    Session   \* what an operator does, a set of records:
              \*   done        scripts that had come to their end before
              \*   runs        how often each script is still started
              \*   matrices    the scenario lists of the matrix runs
              \*   selections  the contents of the selection file
              \*   worlds      the artifacts of the experiments
              \*   scores      what training may find out

Program == {"build", "split", "report", "train", "phase4_export", "ablation",
            "generalization", "phase6_export", "phase5_export"}

Artifact ==
    [complete : BOOLEAN, header : Nat, events : SUBSET (Nat \ {Normal}), steady : BOOLEAN,
     rows : Seq([label : Nat, recovery : BOOLEAN, bad : BOOLEAN])]

\* Each experiment that a selection names has artifacts, if only incomplete
\* ones; a matrix run has a scenario; training scores each candidate.
ASSUME PipelineAssumption ==
    \A s \in Session :
        /\ s.done \in Seq(Program)
        /\ s.runs \in [Program -> Nat]
        /\ s.matrices \in Seq(Seq(Scenario) \ {<< >>})
        /\ \A world \in s.worlds :
              /\ DOMAIN world \subseteq Nat
              /\ \A e \in DOMAIN world : world[e] \in Artifact
              /\ \A c \in s.selections : c.included \in Seq(DOMAIN world)
        /\ s.scores \subseteq [binary : [1 .. 6 -> Nat], multiclass : [1 .. 5 -> Nat]]

VARIABLES
    artifacts,  \* artifacts/: what the experiments left, it stays
    selection,  \* experiments/phase3_selection.json
    plan        \* what is left of the session

pipelineVars == <<batchVars, benchVars, matrix, artifacts, selection, plan>>

---------------------------------------------------------------------------
(* The scripts *)

\* What a script would write now, as operator of the files.
Output(p, files, score, stamp) ==
    CASE p = "build"          -> Build(artifacts, selection, stamp)
      [] p = "split"          -> Split(files, stamp)
      [] p = "report"         -> Report(files, stamp)
      [] p = "train"          -> Train(files, score, stamp)
      [] p = "phase4_export"  -> Phase4Export(files, stamp)
      [] p = "ablation"       -> Ablation(files, stamp)
      [] p = "generalization" -> Generalization(files, stamp)
      [] p = "phase6_export"  -> Phase6Export(files, stamp)
      [] p = "phase5_export"  -> Phase5Export(files, stamp)

Collections == [binary_models |-> {}, multiclass_models |-> {},
                p4_source |-> << >>, p6_source |-> << >>,
                bench_summary |-> [s \in Scenario |-> 0],
                cpu_summary |-> [s \in Scenario |-> 0]]

PlainFiles ==
    {"raw_index", "dataset_manifest", "splits", "dataset_summary", "quality_report",
     "baseline_summary", "confusion", "binary_predictions", "multiclass_predictions",
     "feature_columns", "run_manifest", "candidate_metrics", "binary_metrics",
     "multiclass_metrics", "scenario_predictions",
     "p4_binary_table", "p4_multiclass_table", "p4_per_class_table", "p4_figures", "p4_readme",
     "p6_generalization_binary", "p6_generalization_multiclass", "p6_ablation_binary",
     "p6_ablation_multiclass", "p6_readme", "p5_matrix", "p5_delta", "p5_figures", "p5_readme"}
    \union WindowFiles \union Phase6Summaries \union ToSet(Phase6Sources)

NoFiles ==
    [f \in PlainFiles \union DOMAIN Collections |->
        IF f \in PlainFiles THEN Absent ELSE Collections[f]]

\* What the files may be after script p, the n-th, which came to its end, or
\* failed before its first write.
AfterScript(before, p, n, scores) ==
    LET output(run) == Output(p, run[1], run[2], n)
        over == {run \in before \X scores : output(run).ok \/ output(run).writes = << >>}
    IN  {AfterWrites(run[1], output(run).writes) : run \in over}

\* What the files may be after a series of scripts that came to their end.
AfterScripts(scripts, scores) ==
    LET after[n \in 0 .. Len(scripts)] ==
            IF n = 0 THEN {NoFiles} ELSE AfterScript(after[n - 1], scripts[n], n, scores)
    IN  after[Len(scripts)]

Init ==
    \E s \in Session :
        /\ plan = [runs |-> s.runs, matrices |-> s.matrices,
                   selections |-> s.selections, scores |-> s.scores]
        /\ artifacts \in s.worlds
        /\ selection \in s.selections
        /\ fs \in AfterScripts(s.done, s.scores)
        /\ job = Idle /\ launches = Len(s.done) /\ kills = 0 /\ dirty = {}
        /\ matrix = NoMatrix
        /\ BenchInit

Start(p) ==
    /\ matrix = NoMatrix
    /\ plan.runs[p] > 0
    /\ plan' = [plan EXCEPT !.runs[p] = @ - 1]
    /\ \E score \in IF p = "train" THEN plan.scores ELSE {<< >>} :
          LET output == Output(p, fs, score, launches + 1)
          IN  Launch(p, output.writes, output.ok)
    /\ UNCHANGED <<artifacts, selection, matrix, benchVars>>

RunBuild          == Start("build")
RunSplit          == Start("split")
RunReport         == Start("report")
RunTrain          == Start("train")
RunPhase4Export   == Start("phase4_export")
RunAblation       == Start("ablation")
RunGeneralization == Start("generalization")
RunPhase6Export   == Start("phase6_export")
RunPhase5Export   == Start("phase5_export")

RunMatrix ==
    /\ plan.matrices # << >>
    /\ plan' = [plan EXCEPT !.matrices = Tail(@)]
    /\ StartMatrix(Head(plan.matrices))
    /\ UNCHANGED <<artifacts, selection>>

\* The selection file is read by build alone, at its start.
EditSelection ==
    /\ job = Idle /\ matrix = NoMatrix /\ plan.runs["build"] > 0
    /\ selection' \in plan.selections \ {selection}
    /\ UNCHANGED <<batchVars, benchVars, matrix, artifacts, plan>>

FileStep == (WriteFile \/ Kill) /\ UNCHANGED <<benchVars, matrix, artifacts, selection, plan>>

Next ==
    \/ RunBuild \/ RunSplit \/ RunReport
    \/ RunTrain \/ RunPhase4Export
    \/ RunAblation \/ RunGeneralization \/ RunPhase6Export
    \/ RunMatrix \/ RunPhase5Export
    \/ EditSelection
    \/ FileStep
    \/ (MatrixStep \/ BenchRuns) /\ UNCHANGED <<artifacts, selection, plan>>

\* The threads go on as long as no answer keeps them; time goes on, and the
\* matrix script when its benchmark has come to its end. Nothing is assumed of
\* the server.
BenchFairness ==
    /\ \A w \in Worker : WF_pipelineVars(GoesOn(w) /\ UNCHANGED <<batchVars, matrix, artifacts, selection, plan>>)
    /\ WF_pipelineVars(BenchTick /\ UNCHANGED <<batchVars, matrix, artifacts, selection, plan>>)
    /\ WF_pipelineVars(WriteBenchSummary /\ UNCHANGED <<artifacts, selection, plan>>)

Spec == Init /\ [][Next]_pipelineVars /\ BenchFairness

---------------------------------------------------------------------------
(* Properties *)

\* The data set of a directory: what the parts of the split hold.
PartNames == [train |-> "windows_train", val |-> "windows_val", test |-> "windows_test"]

HeldBy(s) == ExperimentsOf(fs[PartNames[s]].rows)

SplitFiles == {PartNames[s] : s \in Splits}

\* No window of an experiment is in two of the files that a model is trained,
\* chosen and tested on: what a split writes replaces all three, also the part
\* that is empty (phase3_split_dataset.py:91), and kills are repaired by the
\* next split.
SplitsDisjoint ==
    Settled({"split"}) /\ (\A f \in SplitFiles : fs[f] # Absent)
    => \A s, t \in Splits : s # t => HeldBy(s) \cap HeldBy(t) = {}

\* The experiments are divided by their primary label, which is the first fault
\* that their windows show, or none. Each primary label has an experiment to
\* train on; if two experiments have it there is one to test on, if three one to
\* choose on as well (phase3_split_dataset.py:23, 30). Of a second fault in the
\* windows of an experiment this says nothing: it may be in val or test alone.
EveryPrimaryTrained ==
    Settled({"split"}) /\ fs["splits"] # Absent
    => LET rows == fs["windows_train"].rows \o fs["windows_val"].rows \o fs["windows_test"].rows
       IN  \A e \in ExperimentsOf(rows) :
              LET group == GroupOf(rows, e)
              IN  /\ group \cap HeldBy("train") # {}
                  /\ Cardinality(group) >= 2 => group \cap HeldBy("test") # {}
                  /\ Cardinality(group) >= 3 => group \cap HeldBy("val") # {}

\* As long as index and windows are those a report without errors has seen
\* (phase3_dataset_report.py:100), every included experiment with a fault has
\* windows of that fault and of the recovery; without warnings, each fault is
\* in the files of the val and the test split too, if they are of the split
\* that the report has seen.
ReportHolds ==
    LET quality == fs["quality_report"]
        all     == fs["windows_all"]
        index   == fs["raw_index"]
    IN  Readable(fs, "quality_report") /\ quality.errors = {} /\ all.whole
        => /\ quality.index = index.build /\ quality.origin.build = all.build
              => \A e \in DOMAIN index.rows :
                    index.rows[e].included /\ artifacts[e].events # {}
                    => /\ artifacts[e].events \subseteq LabelsIn(all.rows, e)
                       /\ HasRecovery(all.rows, e)
           /\ (quality.warnings = {} /\ Settled({"split"})
               /\ \A f \in SplitFiles : fs[f] # Absent /\ fs[f].split = quality.origin.split)
              => \A l \in FaultsOf(fs["windows_train"].rows) :
                    l \in FaultsOf(fs["windows_val"].rows) \cap FaultsOf(fs["windows_test"].rows)

\* Each directory whose manifest comes last keeps the promise of Publication.
\* StampOf is 0 for what is absent or cut.
StampOf(f, field) == IF Readable(fs, f) THEN fs[f][field] ELSE 0

DataWhole ==
    /\ StampOf("dataset_manifest", "build") # 0
    /\ \A f \in {"raw_index", "windows_all"} :
          StampOf(f, "build") = StampOf("dataset_manifest", "build")
    /\ fs["windows_all"].whole

SplitWhole ==
    /\ StampOf("splits", "split") # 0
    /\ \A f \in {"windows_all"} \union SplitFiles :
          StampOf(f, "split") = StampOf("splits", "split")
    /\ \A f \in SplitFiles : fs[f].whole

ResultsWhole(files, manifest) ==
    /\ StampOf(manifest, "stamp") # 0
    /\ \A f \in files : StampOf(f, "stamp") = StampOf(manifest, "stamp")

DataPublication  == INSTANCE Publication
    WITH started <- launches, published <- StampOf("dataset_manifest", "build"), whole <- DataWhole
SplitPublication == INSTANCE Publication
    WITH started <- launches, published <- StampOf("splits", "split"), whole <- SplitWhole
AblationPublication == INSTANCE Publication
    WITH started <- launches, published <- StampOf("ablation_manifest", "stamp"),
         whole <- ResultsWhole({"ablation_binary_summary", "ablation_multiclass_summary",
                                "ablation_metrics"}, "ablation_manifest")
GeneralizationPublication == INSTANCE Publication
    WITH started <- launches, published <- StampOf("generalization_manifest", "stamp"),
         whole <- ResultsWhole({"scenario_predictions", "normal_binary_summary",
                                "anomaly_binary_summary", "anomaly_multiclass_summary",
                                "generalization_metrics"}, "generalization_manifest")

\* The manifest of a data set, of a split, of an ablation and of a
\* generalization names a launch that wrote every file of the directory, and
\* only the launch that is running can make it do so (refinement:
\* phase3_build_dataset.py:257, phase3_split_dataset.py:110,
\* phase6_run_ablation.py:376, phase6_run_generalization.py:525).
PublishesWhole ==
    /\ DataPublication!PubSpec
    /\ SplitPublication!PubSpec
    /\ AblationPublication!PubSpec
    /\ GeneralizationPublication!PubSpec

\* The two models of a generalization were fitted by one training, to the
\* columns and experiments of one split: a later training, whole or not, has a
\* directory of its own (phase6_run_generalization.py:306).
ModelsPaired ==
    Readable(fs, "generalization_manifest")
    => LET g == fs["generalization_manifest"]
       IN  /\ g.binary.run = g.multiclass.run
           /\ g.binary.columns = g.multiclass.columns
           /\ g.binary.trained = g.multiclass.trained

\* The copies, tables and figures of an export are of the same files; and they
\* are of one training, or of one generalization and one ablation, as long as
\* it is the last that came to its end, whatever an earlier export left, or a
\* run that was stopped or failed half way (phase4_export_paper_assets.py:214,
\* phase6_export_paper_assets.py:193). A generalization or an ablation does not
\* fail half way: without kills every export is of one.
GeneralizationSources == {Phase6Sources[i] : i \in 1 .. 5}
AblationSources == {Phase6Sources[i] : i \in 6 .. 9}

Phase4OfItsCopies(files) ==
    LET copy == files["p4_source"]
    IN  /\ files["p4_binary_table"].run = copy["binary_metrics"]
        /\ files["p4_multiclass_table"].run = copy["multiclass_metrics"]
        /\ files["p4_per_class_table"].run = copy["multiclass_metrics"]
        /\ files["p4_figures"].run = copy["confusion"]
        /\ files["p4_readme"].run = copy["run_manifest"]

Phase6OfItsCopies(files) ==
    LET copy == files["p6_source"]
    IN  /\ files["p6_generalization_binary"].origin
           = {copy["normal_binary_summary"], copy["anomaly_binary_summary"]}
        /\ files["p6_generalization_multiclass"].origin = {copy["anomaly_multiclass_summary"]}
        /\ files["p6_ablation_binary"].origin = {copy["ablation_binary_summary"]}
        /\ files["p6_ablation_multiclass"].origin = {copy["ablation_multiclass_summary"]}

OfOneRun(sources, copy, manifest) == \A f \in sources : copy[f] = copy[manifest]

IsLast(copy, manifest) == copy[manifest] = fs[manifest].stamp

ExportsOfOneRun ==
    /\ Settled({"phase4_export"}) /\ fs["p4_readme"] # Absent
       => LET copy == fs["p4_source"]
          IN  /\ Phase4OfItsCopies(fs)
              /\ Settled({"train"}) /\ IsLast(copy, "run_manifest")
                 => OfOneRun(ToSet(Phase4Sources), copy, "run_manifest")
    /\ Settled({"phase6_export"}) /\ fs["p6_readme"] # Absent
       => LET copy == fs["p6_source"]
          IN  /\ Phase6OfItsCopies(fs)
              /\ kills = 0 \/ (Settled({"generalization"}) /\ IsLast(copy, "generalization_manifest"))
                 => OfOneRun(GeneralizationSources, copy, "generalization_manifest")
              /\ kills = 0 \/ (Settled({"ablation"}) /\ IsLast(copy, "ablation_manifest"))
                 => OfOneRun(AblationSources, copy, "ablation_manifest")

\* The row that a table of phase 4 has for the family of the best model is as
\* good on the validation windows as that model, although the export chooses
\* it anew (phase4_export_paper_assets.py:99).
BestRow(task, f) == fs[f].rows[FamilyOf(task, fs[f].best)]

BestFamilyRow ==
    /\ Readable(fs, "p4_binary_table")
       => BestRow("binary", "p4_binary_table").val = fs["p4_binary_table"].bestVal
    /\ Readable(fs, "p4_multiclass_table")
       => BestRow("multiclass", "p4_multiclass_table").val = fs["p4_multiclass_table"].bestVal

\* "Held-out test metrics are only available for the best model selected in
\* the original Phase 4 run" (phase4_export_paper_assets.py:200): that model's
\* row has them.
BestHasTestMetrics ==
    /\ Readable(fs, "p4_binary_table") => BestRow("binary", "p4_binary_table").tested
    /\ Readable(fs, "p4_multiclass_table") => BestRow("multiclass", "p4_multiclass_table").tested

\* An answer that has begun is over some time, or fails.
AnswersEnd == \A w \in Worker : []<>(thread[w].at # "read")

\* A benchmark comes to its end, whatever the server answers and also if it does
\* not answer at all, unless an answer that has begun goes on for ever: main
\* joins its threads without a limit (phase5_http_bench.py:117).
BenchEnds == AnswersEnd => (matrix.at = "bench" ~> matrix.at # "bench")

\* Each row of the exported overhead matrix has the throughput and the CPU time
\* of one and the same run of its scenario (phase5_run_matrix.sh:22).
OverheadPaired ==
    Readable(fs, "p5_matrix")
    => \A s \in Scenario : fs["p5_matrix"].rows[s].bench = fs["p5_matrix"].rows[s].cpu

=============================================================================
