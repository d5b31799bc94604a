----------------------------- MODULE Baselines -----------------------------
(* What the scripts that train and evaluate compute: the baselines of       *)
(* phase 4, and the generalization and ablation of phase 6. What a model    *)
(* scores on the validation windows is an input (any outcome of MC's set);  *)
(* which model is chosen, what is evaluated with which columns and          *)
(* configuration, and what is written where is what the scripts do.         *)
EXTENDS Dataset

CONSTANTS
    Column,      \* the feature columns
    Feature,     \* Feature[e]: the columns that are set in the windows of e
    Group,       \* Group[v]: the columns that a variant of the ablation drops
    PinnedRun    \* the run of DEFAULT_MODEL_ARTIFACTS_DIR

Task == {"binary", "multiclass"}

---------------------------------------------------------------------------
(* phase4_train_baselines.py                                               *)

LabelsOf(rows) == {rows[i].label : i \in DOMAIN rows}
FaultsOf(rows) == LabelsOf(rows) \ {Normal}

\* Columns that are constant in the train split are dropped; val and test get
\* the columns of train.
final_feature_columns(train) ==
    {c \in Column : \E i, j \in DOMAIN train :
        c \in Feature[train[i].exp] /\ c \notin Feature[train[j].exp]}

Candidate(name, family) == [name |-> name, family |-> family]

\* The candidates in the order of training; a name is a number in the order of
\* the names: dummy_prior, logreg_.., rf_..d16.., rf_..d8.., rf_..dnone..,
\* rule_based. The grids are abstracted to one regression and to the depths of
\* the forests (None, 8, 16), whose names are in another order than they are.
Linears == <<Candidate(2, "LogisticRegression")>>
Forests == <<Candidate(5, "RandomForestClassifier"), Candidate(4, "RandomForestClassifier"),
             Candidate(3, "RandomForestClassifier")>>

fit_binary_candidates ==
    <<Candidate(1, "DummyClassifier"), Candidate(6, "RuleBasedBinaryDetector")>>
    \o Linears \o Forests

fit_multiclass_candidates == <<Candidate(1, "DummyClassifier")>> \o Linears \o Forests

Candidates(task) ==
    IF task = "binary" THEN fit_binary_candidates ELSE fit_multiclass_candidates

\* max() keeps the first of the largest, in the order of training. A score
\* stands for (anomaly_f1, pr_auc), or (macro_f1, balanced_accuracy).
choose_best(candidates, score) ==
    LET at(i) == score[candidates[i].name]
        best == CHOOSE i \in DOMAIN candidates :
                    \A j \in DOMAIN candidates : at(j) <= at(i) /\ (j < i => at(j) < at(i))
    IN  candidates[best].name

FamilyOf(task, name) ==
    (CHOOSE c \in ToSet(Candidates(task)) : c.name = name).family

\* Only the chosen model is evaluated on the test split.
results_to_payload(task, score, stamp) ==
    LET best == choose_best(Candidates(task), score[task])
    IN  [stamp |-> stamp, best |-> best, val |-> score[task], tested |-> {best}]

\* scikit-learn fits no classifier to a single class and predicts no empty
\* frame; both end the script before it writes.
Trainable(train, val, test) ==
    /\ Normal \in LabelsOf(train)
    /\ Cardinality(FaultsOf(train)) >= 2
    /\ FaultsOf(val) # {} /\ FaultsOf(test) # {}
    /\ final_feature_columns(train) # {}

\* write_multiclass_predictions takes one score per label of any split, the
\* model has one per label of train.
ScoresForAllLabels(train, val, test) ==
    FaultsOf(val) \union FaultsOf(test) \subseteq FaultsOf(train)

HasSplits(files) ==
    \A f \in {"windows_train", "windows_val", "windows_test"} : Readable(files, f)

Train(files, score, stamp) ==
    LET train   == files["windows_train"].rows
        val     == files["windows_val"].rows
        test    == files["windows_test"].rows
        columns == final_feature_columns(train)
        metrics(task) == results_to_payload(task, score, stamp)
        output  == [stamp |-> stamp]
        model(task) ==
            [run |-> stamp, columns |-> columns, trained |-> ExperimentsOf(train)]
        early   == <<Put("binary_metrics", metrics("binary")),
                     Put("multiclass_metrics", metrics("multiclass")),
                     Put("confusion", output), Put("binary_predictions", output)>>
        late    == <<Put("multiclass_predictions", output),
                     Put("feature_columns", output),
                     Put("run_manifest",
                         [stamp |-> stamp, columns |-> columns,
                          split |-> files["windows_train"].split,
                          best |-> [t \in Task |-> metrics(t).best]]),
                     Put("baseline_summary", output),
                     Put("binary_models", files["binary_models"] \union {model("binary")}),
                     Put("multiclass_models",
                         files["multiclass_models"] \union {model("multiclass")}),
                     Put("candidate_metrics", output)>>
    IN  IF ~HasSplits(files) \/ ~Trainable(train, val, test)
          THEN [writes |-> << >>, ok |-> FALSE]
        ELSE IF ~ScoresForAllLabels(train, val, test)
          THEN [writes |-> early, ok |-> FALSE]
        ELSE [writes |-> early \o late, ok |-> TRUE]

---------------------------------------------------------------------------
(* phase6_run_ablation.py                                                  *)

\* The configurations of the manifest must be those of random forests.
BestAreForests(manifest) ==
    \A t \in Task : FamilyOf(t, manifest.best[t]) = "RandomForestClassifier"

build_variant_columns(columns, variant) == columns \ Group[variant]

\* A forest is fitted to a single fault label as well, but the score of the
\* anomaly class needs both binary classes, and no frame may be empty.
Evaluable(train, val, test, columns) ==
    /\ Normal \in LabelsOf(train) /\ FaultsOf(train) # {}
    /\ FaultsOf(val) # {} /\ FaultsOf(test) # {}
    /\ \A v \in DOMAIN Group : build_variant_columns(columns, v) # {}

\* Mutant of AblationWrites: the manifest comes first.
ManifestFirst(result) ==
    <<Put("ablation_manifest", result), Put("ablation_binary_summary", result),
      Put("ablation_multiclass_summary", result), Put("ablation_metrics", result)>>

AblationWrites(result) ==
    <<Put("ablation_binary_summary", result), Put("ablation_multiclass_summary", result),
      Put("ablation_metrics", result), Put("ablation_manifest", result)>>

Ablation(files, stamp) ==
    LET manifest == files["run_manifest"]
        result   == [stamp |-> stamp, run |-> manifest.stamp,
                     split |-> files["windows_train"].split,
                     columns |-> [v \in DOMAIN Group |->
                                    build_variant_columns(manifest.columns, v)]]
    IN  IF \/ ~Readable(files, "run_manifest") \/ ~HasSplits(files)
           \/ ~BestAreForests(manifest)
           \/ ~Evaluable(files["windows_train"].rows, files["windows_val"].rows,
                         files["windows_test"].rows, manifest.columns)
          THEN [writes |-> << >>, ok |-> FALSE]
          ELSE [writes |-> AblationWrites(result), ok |-> TRUE]

---------------------------------------------------------------------------
(* phase6_run_generalization.py, on a data set of its own that stays.      *)

\* Mutant of ModelOf: the newest model instead of the one of a run.
NewestModel(files, name) == {m \in files[name] : \A n \in files[name] : n.run <= m.run}

ModelOf(files, name) == {m \in files[name] : m.run = PinnedRun}

Generalization(files, stamp) ==
    LET binary     == CHOOSE m \in ModelOf(files, "binary_models") : TRUE
        multiclass == CHOOSE m \in ModelOf(files, "multiclass_models") : TRUE
        result     == [stamp |-> stamp, binary |-> binary, multiclass |-> multiclass]
    IN  IF ModelOf(files, "binary_models") = {} \/ ModelOf(files, "multiclass_models") = {}
          THEN [writes |-> << >>, ok |-> FALSE]
          ELSE [writes |-> <<Put("scenario_predictions", result),
                             Put("normal_binary_summary", result),
                             Put("anomaly_binary_summary", result),
                             Put("anomaly_multiclass_summary", result),
                             Put("generalization_metrics", result),
                             Put("generalization_manifest", result)>>,
                ok |-> TRUE]

=============================================================================
