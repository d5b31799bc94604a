---------------------------- MODULE PaperAssets ----------------------------
(* What the scripts that export paper assets compute from the results of    *)
(* phases 4 and 6: copies of the sources, tables, figures, a README. A      *)
(* table is abstracted to the launch its numbers come from and, where a     *)
(* row is picked among several models, to the rows.                         *)
EXTENDS Baselines

---------------------------------------------------------------------------
(* phase4_export_paper_assets.py                                           *)

Families(task) == {c.family : c \in ToSet(Candidates(task))}

\* Mutant of pick_family_best: the first model of the family.
first_of_family(task, payload, family) ==
    LET names == {c.name : c \in {d \in ToSet(Candidates(task)) : d.family = family}}
    IN  CHOOSE n \in names : \A m \in names : n <= m

\* write_json sorted the keys, so the candidates are read back in the order of
\* their names; max() keeps the first of the largest of each family.
pick_family_best(task, payload, family) ==
    LET names == {c.name : c \in {d \in ToSet(Candidates(task)) : d.family = family}}
    IN  CHOOSE n \in names :
            \A m \in names : payload.val[m] <= payload.val[n]
                             /\ (m < n => payload.val[m] < payload.val[n])

resolve_test_metrics(payload, name) == name \in payload.tested \/ name = payload.best

FamilyRows(task, payload) ==
    [family \in Families(task) |->
        LET name == pick_family_best(task, payload, family)
        IN  [name |-> name, val |-> payload.val[name],
             tested |-> resolve_test_metrics(payload, name)]]

\* The files that are copied, in the order of the loop. (Some stand for two
\* or three files of the same kind.)
Phase4Sources ==
    <<"binary_metrics", "multiclass_metrics", "confusion", "binary_predictions",
      "multiclass_predictions", "feature_columns", "run_manifest", "baseline_summary">>

\* The launch a file comes from, 0 for one that was cut.
Origin(files, f) == IF files[f] = Unreadable THEN 0 ELSE files[f].stamp

\* Mutant of CopiedUpTo: what an earlier export copied is kept.
CopiedIfNew(files, sources, n, old) ==
    [f \in {sources[i] : i \in 1 .. n} \union DOMAIN old |->
        IF f \in DOMAIN old THEN old[f] ELSE Origin(files, f)]

\* The directory of copies after the first n sources are copied over what an
\* earlier export left there.
CopiedUpTo(files, sources, n, old) ==
    LET copied == {sources[i] : i \in 1 .. n}
    IN  [f \in copied \union DOMAIN old |-> IF f \in copied THEN Origin(files, f) ELSE old[f]]

FirstMissing(files, sources) ==
    LET missing == {i \in DOMAIN sources : files[sources[i]] = Absent}
    IN  IF missing = {} THEN Len(sources) + 1
        ELSE CHOOSE i \in missing : \A j \in missing : i <= j

\* One copy after the other; the first source that is missing ends the script.
CopySources(files, sources, target) ==
    [n \in 1 .. FirstMissing(files, sources) - 1 |->
        Put(target, CopiedUpTo(files, sources, n, files[target]))]

AllCopied(files, sources) == FirstMissing(files, sources) > Len(sources)

\* Copies and tables first; the figures are drawn from the confusion matrices.
Phase4Export(files, stamp) ==
    LET binary     == files["binary_metrics"]
        multiclass == files["multiclass_metrics"]
        from(origin) == [stamp |-> stamp, run |-> origin]
        table(task, payload) ==
            [stamp |-> stamp, run |-> payload.stamp, best |-> payload.best,
             bestVal |-> payload.val[payload.best],
             rows |-> FamilyRows(task, payload)]
        copied == CopySources(files, Phase4Sources, "p4_source")
        tables == copied \o
                  <<Put("p4_binary_table", table("binary", binary)),
                    Put("p4_multiclass_table", table("multiclass", multiclass)),
                    Put("p4_per_class_table", from(multiclass.stamp))>>
    IN  IF \E f \in {"binary_metrics", "multiclass_metrics", "run_manifest"} :
              ~Readable(files, f)
          THEN [writes |-> << >>, ok |-> FALSE]
        ELSE IF ~AllCopied(files, Phase4Sources)
          THEN [writes |-> copied, ok |-> FALSE]
        ELSE IF files["confusion"] = Unreadable
          THEN [writes |-> tables, ok |-> FALSE]
        ELSE [writes |-> tables \o <<Put("p4_figures", from(files["confusion"].stamp)),
                                     Put("p4_readme", from(files["run_manifest"].stamp))>>,
              ok |-> TRUE]

---------------------------------------------------------------------------
(* phase6_export_paper_assets.py                                           *)

Phase6Summaries ==
    {"normal_binary_summary", "anomaly_binary_summary", "anomaly_multiclass_summary",
     "ablation_binary_summary", "ablation_multiclass_summary"}

Phase6Sources ==
    <<"generalization_metrics", "normal_binary_summary", "anomaly_binary_summary",
      "anomaly_multiclass_summary", "generalization_manifest", "ablation_metrics",
      "ablation_binary_summary", "ablation_multiclass_summary", "ablation_manifest">>

\* The tables of one part come from the summaries of that part.
Phase6Export(files, stamp) ==
    LET from(f) == [stamp |-> stamp, origin |-> {files[f].stamp}]
        scopes  == {"normal_binary_summary", "anomaly_binary_summary"}
        copied  == CopySources(files, Phase6Sources, "p6_source")
    IN  IF \E f \in Phase6Summaries : ~Readable(files, f)
          THEN [writes |-> << >>, ok |-> FALSE]
        ELSE IF ~AllCopied(files, Phase6Sources)
          THEN [writes |-> copied, ok |-> FALSE]
        ELSE [writes |-> copied \o
              <<Put("p6_generalization_binary",
                    [stamp |-> stamp, origin |-> {files[f].stamp : f \in scopes}]),
                Put("p6_generalization_multiclass", from("anomaly_multiclass_summary")),
                Put("p6_ablation_binary", from("ablation_binary_summary")),
                Put("p6_ablation_multiclass", from("ablation_multiclass_summary")),
                Put("p6_readme", [stamp |-> stamp])>>,
              ok |-> TRUE]

---------------------------------------------------------------------------
(* phase5_export_paper_assets.py: bench_summary and cpu_summary map each    *)
(* scenario to the launch that measured it, 0 for none that can be read.    *)

Phase5Export(files, stamp) ==
    LET bench  == files["bench_summary"]
        cpu    == files["cpu_summary"]
        matrix == [stamp |-> stamp,
                   rows |-> [s \in DOMAIN bench |-> [bench |-> bench[s], cpu |-> cpu[s]]]]
    IN  IF \E s \in DOMAIN bench : bench[s] = 0 \/ cpu[s] = 0
          THEN [writes |-> << >>, ok |-> FALSE]
          ELSE [writes |-> <<Put("p5_matrix", matrix), Put("p5_delta", matrix),
                             Put("p5_figures", matrix), Put("p5_readme", [stamp |-> stamp])>>,
                ok |-> TRUE]

=============================================================================
