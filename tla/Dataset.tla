------------------------------ MODULE Dataset ------------------------------
(* What the three scripts of the dataset compute: build gathers the windows *)
(* of the selected experiments, split assigns each experiment to train, val *)
(* or test, report counts, checks and describes the result. Each is an      *)
(* operator from what the script reads to the files it writes, in order     *)
(* (how they are written is module Batch).                                  *)
(*                                                                          *)
(* An experiment is a number, in the order of the experiment ids. A label   *)
(* is a number in the order of the label names, 0 stands for "normal". An   *)
(* artifact has one telemetry file:                                         *)
(*   complete  meta.json, events.jsonl, traffic.csv and telemetry/ exist    *)
(*   header    the columns of the telemetry file, 0 when it is empty        *)
(*   rows      its windows: label, recovery (recovery_active), bad (an      *)
(*             empty interval or a negative delta)                          *)
(*   events    the labels of events.jsonl other than "normal"               *)
(*   steady    the scenario is normal_steady_state                          *)
EXTENDS Batch, FiniteSets

Normal == 0
Splits == {"train", "val", "test"}
NoSplit == ""

---------------------------------------------------------------------------
(* phase3_build_dataset.py                                                 *)

\* dict.fromkeys: each id once, in the order of its first appearance.
DropRepeats(ids) ==
    LET once(seen, e) == IF e \in ToSet(seen) THEN seen ELSE Append(seen, e)
    IN  FoldLeft(once, << >>, ids)

\* The label of an experiment in raw_index.csv, as a set: several labels are
\* joined to one name that no window has, {} is "unknown".
scenario_to_label(artifact) ==
    IF artifact.events = {} /\ artifact.steady THEN {Normal} ELSE artifact.events

IncludedStatus(artifacts, excluded, e) == e \notin excluded /\ artifacts[e].complete

raw_index_rows(artifacts, excluded, included) ==
    [e \in included |->
        [included |-> IncludedStatus(artifacts, excluded, e),
         primary  |-> scenario_to_label(artifacts[e])]]

\* The first telemetry file with a header fixes the columns; any later one
\* must have the same, an empty file has none.
CanonicalAt(headers) ==
    {i \in DOMAIN headers :
        headers[i] # 0 /\ \A j \in 1 .. i - 1 : headers[j] = 0}

SchemaMismatch(headers) ==
    \E i \in CanonicalAt(headers) : \E j \in i + 1 .. Len(headers) : headers[j] # headers[i]

\* A window of an experiment as row of the dataset, still without a split.
DatasetRow(e, window) ==
    [exp |-> e, label |-> window.label, recovery |-> window.recovery,
     bad |-> window.bad, split |-> NoSplit]

\* The rows of some experiments, sorted by experiment id: the n-th is the one
\* that n - 1 of them precede.
windows_rows(artifacts, exps) ==
    LET places == UNION {{e} \X (DOMAIN artifacts[e].rows) : e \in exps}
        preceding(p) == {q \in places : q[1] < p[1] \/ (q[1] = p[1] /\ q[2] < p[2])}
        nth == [n \in 1 .. Cardinality(places) |->
                   CHOOSE p \in places : Cardinality(preceding(p)) = n - 1]
    IN  [n \in DOMAIN nth |-> DatasetRow(nth[n][1], artifacts[nth[n][1]].rows[nth[n][2]])]

ExperimentsOf(rows) == {rows[i].exp : i \in DOMAIN rows}

Build(artifacts, selection, stamp) ==
    LET included == ToSet(selection.included)
        taken(e) == IncludedStatus(artifacts, selection.excluded, e)
        inOrder == SelectSeq(DropRepeats(selection.included), taken)
        headers == [i \in DOMAIN inOrder |-> artifacts[inOrder[i]].header]
        rows    == windows_rows(artifacts, {e \in included : taken(e)})
        index   == Put("raw_index",
                       [build |-> stamp,
                        rows |-> raw_index_rows(artifacts, selection.excluded, included)])
        windows == Put("windows_all", [build |-> stamp, split |-> 0, whole |-> TRUE, rows |-> rows])
        manifest == Put("dataset_manifest",
                        [build |-> stamp, included |-> included, count |-> Len(rows)])
    IN  IF SchemaMismatch(headers)
          THEN [writes |-> << >>, ok |-> FALSE]
        ELSE IF CanonicalAt(headers) = {}
          THEN [writes |-> <<index>>, ok |-> FALSE]
        ELSE [writes |-> <<index, windows, manifest>>, ok |-> TRUE]

---------------------------------------------------------------------------
(* phase3_split_dataset.py                                                 *)

LabelsIn(rows, e) == {rows[i].label : i \in {j \in DOMAIN rows : rows[j].exp = e}}

primary_label_for_experiment(rows, e) ==
    LET labels == LabelsIn(rows, e) \ {Normal}
    IN  IF labels = {} THEN Normal ELSE CHOOSE l \in labels : \A k \in labels : l <= k

\* Mutant of split_group: of two experiments, the second is not tested on.
split_group_val(group, e) ==
    LET place == Cardinality({d \in group : d <= e})
    IN  CASE place = 1 -> "train" [] place = 2 -> "val" [] place = 3 -> "test" [] OTHER -> "train"

\* The assignment of one experiment within the group of its label.
split_group(group, e) ==
    LET place == Cardinality({d \in group : d <= e})
    IN  CASE place = 1 -> "train"
          [] place = 2 -> IF Cardinality(group) = 2 THEN "test" ELSE "val"
          [] place = 3 -> "test"
          [] OTHER     -> "train"

GroupOf(rows, e) ==
    {d \in ExperimentsOf(rows) :
        primary_label_for_experiment(rows, d) = primary_label_for_experiment(rows, e)}

Assignments(rows) ==
    [e \in ExperimentsOf(rows) |-> split_group(GroupOf(rows, e), e)]

\* Mutant of PartWrites: a part without rows is skipped.
NonEmptyParts(parts, stamp) ==
    LET part(f, s) == IF parts[s] = << >> THEN << >>
                      ELSE <<Put(f, [split |-> stamp, whole |-> TRUE, rows |-> parts[s]])>>
    IN  part("windows_train", "train") \o part("windows_val", "val") \o part("windows_test", "test")

\* The three files of a split, an empty part included.
PartWrites(parts, stamp) ==
    <<Put("windows_train", [split |-> stamp, whole |-> TRUE, rows |-> parts["train"]]),
      Put("windows_val", [split |-> stamp, whole |-> TRUE, rows |-> parts["val"]]),
      Put("windows_test", [split |-> stamp, whole |-> TRUE, rows |-> parts["test"]])>>

\* The rows of the experiments of split s, in the order they have.
RowsOfSplit(rows, exps, s) ==
    LET places == {i \in DOMAIN rows : rows[i].exp \in exps}
        preceding(i) == {j \in places : j < i}
        nth(n) == CHOOSE i \in places : Cardinality(preceding(i)) = n - 1
    IN  [n \in 1 .. Cardinality(places) |-> [rows[nth(n)] EXCEPT !.split = s]]

\* windows_all.csv is rewritten in place, in the order of the splits.
Split(files, stamp) ==
    LET all        == files["windows_all"]
        assignment == Assignments(all.rows)
        exps(s)    == {e \in DOMAIN assignment : assignment[e] = s}
        parts      == [s \in Splits |-> RowsOfSplit(all.rows, exps(s), s)]
        updated    == parts["train"] \o parts["val"] \o parts["test"]
    IN  IF ~Readable(files, "windows_all") \/ all.rows = << >>
          THEN [writes |-> << >>, ok |-> FALSE]
          ELSE [writes |->
                  <<Put("windows_all", [all EXCEPT !.split = stamp, !.rows = updated])>>
                  \o PartWrites(parts, stamp)
                  \o <<Put("splits", [split |-> stamp, assignments |-> assignment])>>,
                ok |-> TRUE]

---------------------------------------------------------------------------
(* phase3_dataset_report.py                                                *)

HasRecovery(rows, e) == \E i \in DOMAIN rows : rows[i].exp = e /\ rows[i].recovery

\* Mutant of quality_errors: the recovery of an experiment is not looked at.
errors_of_labels(rows, index) ==
    {rows[i].exp : i \in {j \in DOMAIN rows : rows[j].bad}}
    \union
    {e \in DOMAIN index :
        /\ index[e].included /\ index[e].primary # {Normal}
        /\ ~\E l \in LabelsIn(rows, e) \ {Normal} : index[e].primary = {l}}

\* The experiments of which a row or an entry of the index is wrong.
quality_errors(rows, index) ==
    {rows[i].exp : i \in {j \in DOMAIN rows : rows[j].bad}}
    \union
    {e \in DOMAIN index :
        /\ index[e].included
        /\ index[e].primary # {Normal}
        /\ \/ ~\E l \in LabelsIn(rows, e) \ {Normal} : index[e].primary = {l}
           \/ ~HasRecovery(rows, e)}

\* The fault labels without a window in the test or the val split.
quality_warnings(rows) ==
    {p \in ({rows[i].label : i \in DOMAIN rows} \ {Normal}) \X {"test", "val"} :
        ~\E i \in DOMAIN rows : rows[i].label = p[1] /\ rows[i].split = p[2]}

\* The manifest is read after the two reports are written: one that cannot be
\* parsed ends the script there.
Report(files, stamp) ==
    LET all      == files["windows_all"]
        index    == files["raw_index"].rows
        origin   == [report |-> stamp, build |-> all.build, split |-> all.split]
        quality  == [origin |-> origin, index |-> files["raw_index"].build,
                     errors |-> quality_errors(all.rows, index),
                     warnings |-> quality_warnings(all.rows)]
        old      == IF files["dataset_manifest"] = Absent
                      THEN [build |-> 0, included |-> {}]
                      ELSE files["dataset_manifest"]
        manifest == [build |-> old.build, included |-> old.included, count |-> Len(all.rows)]
        texts    == <<Put("dataset_summary", origin), Put("quality_report", quality)>>
    IN  IF \/ ~Readable(files, "windows_all") \/ ~Readable(files, "raw_index") \/ ~Readable(files, "splits")
           \/ all.rows = << >>
          THEN [writes |-> << >>, ok |-> FALSE]
        ELSE IF files["dataset_manifest"] = Unreadable
          THEN [writes |-> texts, ok |-> FALSE]
        ELSE [writes |-> Append(texts, Put("dataset_manifest", manifest)), ok |-> TRUE]

=============================================================================
