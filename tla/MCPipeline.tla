----------------------------- MODULE MCPipeline -----------------------------
(* Sessions small enough for TLC: six experiments, two faults, two workers. *)
EXTENDS Pipeline

Row(label, recovery) == [label |-> label, recovery |-> recovery, bad |-> FALSE]

Fault(l) == [complete |-> TRUE, header |-> 1, events |-> {l}, steady |-> FALSE,
             rows |-> <<Row(l, FALSE), Row(Normal, TRUE)>>]
Steady == [complete |-> TRUE, header |-> 1, events |-> {}, steady |-> TRUE,
           rows |-> <<Row(Normal, FALSE)>>]

\* Three experiments of fault 1 and three of fault 2.
Regular == <<Fault(1), Fault(1), Fault(1), Fault(2), Fault(2), Fault(2)>>

\* What goes wrong: an experiment that never recovered, one without telemetry
\* rows, one with two faults, one that was not collected, another header.
TwoFaults == [Fault(1) EXCEPT !.events = {1, 3}, !.rows = <<Row(1, FALSE), Row(3, TRUE)>>]

Irregular ==
    {[Regular EXCEPT ![2].rows = <<Row(1, FALSE)>>],
     [Regular EXCEPT ![2].header = 0, ![2].rows = << >>],
     [Regular EXCEPT ![2] = TwoFaults],
     [Regular EXCEPT ![1] = Steady, ![3].complete = FALSE],
     [Regular EXCEPT ![3].header = 2],
     [e \in 1 .. 6 |-> [Regular[e] EXCEPT !.header = 0, !.rows = << >>]]}

Selected(ids) == [included |-> ids, excluded |-> {}]
Some == Selected(<<1, 2, 3, 1>>)
Without2 == Selected(<<1, 3, 4, 5, 6>>)
Fewer == [included |-> <<3, 1, 4>>, excluded |-> {4}]
All == Selected(<<1, 2, 3, 4, 5, 6>>)

NoRuns == [p \in {"build", "split", "report", "train", "phase4_export", "ablation",
                  "generalization", "phase6_export", "phase5_export"} |-> 0]

\* What six candidates score: the forest of no depth alone is the best, it is
\* as good as the one of depth 16, or a candidate without a forest is.
Score(b, m) == [binary |-> b, multiclass |-> m]
Forest == Score(<<1, 2, 2, 3, 4, 2>>, <<1, 2, 2, 3, 4>>)
Tie    == Score(<<1, 2, 4, 3, 4, 2>>, <<1, 2, 4, 3, 4>>)
Linear == Score(<<1, 3, 2, 2, 1, 4>>, <<1, 4, 2, 3, 3>>)

MCFeature == [e \in 1 .. 6 |-> IF e <= 3 THEN {"c1", "c3"} ELSE {"c2", "c3"}]
MCGroup == [all_features |-> {}, no_tcp_features |-> {"c1"}]

Trained == <<"build", "split", "train">>

MCSession ==
    {\* a first data set, also of irregular experiments, and its training
     [done |-> << >>, matrices |-> << >>,
      runs |-> [NoRuns EXCEPT !["build"] = 1, !["split"] = 1, !["report"] = 1, !["train"] = 1,
                              !["phase4_export"] = 1],
      selections |-> {All, Some}, worlds |-> Irregular, scores |-> {Forest}],
     \* the data set is built again from another selection
     [done |-> <<"build", "split", "report">>, matrices |-> << >>,
      runs |-> [NoRuns EXCEPT !["build"] = 1, !["split"] = 2, !["report"] = 1],
      selections |-> {All, Some, Fewer}, worlds |-> {Regular}, scores |-> {Forest}],
     \* a training fails half way, for a label that it did not learn
     [done |-> Trained, matrices |-> << >>,
      runs |-> [NoRuns EXCEPT !["build"] = 1, !["split"] = 1, !["train"] = 1,
                              !["phase4_export"] = 1],
      selections |-> {All, Without2}, worlds |-> {[Regular EXCEPT ![2] = TwoFaults]},
      scores |-> {Forest}],
     \* models are trained again, exported and used
     [done |-> Trained \o <<"phase4_export">>, matrices |-> << >>,
      runs |-> [NoRuns EXCEPT !["train"] = 2, !["phase4_export"] = 1, !["generalization"] = 1],
      selections |-> {All}, worlds |-> {Regular}, scores |-> {Forest, Tie, Linear}],
     \* the results of phase 6 are computed again and exported
     [done |-> Trained \o <<"ablation", "generalization", "phase6_export">>, matrices |-> << >>,
      runs |-> [NoRuns EXCEPT !["train"] = 1, !["ablation"] = 1, !["generalization"] = 1,
                              !["phase6_export"] = 1],
      selections |-> {All}, worlds |-> {Regular}, scores |-> {Forest, Linear}],
     \* the overhead of telemetry is measured, and one scenario again
     [done |-> << >>, matrices |-> <<<<"off", "on">>, <<"on">>>>,
      runs |-> [NoRuns EXCEPT !["phase5_export"] = 1],
      selections |-> {All}, worlds |-> {Regular}, scores |-> {Forest}]}
\* A first training and its export.
MCFirstExport ==
    {[done |-> <<"build", "split">>, matrices |-> << >>,
      runs |-> [NoRuns EXCEPT !["train"] = 1, !["phase4_export"] = 1],
      selections |-> {All}, worlds |-> {Regular}, scores |-> {Forest, Tie, Linear}]}

=============================================================================
