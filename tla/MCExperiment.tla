---------------------------- MODULE MCExperiment ----------------------------
(* A small instance of an experiment.                                      *)
EXTENDS Experiment

=============================================================================
