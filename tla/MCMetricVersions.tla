-------------------------- MODULE MCMetricVersions --------------------------
(* Model-checking instances of MetricVersions. *)
EXTENDS MetricVersions, TLC

\* no operation distinguishes one consumer from another
ConsumerSymmetry == Permutations(Consumers)
=============================================================================
