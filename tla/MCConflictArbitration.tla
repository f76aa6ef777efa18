------------------------ MODULE MCConflictArbitration ------------------------
EXTENDS ConflictArbitration, TLC

\* metric codes are alike
MetricSymmetry == Permutations(Metrics)

=============================================================================
