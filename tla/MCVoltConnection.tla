-------------------------- MODULE MCVoltConnection --------------------------
EXTENDS VoltConnectionProps, TLC

Symmetry == Permutations(Calls)

=============================================================================
