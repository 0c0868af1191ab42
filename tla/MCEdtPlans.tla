----------------------------- MODULE MCEdtPlans -----------------------------
EXTENDS EdtPlans, TLC

Symmetry == Permutations(Calls)
=============================================================================
