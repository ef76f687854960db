---- MODULE MCMasterKey ----
EXTENDS MasterKey, TLC

Symmetry == Permutations(Values)
====
