--------------------------- MODULE MCDeployQueue ---------------------------
EXTENDS DeployQueue, TLC

Symmetry == Permutations(Rows) \cup Permutations(Hosts)
=============================================================================
