---- MODULE MCScepRequests ----
EXTENDS ScepRequests, TLC

Symmetry == Permutations(Txns) \cup Permutations(Handlers)
====
