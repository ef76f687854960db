---------------------------- MODULE MCAuditChain ----------------------------
EXTENDS AuditChain, TLC

Symmetry == Permutations(Writers)
=============================================================================
