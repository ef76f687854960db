---------------------------- MODULE MCRevocation ----------------------------
(* Instances of Revocation for TLC. *)
EXTENDS Revocation, TLC

Symmetry == Permutations(Certs) \cup Permutations(Workers)
=============================================================================
