---------------------------- MODULE MCSmdStore ----------------------------
(* SmdStore with a few values of the metadata. *)
EXTENDS SmdStore, TLC

CONSTANTS m1, m2, m3, m4
MCMetas == {m1, m2, m3, m4}
Symmetry == Permutations(MCMetas)
=============================================================================
