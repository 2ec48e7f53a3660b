----------------------------- MODULE MCFsAtomic -----------------------------
(***************************************************************************)
(* FsAtomic for TLC: nothing tells two writers or two contents apart.      *)
(***************************************************************************)
EXTENDS FsAtomic, TLC

Symmetry == Permutations(Writers) \cup Permutations(Contents)
=============================================================================
