-------------------------- MODULE MCReleaseControl --------------------------
(***************************************************************************)
(* Small instances of ReleaseControl for TLC.                              *)
(***************************************************************************)
EXTENDS ReleaseControl, TLC

Symmetry == Permutations(Admitters) \union Permutations(Operators) \union Permutations(Owners)
=============================================================================
