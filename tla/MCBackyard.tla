----------------------------- MODULE MCBackyard -----------------------------
(* Backyard on small instances. *)
EXTENDS Backyard, TLC

ProcSymmetry == Permutations(Procs)
=============================================================================
