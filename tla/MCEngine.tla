------------------------------ MODULE MCEngine ------------------------------
(***************************************************************************)
(* Engine with two processes of two lanes each.                            *)
(***************************************************************************)
EXTENDS Engine
=============================================================================
