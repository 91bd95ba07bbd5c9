------------------------------ MODULE MCLanding ------------------------------
(***************************************************************************)
(* Landing for TLC: two landers of one wire, two nodes.  The wire expires  *)
(* at height 2 of 3, so that blocks exist before, at and beyond its        *)
(* expiry; slots may be skipped; one fork may be abandoned and one call    *)
(* cut short.                                                              *)
(***************************************************************************)
EXTENDS Landing

CONSTANTS n1, n2, l1, l2

MCNodes == {n1, n2}
MCLanders == {l1, l2}
=============================================================================
