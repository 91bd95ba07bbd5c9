-------------------------- MODULE MCWithdrawalCost --------------------------
(***************************************************************************)
(* WithdrawalCost with three receipts of one to three LP each, beside no,  *)
(* one or four LP of other holders.                                        *)
(***************************************************************************)
EXTENDS WithdrawalCost
=============================================================================
