---------------------------- MODULE MCReadModel ----------------------------
(***************************************************************************)
(* ReadModel on a small instance: two callers, one load whose request the  *)
(* queue retries (an account read) and one it does not, one dispatch per   *)
(* window of two ticks, and a chain that changes once.                     *)
(***************************************************************************)
EXTENDS ReadModel

Ask(key, method) == [key |-> key, method |-> method]
MCLoads == {Ask("a", "getAccountInfo"), Ask("b", "getSignaturesForAddress")}

=============================================================================
