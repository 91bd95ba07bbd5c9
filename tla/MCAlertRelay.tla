---------------------------- MODULE MCAlertRelay ----------------------------
(***************************************************************************)
(* AlertRelay on small instances: two deliveries of one evaluation, the    *)
(* second grown enough to escalate, and a delivery of another signature,   *)
(* with room for one window.                                               *)
(***************************************************************************)
EXTENDS AlertRelay

MCMessages ==
    {[idem |-> 1, key |-> "a", eval |-> 1, events |-> 1, ok |-> FALSE],
     [idem |-> 2, key |-> "a", eval |-> 1, events |-> 3, ok |-> FALSE],
     [idem |-> 3, key |-> "b", eval |-> 1, events |-> 1, ok |-> FALSE],
     [idem |-> 2, key |-> "a", eval |-> 1, events |-> 1, ok |-> TRUE]}

\* A deployed relay: a state file, the grace period and the daily recap.
MCConfigs == {[stateFile |-> TRUE, grace |-> 1, recap |-> TRUE]}

=============================================================================
