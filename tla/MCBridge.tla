------------------------------ MODULE MCBridge ------------------------------
(***************************************************************************)
(* Bridge on small instances: two incoming transfers of one route that     *)
(* race to be confirmed, or one transfer of any kind under its trackers.   *)
(***************************************************************************)
EXTENDS Bridge, FiniteSets, TLC

\* The transfers an instance lets run: one, under trackers; or more, before any
\* tracker has started a tick and any deposit has reached Relay.
Started(i) == IF i \in ClientIds THEN client[i] # "idle" ELSE sent[i]
Transfers ==
    \/ Cardinality({i \in Ids : Started(i)}) <= 1
    \/ /\ \A t \in Trackers : pc[t] = "drop"
       /\ \A i \in Ids : relay[i] = "waiting"

Symmetry == Permutations(InIds) \cup Permutations(Trackers)

=============================================================================
