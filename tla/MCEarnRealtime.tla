--------------------------- MODULE MCEarnRealtime ---------------------------
(***************************************************************************)
(* Instances of EarnRealtime: the first event invalidates the position,    *)
(* and the later ones the state where the instance has that resource.      *)
(***************************************************************************)
EXTENDS EarnRealtime

MCTouches ==
    [e \in 1..MaxEvents |->
        IF e > 1 /\ "state" \in Resources THEN {"state"} ELSE {"position"}]

\* Failures, refreshes from elsewhere and sessions, together: two of them beside
\* the first session, and none once the third row is there, which fills the
\* client's channel.
FewDisturbances ==
    faults + refreshes + mounts <= IF Cardinality(done \ {0}) > 2 THEN 1 ELSE 3

=============================================================================
