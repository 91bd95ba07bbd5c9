------------------------------ MODULE WireFate ------------------------------
(***************************************************************************)
(* What chain.Land promises its callers about one signed wire, without the *)
(* chain: the wire has one permanent fate, and every call that returns an  *)
(* outcome returns that fate.                                              *)
(***************************************************************************)
CONSTANT Landers

VARIABLES
    fate,    \* "open" until decided, then "landed", "failed" or "expired"
    sent,    \* the bytes reached the network
    answer   \* answer[l]: the outcome a call of Land returned, or "none"

vars == <<fate, sent, answer>>

TypeOK ==
    /\ fate \in {"open", "landed", "failed", "expired"}
    /\ sent \in BOOLEAN
    /\ answer \in [Landers -> {"none", "landed", "failed", "expired"}]

Init ==
    /\ fate = "open"
    /\ sent = FALSE
    /\ answer = [l \in Landers |-> "none"]

Send ==
    /\ sent' = TRUE
    /\ UNCHANGED <<fate, answer>>

Execute ==
    /\ fate = "open"
    /\ sent
    /\ fate' \in {"landed", "failed"}
    /\ UNCHANGED <<sent, answer>>

Expire ==
    /\ fate = "open"
    /\ fate' = "expired"
    /\ UNCHANGED <<sent, answer>>

Answer(l) ==
    /\ answer[l] = "none"
    /\ fate # "open"
    /\ answer' = [answer EXCEPT ![l] = fate]
    /\ UNCHANGED <<fate, sent>>

Next == Send \/ Execute \/ Expire \/ \E l \in Landers : Answer(l)

Spec == Init /\ [][Next]_vars
=============================================================================
