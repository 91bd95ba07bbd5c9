------------------------------- MODULE Landing -------------------------------
(***************************************************************************)
(* chain.Land and chain.observe (go/workers/internal/chain/land.go): resend *)
(* the same signed bytes until their signature lands, fails on chain, or    *)
(* its blockhash expires.                                                   *)
(*                                                                         *)
(* Landers are calls of Land for the same wire: the caller that crashed and *)
(* the one that took its operation over, or two processes that both believe *)
(* they own it.  recordSend is the caller's durable count of the send.      *)
(***************************************************************************)
EXTENDS SolanaChain

CONSTANTS
    Landers,      \* concurrent calls of Land for this wire
    Required,     \* Attempt.Required: Confirmed or Finalized
    MaxCrashes    \* bound: calls cut short by ctx, an RPC error or a crash

ASSUME LandingAssumption ==
    /\ Required \in {Confirmed, Finalized}
    /\ MaxCrashes \in Nat

VARIABLES
    phase,      \* phase[l]: where the loop of Land stands
    readHeight, \* readHeight[l]: (height, slot) of FinalizedBlockHeight, by height
    outcome,    \* outcome[l]: what Land returned, "none" while it runs
    recorded,   \* recordSend has committed at least once
    crashes

landVars == <<phase, readHeight, outcome, recorded, crashes>>
vars == <<chainVars, landVars>>

Phases == {"height", "status", "record", "send", "wait", "done"}
Outcomes == {"none", "landed", "failed", "expired"}

TypeOK ==
    /\ ChainTypeOK
    /\ phase \in [Landers -> Phases]
    /\ readHeight \in [Landers -> Heights]
    /\ outcome \in [Landers -> Outcomes]
    /\ recorded \in BOOLEAN
    /\ crashes \in Nat

Init ==
    /\ ChainInit
    /\ phase = [l \in Landers |-> "height"]
    /\ readHeight = [l \in Landers |-> 1]
    /\ outcome = [l \in Landers |-> "none"]
    /\ recorded = FALSE
    /\ crashes = 0

\* observe, first call: FinalizedBlockHeight, answered by any node.
ReadFinalizedHeight(l) ==
    /\ phase[l] = "height"
    /\ \E n \in Nodes : \E h \in FinalizedAnswer(n) :
           readHeight' = [readHeight EXCEPT ![l] = h]
    /\ phase' = [phase EXCEPT ![l] = "status"]
    /\ UNCHANGED <<chainVars, outcome, recorded, crashes>>

\* Mutant: expiry without the finalized slot of the answering node.
Classify_AnyNode(status, height) ==
    CASE status.found /\ status.commitment >= Confirmed /\ status.err -> "failed"
      [] status.found /\ status.commitment >= Required /\ ~status.err -> "landed"
      [] ~status.found /\ height > LastValidBlockHeight -> "expired"
      [] OTHER -> "none"

\* Mutant: an error is final as soon as one node has processed it.
Classify_ProcessedError(status, height) ==
    CASE status.found /\ status.err -> "failed"
      [] status.found /\ status.commitment >= Required /\ ~status.err -> "landed"
      [] ~status.found /\ height > LastValidBlockHeight
             /\ status.contextSlot >= slotOf[height] -> "expired"
      [] OTHER -> "none"

\* Mutant: the last valid block height counts as expired.
Classify_OffByOne(status, height) ==
    CASE status.found /\ status.commitment >= Confirmed /\ status.err -> "failed"
      [] status.found /\ status.commitment >= Required /\ ~status.err -> "landed"
      [] ~status.found /\ height >= LastValidBlockHeight
             /\ status.contextSlot >= slotOf[height] -> "expired"
      [] OTHER -> "none"

\* observe's switch: the outcome a status decides, "none" when it decides none.
Classify(status, height) ==
    CASE status.found /\ status.commitment >= Confirmed /\ status.err -> "failed"
      [] status.found /\ status.commitment >= Required /\ ~status.err -> "landed"
      [] ~status.found /\ height > LastValidBlockHeight
             /\ status.contextSlot >= slotOf[height] -> "expired"
      [] OTHER -> "none"

\* The last line of observe: resend what is absent and can still land, and what
\* is only processed without an error.  An absent wire beyond its expiry, seen
\* from a node behind the finalized slot, is neither an outcome nor resent.
ShouldSend(status, height) ==
    \/ ~status.found /\ height <= LastValidBlockHeight
    \/ status.found /\ status.commitment = Processed /\ ~status.err

\* observe, second call: SignatureState, answered by any node, and the switch.
ReadStatus(l) ==
    /\ phase[l] = "status"
    /\ \E n \in Nodes : \E status \in StatusAnswer(n) :
           LET out == Classify(status, readHeight[l]) IN
           /\ outcome' = [outcome EXCEPT ![l] = out]
           /\ phase' = [phase EXCEPT ![l] =
                  IF out # "none" THEN "done"
                  ELSE IF ShouldSend(status, readHeight[l]) THEN "record" ELSE "wait"]
    /\ UNCHANGED <<chainVars, readHeight, recorded, crashes>>

\* recordSend commits.  When it fails nothing is sent: that is Cut below.
RecordSend(l) ==
    /\ phase[l] = "record"
    /\ recorded' = TRUE
    /\ phase' = [phase EXCEPT ![l] = "send"]
    /\ UNCHANGED <<chainVars, readHeight, outcome, crashes>>

\* SendWire: a node accepts and forwards the wire, or refuses or drops it (a
\* failed preflight, an already processed answer).  Either way Land goes on.
SendWire(l) ==
    /\ phase[l] = "send"
    /\ inflight' \in {inflight, TRUE}
    /\ phase' = [phase EXCEPT ![l] = "wait"]
    /\ UNCHANGED <<slotOf, tip, confirmed, final, node, at, failed, forks>>
    /\ UNCHANGED <<readHeight, outcome, recorded, crashes>>

\* Mutant: the timer fires only for a wire that was sent.
Tick_OnlyAfterSend(l) ==
    /\ phase[l] = "wait"
    /\ inflight
    /\ phase' = [phase EXCEPT ![l] = "height"]
    /\ UNCHANGED <<chainVars, readHeight, outcome, recorded, crashes>>

\* The timer fires.
Tick(l) ==
    /\ phase[l] = "wait"
    /\ phase' = [phase EXCEPT ![l] = "height"]
    /\ UNCHANGED <<chainVars, readHeight, outcome, recorded, crashes>>

\* An RPC error, a failed recordSend, ctx.Done or a crash ends the call without
\* an outcome; the caller calls Land again for the same bytes.
Cut(l) ==
    /\ crashes < MaxCrashes
    /\ phase[l] # "done"
    /\ crashes' = crashes + 1
    /\ phase' = [phase EXCEPT ![l] = "height"]
    /\ UNCHANGED <<chainVars, readHeight, outcome, recorded>>

Step(l) == ReadFinalizedHeight(l) \/ ReadStatus(l) \/ RecordSend(l) \/ SendWire(l) \/ Tick(l)

Next ==
    \/ ChainNext /\ UNCHANGED landVars
    \/ \E l \in Landers : Step(l) \/ Cut(l)

Spec == Init /\ [][Next]_vars

\* The cluster keeps producing, confirming and finalizing blocks, its nodes
\* catch up, and a running call of Land takes its next step: its timer fires
\* and no RPC call blocks for ever (every client has a timeout).
Fairness ==
    /\ WF_vars(\E s \in 1..MaxSlot : ProduceBlock(s, FALSE, FALSE) /\ UNCHANGED landVars)
    /\ WF_vars(ConfirmBlock /\ UNCHANGED landVars)
    /\ WF_vars(FinalizeBlock /\ UNCHANGED landVars)
    /\ \A n \in Nodes : WF_vars(Replay(n) /\ UNCHANGED landVars)
    /\ \A l \in Landers : WF_vars(Step(l))

FairSpec == Spec /\ Fairness

-----------------------------------------------------------------------------
\* An expired outcome is final: the comment on Observe says that a signature
\* absent after a finalized height beyond its expiry was read "can never land".
\* No call of Land may report expiry for a wire that is, or later gets, on chain.
ExpiredNeverLands ==
    \A l \in Landers : outcome[l] = "expired" => at = 0

\* A landed or failed outcome is never undone by a fork, and the reported
\* result is the one the chain keeps: Land answers only at commitment confirmed
\* or above.
OutcomeIsOnChain ==
    \A l \in Landers :
        /\ outcome[l] = "landed" => at # 0 /\ at <= confirmed /\ ~failed
        /\ outcome[l] = "failed" => at # 0 /\ at <= confirmed /\ failed

\* Write-ahead: bytes are on the network only if recordSend committed before,
\* whatever call was cut short in between.
SentIsRecorded == inflight => recorded

\* Every call of Land ends with an outcome, although it may be cut short and
\* repeated, nodes lag and unconfirmed blocks are abandoned.
EventuallyDecided == \A l \in Landers : <>(outcome[l] # "none")

-----------------------------------------------------------------------------
\* The strengthening under which the properties above are inductive.

\* The marks of the chain are ordered, later blocks have later slots, and the
\* wire sits only in a block within its expiry and only after it was sent.
ChainInv ==
    /\ final <= confirmed
    /\ confirmed <= tip
    /\ at <= tip
    /\ at # 0 => at <= LastValidBlockHeight /\ inflight
    /\ \A n \in Nodes : node[n] <= tip
    /\ \A h, k \in Heights : h < k /\ k <= tip => slotOf[h] < slotOf[k]

\* A height that was read stays finalized; expiry was concluded under a
\* finalized block beyond it; a call about to send has recorded the send.
LandInv ==
    /\ \A l \in Landers : readHeight[l] <= final
    /\ \A l \in Landers : outcome[l] = "expired" => at = 0 /\ final > LastValidBlockHeight
    /\ \A l \in Landers : (phase[l] = "done") <=> (outcome[l] # "none")
    /\ \A l \in Landers : phase[l] = "send" => recorded

IInv == TypeOK /\ ChainInv /\ LandInv /\ OutcomeIsOnChain /\ SentIsRecorded

-----------------------------------------------------------------------------
\* What Land promises its callers: WireFate, with the wire's fate read off the
\* chain.  A wire is decided once its block is confirmed, or once a finalized
\* block lies beyond its expiry without it.
Fate ==
    IF at # 0 /\ at <= confirmed THEN (IF failed THEN "failed" ELSE "landed")
    ELSE IF at = 0 /\ final > LastValidBlockHeight THEN "expired"
    ELSE "open"

F == INSTANCE WireFate WITH fate <- Fate, sent <- inflight, answer <- outcome

\* Land and the chain together implement WireFate: one permanent fate per wire,
\* reached only by a wire that was sent (or by expiry), and every answer is it.
ImplementsWireFate == F!Spec
=============================================================================
