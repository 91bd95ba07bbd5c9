----------------------------- MODULE SolanaChain -----------------------------
(***************************************************************************)
(* The part of a Solana cluster that go/workers/internal/chain relies on.  *)
(* It is not code of the repository: it is modelled from how land.go and   *)
(* client.go use it and from the guarantees their comments rely on.        *)
(*                                                                         *)
(* Blocks are indexed by block height; slotOf gives the slot of each block *)
(* (slots may be skipped, so a slot is not a height).  One signed wire is  *)
(* followed: at is the height of the block that holds it, 0 while no block *)
(* does.  RPC nodes sit behind a load balancer and lag behind the tip.     *)
(***************************************************************************)
EXTENDS Naturals, FiniteSets

CONSTANTS
    Nodes,                 \* RPC nodes behind the endpoint
    MaxHeight,             \* bound: height of the last block
    MaxSlot,               \* bound: slot of the last block
    MaxForks,              \* bound: how often unconfirmed blocks are abandoned
    LastValidBlockHeight   \* expiry of the wire's blockhash

ASSUME ChainAssumption ==
    /\ MaxHeight \in Nat \ {0}
    /\ MaxSlot \in Nat
    /\ MaxForks \in Nat
    /\ LastValidBlockHeight \in Nat \ {0}   \* Land refuses an attempt without expiry

VARIABLES
    slotOf,      \* slotOf[h]: the slot of the block at height h
    tip,         \* height of the newest block of the fork in use
    confirmed,   \* height of the newest confirmed block
    final,       \* height of the newest finalized block
    node,        \* node[n]: height up to which node n has replayed
    inflight,    \* the wire was handed to a node and may be included
    at,          \* height of the block that holds the wire, or 0
    failed,      \* the wire's execution failed in that block
    forks        \* how many forks were abandoned

chainVars == <<slotOf, tip, confirmed, final, node, inflight, at, failed, forks>>

Heights == 1..MaxHeight

ChainTypeOK ==
    /\ slotOf \in [Heights -> Nat]
    /\ tip \in Heights
    /\ confirmed \in Heights
    /\ final \in Heights
    /\ node \in [Nodes -> Heights]
    /\ inflight \in BOOLEAN
    /\ at \in 0..MaxHeight
    /\ failed \in BOOLEAN
    /\ forks \in Nat

\* A first block exists, finalized: client.go refuses a zero height or slot.
ChainInit ==
    /\ slotOf = [h \in Heights |-> IF h = 1 THEN 1 ELSE 0]
    /\ tip = 1
    /\ confirmed = 1
    /\ final = 1
    /\ node = [n \in Nodes |-> 1]
    /\ inflight = FALSE
    /\ at = 0
    /\ failed = FALSE
    /\ forks = 0

\* The leader produces a block, possibly after skipped slots.  It may include
\* the wire: once (a signature executes at most once on a fork), and only while
\* the block is not beyond the expiry of the wire's blockhash.
ProduceBlock(s, include, err) ==
    /\ tip < MaxHeight
    /\ s > slotOf[tip]
    /\ s + MaxHeight <= MaxSlot + tip + 1      \* bound: slots remain for MaxHeight
    /\ slotOf' = [slotOf EXCEPT ![tip + 1] = s]
    /\ tip' = tip + 1
    /\ include => inflight /\ at = 0 /\ tip + 1 <= LastValidBlockHeight
    /\ at' = IF include THEN tip + 1 ELSE at
    /\ failed' = IF include THEN err ELSE failed
    /\ UNCHANGED <<confirmed, final, node, inflight, forks>>

\* Blocks that are not confirmed may lose to another fork.  Nodes that had
\* replayed them switch with it.
AbandonFork(h) ==
    /\ forks < MaxForks
    /\ confirmed <= h
    /\ h < tip
    /\ forks' = forks + 1
    /\ tip' = h
    /\ slotOf' = [k \in Heights |-> IF k > h THEN 0 ELSE slotOf[k]]
    /\ node' = [n \in Nodes |-> IF node[n] > h THEN h ELSE node[n]]
    /\ at' = IF at > h THEN 0 ELSE at
    /\ failed' = IF at > h THEN FALSE ELSE failed
    /\ UNCHANGED <<confirmed, final, inflight>>

ConfirmBlock ==
    /\ confirmed < tip
    /\ confirmed' = confirmed + 1
    /\ UNCHANGED <<slotOf, tip, final, node, inflight, at, failed, forks>>

FinalizeBlock ==
    /\ final < confirmed
    /\ final' = final + 1
    /\ UNCHANGED <<slotOf, tip, confirmed, node, inflight, at, failed, forks>>

Replay(n) ==
    /\ node[n] < tip
    /\ node' = [node EXCEPT ![n] = node[n] + 1]
    /\ UNCHANGED <<slotOf, tip, confirmed, final, inflight, at, failed, forks>>

ChainNext ==
    \/ \E s \in 1..MaxSlot, include, err \in BOOLEAN : ProduceBlock(s, include, err)
    \/ \E h \in Heights : AbandonFork(h)
    \/ ConfirmBlock
    \/ FinalizeBlock
    \/ \E n \in Nodes : Replay(n)

-----------------------------------------------------------------------------
\* What one RPC answer may say.

\* getEpochInfo at commitment finalized: the height of a finalized block that
\* the answering node has replayed.  Only a node at the tip is known to have
\* learnt of the newest one.
FinalizedAnswer(n) ==
    {h \in Heights : h <= final /\ h <= node[n] /\ (node[n] = tip => h = final)}

\* The commitments of land.go, ordered as there.
Processed == 1
Confirmed == 2
Finalized == 3

CommitmentOf ==
    IF at <= final THEN Finalized ELSE IF at <= confirmed THEN Confirmed ELSE Processed

\* getSignatureStatuses: absent when the node has not replayed the block that
\* holds the wire; a lagging node may report less commitment than the cluster
\* has reached.
StatusAnswer(n) ==
    IF at # 0 /\ at <= node[n]
    THEN {[found |-> TRUE, commitment |-> c, err |-> failed, contextSlot |-> slotOf[node[n]]] :
             c \in {d \in Processed..CommitmentOf : node[n] = tip => d = CommitmentOf}}
    ELSE {[found |-> FALSE, commitment |-> Processed, err |-> FALSE, contextSlot |-> slotOf[node[n]]]}
=============================================================================
