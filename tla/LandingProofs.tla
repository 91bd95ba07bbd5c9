---------------------------- MODULE LandingProofs ----------------------------
(***************************************************************************)
(* Theorems about Landing, for any number of nodes, calls of Land, blocks, *)
(* forks and cuts.                                                         *)
(***************************************************************************)
EXTENDS Landing, TLAPS

\* The initial state satisfies the inductive invariant.
LEMMA InitInv == Init => IInv
  <1> USE ChainAssumption, LandingAssumption DEF Init, ChainInit, Heights
  <1> SUFFICES ASSUME Init PROVE IInv
    BY Zenon
  <1>1. TypeOK
    <2>1. slotOf \in [Heights -> Nat] /\ node \in [Nodes -> Heights]
      OBVIOUS
    <2>2. /\ phase \in [Landers -> Phases]
          /\ readHeight \in [Landers -> Heights]
          /\ outcome \in [Landers -> Outcomes]
      BY DEF Phases, Outcomes
    <2>3. inflight \in BOOLEAN /\ failed \in BOOLEAN /\ recorded \in BOOLEAN
      BY Zenon
    <2>4. /\ tip \in Heights /\ confirmed \in Heights /\ final \in Heights
          /\ at \in 0..MaxHeight /\ forks \in Nat /\ crashes \in Nat
      OBVIOUS
    <2> QED BY <2>1, <2>2, <2>3, <2>4 DEF TypeOK, ChainTypeOK
  <1>2. ChainInv
    <2>1. \A h, k \in Heights : h < k /\ k <= tip => slotOf[h] < slotOf[k]
      OBVIOUS
    <2> QED BY <2>1 DEF ChainInv
  <1>3. LandInv /\ OutcomeIsOnChain /\ SentIsRecorded
    BY DEF LandInv, OutcomeIsOnChain, SentIsRecorded
  <1> QED BY <1>1, <1>2, <1>3 DEF IInv

\* A step of the cluster keeps the inductive invariant: what is confirmed is not
\* abandoned, and no block beyond the expiry takes the wire.
LEMMA ChainStepInv ==
  ASSUME IInv, ChainNext, UNCHANGED landVars
  PROVE  IInv'
  <1> USE ChainAssumption, LandingAssumption DEF IInv, TypeOK, ChainTypeOK, Heights, landVars
  <1>1. ASSUME NEW s \in 1..MaxSlot, NEW include \in BOOLEAN, NEW err \in BOOLEAN,
               ProduceBlock(s, include, err)
        PROVE  IInv'
    <2>1. TypeOK'
      BY <1>1 DEF ProduceBlock
    <2>2. ChainInv'
      BY <1>1, SMTT(30) DEF ProduceBlock, ChainInv
    <2>3. LandInv' /\ OutcomeIsOnChain' /\ SentIsRecorded'
      BY <1>1, SMTT(30) DEF ProduceBlock, ChainInv, LandInv, OutcomeIsOnChain, SentIsRecorded
    <2> QED BY <2>1, <2>2, <2>3, Zenon
  <1>2. ASSUME NEW h \in Heights, AbandonFork(h)
        PROVE  IInv'
    <2>1. TypeOK'
      <3>1. slotOf' \in [Heights -> Nat] /\ node' \in [Nodes -> Heights]
        BY <1>2 DEF AbandonFork
      <3>2. tip' \in Heights /\ at' \in 0..MaxHeight /\ forks' \in Nat
        BY <1>2 DEF AbandonFork
      <3>3. failed' \in BOOLEAN
        BY <1>2, Zenon DEF AbandonFork
      <3> QED BY <1>2, <3>1, <3>2, <3>3, Zenon DEF AbandonFork
    <2>2. ChainInv'
      BY <1>2 DEF AbandonFork, ChainInv
    <2>3. LandInv' /\ OutcomeIsOnChain' /\ SentIsRecorded'
      BY <1>2 DEF AbandonFork, ChainInv, LandInv, OutcomeIsOnChain, SentIsRecorded
    <2> QED BY <2>1, <2>2, <2>3, Zenon
  <1>3. CASE ConfirmBlock
    BY <1>3, SMTT(30) DEF ConfirmBlock, ChainInv, LandInv, OutcomeIsOnChain, SentIsRecorded
  <1>4. CASE FinalizeBlock
    BY <1>4 DEF FinalizeBlock, ChainInv, LandInv, OutcomeIsOnChain, SentIsRecorded
  <1>5. ASSUME NEW n \in Nodes, Replay(n)
        PROVE  IInv'
    BY <1>5, SMTT(30) DEF Replay, ChainInv, LandInv, OutcomeIsOnChain, SentIsRecorded
  <1> QED BY <1>1, <1>2, <1>3, <1>4, <1>5, Zenon DEF ChainNext

\* The heart of the argument: an absent status, read from a node at or beyond
\* the finalized slot after a finalized height beyond the expiry was read, shows
\* that no block holds the wire.
LEMMA ExpiredSound ==
  ASSUME IInv, NEW n \in Nodes, NEW status \in StatusAnswer(n),
         NEW h \in Heights, h <= final, Classify(status, h) = "expired"
  PROVE  at = 0 /\ final > LastValidBlockHeight
  <1> USE ChainAssumption, LandingAssumption DEF IInv, TypeOK, ChainTypeOK, Heights
  <1>1. /\ ~status.found
        /\ h > LastValidBlockHeight
        /\ status.contextSlot >= slotOf[h]
    BY DEF Classify
  <1>2. status.contextSlot = slotOf[node[n]] /\ ~(at # 0 /\ at <= node[n])
    BY <1>1 DEF StatusAnswer
  <1>3. h <= node[n]
    BY <1>1, <1>2 DEF ChainInv
  <1> QED BY <1>1, <1>2, <1>3 DEF ChainInv

\* A landed or failed answer is about a confirmed block that holds the wire.
LEMMA AnswerSound ==
  ASSUME IInv, NEW n \in Nodes, NEW status \in StatusAnswer(n), NEW h \in Heights,
         Classify(status, h) \in {"landed", "failed"}
  PROVE  /\ at # 0 /\ at <= confirmed
         /\ failed <=> (Classify(status, h) = "failed")
  <1> USE ChainAssumption, LandingAssumption DEF IInv, TypeOK, ChainTypeOK, Heights
  <1>1. /\ status.found
        /\ status.err <=> (Classify(status, h) = "failed")
    BY Zenon DEF Classify
  <1>2. /\ at # 0
        /\ status.err = failed
        /\ status.commitment \in Processed..CommitmentOf
    BY <1>1 DEF StatusAnswer
  <1>3. status.commitment >= Confirmed
    <2>1. status.commitment >= Confirmed \/ status.commitment >= Required
      BY Zenon DEF Classify
    <2>2. status.commitment \in Nat
      BY <1>2 DEF Processed, CommitmentOf, Confirmed, Finalized
    <2> QED BY <2>1, <2>2 DEF Confirmed, Finalized
  <1>4. at <= confirmed
    BY <1>2, <1>3 DEF CommitmentOf, ChainInv, Processed, Confirmed, Finalized
  <1> QED BY <1>1, <1>2, <1>4

\* A step of a call of Land keeps the inductive invariant.
LEMMA LandStepInv ==
  ASSUME IInv, NEW l \in Landers, Step(l) \/ Cut(l)
  PROVE  IInv'
  <1> USE ChainAssumption, LandingAssumption
      DEF IInv, TypeOK, ChainTypeOK, Heights, Phases, Outcomes, chainVars
  <1>1. CASE ReadFinalizedHeight(l)
    BY <1>1, Zenon DEF ReadFinalizedHeight, FinalizedAnswer, ChainInv, LandInv, OutcomeIsOnChain, SentIsRecorded
  <1>2. CASE ReadStatus(l)
    <2>0. PICK n \in Nodes : \E status \in StatusAnswer(n) :
            LET out == Classify(status, readHeight[l]) IN
            /\ outcome' = [outcome EXCEPT ![l] = out]
            /\ phase' = [phase EXCEPT ![l] =
                  IF out # "none" THEN "done"
                  ELSE IF ShouldSend(status, readHeight[l]) THEN "record" ELSE "wait"]
      BY <1>2, Zenon DEF ReadStatus
    <2>1. PICK status \in StatusAnswer(n) :
            LET out == Classify(status, readHeight[l]) IN
            /\ outcome' = [outcome EXCEPT ![l] = out]
            /\ phase' = [phase EXCEPT ![l] =
                  IF out # "none" THEN "done"
                  ELSE IF ShouldSend(status, readHeight[l]) THEN "record" ELSE "wait"]
      BY <2>0, Zenon
    <2> DEFINE out == Classify(status, readHeight[l])
    <2>2. out \in Outcomes
      BY DEF Classify
    <2>3. out = "expired" => at = 0 /\ final > LastValidBlockHeight
      BY ExpiredSound, Zenon DEF LandInv
    <2>4. out \in {"landed", "failed"} => at # 0 /\ at <= confirmed /\ (failed <=> (out = "failed"))
      BY AnswerSound, Zenon
    <2>5. UNCHANGED <<chainVars, readHeight, recorded, crashes>>
      BY <1>2 DEF ReadStatus
    <2> HIDE DEF out
    <2>6. TypeOK' /\ ChainInv'
      BY <2>1, <2>2, <2>5, Zenon DEF ChainInv, out
    <2>7. LandInv' /\ OutcomeIsOnChain' /\ SentIsRecorded'
      <3>1. /\ outcome' = [outcome EXCEPT ![l] = out]
            /\ phase'[l] \in {"done", "record", "wait"}
            /\ (phase'[l] = "done") <=> (out # "none")
            /\ \A k \in Landers \ {l} : phase'[k] = phase[k]
        BY <2>1 DEF out
      <3> QED BY <3>1, <2>2, <2>3, <2>4, <2>5, ZenonT(30) DEF LandInv, OutcomeIsOnChain, SentIsRecorded
    <2> QED BY <2>6, <2>7, Zenon
  <1>3. CASE RecordSend(l)
    BY <1>3, Zenon DEF RecordSend, ChainInv, LandInv, OutcomeIsOnChain, SentIsRecorded
  <1>4. CASE SendWire(l)
    BY <1>4, Zenon DEF SendWire, ChainInv, LandInv, OutcomeIsOnChain, SentIsRecorded
  <1>5. CASE Tick(l)
    BY <1>5, Zenon DEF Tick, ChainInv, LandInv, OutcomeIsOnChain, SentIsRecorded
  <1>6. CASE Cut(l)
    BY <1>6, SMTT(30) DEF Cut, ChainInv, LandInv, OutcomeIsOnChain, SentIsRecorded
  <1> QED BY <1>1, <1>2, <1>3, <1>4, <1>5, <1>6, Zenon DEF Step

\* Every step keeps the inductive invariant.
LEMMA NextInv == IInv /\ [Next]_vars => IInv'
  <1> SUFFICES ASSUME IInv, [Next]_vars PROVE IInv'
    OBVIOUS
  <1>1. CASE ChainNext /\ UNCHANGED landVars
    BY <1>1, ChainStepInv
  <1>2. ASSUME NEW l \in Landers, Step(l) \/ Cut(l) PROVE IInv'
    BY <1>2, LandStepInv
  <1>3. CASE UNCHANGED vars
    BY <1>3 DEF vars, chainVars, landVars, IInv, TypeOK, ChainTypeOK, ChainInv, LandInv,
                OutcomeIsOnChain, SentIsRecorded
  <1> QED BY <1>1, <1>2, <1>3 DEF Next

\* Land and the chain keep the inductive invariant in every reachable state.
THEOREM InductiveInvariant == Spec => []IInv
  BY InitInv, NextInv, PTL DEF Spec

\* An expired outcome of chain.Land is final: the wire is not on chain when it
\* is reported and never gets there, for any lag, fork and number of callers.
THEOREM ExpiredIsSafe == Spec => []ExpiredNeverLands
  <1>1. IInv => ExpiredNeverLands
    BY DEF IInv, LandInv, ExpiredNeverLands
  <1> QED BY <1>1, InductiveInvariant, PTL

\* A landed or failed outcome of chain.Land names the result the chain keeps.
THEOREM OutcomeIsSafe == Spec => []OutcomeIsOnChain
  <1>1. IInv => OutcomeIsOnChain
    BY DEF IInv
  <1> QED BY <1>1, InductiveInvariant, PTL

\* No byte reaches the network before recordSend has committed.
THEOREM RecordedBeforeSent == Spec => []SentIsRecorded
  <1>1. IInv => SentIsRecorded
    BY Zenon DEF IInv
  <1> QED BY <1>1, InductiveInvariant, PTL

\* A step of the cluster decides the wire's fate once, or leaves it alone.
LEMMA ChainStepFate ==
  ASSUME IInv, ChainNext, UNCHANGED landVars
  PROVE  [F!Next]_F!vars
  <1> USE ChainAssumption, LandingAssumption
      DEF IInv, TypeOK, ChainTypeOK, Heights, landVars, F!vars, Fate
  <1>1. ASSUME NEW s \in 1..MaxSlot, NEW include \in BOOLEAN, NEW err \in BOOLEAN,
               ProduceBlock(s, include, err)
        PROVE  UNCHANGED F!vars
    BY <1>1 DEF ProduceBlock, ChainInv
  <1>2. ASSUME NEW h \in Heights, AbandonFork(h)
        PROVE  UNCHANGED F!vars
    BY <1>2 DEF AbandonFork, ChainInv
  <1>3. ASSUME ConfirmBlock
        PROVE  [F!Next]_F!vars
    <2>1. CASE Fate' = Fate
      BY <1>3, <2>1 DEF ConfirmBlock
    <2>2. CASE Fate' # Fate
      <3>1. Fate = "open" /\ inflight /\ Fate' \in {"landed", "failed"}
        BY <1>3, <2>2 DEF ConfirmBlock, ChainInv
      <3>2. F!Execute
        BY <1>3, <3>1 DEF F!Execute, ConfirmBlock
      <3> QED BY <3>2 DEF F!Next
    <2> QED BY <2>1, <2>2
  <1>4. ASSUME FinalizeBlock
        PROVE  [F!Next]_F!vars
    <2>1. CASE Fate' = Fate
      BY <1>4, <2>1 DEF FinalizeBlock
    <2>2. CASE Fate' # Fate
      <3>1. Fate = "open" /\ Fate' = "expired"
        BY <1>4, <2>2 DEF FinalizeBlock, ChainInv
      <3>2. F!Expire
        BY <1>4, <3>1 DEF F!Expire, FinalizeBlock
      <3> QED BY <3>2 DEF F!Next
    <2> QED BY <2>1, <2>2
  <1>5. ASSUME NEW n \in Nodes, Replay(n)
        PROVE  UNCHANGED F!vars
    BY <1>5 DEF Replay
  <1> QED BY <1>1, <1>2, <1>3, <1>4, <1>5 DEF ChainNext

\* A step of a call of Land sends, answers with the wire's fate, or is silent.
LEMMA LandStepFate ==
  ASSUME IInv, IInv', NEW l \in Landers, Step(l) \/ Cut(l)
  PROVE  [F!Next]_F!vars
  <1> USE DEF F!vars, Fate, chainVars
  <1>1. CASE ReadFinalizedHeight(l) \/ RecordSend(l) \/ Tick(l) \/ Cut(l)
    BY <1>1 DEF ReadFinalizedHeight, RecordSend, Tick, Cut
  <1>2. CASE SendWire(l)
    <2>1. CASE inflight' = inflight
      BY <1>2, <2>1 DEF SendWire
    <2>2. CASE inflight' = TRUE
      BY <1>2, <2>2 DEF SendWire, F!Send, F!Next
    <2> QED BY <1>2, <2>1, <2>2, Zenon DEF SendWire
  <1>3. CASE ReadStatus(l)
    <2>1. PICK out : outcome' = [outcome EXCEPT ![l] = out]
      BY <1>3, Zenon DEF ReadStatus
    <2>2. UNCHANGED chainVars /\ outcome[l] = "none" /\ outcome'[l] = out
      BY <1>3, <2>1 DEF ReadStatus, IInv, LandInv, TypeOK
    <2>3. CASE out = "none"
      BY <2>1, <2>2, <2>3 DEF IInv, TypeOK
    <2>4. CASE out # "none"
      <3>1. out \in {"landed", "failed", "expired"}
        BY <2>2, <2>4, Zenon DEF IInv, TypeOK, Outcomes
      <3>2. out = Fate /\ Fate # "open"
        BY <2>2, <3>1 DEF IInv, LandInv, OutcomeIsOnChain
      <3>3. F!Answer(l)
        BY <2>1, <2>2, <3>2 DEF F!Answer
      <3> QED BY <3>3 DEF F!Next
    <2> QED BY <2>3, <2>4
  <1> QED BY <1>1, <1>2, <1>3, Zenon DEF Step

\* Land over the chain implements WireFate: every wire has one permanent fate,
\* and every call of Land that answers, answers it.
THEOREM Refinement == Spec => ImplementsWireFate
  <1>1. Init => F!Init
    BY ChainAssumption DEF Init, ChainInit, F!Init, Fate, Heights
  <1>2. IInv /\ IInv' /\ [Next]_vars => [F!Next]_F!vars
    <2> SUFFICES ASSUME IInv, IInv', [Next]_vars PROVE [F!Next]_F!vars
      OBVIOUS
    <2>1. CASE ChainNext /\ UNCHANGED landVars
      BY <2>1, ChainStepFate
    <2>2. ASSUME NEW l \in Landers, Step(l) \/ Cut(l) PROVE [F!Next]_F!vars
      BY <2>2, LandStepFate
    <2>3. CASE UNCHANGED vars
      BY <2>3 DEF vars, chainVars, landVars, F!vars, Fate
    <2> QED BY <2>1, <2>2, <2>3 DEF Next
  <1> QED BY <1>1, <1>2, InductiveInvariant, PTL DEF Spec, ImplementsWireFate, F!Spec
=============================================================================
