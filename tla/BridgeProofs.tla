---------------------------- MODULE BridgeProofs ----------------------------
(***************************************************************************)
(* Theorems about Bridge, for any number of transfers, trackers and        *)
(* faults.  Where the runs follow one transfer at a time past its          *)
(* confirmation, the proofs let all of them run together.                  *)
(***************************************************************************)
EXTENDS BridgeClient

-----------------------------------------------------------------------------
\* The tracker.

\* A step that changes only what a tracker remembers, and remembers only what is so.
LEMMA MemoryStep ==
  ASSUME IInv, UNCHANGED <<row, web, outside>>, TrackerType', faults' \in 0..MaxFaults,
         \A t \in Trackers : TrackerOK(t)', WarningOK'
  PROVE  IInv'
  <1>1. TypeOK'
    BY TypeSame DEF IInv, TypeOK
  <1>2. LockOK'
    BY LockSame DEF IInv, row, web
  <1>3. \A j \in ClientIds : ClientOK(j)'
    BY ClientSame DEF IInv, row, web, outside
  <1>4. \A j \in Ids : RowOK(j)'
    BY RowSame DEF IInv, row, outside
  <1> QED BY <1>1, <1>2, <1>3, <1>4 DEF IInv

\* The reads of a tick that change no row keep it.
LEMMA ReadInv ==
  ASSUME IInv, NEW t \in Trackers, ReadOpen(t) \/ ReadConfirmed(t) \/ SelectAbandoned(t)
  PROVE  IInv'
  <1>1. TrackerType'
    <2>1. CASE ReadOpen(t)
      BY <2>1 DEF IInv, TypeOK, RowType, TrackerType, TransferStates, OpenTransfer, OpenState, ReadOpen
    <2>2. CASE ReadConfirmed(t)
      BY <2>2, Zenon DEF IInv, TypeOK, TrackerType, ReadConfirmed, ClientIds, Ids
    <2>3. CASE SelectAbandoned(t)
      BY <2>3, Zenon DEF IInv, TypeOK, TrackerType, SelectAbandoned, ClientIds, Ids
    <2> QED BY <2>1, <2>2, <2>3
  <1>2. \A u \in Trackers : TrackerOK(u)'
    BY TrackerSame DEF IInv, outside, ReadOpen, ReadConfirmed, SelectAbandoned
  <1>3. WarningOK'
    BY ToWarnType, WarningKept
    DEF IInv, TypeOK, TrackerType, ToWarn, row, ReadOpen, ReadConfirmed, SelectAbandoned
  <1> QED BY <1>1, <1>2, <1>3, MemoryStep DEF IInv, TypeOK, ReadOpen, ReadConfirmed, SelectAbandoned

\* An answer of Relay keeps it: a final status is Relay's for ever.
LEMMA AskRelayInv ==
  ASSUME IInv, NEW t \in Trackers, NEW i \in Ids, AskRelay(t, i)
  PROVE  IInv'
  <1> USE DEF AskRelay
  <1>1. TrackerType'
    BY DEF IInv, TypeOK, OutsideType, TrackerType
  <1>2. \A u \in Trackers : TrackerOK(u)'
    BY DEF IInv, TypeOK, TrackerType, TrackerOK, outside
  <1>3. WarningOK'
    BY WarningSame DEF IInv, row
  <1> QED BY <1>1, <1>2, <1>3, MemoryStep DEF IInv, TypeOK

\* A tracker forgets an answer, the rest of a query, or its tick.
LEMMA ForgetInv ==
  ASSUME IInv, NEW t \in Trackers,
         \/ \E i \in Ids : PollError(t, i)
         \/ \E i \in ClientIds : AdoptError(t, i)
         \/ TickFails(t)
  PROVE  IInv'
  <1>0. UNCHANGED <<row, web, outside, found>> /\ faults' \in 0..MaxFaults
    BY FaultType DEF IInv, TypeOK, PollError, AdoptError, TickFails
  <1>1. TrackerType'
    <2>1. CASE \E i \in Ids : PollError(t, i)
      BY <2>1 DEF IInv, TypeOK, TrackerType, NoAnswer, PollError, PollDone
    <2>2. CASE \E i \in ClientIds : AdoptError(t, i)
      BY <2>2 DEF IInv, TypeOK, TrackerType, AdoptError
    <2>3. CASE TickFails(t)
      BY <2>3 DEF IInv, TypeOK, TrackerType, NoAnswer, TickFails
    <2> QED BY <2>1, <2>2, <2>3
  <1>2. \A u \in Trackers : TrackerOK(u)'
    <2>1. \A u \in Trackers, j \in Ids : answer'[u][j] \in {answer[u][j], NoAnswer}
      BY DEF IInv, TypeOK, TrackerType, PollError, PollDone, AdoptError, TickFails
    <2> QED BY <1>0, <2>1 DEF IInv, TrackerOK, NoAnswer, outside
  <1>3. WarningOK'
    <2>1. CASE \E i \in Ids : PollError(t, i)
      BY <1>0, <2>1, WarningSame, Zenon DEF IInv, row, PollError
    <2>2. CASE \E i \in ClientIds : AdoptError(t, i)
      BY <1>0, <2>2, ToWarnType, WarningKept, Zenon DEF IInv, TypeOK, TrackerType, ToWarn, row, AdoptError
    <2>3. CASE TickFails(t)
      <3>1. /\ ToWarn(t)' = {} /\ \A u \in Trackers \ {t} : ToWarn(u)' = ToWarn(u)
            /\ \A i \in Ids : warning'[i] = IF i \in ToWarn(t) THEN "lost" ELSE warning[i]
            /\ updatedLate' = updatedLate
        BY <1>0, <2>3 DEF IInv, TypeOK, TrackerType, TickFails, ToWarn, row
      <3>2. \A u \in Trackers : ToWarn(u) \subseteq Ids
        BY ToWarnType, Zenon DEF IInv
      <3>3. OneWarning'
        BY <3>1, <3>2 DEF IInv, WarningOK, OneWarning
      <3> QED BY <3>1, <3>2, <3>3 DEF IInv, WarningOK
    <2> QED BY <2>1, <2>2, <2>3
  <1> QED BY <1>0, <1>1, <1>2, <1>3, MemoryStep

\* A request Relay reports for a watched address keeps it, for the same reason.
LEMMA DetectRequestInv ==
  ASSUME IInv, NEW t \in Trackers, NEW i \in DepositIds, DetectRequest(t, i)
  PROVE  IInv'
  <1> USE DEF DetectRequest
  <1>1. TrackerType'
    BY Zenon DEF IInv, TypeOK, OutsideType, TrackerType, Ids
  <1>2. \A u \in Trackers : TrackerOK(u)'
    BY DEF IInv, TypeOK, TrackerType, TrackerOK, outside
  <1>3. WarningOK'
    BY WarningSame DEF IInv, row
  <1> QED BY <1>1, <1>2, <1>3, MemoryStep DEF IInv, TypeOK

\* Only what is open and out of its window is updatedLate.
LEMMA MarkUnsettledInv ==
  ASSUME IInv, NEW t \in Trackers, MarkUnsettled(t)
  PROVE  IInv'
  <1> DEFINE late == {i \in Ids : OpenState(i) /\ submittedAt[i] = "old" /\ ~updatedLate[i]}
  <1>0. /\ UNCHANGED <<state, quotedAt, confirmedAt, released, submittedAt, destTx, refundTx,
                       settledAt, amounts, web, outside, polled, answer, found, warning, faults>>
        /\ updatedLate' = [i \in Ids |-> updatedLate[i] \/ i \in late]
        /\ work' = [work EXCEPT ![t] = late]
        /\ pc' = [pc EXCEPT ![t] = "warn"]
    BY DEF MarkUnsettled
  <1>1. TypeOK'
    <2>1. RowType' /\ TrackerType'
      BY <1>0 DEF IInv, TypeOK, RowType, TrackerType
    <2> QED BY <1>0, <2>1, TypeSame DEF IInv, TypeOK
  <1>2. LockOK'
    BY <1>0, LockSame DEF IInv, web
  <1>3. \A j \in ClientIds : ClientOK(j)'
    BY <1>0, ClientSame, Zenon DEF IInv, web, outside
  <1>4. \A j \in Ids : RowOK(j)'
    BY <1>0, Zenon DEF IInv, TypeOK, RowType, RowOK, OpenState, TransferStates, outside
  <1>5. \A u \in Trackers : TrackerOK(u)'
    BY <1>0, TrackerSame DEF IInv, outside
  <1>6. WarningOK'
    <2>1. /\ ToWarn(t)' = late /\ \A u \in Trackers \ {t} : ToWarn(u)' = ToWarn(u)
          /\ \A i \in Ids : updatedLate'[i] <=> updatedLate[i] \/ i \in late
      BY <1>0, Zenon DEF IInv, TypeOK, RowType, TrackerType, ToWarn
    <2>2. late \subseteq Ids /\ \A i \in late : ~updatedLate[i] /\ warning[i] = "none"
      BY DEF IInv, WarningOK
    <2>3. \A u \in Trackers : ToWarn(u) \subseteq Ids
      BY ToWarnType DEF IInv
    <2> HIDE DEF late
    <2>4. OneWarning'
      BY <1>0, <2>1, <2>2, <2>3 DEF IInv, WarningOK, OneWarning
    <2> QED BY <1>0, <2>1, <2>2, <2>3, <2>4 DEF IInv, WarningOK
  <1> QED BY <1>1, <1>2, <1>3, <1>4, <1>5, <1>6 DEF IInv

\* Writing the warnings keeps it: no other tick has them.
LEMMA WarnUnsettledInv ==
  ASSUME IInv, NEW t \in Trackers, NEW i \in Ids, WarnUnsettled(t, i)
  PROVE  IInv'
  <1> USE DEF WarnUnsettled
  <1>1. TrackerType'
    BY DEF IInv, TypeOK, TrackerType
  <1>2. \A u \in Trackers : TrackerOK(u)'
    BY TrackerSame, Zenon DEF IInv, outside
  <1>3. WarningOK'
    <2>1. /\ i \in ToWarn(t) /\ ToWarn(t)' = ToWarn(t) \ {i}
          /\ \A u \in Trackers \ {t} : ToWarn(u)' = ToWarn(u)
          /\ \A j \in Ids \ {i} : warning'[j] = warning[j]
          /\ updatedLate' = updatedLate
      BY DEF IInv, TypeOK, TrackerType, ToWarn, row
    <2>2. \A u \in Trackers : ToWarn(u) \subseteq Ids
      BY ToWarnType DEF IInv
    <2> HIDE DEF WarnUnsettled
    <2>3. OneWarning'
      BY <2>1, <2>2 DEF IInv, WarningOK, OneWarning
    <2> QED BY <2>1, <2>2, <2>3 DEF IInv, WarningOK
  <1> QED BY <1>1, <1>2, <1>3, MemoryStep DEF IInv, TypeOK

\* The rank of every state, and the state of every status.
LEMMA RankValues ==
  /\ Rank("quoted") = 0 /\ Rank("submitted") = 1 /\ Rank("failed") = 2
  /\ Rank("filled") = 3 /\ Rank("refunded") = 3
  BY DEF Rank

\* The state each status of Relay stands for.
LEMMA SeenValues ==
  /\ Seen("waiting") = "quoted" /\ Seen("pending") = "submitted" /\ Seen("failure") = "failed"
  /\ Seen("success") = "filled" /\ Seen("refund") = "refunded"
  BY DEF Seen

\* A status makes of a state one of a higher rank, or leaves it; a final state comes
\* from its own status, and stays.
LEMMA AdvanceFacts ==
  ASSUME NEW s \in TransferStates, NEW status \in RelayStates
  PROVE  /\ Advance(s, status) \in TransferStates
         /\ Advance(s, status) = s \/ Rank(Advance(s, status)) > Rank(s)
         /\ Advance(s, status) = "quoted" => s = "quoted"
         /\ Advance(s, status) = "filled" /\ s # "filled" => status = "success"
         /\ Advance(s, status) = "refunded" /\ s # "refunded" => status = "refund"
         /\ Settled(s) => Advance(s, status) = s
  BY RankValues, SeenValues, SMTT(30) DEF Advance, Settled, TransferStates, RelayStates

\* A Boolean column that is written only if m is left alone if not.
LEMMA NotWritten ==
  ASSUME NEW f \in [Ids -> BOOLEAN], NEW i \in Ids, NEW m \in BOOLEAN, NEW x, ~m
  PROVE  [f EXCEPT ![i] = @ \/ (m /\ x)] = f
  <1>1. f[i] \in BOOLEAN
    OBVIOUS
  <1>2. (f[i] \/ (m /\ x)) = f[i]
    BY <1>1
  <1>3. [f EXCEPT ![i] = f[i]] = f
    OBVIOUS
  <1> QED BY <1>2, <1>3

\* A row that advanceTransfer writes is the polled one, open and in its window.
LEMMA AdvanceInv ==
  ASSUME IInv, NEW t \in Trackers, NEW i \in Ids, AdvanceTransfer(t, i)
  PROVE  IInv'
  <1> DEFINE a == answer[t][i]
             e == Step(polled[t][i], a)
             moves == Advances(t, i) /\ (e.next # polled[t][i] \/ e.destTx \/ e.refundTx)
  <1>0. /\ UNCHANGED <<quotedAt, confirmedAt, released, submittedAt, updatedLate, web, outside, pc,
                       work, found, faults, warning>>
        /\ polled' = [polled EXCEPT ![t][i] = "none"]
        /\ answer' = [answer EXCEPT ![t][i] = NoAnswer]
        /\ a # NoAnswer
        /\ state' = [state EXCEPT ![i] = IF moves THEN e.next ELSE @]
        /\ destTx' = [destTx EXCEPT ![i] = @ \/ (moves /\ e.destTx)]
        /\ refundTx' = [refundTx EXCEPT ![i] = @ \/ (moves /\ e.refundTx)]
        /\ settledAt' = [settledAt EXCEPT ![i] = @ \/ (moves /\ Settled(e.next))]
        /\ amounts' = [amounts EXCEPT ![i] = IF moves /\ e.destTx /\ i \in DepositIds THEN "final" ELSE @]
    BY ZenonT(30) DEF AdvanceTransfer, PollDone
  <1>1. TrackerType' /\ \A u \in Trackers : TrackerOK(u)'
    BY <1>0, ZenonT(30) DEF IInv, TypeOK, TrackerType, TrackerOK, NoAnswer, outside
  <1>2. WarningOK'
    BY <1>0, WarningSame, Zenon DEF IInv
  <1>3. RowType
    BY DEF IInv, TypeOK
  <1>4. CASE ~moves
    <2> HIDE DEF moves, e, a
    <2>1. state' = state /\ amounts' = amounts
      BY <1>0, <1>3, <1>4, Zenon DEF RowType
    <2>2. destTx' = destTx
      BY <1>0, <1>3, <1>4, NotWritten DEF RowType
    <2>3. refundTx' = refundTx
      BY <1>0, <1>3, <1>4, NotWritten DEF RowType
    <2>4. settledAt' = settledAt
      BY <1>0, <1>3, <1>4, NotWritten DEF RowType
    <2>5. UNCHANGED row
      BY <1>0, <2>1, <2>2, <2>3, <2>4 DEF row
    <2> QED BY <1>0, <1>1, <1>2, <2>5, MemoryStep, Zenon DEF IInv, TypeOK
  <1>5. CASE moves
    <2>1. /\ state[i] = polled[t][i] /\ state[i] \in TransferStates /\ state[i] # "quoted"
          /\ ~updatedLate[i]
      BY <1>5, Zenon DEF IInv, RowOK, Advances, OpenTransfer, OpenState, TransferStates
    <2>2. a \in [status : RelayStates, hashes : BOOLEAN]
      <3>1. answer[t][i] \in [status : RelayStates, hashes : BOOLEAN] \union {NoAnswer}
        BY Zenon DEF IInv, TypeOK, TrackerType
      <3> QED BY <1>0, <3>1, Zenon
    <2>3. /\ e.next = Advance(state[i], a.status)
          /\ e.destTx => a.status = "success" /\ e.next = "filled"
          /\ e.refundTx => a.status = "refund" /\ e.next = "refunded"
          /\ e.destTx \in BOOLEAN /\ e.refundTx \in BOOLEAN
      BY <2>1, <2>2, ZenonT(30) DEF Step
    <2> HIDE DEF moves, e, a
    <2>4. /\ e.next \in TransferStates \ {"quoted"}
          /\ e.next = "filled" /\ state[i] # "filled" => relay[i] = "success"
          /\ e.next = "refunded" /\ state[i] # "refunded" => relay[i] = "refund"
          /\ state[i] \in {"filled", "refunded"} => e.next = state[i]
      BY <2>1, <2>2, <2>3, AdvanceFacts, SMTT(30) DEF IInv, TrackerOK, Settled, a
    <2>5. RowType'
      BY <1>0, <1>3, <2>3, <2>4, Zenon DEF RowType, Settled
    <2>6. TypeOK'
      BY <1>0, <1>1, <2>5, TypeSame, Zenon DEF IInv, TypeOK
    <2>7. LockOK'
      BY <1>0, <2>1, <2>4, SMTT(30) DEF IInv, TypeOK, RowType, LockOK, OneConfirmed, Confirmed, web
    <2>8. \A j \in ClientIds : ClientOK(j)'
      BY <1>0, <2>1, <2>4, ClientRow, SMTT(30) DEF IInv, TypeOK, RowType, ClientOK, TransferStates, web, outside
    <2>9. \A j \in Ids : RowOK(j)'
      <3> TAKE j \in Ids
      <3>1. CASE j = i
        <4>1. /\ state'[i] = e.next
              /\ destTx'[i] => destTx[i] \/ e.destTx
              /\ refundTx'[i] => refundTx[i] \/ e.refundTx
              /\ settledAt[i] \/ Settled(e.next) => settledAt'[i]
              /\ i \in DepositIds /\ (e.destTx \/ amounts[i] = "final") => amounts'[i] = "final"
          BY <1>0, <1>3, <1>5, ZenonT(30) DEF RowType
        <4> QED BY <1>0, <2>1, <2>3, <2>4, <3>1, <4>1 DEF IInv, RowOK, Settled, outside
      <3>2. CASE j # i
        BY <1>0, <3>2 DEF IInv, TypeOK, RowType, RowOK, outside
      <3> QED BY <3>1, <3>2
    <2> QED BY <1>1, <1>2, <2>6, <2>7, <2>8, <2>9, Zenon DEF IInv
  <1> QED BY <1>4, <1>5, Zenon

\* Adopting a lost submit keeps it.
LEMMA AdoptSubmitInv ==
  ASSUME IInv, NEW t \in Trackers, NEW i \in ClientIds, AdoptSubmit(t, i)
  PROVE  IInv'
  <1> USE ClientRow DEF AdoptSubmit
  <1>1. TypeOK'
    <2>1. RowType' /\ TrackerType'
      BY Zenon DEF IInv, TypeOK, RowType, TrackerType, TransferStates
    <2> QED BY <2>1, TypeSame, Zenon DEF IInv, TypeOK
  <1>2. LockOK'
    BY SMTT(30) DEF IInv, TypeOK, RowType, LockOK, OneConfirmed, Confirmed, ClientIds, Ids, web
  <1>3. \A j \in ClientIds : ClientOK(j)'
    BY ZenonT(30) DEF IInv, TypeOK, RowType, ClientOK, TransferStates, web, outside
  <1>4. \A j \in Ids : RowOK(j)'
    BY SMTT(30) DEF IInv, TypeOK, RowType, RowOK, TransferStates, outside
  <1>5. \A u \in Trackers : TrackerOK(u)'
    BY TrackerSame, Zenon DEF IInv, outside
  <1>6. WarningOK'
    BY ToWarnType, WarningKept, ZenonT(30) DEF IInv, TypeOK, TrackerType, ToWarn
  <1> QED BY <1>1, <1>2, <1>3, <1>4, <1>5, <1>6, Zenon DEF IInv

\* pruneAbandoned keeps it: it deletes no confirmed row.
LEMMA PruneInv ==
  ASSUME IInv, NEW t \in Trackers, Prune(t)
  PROVE  IInv'
  <1> USE ClientRow DEF Prune, AbandonedQuote
  <1>1. TypeOK'
    <2>1. RowType' /\ TrackerType'
      BY Zenon DEF IInv, TypeOK, RowType, TrackerType
    <2> QED BY <2>1, TypeSame, Zenon DEF IInv, TypeOK
  <1>2. LockOK'
    BY Zenon DEF IInv, TypeOK, RowType, LockOK, OneConfirmed, Confirmed, ClientIds, Ids, web
  <1>3. \A j \in ClientIds : ClientOK(j)'
    BY ZenonT(30) DEF IInv, TypeOK, RowType, ClientOK, web, outside
  <1>4. \A j \in Ids : RowOK(j)'
    BY ZenonT(30) DEF IInv, TypeOK, RowType, RowOK, TransferStates, outside
  <1>5. \A u \in Trackers : TrackerOK(u)'
    BY TrackerSame, Zenon DEF IInv, outside
  <1>6. WarningOK'
    BY ToWarnType, WarningKept, Zenon DEF IInv, TypeOK, TrackerType, ToWarn
  <1> QED BY <1>1, <1>2, <1>3, <1>4, <1>5, <1>6, Zenon DEF IInv

\* Inserting a detected deposit keeps it.
LEMMA InsertDetectedInv ==
  ASSUME IInv, NEW t \in Trackers, NEW i \in DepositIds, InsertDetected(t, i)
  PROVE  IInv'
  <1> DEFINE seen == Advance("submitted", found[t][i])
  <1> USE DEF InsertDetected
  <1>0. i \in Ids /\ i \notin ClientIds
    BY BridgeAssumption, Zenon DEF Ids
  <1>1. /\ seen \in TransferStates \ {"quoted"}
        /\ seen = "filled" => relay[i] = "success"
        /\ seen = "refunded" => relay[i] = "refund"
    <2>1. found[t][i] \in RelayStates /\ "submitted" \in TransferStates
      BY DEF IInv, TypeOK, TrackerType, TransferStates
    <2> QED BY <2>1, AdvanceFacts, Zenon DEF IInv, TrackerOK
  <1> HIDE DEF seen
  <1>2. /\ state' = [state EXCEPT ![i] = IF @ = "none" THEN seen ELSE @]
        /\ found' = [found EXCEPT ![t][i] = "none"]
    BY DEF seen
  <1>3. TypeOK'
    <2>1. RowType' /\ TrackerType'
      BY <1>0, <1>1, <1>2, SMTT(30) DEF IInv, TypeOK, RowType, TrackerType
    <2> QED BY <2>1, TypeSame, Zenon DEF IInv, TypeOK
  <1>4. LockOK'
    BY <1>0, <1>2, ClientRow, SMTT(30) DEF IInv, TypeOK, RowType, LockOK, OneConfirmed, Confirmed, ClientIds, web
  <1>5. \A j \in ClientIds : ClientOK(j)'
    BY <1>0, <1>2, ClientRow, SMTT(30) DEF IInv, TypeOK, RowType, ClientOK, web, outside
  <1>6. \A j \in Ids : RowOK(j)'
    BY <1>0, <1>1, <1>2, SMTT(30) DEF IInv, TypeOK, RowType, RowOK, TransferStates, outside
  <1>7. \A u \in Trackers : TrackerOK(u)'
    <2>1. UNCHANGED <<answer, relay>>
      BY DEF outside
    <2>2. \A u \in Trackers, j \in DepositIds :
             found'[u][j] \in {"success", "refund"} => found'[u][j] = found[u][j]
      BY <1>2 DEF IInv, TypeOK, TrackerType
    <2>3. \A u \in Trackers : TrackerOK(u)
      BY DEF IInv
    <2> QED BY <2>1, <2>2, <2>3 DEF TrackerOK
  <1>8. WarningOK'
    BY ToWarnType, WarningKept DEF IInv, TypeOK, RowType, ToWarn
  <1> QED BY <1>3, <1>4, <1>5, <1>6, <1>7, <1>8 DEF IInv

\* Ticks and detection keep the inductive invariant.
LEMMA TickInv ==
  ASSUME IInv, NEW t \in Trackers, Tick(t) \/ \E i \in DepositIds : Detect(t, i)
  PROVE  IInv'
  BY MarkUnsettledInv, WarnUnsettledInv, ReadInv, AskRelayInv, AdvanceInv, ForgetInv, AdoptSubmitInv, PruneInv,
     DetectRequestInv, InsertDetectedInv DEF Tick, Warn, Poll, Adopt, Detect

-----------------------------------------------------------------------------
\* The theorems.

\* Every step keeps the inductive invariant.
LEMMA NextInv ==
  ASSUME IInv, [Next]_vars
  PROVE  IInv'
  <1>1. CASE UNCHANGED vars
    BY <1>1, MemoryStep, TrackerSame, WarningSame, TypeSame
    DEF IInv, TypeOK, vars, row, tracker, outside
  <1> QED BY <1>1, ClientInv, DepositInv, RelayInv, AgeInv, TickInv, Zenon DEF Next

(***************************************************************************)
(* IInv is an invariant of the bridge.                                     *)
(***************************************************************************)
THEOREM InductiveInvariant == Spec => []IInv
  BY InitInv, NextInv, PTL DEF Spec

(***************************************************************************)
(* confirmBridgeTransfer never confirms a second transfer of a route while *)
(* one is confirmed and unsent.                                            *)
(***************************************************************************)
THEOREM ConfirmsOne == Spec => []OneConfirmed
  <1>1. IInv => OneConfirmed
    BY DEF IInv, LockOK
  <1> QED BY <1>1, InductiveInvariant, PTL

(***************************************************************************)
(* pruneAbandoned never deletes the row of a deposit that may be on its    *)
(* way.                                                                    *)
(***************************************************************************)
THEOREM KeepsSent == Spec => []SentIsKept
  <1>1. IInv => SentIsKept
    BY Zenon DEF IInv, ClientOK, SentIsKept
  <1> QED BY <1>1, InductiveInvariant, PTL

(***************************************************************************)
(* The outcome and the hash advanceTransfer and insertDetected record are  *)
(* Relay's final ones, however polls of several trackers interleave.       *)
(***************************************************************************)
THEOREM OutcomeIsTrue == Spec => []OutcomeIsRelays
  <1>1. IInv => OutcomeIsRelays
    BY SMTT(30) DEF IInv, RowOK, OutcomeIsRelays, Ids
  <1> QED BY <1>1, InductiveInvariant, PTL

(***************************************************************************)
(* No transfer is warned of twice: markUnsettled hands a row to one tick.  *)
(***************************************************************************)
THEOREM WarnsOnce == Spec => []OneWarning
  <1>1. IInv => OneWarning
    BY DEF IInv, WarningOK
  <1> QED BY <1>1, InductiveInvariant, PTL

\* advanceTransfer moves a row up its rank or not at all.
LEMMA AdvanceForward ==
  ASSUME IInv, NEW t \in Trackers, NEW i \in Ids, AdvanceTransfer(t, i)
  PROVE  \A j \in Ids : Forward(j)
  <1> DEFINE e == Step(polled[t][i], answer[t][i])
             moves == Advances(t, i) /\ (e.next # polled[t][i] \/ e.destTx \/ e.refundTx)
  <1>1. /\ answer[t][i] # NoAnswer
        /\ state' = [state EXCEPT ![i] = IF moves THEN e.next ELSE @]
        /\ destTx' = [destTx EXCEPT ![i] = @ \/ (moves /\ e.destTx)]
        /\ refundTx' = [refundTx EXCEPT ![i] = @ \/ (moves /\ e.refundTx)]
    BY ZenonT(30) DEF AdvanceTransfer
  <1>2. moves => /\ state[i] = polled[t][i] /\ state[i] \in TransferStates /\ ~updatedLate[i]
                 /\ e.next = Advance(state[i], answer[t][i].status)
    BY Zenon DEF IInv, RowOK, Advances, OpenTransfer, OpenState, TransferStates, Step
  <1>3. answer[t][i].status \in RelayStates
    BY <1>1, SMTT(30) DEF IInv, TypeOK, TrackerType
  <1> HIDE DEF e, moves
  <1>4. moves => /\ e.next \in TransferStates
                 /\ e.next = state[i] \/ Rank(e.next) > Rank(state[i])
    BY <1>2, <1>3, AdvanceFacts, Zenon
  <1> TAKE j \in Ids
  <1>5. CASE j # i
    BY <1>1, <1>5, ZenonT(30) DEF IInv, TypeOK, RowType, Forward
  <1>6. CASE j = i /\ moves
    BY <1>1, <1>2, <1>4, <1>6, Zenon DEF IInv, TypeOK, RowType, Forward
  <1>7. CASE j = i /\ ~moves
    <2>1. state'[i] = state[i]
      BY <1>1, <1>7 DEF IInv, TypeOK, RowType
    <2>2. destTx'[i] = destTx[i]
      BY <1>1, <1>7 DEF IInv, TypeOK, RowType
    <2>3. refundTx'[i] = refundTx[i]
      BY <1>1, <1>7 DEF IInv, TypeOK, RowType
    <2> QED BY <1>7, <2>1, <2>2, <2>3 DEF Forward
  <1> QED BY <1>5, <1>6, <1>7, Zenon

\* The other actions that write a state write that of one row, and no hash.
LEMMA NextForward ==
  ASSUME IInv, [Next]_vars
  PROVE  \A j \in Ids : Forward(j)
  <1>1. ASSUME UNCHANGED <<state, destTx, refundTx>> PROVE \A j \in Ids : Forward(j)
    BY <1>1 DEF Forward
  <1>2. ASSUME NEW i \in ClientIds, Client(i) PROVE \A j \in Ids : Forward(j)
    <2>1. CASE InsertQuote(i)
      BY <2>1, ClientRow, SMTT(30) DEF InsertQuote, IInv, TypeOK, RowType, ClientOK, RowOK, TransferStates, Forward
    <2>2. CASE BridgeSubmit(i)
      BY <2>2, ClientRow, RankValues, SMTT(30)
      DEF BridgeSubmit, Submit, IInv, TypeOK, RowType, RowOK, TransferStates, Forward
    <2>3. CASE ~InsertQuote(i) /\ ~BridgeSubmit(i)
      <3>1. UNCHANGED <<state, destTx, refundTx>>
        BY <1>2, <2>3, Zenon DEF Client, BridgeQuote, PostConfirm, ConfirmSelect, ConfirmLock, ConfirmUpdate,
           ConfirmFails, ConfirmTimeout, SendDeposit, SendFails, BridgeRelease, ClientLost, row
      <3> QED BY <1>1, <3>1, Zenon
    <2> QED BY <2>1, <2>2, <2>3, Zenon
  <1>3. ASSUME NEW t \in Trackers, Tick(t) \/ \E i \in DepositIds : Detect(t, i)
        PROVE  \A j \in Ids : Forward(j)
    <2>1. ASSUME NEW i \in Ids, AdvanceTransfer(t, i) PROVE \A j \in Ids : Forward(j)
      BY <2>1, AdvanceForward, Zenon
    <2>2. ASSUME NEW i \in ClientIds, AdoptSubmit(t, i) PROVE \A j \in Ids : Forward(j)
      BY <2>2, ClientRow, RankValues, SMTT(30)
      DEF AdoptSubmit, IInv, TypeOK, RowType, RowOK, TransferStates, Forward
    <2>3. ASSUME Prune(t) PROVE \A j \in Ids : Forward(j)
      BY <2>3, ZenonT(30) DEF Prune, AbandonedQuote, IInv, RowOK, TransferStates, Forward
    <2>4. ASSUME NEW i \in DepositIds, InsertDetected(t, i) PROVE \A j \in Ids : Forward(j)
      BY <2>4 DEF InsertDetected, IInv, TypeOK, RowType, RowOK, TransferStates, Forward, Ids
    <2>5. ASSUME \/ MarkUnsettled(t) \/ ReadOpen(t) \/ ReadConfirmed(t) \/ SelectAbandoned(t) \/ TickFails(t)
                 \/ \E i \in Ids : WarnUnsettled(t, i) \/ AskRelay(t, i) \/ PollError(t, i)
                 \/ \E i \in ClientIds : AdoptError(t, i)
                 \/ \E i \in DepositIds : DetectRequest(t, i)
          PROVE  \A j \in Ids : Forward(j)
      <3>1. UNCHANGED <<state, destTx, refundTx>>
        BY <2>5, ZenonT(30) DEF MarkUnsettled, WarnUnsettled, ReadOpen, ReadConfirmed, SelectAbandoned, TickFails, AskRelay,
           PollError, AdoptError, DetectRequest, row
      <3> QED BY <1>1, <3>1, Zenon
    <2> QED BY <1>3, <2>1, <2>2, <2>3, <2>4, <2>5 DEF Tick, Warn, Poll, Adopt, Detect
  <1>4. ASSUME \/ \E i \in DepositIds : Deposit(i)
               \/ \E i \in Ids : Relay(i) \/ Age(i)
               \/ UNCHANGED vars
        PROVE  UNCHANGED <<state, destTx, refundTx>>
    BY <1>4, Zenon DEF Deposit, Relay, RelaySees, RelayMoves, RelayHashes, Age, AgeQuote, AgeConfirmation,
       AgeSubmission, row, vars
  <1> QED BY <1>1, <1>2, <1>3, <1>4 DEF Next

(***************************************************************************)
(* A row's state only moves up its rank, or from quoted to deleted, and a  *)
(* marked row not at all: advanceTransfer's compare-and-swap makes an      *)
(* answer that comes late change nothing.                                  *)
(***************************************************************************)
THEOREM RowsOnlyAdvance == Spec => StateOnlyAdvances
  <1>1. IInv /\ [Next]_vars => [\A i \in Ids : Forward(i)]_vars
    BY NextForward
  <1> QED BY <1>1, InductiveInvariant, PTL DEF Spec, StateOnlyAdvances
=============================================================================
