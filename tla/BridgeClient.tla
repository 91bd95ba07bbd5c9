---------------------------- MODULE BridgeClient ----------------------------
(***************************************************************************)
(* The inductive invariant of Bridge: it holds initially, and the steps of *)
(* clients, their handlers, Relay and time keep it.                        *)
(***************************************************************************)
EXTENDS Bridge, TLAPS

-----------------------------------------------------------------------------
\* What a step leaves alone.

\* Every part of the invariant is kept by a step that leaves its variables alone.
LEMMA LockSame ==
  ASSUME LockOK, UNCHANGED <<handler, routeLock, state, released, confirmedAt>>
  PROVE  LockOK'
  BY DEF LockOK, OneConfirmed, Confirmed

\* The same for what a client knows of its row.
LEMMA ClientSame ==
  ASSUME NEW i \in ClientIds, ClientOK(i), UNCHANGED <<client, state, confirmedAt, sent>>
  PROVE  ClientOK(i)'
  BY DEF ClientOK

\* The same for what a row says of Relay.
LEMMA RowSame ==
  ASSUME NEW i \in Ids, RowOK(i),
         UNCHANGED <<state, destTx, refundTx, settledAt, amounts, updatedLate, submittedAt, sent, relay>>
  PROVE  RowOK(i)'
  BY DEF RowOK

\* The same for what a tracker remembers of Relay.
LEMMA TrackerSame ==
  ASSUME NEW t \in Trackers, TrackerOK(t), UNCHANGED <<answer, found, relay>>
  PROVE  TrackerOK(t)'
  BY DEF TrackerOK

\* The same for the warnings.
LEMMA WarningSame ==
  ASSUME WarningOK, UNCHANGED <<pc, work, warning, updatedLate>>
  PROVE  WarningOK'
  BY DEF WarningOK, OneWarning, ToWarn

\* The warnings are kept by a step that adds no row to warn of.
LEMMA WarningKept ==
  ASSUME WarningOK, UNCHANGED warning,
         \A i \in Ids : updatedLate[i] => updatedLate'[i],
         \A u \in Trackers : ToWarn(u) \subseteq Ids /\ ToWarn(u)' \subseteq ToWarn(u)
  PROVE  WarningOK'
  <1>1. OneWarning'
    BY DEF WarningOK, OneWarning
  <1> QED BY <1>1 DEF WarningOK

\* What a tick is to warn of are rows.
LEMMA ToWarnType ==
  ASSUME TypeOK, NEW u \in Trackers
  PROVE  ToWarn(u) \subseteq Ids
  BY DEF TypeOK, TrackerType, ToWarn

\* The types are kept by a step that leaves their variables alone.
LEMMA TypeSame ==
  /\ UNCHANGED row /\ RowType => RowType'
  /\ UNCHANGED web /\ WebType => WebType'
  /\ UNCHANGED outside /\ OutsideType => OutsideType'
  /\ UNCHANGED tracker /\ TrackerType => TrackerType'
  BY DEF row, web, outside, tracker, RowType, WebType, OutsideType, TrackerType

\* A fault stays within its bound.
LEMMA FaultType ==
  ASSUME TypeOK, Fault
  PROVE  faults' \in 0..MaxFaults
  BY BridgeAssumption DEF TypeOK, Fault

-----------------------------------------------------------------------------
\* Init.

\* The inductive invariant holds initially.
LEMMA InitInv == Init => IInv
  <1> SUFFICES ASSUME Init PROVE IInv
    OBVIOUS
  <1> USE DEF Init
  <1>1. TypeOK
    BY BridgeAssumption DEF TypeOK, RowType, WebType, OutsideType, TrackerType, TransferStates,
       RelayStates, NoAnswer
  <1>2. LockOK
    BY DEF LockOK, OneConfirmed, Confirmed, Ids, ClientIds
  <1>3. \A i \in ClientIds : ClientOK(i)
    BY DEF ClientOK, Ids, ClientIds
  <1>4. \A i \in Ids : RowOK(i)
    BY DEF RowOK
  <1>5. \A t \in Trackers : TrackerOK(t)
    BY DEF TrackerOK, NoAnswer, Ids
  <1>6. WarningOK
    BY DEF WarningOK, OneWarning, ToWarn
  <1> QED BY <1>1, <1>2, <1>3, <1>4, <1>5, <1>6 DEF IInv

-----------------------------------------------------------------------------
\* The web handlers and the client.

\* The rows of a client are rows.
LEMMA ClientRow ==
  ASSUME NEW i \in ClientIds
  PROVE  i \in Ids /\ i \notin DepositIds
  BY BridgeAssumption DEF ClientIds, Ids

\* A step that moves only a client and its handler.
LEMMA CallInv ==
  ASSUME IInv, NEW i \in ClientIds,
         \/ BridgeQuote(i) \/ PostConfirm(i) \/ ConfirmSelect(i) \/ ConfirmLock(i)
         \/ ConfirmFails(i) \/ ConfirmTimeout(i) \/ ClientLost(i)
  PROVE  IInv'
  <1> USE DEF BridgeQuote, PostConfirm, ConfirmSelect, ConfirmLock, ConfirmFails, ConfirmTimeout,
              ClientLost, GiveUp, FreeLock
  <1>0. UNCHANGED <<row, outside, tracker>>
    OBVIOUS
  <1>1. TypeOK'
    <2>1. faults' \in 0..MaxFaults
      BY FaultType DEF IInv, TypeOK
    <2>2. WebType'
      BY Zenon DEF IInv, TypeOK, WebType, LockOK
    <2> QED BY <1>0, <2>1, <2>2, TypeSame DEF IInv, TypeOK
  <1>2. LockOK'
    BY <1>0, BridgeAssumption, SMTT(30) DEF IInv, TypeOK, RowType, WebType, LockOK, OneConfirmed, Confirmed,
       BridgeInBlocker, BridgeInInFlight, ClientIds, Ids, row
  <1>3. \A j \in ClientIds : ClientOK(j)'
    BY <1>0, Zenon DEF IInv, TypeOK, WebType, ClientOK, row, outside
  <1>4. \A j \in Ids : RowOK(j)'
    BY <1>0, RowSame DEF IInv, row, outside
  <1>5. \A t \in Trackers : TrackerOK(t)'
    BY <1>0, TrackerSame, Zenon DEF IInv, outside, tracker
  <1>6. WarningOK'
    BY <1>0, WarningSame DEF IInv, row, tracker
  <1> QED BY <1>1, <1>2, <1>3, <1>4, <1>5, <1>6 DEF IInv

\* insertBridgeTransfer keeps the inductive invariant: the row is new.
LEMMA InsertQuoteInv ==
  ASSUME IInv, NEW i \in ClientIds, InsertQuote(i)
  PROVE  IInv'
  <1> USE ClientRow DEF InsertQuote
  <1>0. state[i] = "none" /\ confirmedAt[i] = "null"
    BY DEF IInv, ClientOK
  <1>1. TypeOK'
    <2>1. RowType' /\ WebType'
      BY DEF IInv, TypeOK, RowType, WebType, TransferStates
    <2> QED BY <2>1, TypeSame DEF IInv, TypeOK
  <1>2. LockOK'
    BY <1>0 DEF IInv, TypeOK, RowType, LockOK, OneConfirmed, Confirmed, ClientIds, Ids
  <1>3. \A j \in ClientIds : ClientOK(j)'
    BY <1>0 DEF IInv, TypeOK, RowType, WebType, ClientOK, TransferStates, outside
  <1>4. \A j \in Ids : RowOK(j)'
    BY <1>0 DEF IInv, TypeOK, RowType, RowOK, TransferStates, outside
  <1>5. \A t \in Trackers : TrackerOK(t)'
    BY TrackerSame DEF IInv, outside, tracker
  <1>6. WarningOK'
    BY WarningSame DEF IInv, tracker
  <1> QED BY <1>1, <1>2, <1>3, <1>4, <1>5, <1>6, Zenon DEF IInv

\* The confirming UPDATE keeps it: its transaction has the lock of the route.
LEMMA ConfirmUpdateInv ==
  ASSUME IInv, NEW i \in ClientIds, ConfirmUpdate(i)
  PROVE  IInv'
  <1> USE ClientRow DEF ConfirmUpdate, GiveUp, FreeLock, Quoted
  <1>1. TypeOK'
    <2>1. RowType'
      BY DEF IInv, TypeOK, RowType
    <2>2. WebType'
      BY DEF IInv, TypeOK, WebType
    <2> QED BY <2>1, <2>2, TypeSame DEF IInv, TypeOK
  <1>2. LockOK'
    <2>1. CASE i \in InIds
      <3>1. routeLock = i /\ routeLock' = NoId /\ NoId # i
        BY <2>1, BridgeAssumption DEF IInv, LockOK, Ids
      <3>2. \A j \in InIds \ {i} : ~Confirmed(j) /\ ~Confirmed(j)' /\ handler[j] # "update"
        BY <3>1 DEF IInv, LockOK, Confirmed, TypeOK, RowType, ClientIds, Ids
      <3> QED BY <3>1, <3>2 DEF IInv, TypeOK, WebType, LockOK, OneConfirmed, ClientIds
    <2>2. CASE i \notin InIds
      <3>1. \A j \in InIds : (Confirmed(j)' <=> Confirmed(j)) /\ handler'[j] = handler[j]
        BY <2>2 DEF IInv, TypeOK, RowType, WebType, Confirmed, ClientIds, Ids
      <3>2. routeLock' = routeLock
        BY <2>2, BridgeAssumption DEF IInv, TypeOK, WebType
      <3> QED BY <3>1, <3>2 DEF IInv, LockOK, OneConfirmed
    <2> QED BY <2>1, <2>2
  <1>3. \A j \in ClientIds : ClientOK(j)'
    <2> TAKE j \in ClientIds
    <2>1. CASE j = i
      BY <2>1 DEF IInv, TypeOK, RowType, WebType, ClientOK, TransferStates, outside
    <2>2. CASE j # i
      BY <2>2 DEF IInv, TypeOK, RowType, WebType, ClientOK, outside
    <2> QED BY <2>1, <2>2
  <1>4. \A j \in Ids : RowOK(j)'
    BY RowSame DEF IInv, outside
  <1>5. \A t \in Trackers : TrackerOK(t)'
    BY TrackerSame DEF IInv, outside, tracker
  <1>6. WarningOK'
    BY WarningSame DEF IInv, tracker
  <1> QED BY <1>1, <1>2, <1>3, <1>4, <1>5, <1>6 DEF IInv

\* Sending the deposit, or failing to, keeps it: the row is confirmed, so it is not pruned.
LEMMA SendInv ==
  ASSUME IInv, NEW i \in ClientIds, SendDeposit(i) \/ SendFails(i)
  PROVE  IInv'
  <1> USE ClientRow
  <1>0. /\ UNCHANGED <<row, handler, routeLock, relay, hashes, tracker, faults>>
        /\ client[i] = "confirmed"
        /\ \E b \in BOOLEAN : sent' = [sent EXCEPT ![i] = b]
        /\ \E c \in {"sent", "done", "releasing"} : client' = [client EXCEPT ![i] = c]
    BY Zenon DEF SendDeposit, SendFails
  <1>1. TypeOK'
    <2>1. WebType' /\ OutsideType'
      BY <1>0 DEF IInv, TypeOK, WebType, OutsideType
    <2> QED BY <1>0, <2>1, TypeSame DEF IInv, TypeOK
  <1>2. LockOK'
    BY <1>0, LockSame DEF IInv, row
  <1>3. \A j \in ClientIds : ClientOK(j)'
    BY <1>0 DEF IInv, TypeOK, WebType, OutsideType, ClientOK, row
  <1>4. \A j \in Ids : RowOK(j)'
    BY <1>0 DEF IInv, TypeOK, OutsideType, RowOK, row
  <1>5. \A t \in Trackers : TrackerOK(t)'
    BY <1>0, TrackerSame DEF IInv, tracker
  <1>6. WarningOK'
    BY <1>0, WarningSame DEF IInv, row, tracker
  <1> QED BY <1>1, <1>2, <1>3, <1>4, <1>5, <1>6 DEF IInv

\* Releasing a confirmation keeps it.
LEMMA ReleaseInv ==
  ASSUME IInv, NEW i \in ClientIds, BridgeRelease(i)
  PROVE  IInv'
  <1> USE ClientRow DEF BridgeRelease
  <1>1. TypeOK'
    <2>1. RowType' /\ WebType'
      BY DEF IInv, TypeOK, RowType, WebType
    <2> QED BY <2>1, TypeSame DEF IInv, TypeOK
  <1>2. LockOK'
    BY Zenon DEF IInv, TypeOK, RowType, LockOK, OneConfirmed, Confirmed, ClientIds, Ids
  <1>3. \A j \in ClientIds : ClientOK(j)'
    BY DEF IInv, TypeOK, WebType, ClientOK, outside
  <1>4. \A j \in Ids : RowOK(j)'
    BY RowSame DEF IInv, outside
  <1>5. \A t \in Trackers : TrackerOK(t)'
    BY TrackerSame DEF IInv, outside, tracker
  <1>6. WarningOK'
    BY WarningSame DEF IInv, tracker
  <1> QED BY <1>1, <1>2, <1>3, <1>4, <1>5, <1>6 DEF IInv

\* A submit that arrives keeps it.
LEMMA SubmitInv ==
  ASSUME IInv, NEW i \in ClientIds, BridgeSubmit(i)
  PROVE  IInv'
  <1> USE ClientRow DEF BridgeSubmit, Submit
  <1>1. TypeOK'
    <2>1. RowType' /\ WebType'
      BY Zenon DEF IInv, TypeOK, RowType, WebType, TransferStates
    <2> QED BY <2>1, TypeSame DEF IInv, TypeOK
  <1>2. LockOK'
    BY DEF IInv, TypeOK, RowType, LockOK, OneConfirmed, Confirmed, ClientIds, Ids
  <1>3. \A j \in ClientIds : ClientOK(j)'
    BY SMTT(30) DEF IInv, TypeOK, RowType, WebType, ClientOK, TransferStates, outside
  <1>4. \A j \in Ids : RowOK(j)'
    BY DEF IInv, TypeOK, RowType, RowOK, TransferStates, outside
  <1>5. \A t \in Trackers : TrackerOK(t)'
    BY TrackerSame DEF IInv, outside, tracker
  <1>6. WarningOK'
    BY WarningSame DEF IInv, tracker
  <1> QED BY <1>1, <1>2, <1>3, <1>4, <1>5, <1>6 DEF IInv

\* The handlers and the client keep the inductive invariant.
LEMMA ClientInv ==
  ASSUME IInv, NEW i \in ClientIds, Client(i)
  PROVE  IInv'
  BY CallInv, InsertQuoteInv, ConfirmUpdateInv, SendInv, ReleaseInv, SubmitInv DEF Client

-----------------------------------------------------------------------------
\* The origin chain, Relay and time.

\* A deposit to a watched address keeps it.
LEMMA DepositInv ==
  ASSUME IInv, NEW i \in DepositIds, Deposit(i)
  PROVE  IInv'
  <1> USE DEF Deposit
  <1>0. i \in Ids /\ i \notin ClientIds
    BY BridgeAssumption DEF Ids
  <1>1. TypeOK'
    <2>1. RowType' /\ OutsideType'
      BY <1>0 DEF IInv, TypeOK, RowType, OutsideType
    <2> QED BY <2>1, TypeSame DEF IInv, TypeOK
  <1>2. LockOK'
    BY LockSame, Zenon DEF IInv, web
  <1>3. \A j \in ClientIds : ClientOK(j)'
    BY <1>0, ClientRow, Zenon DEF IInv, TypeOK, OutsideType, ClientOK, web
  <1>4. \A j \in Ids : RowOK(j)'
    BY <1>0 DEF IInv, TypeOK, RowType, OutsideType, RowOK
  <1>5. \A t \in Trackers : TrackerOK(t)'
    BY TrackerSame DEF IInv, tracker
  <1>6. WarningOK'
    BY WarningSame DEF IInv, tracker
  <1> QED BY <1>1, <1>2, <1>3, <1>4, <1>5, <1>6 DEF IInv

\* Relay never leaves a final status.
LEMMA RelayInv ==
  ASSUME IInv, NEW i \in Ids, Relay(i)
  PROVE  IInv'
  <1>0. /\ UNCHANGED <<row, web, sent, tracker, faults>>
        /\ OutsideType'
        /\ \A j \in Ids : relay[j] \in {"success", "refund"} => relay'[j] = relay[j]
    BY ZenonT(30) DEF IInv, TypeOK, OutsideType, RelayStates, Relay, RelaySees, RelayMoves, RelayHashes
  <1>1. TypeOK'
    BY <1>0, TypeSame DEF IInv, TypeOK
  <1>2. LockOK'
    BY <1>0, LockSame DEF IInv, row, web
  <1>3. \A j \in ClientIds : ClientOK(j)'
    BY <1>0, ClientSame, ZenonT(30) DEF IInv, row, web
  <1>4. \A j \in Ids : RowOK(j)'
    BY <1>0, ZenonT(30) DEF IInv, RowOK, row
  <1>5. \A t \in Trackers : TrackerOK(t)'
    BY <1>0, Zenon DEF IInv, TypeOK, TrackerType, TrackerOK, tracker, Ids
  <1>6. WarningOK'
    BY <1>0, WarningSame DEF IInv, row, tracker
  <1> QED BY <1>1, <1>2, <1>3, <1>4, <1>5, <1>6 DEF IInv

\* The passing of the windows keeps it.
LEMMA AgeInv ==
  ASSUME IInv, NEW i \in Ids, Age(i)
  PROVE  IInv'
  <1>0. /\ UNCHANGED <<state, released, destTx, refundTx, settledAt, amounts, updatedLate,
                       web, outside, tracker, faults>>
        /\ RowType'
        /\ \A j \in Ids : /\ confirmedAt'[j] = "null" <=> confirmedAt[j] = "null"
                          /\ confirmedAt'[j] = "new" => confirmedAt[j] = "new"
                          /\ submittedAt'[j] = "null" <=> submittedAt[j] = "null"
                          /\ submittedAt[j] = "old" => submittedAt'[j] = "old"
    BY Zenon DEF IInv, TypeOK, RowType, Age, AgeQuote, AgeConfirmation, AgeSubmission
  <1>1. TypeOK'
    BY <1>0, TypeSame, Zenon DEF IInv, TypeOK
  <1>2. LockOK'
    BY <1>0, Zenon DEF IInv, LockOK, OneConfirmed, Confirmed, web, Ids
  <1>3. \A j \in ClientIds : ClientOK(j)'
    BY <1>0, ClientRow, Zenon DEF IInv, ClientOK, web, outside
  <1>4. \A j \in Ids : RowOK(j)'
    BY <1>0, ZenonT(30) DEF IInv, RowOK, outside
  <1>5. \A t \in Trackers : TrackerOK(t)'
    BY <1>0, TrackerSame, Zenon DEF IInv, outside, tracker
  <1>6. WarningOK'
    BY <1>0, WarningSame DEF IInv, tracker
  <1> QED BY <1>1, <1>2, <1>3, <1>4, <1>5, <1>6 DEF IInv
=============================================================================
