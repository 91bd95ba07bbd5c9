---------------------------- MODULE EngineProofs ----------------------------
(***************************************************************************)
(* Run never ends in nil and joins its lanes, for any processes and lanes. *)
(***************************************************************************)
EXTENDS Engine, TLAPS

\* The initial state satisfies the inductive invariant.
LEMMA InitInv == Init => IInv
  <1> SUFFICES ASSUME Init PROVE IInv
    OBVIOUS
  <1>1. TypeOK
    BY EngineAssumption DEF Init, TypeOK, Errors
  <1>2. \A p \in Procs, l \in Lanes : LaneOK(p, l)
    BY DEF Init, LaneOK
  <1>3. \A p \in Procs : ~owned[p]
    BY Zenon DEF Init
  <1>4. NeverNil
    BY Zenon DEF Init, NeverNil
  <1> QED
    BY <1>1, <1>2, <1>3, <1>4 DEF IInv

\* Taking, losing and closing the lock's connection, a signal and the exit keep it.
LEMMA LockInv ==
  ASSUME IInv, NEW p \in Procs,
         HoldFamily(p) \/ LockLost(p) \/ CloseConnection(p) \/ Exit(p)
           \/ DropConnection(p) \/ Signal(p)
  PROVE  IInv'
  <1> USE DEF IInv
  <1>1. CASE HoldFamily(p)
    <2>1. TypeOK'
      BY <1>1 DEF HoldFamily, TypeOK
    <2>2. ASSUME NEW q \in Procs, NEW l \in Lanes PROVE LaneOK(q, l)'
      <3>1. CASE q = p
        BY <1>1, <3>1 DEF HoldFamily, TypeOK, LaneOK
      <3>2. CASE q # p
        BY <1>1, <3>2 DEF HoldFamily, TypeOK, LaneOK, OwnedEnded
      <3> QED
        BY <3>1, <3>2
    <2> QED
      BY <1>1, <2>1, <2>2 DEF HoldFamily, NeverNil
  <1>2. CASE LockLost(p)
    <2>1. TypeOK'
      BY <1>2 DEF LockLost, TypeOK
    <2>2. ASSUME NEW q \in Procs, NEW l \in Lanes PROVE LaneOK(q, l)'
      BY <1>2 DEF LockLost, TypeOK, LaneOK, OwnedEnded
    <2>3. ASSUME NEW q \in Procs, owned'[q] PROVE results'[q] \/ cause'[q] # "none"
      BY <1>2, <2>3 DEF LockLost, TypeOK
    <2> QED
      BY <1>2, <2>1, <2>2, <2>3 DEF LockLost, NeverNil
  <1>3. CASE CloseConnection(p) \/ DropConnection(p)
    <2>1. TypeOK'
      BY <1>3, EngineAssumption DEF CloseConnection, DropConnection, TypeOK
    <2>2. UNCHANGED <<proc, cause, owned, lane, err, results, exit>>
      BY <1>3 DEF CloseConnection, DropConnection
    <2> QED
      BY <2>1, <2>2 DEF LaneOK, OwnedEnded, NeverNil
  <1>4. CASE Exit(p)
    <2>1. TypeOK'
      BY <1>4 DEF Exit, TypeOK, Errors
    <2>2. ASSUME NEW q \in Procs, NEW l \in Lanes PROVE LaneOK(q, l)'
      <3>1. CASE q = p
        BY <1>4, <3>1 DEF Exit, TypeOK, LaneOK
      <3>2. CASE q # p
        BY <1>4, <3>2 DEF Exit, TypeOK, LaneOK, OwnedEnded
      <3> QED
        BY <3>1, <3>2
    <2>3. ASSUME NEW q \in Procs, owned'[q] PROVE results'[q] \/ cause'[q] # "none"
      BY <1>4, <2>3 DEF Exit, TypeOK
    <2>4. NeverNil'
      BY <1>4 DEF Exit, TypeOK, NeverNil
    <2> QED
      BY <2>1, <2>2, <2>3, <2>4
  <1>5. CASE Signal(p)
    <2>1. TypeOK'
      BY <1>5, EngineAssumption DEF Signal, TypeOK
    <2>2. ASSUME NEW q \in Procs, NEW l \in Lanes PROVE LaneOK(q, l)'
      BY <1>5 DEF Signal, TypeOK, LaneOK, OwnedEnded
    <2>3. ASSUME NEW q \in Procs, owned'[q] PROVE results'[q] \/ cause'[q] # "none"
      BY <1>5, <2>3 DEF Signal, TypeOK
    <2> QED
      BY <1>5, <2>1, <2>2, <2>3 DEF Signal, NeverNil
  <1> QED
    BY <1>1, <1>2, <1>3, <1>4, <1>5

\* The steps of a lane keep it.
LEMMA LaneInv ==
  ASSUME IInv, NEW p \in Procs, NEW l \in Lanes, Lane(p, l) \/ LaneStops(p, l)
  PROVE  IInv'
  <1> USE DEF IInv
  <1>1. CASE LaneEnds(p, l) \/ LaneStops(p, l)
    <2>1. TypeOK'
      <3>1. faults' \in 0..MaxFaults
        BY <1>1, EngineAssumption DEF LaneEnds, LaneStops, TypeOK
      <3>2. PICK e \in Errors : err' = [err EXCEPT ![p][l] = e]
        BY <1>1 DEF LaneEnds, LaneStops
      <3>3. err' \in [Procs -> [Lanes -> Errors]]
        BY <3>2 DEF TypeOK
      <3>4. lane' = [lane EXCEPT ![p][l] = "returned"] /\ UNCHANGED <<lock, proc, cause, owned, results, exit>>
        BY <1>1 DEF LaneEnds, LaneStops
      <3>5. lane' \in [Procs -> [Lanes -> {"off", "running", "returned", "checked", "reported", "done"}]]
        BY <3>4 DEF TypeOK
      <3> QED
        BY <3>1, <3>3, <3>4, <3>5 DEF TypeOK
    <2>2. ASSUME NEW q \in Procs, NEW k \in Lanes PROVE LaneOK(q, k)'
      <3>1. lane[p][l] = "running" /\ lane' = [lane EXCEPT ![p][l] = "returned"]
        BY <1>1 DEF LaneEnds, LaneStops
      <3>2. UNCHANGED <<proc, cause, owned, results>>
        BY <1>1 DEF LaneEnds, LaneStops
      <3>3. CASE q = p /\ k = l
        <4>1. lane'[q][k] = "returned"
          BY <3>1, <3>3 DEF TypeOK
        <4>2. proc[p] = "up"
          BY <3>1 DEF LaneOK
        <4> QED
          BY <3>2, <3>3, <4>1, <4>2 DEF LaneOK
      <3>4. CASE q # p \/ k # l
        <4>1. PICK e \in Errors : err' = [err EXCEPT ![p][l] = e]
          BY <1>1 DEF LaneEnds, LaneStops
        <4>2. lane'[q][k] = lane[q][k] /\ err'[q][k] = err[q][k]
          BY <3>1, <3>4, <4>1 DEF TypeOK
        <4> QED
          BY <3>2, <4>2 DEF LaneOK, OwnedEnded
      <3> QED
        BY <3>3, <3>4
    <2> QED
      BY <1>1, <2>1, <2>2 DEF LaneEnds, LaneStops, NeverNil
  <1>2. CASE CheckLane(p, l)
    <2>1. TypeOK'
      BY <1>2 DEF CheckLane, TypeOK, Errors
    <2>2. ASSUME NEW q \in Procs, NEW k \in Lanes PROVE LaneOK(q, k)'
      BY <1>2 DEF CheckLane, TypeOK, LaneOK, OwnedEnded
    <2> QED
      BY <1>2, <2>1, <2>2 DEF CheckLane, NeverNil
  <1>3. CASE Report(p, l)
    <2>1. TypeOK'
      BY <1>3 DEF Report, TypeOK, Errors
    <2>2. ASSUME NEW q \in Procs, NEW k \in Lanes PROVE LaneOK(q, k)'
      BY <1>3, Zenon DEF Report, TypeOK, LaneOK, OwnedEnded
    <2>3. ASSUME NEW q \in Procs, owned'[q] PROVE results'[q] \/ cause'[q] # "none"
      BY <1>3, <2>3 DEF Report, TypeOK
    <2> QED
      BY <1>3, <2>1, <2>2, <2>3 DEF Report, NeverNil
  <1>4. CASE Cancel(p, l)
    <2>1. TypeOK'
      BY <1>4 DEF Cancel, TypeOK
    <2>2. ASSUME NEW q \in Procs, NEW k \in Lanes PROVE LaneOK(q, k)'
      BY <1>4 DEF Cancel, TypeOK, LaneOK, OwnedEnded
    <2>3. results[p] \/ cause[p] # "none"
      BY <1>4 DEF Cancel, LaneOK, OwnedEnded
    <2>4. ASSUME NEW q \in Procs, owned'[q] PROVE results'[q] \/ cause'[q] # "none"
      BY <1>4, <2>3, <2>4 DEF Cancel, TypeOK
    <2> QED
      BY <1>4, <2>1, <2>2, <2>4 DEF Cancel, NeverNil
  <1> QED
    BY <1>1, <1>2, <1>3, <1>4 DEF Lane

\* The end of Run keeps it: a lane has ended, so a lane has cancelled.
LEMMA ReturnInv ==
  ASSUME IInv, NEW p \in Procs, Return(p)
  PROVE  IInv'
  <1> USE DEF IInv
  <1>1. TypeOK'
    BY DEF Return, TypeOK
  <1>2. ASSUME NEW q \in Procs, NEW l \in Lanes PROVE LaneOK(q, l)'
    BY DEF Return, TypeOK, LaneOK, OwnedEnded
  <1>3. results[p] \/ cause[p] # "none"
    <2>1. PICK l \in Lanes : lane[p][l] = "done"
      BY EngineAssumption DEF Return
    <2> QED
      BY <2>1 DEF LaneOK
  <1>4. NeverNil'
    BY <1>3 DEF Return, TypeOK, NeverNil
  <1> QED
    BY <1>1, <1>2, <1>4 DEF Return

\* The inductive invariant holds in every reachable state: an error is in the
\* channel, or the context ended, before a lane cancels the others.
THEOREM InductiveInvariant == Spec => []IInv
  <1>1. Init => IInv
    BY InitInv
  <1>2. IInv /\ [Next]_vars => IInv'
    <2> SUFFICES ASSUME IInv, [Next]_vars PROVE IInv'
      OBVIOUS
    <2>1. CASE UNCHANGED vars
      BY <2>1 DEF vars, IInv, TypeOK, LaneOK, OwnedEnded, NeverNil
    <2>2. ASSUME NEW p \in Procs, Process(p) \/ Fault(p) PROVE IInv'
      BY <2>2, LockInv, LaneInv, ReturnInv DEF Process, Fault
    <2> QED
      BY <2>1, <2>2 DEF Next
  <1> QED
    BY <1>1, <1>2, PTL DEF Spec

\* engine.Run never returns nil.
THEOREM RunNeverNil == Spec => []NeverNil
  <1>1. IInv => NeverNil
    BY DEF IInv
  <1> QED
    BY <1>1, InductiveInvariant, PTL

\* engine.Run returns only after every lane has.
THEOREM RunJoins == Spec => []LanesAreJoined
  <1>1. IInv => LanesAreJoined
    BY DEF IInv, LaneOK, LanesAreJoined
  <1> QED
    BY <1>1, InductiveInvariant, PTL
=============================================================================
