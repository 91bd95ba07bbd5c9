--------------------------- MODULE BackyardProofs ---------------------------
(***************************************************************************)
(* Theorems about Backyard, for any number of processes, operations and    *)
(* faults: IInv is inductive, and every safety property follows from it.   *)
(***************************************************************************)
EXTENDS BackyardBuild

-----------------------------------------------------------------------------
\* Landing a wire, reconciling it and closing its reservation.

\* Landing a persisted wire keeps the inductive invariant.
LEMMA LandInv ==
  ASSUME IInv, NEW p \in Procs, Land(p)
  PROVE  IInv'
  <1>0. TypeOK /\ faults \in 0..MaxFaults /\ ProcOK(p) /\ (lock = p => HolderOK(p))
    BY DEF IInv, TypeOK
  <1>1. CASE LandAnswer(p)
    <2> USE <1>1 DEF LandAnswer
    <2>1. cur[p] \in Ops
      BY <1>0 DEF ProcOK, Busy
    <2>2. Frame(p)
      BY <1>0, <2>1 DEF TypeOK, WorkerType, SweepType, ChainType, Frame, sweep, PCs
    <2>3. /\ pc'[p] = "landed" /\ cur'[p] = cur[p] /\ mem'[p] = mem[p]
          /\ seen'[p] = fate[cur[p]] /\ spc'[p] = spc[p] /\ scur'[p] = scur[p]
      BY <1>0 DEF TypeOK, WorkerType, sweep
    <2>4. ProcOK(p)'
      BY <1>0, <2>3 DEF ProcOK, Busy, rows, costs, chain
    <2>5. lock' = p => HolderOK(p)'
      BY <1>0, <2>3 DEF HolderOK, Busy, rows, costs
    <2> QED BY <1>0, <2>2, <2>4, <2>5, ControlStep
  <1>2. CASE LandResend(p)
    <2> USE <1>2 DEF LandResend
    <2> DEFINE l == IF mem[p] = "signed" THEN "intent" ELSE "send"
    <2>1. l \in PCs
      BY DEF PCs
    <2>2. Frame(p) /\ Moved(p, l)
      BY <2>1, GotoStep
    <2>3. ProcOK(p)'
      BY <1>0, <2>2 DEF Moved, ProcOK, Busy, rows, costs, chain
    <2>4. lock' = p => HolderOK(p)'
      BY <1>0, <2>2 DEF Moved, HolderOK, Busy, rows, costs
    <2> QED BY <1>0, <2>2, <2>3, <2>4, ControlStep
  <1>3. CASE MarkBroadcastIntent(p)
    <2> USE <1>3 DEF MarkBroadcastIntent
    <2>1. PICK c \in Ops : c = cur[p]
      BY <1>0 DEF ProcOK, HolderOK, Busy
    <2>2. OpOK(c)
      BY DEF IInv
    <2>3. status[c] = "signed" /\ wire[c]
      BY <1>0, <2>1, <2>2 DEF ProcOK, HolderOK, Busy
    <2>4. RowsType'
      BY <1>0, <2>1 DEF TypeOK, RowsType, Nonterminal, Unsigned, Unlanded, Terminal, Kinds
    <2>5. CostsType' /\ ChainType'
      BY <1>0, TypeSame DEF TypeOK
    <2>6. \A o \in Ops : Grow(o) /\ OpOK(o)'
      <3>1. \A o \in Ops \ {c} : Same(o)
        BY <1>0, <2>1, Zenon DEF TypeOK, RowsType, Same, costs, chain
      <3>2. Grow(c)
        BY <1>0, <2>1, <2>2, <2>3 DEF TypeOK, RowsType, Grow, OpOK, costs, chain
      <3>3. OpOK(c)'
        BY <1>0, <2>1, <2>2, <2>3 DEF TypeOK, RowsType, OpOK, costs, chain
      <3> QED BY <3>1, <3>2, <3>3, OneOp
    <2>7. \A o \in Ops : status[o] \in Terminal => status'[o] \in Terminal
      BY <1>0, <2>1, <2>3 DEF TypeOK, RowsType, Terminal
    <2>8. /\ WorkerType' /\ pc'[p] = "send" /\ cur'[p] = c /\ mem'[p] = "broadcast_intent"
          /\ spc'[p] = spc[p] /\ scur'[p] = scur[p]
      BY <1>0, <2>1 DEF TypeOK, WorkerType, PCs, Nonterminal, Unlanded, sweep
    <2>9. Frame(p)
      BY <1>0, <2>8 DEF TypeOK, WorkerType, SweepType, Frame, sweep
    <2>10. ProcOK(p)'
      BY <1>0, <2>1, <2>3, <2>8 DEF TypeOK, RowsType, ProcOK, Busy, Unlanded
    <2>11. lock' = p => HolderOK(p)'
      BY <1>0, <2>1, <2>7, <2>8 DEF TypeOK, RowsType, HolderOK, Busy
    <2>12. latch' \in BOOLEAN /\ LatchedIsQuiet'
      BY <2>3, QuietKept DEF Nonterminal, Unlanded
    <2> QED BY <1>0, <2>4, <2>5, <2>6, <2>9, <2>10, <2>11, <2>12, ProcessStep
  <1>4. CASE SendWire(p)
    <2> USE <1>4 DEF SendWire
    <2>1. PICK c \in Ops : c = cur[p]
      BY <1>0 DEF ProcOK, HolderOK, Busy
    <2>2. OpOK(c)
      BY DEF IInv
    <2>3. status[c] # "none" /\ wire[c] /\ intent[c]
      BY <1>0, <2>1, <2>2 DEF ProcOK, HolderOK, Busy
    <2>4. ChainType'
      BY <1>0, <2>1 DEF TypeOK, ChainType, Seen, Fates
    <2>5. RowsType' /\ CostsType'
      BY <1>0, TypeSame DEF TypeOK
    <2>6. \A o \in Ops : Grow(o) /\ OpOK(o)'
      <3>1. \A o \in Ops \ {c} : Same(o)
        BY <1>0, <2>1 DEF TypeOK, ChainType, Same, rows, costs
      <3>2. Grow(c)
        BY <1>0, <2>1, <2>2, <2>3 DEF TypeOK, ChainType, Grow, OpOK, rows, costs
      <3>3. OpOK(c)'
        BY <1>0, <2>1, <2>2, <2>3 DEF TypeOK, ChainType, OpOK, rows, costs
      <3> QED BY <3>1, <3>2, <3>3, OneOp
    <2>7. "land" \in PCs
      BY DEF PCs
    <2>8. Frame(p) /\ Moved(p, "land")
      BY <2>7, GotoStep
    <2>9. ProcOK(p)'
      BY <1>0, <2>1, <2>3, <2>8 DEF TypeOK, ChainType, Moved, ProcOK, Busy, rows, costs
    <2>10. lock' = p => HolderOK(p)'
      BY <1>0, <2>1, <2>3, <2>8 DEF TypeOK, ChainType, Moved, HolderOK, Busy, rows, costs
    <2>11. latch' \in BOOLEAN /\ LatchedIsQuiet'
      BY QuietKept DEF rows
    <2> QED BY <1>0, <2>4, <2>5, <2>6, <2>8, <2>9, <2>10, <2>11, ProcessStep
  <1>5. CASE FailExpired(p)
    <2> USE <1>5 DEF FailExpired
    <2>1. PICK c \in Ops : c = cur[p]
      BY <1>0 DEF ProcOK, HolderOK, Busy
    <2>2. OpOK(c)
      BY DEF IInv
    <2>3. status[c] \in Unlanded /\ fate[c] = "expired"
      BY <1>0, <2>1, <2>2 DEF ProcOK, HolderOK, Busy
    <2>4. RowsType'
      BY <1>0, <2>1 DEF TypeOK, RowsType, Nonterminal, Unsigned, Unlanded, Terminal, Kinds
    <2>5. CostsType' /\ ChainType'
      BY <1>0, TypeSame DEF TypeOK
    <2>6. \A o \in Ops : Grow(o) /\ OpOK(o)'
      <3>1. \A o \in Ops \ {c} : Same(o)
        BY <1>0, <2>1 DEF TypeOK, RowsType, Same, costs, chain
      <3>2. Grow(c)
        BY <1>0, <2>1, <2>2, <2>3 DEF TypeOK, RowsType, Grow, OpOK, costs, chain, Unlanded
      <3>3. OpOK(c)'
        BY <1>0, <2>1, <2>2, <2>3 DEF TypeOK, RowsType, OpOK, costs, chain, Unlanded
      <3> QED BY <3>1, <3>2, <3>3, OneOp
    <2>7. \A o \in Ops : status[o] \in Terminal => status'[o] \in Terminal
      BY <1>0, <2>1, <2>3 DEF TypeOK, RowsType, Terminal, Unlanded
    <2>8. "release" \in PCs
      BY Zenon DEF PCs
    <2>9. Frame(p) /\ Moved(p, "release")
      BY <2>8, GotoStep
    <2>10. ProcOK(p)'
      BY <1>0, <2>1, <2>3, <2>9 DEF TypeOK, RowsType, Moved, ProcOK, Busy, costs, chain
    <2>11. lock' = p => HolderOK(p)'
      BY <1>0, <2>1, <2>3, <2>7, <2>9, Zenon DEF TypeOK, RowsType, Moved, HolderOK, Busy, costs, chain
    <2>12. latch' \in BOOLEAN /\ LatchedIsQuiet'
      BY <2>3, QuietKept DEF Nonterminal, Unsigned, Unlanded
    <2> QED BY <1>0, <2>4, <2>5, <2>6, <2>9, <2>10, <2>11, <2>12, ProcessStep
  <1>6. CASE FoundBeforeIntent(p)
    <2> USE <1>6 DEF FoundBeforeIntent
    <2>1. PICK c \in Ops : c = cur[p]
      BY <1>0 DEF ProcOK, HolderOK, Busy
    <2>2. OpOK(c)
      BY DEF IInv
    <2>3. status[c] = "signed"
      BY <1>0, <2>1, <2>2 DEF ProcOK, HolderOK, Busy
    <2>4. RowsType'
      BY <1>0, <2>1 DEF TypeOK, RowsType, Nonterminal, Unsigned, Unlanded, Terminal, Kinds
    <2>5. CostsType' /\ ChainType'
      BY <1>0, TypeSame DEF TypeOK
    <2>6. \A o \in Ops : Grow(o) /\ OpOK(o)'
      <3>1. \A o \in Ops \ {c} : Same(o)
        BY <1>0, <2>1 DEF TypeOK, RowsType, Same, costs, chain
      <3>2. Grow(c)
        BY <1>0, <2>1, <2>2, <2>3 DEF TypeOK, RowsType, Grow, OpOK, costs, chain
      <3>3. OpOK(c)'
        BY <1>0, <2>1, <2>2, <2>3 DEF TypeOK, RowsType, OpOK, costs, chain
      <3> QED BY <3>1, <3>2, <3>3, OneOp
    <2>7. \A o \in Ops : status[o] \in Terminal => status'[o] \in Terminal
      BY <1>0, <2>1, <2>3, Zenon DEF TypeOK, RowsType, Terminal, Unlanded
    <2>8. Frame(p) /\ ProcOK(p)' /\ (lock' = p => HolderOK(p)')
      BY <2>7, RestStep, Zenon
    <2>9. latch' \in BOOLEAN /\ LatchedIsQuiet'
      BY <2>3, QuietKept DEF Nonterminal, Unsigned, Unlanded
    <2> QED BY <1>0, <2>4, <2>5, <2>6, <2>8, <2>9, ProcessStep
  <1>7. CASE SettleFailure(p)
    <2> USE <1>7 DEF SettleFailure
    <2>1. PICK c \in Ops : c = cur[p]
      BY <1>0, Zenon DEF ProcOK, HolderOK, Busy
    <2>2. OpOK(c)
      BY DEF IInv
    <2>3. status[c] = "broadcast_intent" /\ fate[c] = "failed"
      BY <1>0, <2>1, <2>2, Zenon DEF ProcOK, HolderOK, Busy
    <2>4. RowsType'
      <3>1. PICK to \in {"failed", "manual_recovery"} : status' = [status EXCEPT ![cur[p]] = to]
        BY Zenon
      <3> QED BY <1>0, <2>1, <3>1 DEF TypeOK, RowsType, Nonterminal, Unsigned, Unlanded, Terminal, Kinds
    <2>5. CostsType' /\ ChainType'
      BY <1>0, TypeSame, Zenon DEF TypeOK
    <2>6. \A o \in Ops : Grow(o) /\ OpOK(o)'
      <3>1. \A o \in Ops \ {c} : Same(o)
        BY <1>0, <2>1 DEF TypeOK, RowsType, Same, costs, chain
      <3>2. Grow(c)
        BY <1>0, <2>1, <2>2, <2>3 DEF TypeOK, RowsType, Grow, OpOK, costs, chain
      <3>3. OpOK(c)'
        BY <1>0, <2>1, <2>2, <2>3, Zenon DEF TypeOK, RowsType, OpOK, costs, chain
      <3> QED BY <3>1, <3>2, <3>3, OneOp, Zenon
    <2>7. \A o \in Ops : status[o] \in Terminal => status'[o] \in Terminal
      BY <1>0, <2>1, <2>3 DEF TypeOK, RowsType, Terminal, Unlanded
    <2>8. "settle" \in PCs
      BY Zenon DEF PCs
    <2>9. Frame(p) /\ Moved(p, "settle")
      BY <2>8, GotoStep
    <2>10. ProcOK(p)'
      BY <1>0, <2>1, <2>3, <2>9 DEF TypeOK, RowsType, Moved, ProcOK, Busy, costs, chain
    <2>11. lock' = p => HolderOK(p)'
      BY <1>0, <2>1, <2>3, <2>7, <2>9, Zenon DEF TypeOK, RowsType, Moved, HolderOK, Busy, costs, chain
    <2>12. latch' \in BOOLEAN /\ LatchedIsQuiet'
      BY <2>3, QuietKept, Zenon DEF Nonterminal, Unsigned, Unlanded
    <2> QED BY <1>0, <2>4, <2>5, <2>6, <2>9, <2>10, <2>11, <2>12, ProcessStep
  <1>8. CASE ReceiptNotFinal(p)
    BY <1>0, <1>8, RestStep, ControlStep DEF ReceiptNotFinal, rows
  <1>9. CASE MarkConfirmed(p)
    <2> USE <1>9 DEF MarkConfirmed
    <2>1. PICK c \in Ops : c = cur[p]
      BY <1>0, Zenon DEF ProcOK, HolderOK, Busy
    <2>2. OpOK(c)
      BY Zenon DEF IInv
    <2>3. status[c] = "broadcast_intent" /\ fate[c] = "landed"
      BY <1>0, <2>1, <2>2 DEF ProcOK, HolderOK, Busy
    <2>4. RowsType'
      BY <1>0, <2>1 DEF TypeOK, RowsType, Nonterminal, Unsigned, Unlanded, Terminal, Kinds
    <2>5. CostsType' /\ ChainType'
      BY <1>0, TypeSame DEF TypeOK
    <2>6. \A o \in Ops : Grow(o) /\ OpOK(o)'
      <3>1. \A o \in Ops \ {c} : Same(o)
        BY <1>0, <2>1 DEF TypeOK, RowsType, Same, costs, chain
      <3>2. Grow(c)
        BY <1>0, <2>1, <2>2, <2>3 DEF TypeOK, RowsType, Grow, OpOK, costs, chain
      <3>3. OpOK(c)'
        BY <1>0, <2>1, <2>2, <2>3, Zenon DEF TypeOK, RowsType, OpOK, costs, chain
      <3> QED BY <3>1, <3>2, <3>3, OneOp
    <2>7. \A o \in Ops : status[o] \in Terminal => status'[o] \in Terminal
      BY <1>0, <2>1, <2>3 DEF TypeOK, RowsType, Terminal, Unlanded
    <2>8. Frame(p) /\ ProcOK(p)' /\ (lock' = p => HolderOK(p)')
      BY <2>7, RestStep, Zenon
    <2>9. latch' \in BOOLEAN /\ LatchedIsQuiet'
      BY <2>3, QuietKept, Zenon DEF Nonterminal, Unsigned, Unlanded
    <2> QED BY <1>0, <2>4, <2>5, <2>6, <2>8, <2>9, ProcessStep
  <1> QED BY <1>1, <1>2, <1>3, <1>4, <1>5, <1>6, <1>7, <1>8, <1>9 DEF Land

\* Reconciling a confirmed operation keeps the inductive invariant.
LEMMA ReconcileInv ==
  ASSUME IInv, NEW p \in Procs, Reconcile(p)
  PROVE  IInv'
  <1>0. TypeOK /\ faults \in 0..MaxFaults /\ ProcOK(p) /\ (lock = p => HolderOK(p))
    BY DEF IInv, TypeOK
  <1>1. CASE NotFinal(p)
    BY <1>0, <1>1, RestStep, ControlStep DEF NotFinal, rows
  <1>2. CASE ReconcileMismatch(p)
    <2> USE <1>2 DEF ReconcileMismatch
    <2>1. PICK c \in Ops : c = cur[p]
      BY <1>0, Zenon DEF ProcOK, HolderOK, Busy
    <2>2. OpOK(c)
      BY Zenon DEF IInv
    <2>3. status[c] = "confirmed"
      BY <1>0, <2>1, <2>2 DEF ProcOK, HolderOK, Busy
    <2>4. RowsType'
      BY <1>0, <2>1 DEF TypeOK, RowsType, Nonterminal, Unsigned, Unlanded, Terminal, Kinds
    <2>5. CostsType' /\ ChainType'
      BY <1>0, TypeSame, Zenon DEF TypeOK
    <2>6. \A o \in Ops : Grow(o) /\ OpOK(o)'
      <3>1. \A o \in Ops \ {c} : Same(o)
        BY <1>0, <2>1 DEF TypeOK, RowsType, Same, costs, chain
      <3>2. Grow(c)
        BY <1>0, <2>1, <2>2, <2>3, Zenon DEF TypeOK, RowsType, Grow, OpOK, costs, chain
      <3>3. OpOK(c)'
        BY <1>0, <2>1, <2>2, <2>3, Zenon DEF TypeOK, RowsType, OpOK, costs, chain
      <3> QED BY <3>1, <3>2, <3>3, OneOp, Zenon
    <2>7. \A o \in Ops : status[o] \in Terminal => status'[o] \in Terminal
      BY <1>0, <2>1, <2>3 DEF TypeOK, RowsType, Terminal, Unlanded
    <2>8. Frame(p) /\ ProcOK(p)' /\ (lock' = p => HolderOK(p)')
      BY <2>7, RestStep, Zenon
    <2>9. latch' \in BOOLEAN /\ LatchedIsQuiet'
      BY <2>3, QuietKept DEF Nonterminal, Unsigned, Unlanded
    <2> QED BY <1>0, <2>4, <2>5, <2>6, <2>8, <2>9, ProcessStep, Zenon
  <1>3. CASE ReconcileMatch(p)
    <2> USE <1>3 DEF ReconcileMatch
    <2>1. "settleLanded" \in PCs
      BY DEF PCs
    <2>2. Frame(p) /\ Moved(p, "settleLanded")
      BY <2>1, GotoStep
    <2>3. ProcOK(p)'
      BY <1>0, <2>2 DEF Moved, ProcOK, Busy, rows, costs, chain
    <2>4. lock' = p => HolderOK(p)'
      BY <1>0, <2>2, Zenon DEF Moved, HolderOK, Busy, rows, costs
    <2> QED BY <1>0, <2>2, <2>3, <2>4, ControlStep
  <1>4. CASE MarkReconciled(p)
    <2> USE <1>4 DEF MarkReconciled
    <2>1. PICK c \in Ops : c = cur[p]
      BY <1>0 DEF ProcOK, HolderOK, Busy
    <2>2. OpOK(c)
      BY DEF IInv
    <2>3. status[c] = "confirmed" /\ final[c] /\ (kind[c] = "funding" => cost[c] = "settled")
      BY <1>0, <2>1, <2>2 DEF ProcOK, HolderOK, Busy
    <2>4. RowsType'
      BY <1>0, <2>1 DEF TypeOK, RowsType, Nonterminal, Unsigned, Unlanded, Terminal, Kinds
    <2>5. CostsType' /\ ChainType'
      BY <1>0, TypeSame DEF TypeOK
    <2>6. \A o \in Ops : Grow(o) /\ OpOK(o)'
      <3>1. \A o \in Ops \ {c} : Same(o)
        BY <1>0, <2>1 DEF TypeOK, RowsType, Same, costs, chain
      <3>2. Grow(c)
        BY <1>0, <2>1, <2>2, <2>3, Zenon DEF TypeOK, RowsType, Grow, OpOK, costs, chain
      <3>3. OpOK(c)'
        BY <1>0, <2>1, <2>2, <2>3, Zenon DEF TypeOK, RowsType, OpOK, costs, chain
      <3> QED BY <3>1, <3>2, <3>3, OneOp
    <2>7. \A o \in Ops : status[o] \in Terminal => status'[o] \in Terminal
      BY <1>0, <2>1, <2>3 DEF TypeOK, RowsType, Terminal, Unlanded
    <2>8. Frame(p) /\ ProcOK(p)' /\ (lock' = p => HolderOK(p)')
      BY <2>7, RestStep, Zenon
    <2>9. latch' \in BOOLEAN /\ LatchedIsQuiet'
      BY <2>3, QuietKept, Zenon DEF Nonterminal, Unsigned, Unlanded
    <2> QED BY <1>0, <2>4, <2>5, <2>6, <2>8, <2>9, ProcessStep, Zenon
  <1> QED BY <1>1, <1>2, <1>3, <1>4 DEF Reconcile

\* Closing a reservation from the tick keeps the inductive invariant.
LEMMA CloseInv ==
  ASSUME IInv, NEW p \in Procs, ReleaseCost(p) \/ SettleCost(p)
  PROVE  IInv'
  <1>0. TypeOK /\ faults \in 0..MaxFaults /\ ProcOK(p) /\ (lock = p => HolderOK(p))
    BY DEF IInv, TypeOK
  <1>1. CASE ReleaseCost(p)
    <2> USE <1>1 DEF ReleaseCost
    <2>1. PICK c \in Ops : c = cur[p]
      BY <1>0 DEF ProcOK, HolderOK, Busy
    <2>2. OpOK(c)
      BY DEF IInv
    <2>3. lock = p
      BY <1>0, <2>1, <2>2 DEF ProcOK, HolderOK, Busy
    <2>4. CostsType'
      BY <1>0, <2>1, Zenon DEF TypeOK, CostsType, CostStates, ReleasedCost
    <2>5. RowsType' /\ ChainType'
      BY <1>0, TypeSame, Zenon DEF TypeOK
    <2>6. \A o \in Ops : Grow(o) /\ OpOK(o)'
      <3>1. \A o \in Ops \ {c} : Same(o)
        BY <1>0, <2>1 DEF TypeOK, CostsType, Same, rows, chain
      <3>2. Grow(c)
        BY <1>0, <2>1, <2>2, <2>3, Zenon DEF TypeOK, CostsType, Grow, OpOK, rows, chain, ReleasedCost
      <3>3. OpOK(c)'
        BY <1>0, <2>1, <2>2, <2>3, Zenon DEF TypeOK, CostsType, OpOK, rows, chain, ReleasedCost
      <3> QED BY <3>1, <3>2, <3>3, OneOp
    <2>7. Frame(p) /\ ProcOK(p)' /\ (lock' = p => HolderOK(p)')
      BY RestStep, Zenon DEF rows
    <2>8. latch' \in BOOLEAN /\ LatchedIsQuiet'
      BY QuietKept, Zenon DEF rows
    <2> QED BY <1>0, <2>4, <2>5, <2>6, <2>7, <2>8, ProcessStep
  <1>2. CASE SettleCost(p)
    <2> USE <1>2 DEF SettleCost
    <2>1. PICK c \in Ops : c = cur[p]
      BY <1>0, Zenon DEF ProcOK, HolderOK, Busy
    <2>2. OpOK(c)
      BY DEF IInv
    <2>3. cost[c] = "reserved" => HasReceipt(c)
      BY <1>0, <2>1, <2>2, Zenon DEF ProcOK, HolderOK, Busy
    <2>4. CostsType'
      BY <1>0, <2>1 DEF TypeOK, CostsType, CostStates, SettledCost
    <2>5. RowsType' /\ ChainType'
      BY <1>0, TypeSame DEF TypeOK
    <2>6. \A o \in Ops : Grow(o) /\ OpOK(o)'
      <3>1. \A o \in Ops \ {c} : Same(o)
        BY <1>0, <2>1, Zenon DEF TypeOK, CostsType, Same, rows, chain
      <3>2. Grow(c)
        BY <1>0, <2>1, <2>2, <2>3, Zenon DEF TypeOK, CostsType, Grow, OpOK, rows, chain, SettledCost, HasReceipt
      <3>3. OpOK(c)'
        BY <1>0, <2>1, <2>2, <2>3, Zenon DEF TypeOK, CostsType, OpOK, rows, chain, SettledCost, HasReceipt
      <3> QED BY <3>1, <3>2, <3>3, OneOp
    <2>7. Frame(p) /\ ProcOK(p)' /\ (lock' = p => HolderOK(p)')
      <3>1. CASE pc[p] = "settle" /\ Rest(p)
        BY <3>1, RestStep DEF rows
      <3>2. CASE pc[p] = "settleLanded" /\ Goto(p, "mark")
        <4>1. "mark" \in PCs
          BY DEF PCs
        <4>2. Frame(p) /\ Moved(p, "mark")
          BY <3>2, <4>1, GotoStep
        <4>3. ProcOK(p)'
          BY <1>0, <2>1, <3>2, <4>2, Zenon DEF Moved, ProcOK, Busy, rows, chain
        <4>4. kind[c] = "funding" => cost'[c] = "settled"
          <5>1. status[c] = "confirmed"
            BY <1>0, <2>1, <3>2 DEF HolderOK, Busy
          <5>2. kind[c] = "funding" => cost[c] \in {"reserved", "settled"}
            BY <1>0, <2>1, <2>2, <5>1, Zenon DEF TypeOK, CostsType, CostStates, OpOK
          <5> QED BY <1>0, <2>1, <5>2 DEF TypeOK, CostsType, SettledCost
        <4>5. lock' = p => HolderOK(p)'
          BY <1>0, <2>1, <3>2, <4>2, <4>4, Zenon DEF Moved, HolderOK, Busy, rows
        <4> QED BY <4>2, <4>3, <4>5, Zenon
      <3> QED BY <3>1, <3>2, Zenon
    <2>8. latch' \in BOOLEAN /\ LatchedIsQuiet'
      BY QuietKept DEF rows
    <2> QED BY <1>0, <2>4, <2>5, <2>6, <2>7, <2>8, ProcessStep, Zenon
  <1> QED BY <1>1, <1>2

\* The settlement sweep beside the tick keeps the inductive invariant.
LEMMA SweepInv ==
  ASSUME IInv, NEW p \in Procs, Sweep(p)
  PROVE  IInv'
  <1>0. TypeOK /\ faults \in 0..MaxFaults /\ ProcOK(p) /\ (lock = p => HolderOK(p))
    BY DEF IInv, TypeOK
  <1>1. CASE SweepScan(p)
    <2> USE <1>1 DEF SweepScan
    <2>1. Frame(p)
      BY <1>0 DEF TypeOK, WorkerType, SweepType, SPCs, Frame, worker
    <2>2. ProcOK(p)'
      BY <1>0, Zenon DEF TypeOK, SweepType, ProcOK, HolderOK, rows, costs, chain, worker
    <2>3. lock' = p => HolderOK(p)'
      BY <1>0, Zenon DEF TypeOK, SweepType, HolderOK, InFlight, rows, costs, worker
    <2> QED BY <1>0, <2>1, <2>2, <2>3, ControlStep
  <1>2. CASE SweepRelease(p)
    <2> USE <1>2 DEF SweepRelease
    <2>1. PICK c \in Ops : c = scur[p]
      BY <1>0, Zenon DEF ProcOK, HolderOK, Busy
    <2>2. OpOK(c)
      BY DEF IInv
    <2>3. status[c] \in Terminal /\ pc[p] # "waiting"
      BY <1>0, <2>1, <2>2 DEF ProcOK, HolderOK, Busy
    <2>4. CostsType'
      BY <1>0, <2>1 DEF TypeOK, CostsType, CostStates, ReleasedCost
    <2>5. RowsType' /\ ChainType'
      BY <1>0, TypeSame DEF TypeOK
    <2>6. \A o \in Ops : Grow(o) /\ OpOK(o)'
      <3>1. \A o \in Ops \ {c} : Same(o)
        BY <1>0, <2>1 DEF TypeOK, CostsType, Same, rows, chain
      <3>2. Grow(c)
        BY <1>0, <2>1, <2>2, <2>3, Zenon DEF TypeOK, CostsType, Grow, OpOK, rows, chain, ReleasedCost
      <3>3. OpOK(c)'
        BY <1>0, <2>1, <2>2, <2>3, Zenon DEF TypeOK, CostsType, OpOK, rows, chain, ReleasedCost
      <3> QED BY <3>1, <3>2, <3>3, OneOp
    <2>7. Frame(p)
      BY <1>0 DEF TypeOK, WorkerType, SweepType, SPCs, Frame, worker
    <2>8. ProcOK(p)'
      BY <1>0, <2>3, Zenon DEF ProcOK, rows, chain, worker
    <2>9. pc[p] \in {"reserve", "check", "unreserve", "bind", "mark"} => cur[p] \in Ops /\ cur[p] # c
      <3>1. pc[p] \in {"reserve", "check", "unreserve", "bind", "mark"} =>
               cur[p] \in Ops /\ status[cur[p]] \in {"decided", "confirmed"}
        BY <1>0 DEF ProcOK, HolderOK, Busy
      <3> QED BY <2>3, <3>1, Zenon DEF Terminal
    <2>10. lock' = p => HolderOK(p)'
      BY <1>0, <2>1, <2>3, <2>9 DEF TypeOK, CostsType, SweepType, HolderOK, InFlight, rows, worker
    <2>11. latch' \in BOOLEAN /\ LatchedIsQuiet'
      BY QuietKept DEF rows
    <2> QED BY <1>0, <2>4, <2>5, <2>6, <2>7, <2>8, <2>10, <2>11, ProcessStep
  <1>3. CASE SweepSettle(p)
    <2> USE <1>3 DEF SweepSettle
    <2>1. PICK c \in Ops : c = scur[p]
      BY <1>0, Zenon DEF ProcOK, HolderOK, Busy
    <2>2. OpOK(c)
      BY DEF IInv
    <2>3. status[c] \in Terminal /\ pc[p] # "waiting"
      BY <1>0, <2>1, <2>2, Zenon DEF ProcOK, HolderOK, Busy
    <2>4. CostsType'
      BY <1>0, <2>1 DEF TypeOK, CostsType, CostStates, SettledCost
    <2>5. RowsType' /\ ChainType'
      BY <1>0, TypeSame DEF TypeOK
    <2>6. \A o \in Ops : Grow(o) /\ OpOK(o)'
      <3>1. \A o \in Ops \ {c} : Same(o)
        BY <1>0, <2>1 DEF TypeOK, CostsType, Same, rows, chain
      <3>2. Grow(c)
        BY <1>0, <2>1, <2>2, <2>3 DEF TypeOK, CostsType, Grow, OpOK, rows, chain, SettledCost, HasReceipt
      <3>3. OpOK(c)'
        BY <1>0, <2>1, <2>2, <2>3, Zenon DEF TypeOK, CostsType, OpOK, rows, chain, SettledCost, HasReceipt
      <3> QED BY <3>1, <3>2, <3>3, OneOp
    <2>7. Frame(p)
      BY <1>0 DEF TypeOK, WorkerType, SweepType, SPCs, Frame, worker
    <2>8. ProcOK(p)'
      BY <1>0, <2>3, Zenon DEF ProcOK, rows, chain, worker
    <2>9. pc[p] \in {"reserve", "check", "unreserve", "bind", "mark"} => cur[p] \in Ops /\ cur[p] # c
      <3>1. pc[p] \in {"reserve", "check", "unreserve", "bind", "mark"} =>
               cur[p] \in Ops /\ status[cur[p]] \in {"decided", "confirmed"}
        BY <1>0, Zenon DEF ProcOK, HolderOK, Busy
      <3> QED BY <2>3, <3>1, Zenon DEF Terminal
    <2>10. lock' = p => HolderOK(p)'
      BY <1>0, <2>1, <2>3, <2>9 DEF TypeOK, CostsType, SweepType, HolderOK, InFlight, rows, worker
    <2>11. latch' \in BOOLEAN /\ LatchedIsQuiet'
      BY QuietKept DEF rows
    <2> QED BY <1>0, <2>4, <2>5, <2>6, <2>7, <2>8, <2>10, <2>11, ProcessStep
  <1>4. CASE SweepWarning(p)
    <2> USE <1>4 DEF SweepWarning
    <2>1. Frame(p)
      BY <1>0 DEF TypeOK, WorkerType, SweepType, SPCs, Frame, worker
    <2>2. ProcOK(p)'
      BY <1>0, Zenon DEF TypeOK, SweepType, ProcOK, HolderOK, rows, costs, chain, worker
    <2>3. lock' = p => HolderOK(p)'
      BY <1>0, Zenon DEF TypeOK, SweepType, HolderOK, InFlight, rows, costs, worker
    <2> QED BY <1>0, <2>1, <2>2, <2>3, ControlStep
  <1> QED BY <1>1, <1>2, <1>3, <1>4 DEF Sweep

-----------------------------------------------------------------------------
\* The chain, the operator, and all steps together.

\* A step of the chain keeps the inductive invariant: a wire has one fate, and what
\* the network never saw does not execute.
LEMMA ChainStepInv ==
  ASSUME IInv, NEW c \in Ops, ChainStep(c)
  PROVE  IInv'
  <1> USE DEF Execute, Expire, Finalize
  <1>1. /\ UNCHANGED <<rows, costs, latch, lock, worker, sweep, faults>>
        /\ Execute(c) \/ Expire(c) \/ Finalize(c)
    BY DEF ChainStep
  <1>2. ChainType'
    BY <1>1, Zenon DEF IInv, TypeOK, ChainType, Fates
  <1>3. TypeOK'
    BY <1>1, <1>2, TypeSame DEF IInv, TypeOK
  <1>4. \A o \in Ops : Grow(o) /\ OpOK(o)'
    <2>1. \A o \in Ops \ {c} : Same(o)
      BY <1>1 DEF IInv, TypeOK, ChainType, Same, rows, costs
    <2>2. Grow(c)
      BY <1>1 DEF IInv, TypeOK, ChainType, Grow, rows, costs
    <2>3. OpOK(c)'
      <3>1. CASE Execute(c)
        BY <1>1, <3>1 DEF IInv, TypeOK, ChainType, OpOK, rows, costs
      <3>2. CASE Expire(c)
        BY <1>1, <3>2 DEF IInv, TypeOK, ChainType, OpOK, rows, costs
      <3>3. CASE Finalize(c)
        BY <1>1, <3>3 DEF IInv, TypeOK, ChainType, OpOK, rows, costs
      <3> QED BY <1>1, <3>1, <3>2, <3>3
    <2> QED BY <2>1, <2>2, <2>3, OneOp
  <1>5. \A p \in Procs : ProcOK(p)'
    BY <1>1, <1>4, ProcKept DEF IInv, worker, sweep
  <1>6. \A p \in Procs : lock' = p => HolderOK(p)'
    BY <1>1, HolderKept DEF IInv, worker, sweep
  <1>7. LatchedIsQuiet'
    BY <1>1, QuietKept DEF rows
  <1> QED BY <1>3, <1>4, <1>5, <1>6, <1>7 DEF IInv

\* The operator clears the latch beside the worker.
LEMMA ClearLatchInv ==
  ASSUME IInv, ClearLatch
  PROVE  IInv'
  <1> USE DEF ClearLatch
  <1>1. TypeOK'
    BY TypeSame, Zenon DEF IInv, TypeOK
  <1>2. \A o \in Ops : Grow(o) /\ OpOK(o)'
    BY DataSame DEF IInv
  <1>3. \A p \in Procs : ProcOK(p)'
    BY <1>2, ProcKept DEF IInv, worker, sweep
  <1>4. \A p \in Procs : lock' = p => HolderOK(p)'
    BY DEF IInv, HolderOK, InFlight, rows, costs, worker, sweep
  <1>5. LatchedIsQuiet'
    BY DEF LatchedIsQuiet
  <1> QED BY <1>1, <1>2, <1>3, <1>4, <1>5 DEF IInv

\* Nothing that stutters disturbs the invariant.
LEMMA StutterInv ==
  ASSUME IInv, UNCHANGED vars
  PROVE  IInv'
  <1> USE DEF vars
  <1>1. TypeOK'
    BY TypeSame DEF IInv, TypeOK
  <1>2. \A o \in Ops : Grow(o) /\ OpOK(o)'
    BY DataSame DEF IInv
  <1>3. \A p \in Procs : ProcOK(p)'
    BY <1>2, ProcKept DEF IInv, worker, sweep
  <1>4. \A p \in Procs : lock' = p => HolderOK(p)'
    BY HolderKept DEF IInv, worker, sweep
  <1>5. LatchedIsQuiet'
    BY QuietKept DEF rows
  <1> QED BY <1>1, <1>2, <1>3, <1>4, <1>5 DEF IInv

\* Every step keeps the inductive invariant.
LEMMA NextInv ==
  ASSUME IInv, [Next]_vars
  PROVE  IInv'
  <1>1. ASSUME NEW p \in Procs, Tick(p) \/ Sweep(p) \/ Fault(p)
        PROVE  IInv'
    BY <1>1, SessionInv, DecideInv, BuildInv, RecoverInv, LandInv, ReconcileInv, CloseInv,
       SweepInv DEF Tick
  <1> QED BY <1>1, ChainStepInv, ClearLatchInv, StutterInv DEF Next

-----------------------------------------------------------------------------
\* The theorems.

\* IInv is an invariant of the vault, for any number of processes, operations and
\* faults.
THEOREM InductiveInvariant == Spec => []IInv
  BY InitInv, NextInv, PTL DEF Spec

\* The journal, the reservations, the chain and the processes stay in their types
\* (the statuses and states the migrations' CHECKs allow).
THEOREM TypeCorrect == Spec => []TypeOK
  <1>1. IInv => TypeOK
    BY DEF IInv
  <1> QED BY <1>1, InductiveInvariant, PTL

\* The wire of a failed operation never moves capital: what MarkPreBroadcastFailed,
\* MarkExpiredAbsentFailed and the failure settlement journal is true for ever.
THEOREM FailedIsDead == Spec => []FailedWireIsDead
  <1>1. IInv => FailedWireIsDead
    BY DEF IInv, OpOK, FailedWireIsDead
  <1> QED BY <1>1, InductiveInvariant, PTL

\* releaseWithdrawalCost frees a limit only when no wire can spend under it.
THEOREM ReleasedIsFree == Spec => []ReleasedNeverSpends
  <1>1. IInv => ReleasedNeverSpends
    BY DEF IInv, OpOK, ReleasedNeverSpends
  <1> QED BY <1>1, InductiveInvariant, PTL

\* settleWithdrawalCost books finalized receipts only.
THEOREM SettledIsBooked == Spec => []SettledIsFinal
  <1>1. IInv => SettledIsFinal
    BY DEF IInv, OpOK, SettledIsFinal
  <1> QED BY <1>1, InductiveInvariant, PTL

\* MarkReconciled follows a finalized landing and, for a funding sale, its
\* settlement.
THEOREM ReconciledIsTrue == Spec => []ReconciledIsBooked
  <1>1. IInv => ReconciledIsBooked
    BY DEF IInv, OpOK, ReconciledIsBooked
  <1> QED BY <1>1, InductiveInvariant, PTL

\* No bytes are sent before PersistSigned and MarkBroadcastIntent committed, not by
\* a process that lost its session either.
THEOREM WriteAhead == Spec => []SentIsJournaled
  <1>1. IInv => SentIsJournaled
    BY DEF IInv, OpOK, SentIsJournaled
  <1> QED BY <1>1, InductiveInvariant, PTL

\* The manual recovery latch is taken, and stays, with nothing in flight.
THEOREM LatchIsQuiet == Spec => []LatchedIsQuiet
  <1>1. IInv => LatchedIsQuiet
    BY DEF IInv
  <1> QED BY <1>1, InductiveInvariant, PTL

\* The advisory lock is fencing enough: the holder's memory agrees with the journal.
THEOREM HolderAgrees == Spec => []HolderIsCurrent
  <1>1. IInv => HolderIsCurrent
    BY DEF IInv, HolderOK, HolderIsCurrent
  <1> QED BY <1>1, InductiveInvariant, PTL
=============================================================================
