--------------------------- MODULE BackyardBuild ----------------------------
(***************************************************************************)
(* What every step of Backyard has in common, for the inductive proofs,    *)
(* and the steps that decide an operation, build and persist its wire and  *)
(* recover an unfinished build.                                            *)
(*                                                                         *)
(* A step of process p keeps the invariant of the other processes for two  *)
(* reasons: what any process knows of an operation is never taken back     *)
(* (Grow), and what only the holder of the lock knows can be changed only  *)
(* by the holder (Frame).  ProcessStep says so once; each action then has  *)
(* to show its own part.                                                   *)
(***************************************************************************)
EXTENDS Backyard, TLAPS

\* What a step never takes back of an operation.
Grow(o) ==
    /\ status[o] # "none" => status'[o] # "none" /\ kind'[o] = kind[o]
    /\ wire[o] => wire'[o]
    /\ intent[o] => intent'[o]
    /\ costWire[o] => costWire'[o]
    /\ fate[o] # "open" => fate'[o] = fate[o]
    /\ final[o] => final'[o]

\* The step leaves an operation alone.
Same(o) ==
    /\ status'[o] = status[o] /\ kind'[o] = kind[o] /\ wire'[o] = wire[o]
    /\ intent'[o] = intent[o] /\ reason'[o] = reason[o]
    /\ cost'[o] = cost[o] /\ costWire'[o] = costWire[o]
    /\ net'[o] = net[o] /\ fate'[o] = fate[o] /\ final'[o] = final[o]

\* The step is one of process p: it leaves the memory of the others alone, and
\* writes the journal, the reservations or the latch only under the lock.  Its own
\* memory stays in its type.
Frame(p) ==
    /\ WorkerType' /\ SweepType' /\ lock' \in Procs \union {NoProc}
    /\ \A q \in Procs \ {p} :
          /\ pc'[q] = pc[q] /\ cur'[q] = cur[q] /\ mem'[q] = mem[q] /\ seen'[q] = seen[q]
          /\ spc'[q] = spc[q] /\ scur'[q] = scur[q]
    /\ lock' \in {lock, p, NoProc}
    /\ lock = p \/ UNCHANGED <<rows, costs, latch>>

\* The worker of p is at l, with what it had in memory.
Moved(p, l) ==
    /\ pc'[p] = l /\ cur'[p] = cur[p] /\ mem'[p] = mem[p] /\ seen'[p] = seen[p]
    /\ spc'[p] = spc[p] /\ scur'[p] = scur[p]

-----------------------------------------------------------------------------
\* Frame lemmas.

\* An operation the step leaves alone keeps what the invariant says of it.
LEMMA SameKept ==
  ASSUME NEW o \in Ops, Same(o), OpOK(o)
  PROVE  Grow(o) /\ OpOK(o)'
  BY DEF Same, Grow, OpOK

\* It is enough to look at the one operation a step changes.
LEMMA OneOp ==
  ASSUME IInv, NEW c \in Ops, \A o \in Ops \ {c} : Same(o), Grow(c), OpOK(c)'
  PROVE  \A o \in Ops : Grow(o) /\ OpOK(o)'
  BY SameKept DEF IInv

\* A step that leaves the journal, the reservations and the chain alone takes
\* nothing back and keeps what the invariant says of the operations.
LEMMA DataSame ==
  ASSUME UNCHANGED <<rows, costs, chain>>, NEW o \in Ops
  PROVE  Grow(o) /\ (OpOK(o) => OpOK(o)')
  BY SameKept DEF rows, costs, chain, Same, Grow

\* The types of the data are kept where the data is.
LEMMA TypeSame ==
  /\ UNCHANGED rows /\ RowsType => RowsType'
  /\ UNCHANGED costs /\ CostsType => CostsType'
  /\ UNCHANGED chain /\ ChainType => ChainType'
  /\ UNCHANGED worker /\ WorkerType => WorkerType'
  /\ UNCHANGED sweep /\ SweepType => SweepType'
  BY DEF rows, costs, chain, worker, sweep, RowsType, CostsType, ChainType, WorkerType, SweepType

\* What a process knows survives the steps of the others and of the chain.
LEMMA ProcKept ==
  ASSUME NEW q \in Procs, ProcOK(q), \A o \in Ops : Grow(o),
         pc'[q] = pc[q], cur'[q] = cur[q], mem'[q] = mem[q], seen'[q] = seen[q],
         spc'[q] = spc[q]
  PROVE  ProcOK(q)'
  BY DEF ProcOK, Grow, Busy

\* What the holder of the lock knows survives steps that do not write.
LEMMA HolderKept ==
  ASSUME NEW q \in Procs, HolderOK(q), UNCHANGED <<rows, costs, latch>>,
         pc'[q] = pc[q], cur'[q] = cur[q], mem'[q] = mem[q],
         spc'[q] = spc[q], scur'[q] = scur[q]
  PROVE  HolderOK(q)'
  BY DEF HolderOK, rows, costs, InFlight

\* A step of process p keeps the inductive invariant if it does for p.
LEMMA ProcessStep ==
  ASSUME IInv, NEW p \in Procs, Frame(p),
         RowsType', CostsType', ChainType', latch' \in BOOLEAN, faults' \in 0..MaxFaults,
         \A o \in Ops : Grow(o) /\ OpOK(o)',
         ProcOK(p)', lock' = p => HolderOK(p)', LatchedIsQuiet'
  PROVE  IInv'
  <1>1. ASSUME NEW q \in Procs, q # p
        PROVE  ProcOK(q)'
    BY <1>1, ProcKept DEF IInv, Frame
  <1>2. ASSUME NEW q \in Procs, q # p, lock' = q
        PROVE  HolderOK(q)'
    <2>1. NoProc # q
      BY BackyardAssumption
    <2>2. lock = q /\ lock # p
      BY <1>2, <2>1 DEF Frame
    <2>3. HolderOK(q)
      BY <2>2 DEF IInv
    <2> QED BY <1>2, <2>2, <2>3, HolderKept DEF Frame
  <1> QED BY <1>1, <1>2 DEF IInv, TypeOK, Frame

\* The same for a step that writes nothing but the memory of the process.
LEMMA ControlStep ==
  ASSUME IInv, NEW p \in Procs, Frame(p), faults' \in 0..MaxFaults,
         UNCHANGED <<rows, costs, chain, latch>>,
         ProcOK(p)', lock' = p => HolderOK(p)'
  PROVE  IInv'
  <1>1. RowsType' /\ CostsType' /\ ChainType' /\ latch' \in BOOLEAN
    BY TypeSame DEF IInv, TypeOK
  <1>2. \A o \in Ops : Grow(o) /\ OpOK(o)'
    BY DataSame DEF IInv
  <1>3. LatchedIsQuiet'
    BY DEF IInv, LatchedIsQuiet, InFlight, rows
  <1> QED BY <1>1, <1>2, <1>3, ProcessStep

\* A step that leaves the status of every operation in flight but one alone, or
\* writes none, leaves the latch's invariant alone.
LEMMA QuietKept ==
  ASSUME IInv, latch' = latch,
         UNCHANGED status \/ \E o \in Ops : status[o] \in Nonterminal
  PROVE  latch' \in BOOLEAN /\ LatchedIsQuiet'
  BY DEF IInv, TypeOK, LatchedIsQuiet, InFlight

-----------------------------------------------------------------------------
\* The three ways a step ends: the worker moves on, rests or exits.

\* The worker moves on within its tick.
LEMMA GotoStep ==
  ASSUME IInv, NEW p \in Procs, NEW l \in PCs, Goto(p, l), UNCHANGED <<lock, sweep>>,
         lock = p \/ UNCHANGED <<rows, costs, latch>>
  PROVE  Frame(p) /\ Moved(p, l)
  BY DEF IInv, TypeOK, WorkerType, SweepType, Goto, Frame, Moved, sweep

\* The worker rests: it holds no operation.  The sweep beside it goes on.
LEMMA RestStep ==
  ASSUME IInv, NEW p \in Procs, Rest(p), UNCHANGED <<lock, sweep>>,
         lock = p \/ UNCHANGED <<rows, costs, latch>>,
         \A o \in Ops : status[o] \in Terminal => status'[o] \in Terminal
  PROVE  Frame(p) /\ ProcOK(p)' /\ (lock' = p => HolderOK(p)')
  <1>1. WorkerType' /\ SweepType' /\ lock' \in Procs \union {NoProc}
    BY DEF IInv, TypeOK, WorkerType, SweepType, Rest, sweep, PCs, Fates
  <1>2. Frame(p)
    BY <1>1 DEF IInv, TypeOK, WorkerType, Rest, Frame, sweep
  <1>3. pc'[p] = "idle"
    BY DEF IInv, TypeOK, WorkerType, Rest
  <1>4. ProcOK(p)'
    BY <1>3 DEF ProcOK, Busy
  <1>5. lock' = p => HolderOK(p)'
    BY <1>3 DEF IInv, HolderOK, Busy, sweep
  <1> QED BY <1>2, <1>4, <1>5

\* The process exits: it holds neither an operation nor the lock.
LEMMA ExitStep ==
  ASSUME IInv, NEW p \in Procs, ExitTo(p), UNCHANGED <<rows, costs, latch>>
  PROVE  Frame(p) /\ ProcOK(p)' /\ lock' # p
  <1>1. WorkerType' /\ SweepType' /\ lock' \in Procs \union {NoProc}
    BY DEF IInv, TypeOK, WorkerType, SweepType, ExitTo, PCs, SPCs, Fates
  <1>2. Frame(p)
    BY <1>1 DEF IInv, TypeOK, WorkerType, SweepType, ExitTo, Frame
  <1>3. pc'[p] = "waiting" /\ spc'[p] = "idle"
    BY DEF IInv, TypeOK, WorkerType, SweepType, ExitTo
  <1>4. ProcOK(p)'
    BY <1>3 DEF ProcOK, Busy
  <1>5. lock' # p
    BY BackyardAssumption DEF ExitTo
  <1> QED BY <1>2, <1>4, <1>5

-----------------------------------------------------------------------------
\* Init.

\* The initial state satisfies the inductive invariant.
LEMMA InitInv == Init => IInv
  <1> SUFFICES ASSUME Init PROVE IInv
    OBVIOUS
  <1> USE DEF Init
  <1>1. RowsType /\ CostsType /\ ChainType
    BY DEF RowsType, CostsType, ChainType, Kinds, CostStates, Seen, Fates
  <1>2. WorkerType /\ SweepType
    BY DEF WorkerType, SweepType, PCs, SPCs, Fates
  <1>3. latch \in BOOLEAN
    BY Zenon
  <1>4. lock \in Procs \union {NoProc} /\ faults \in 0..MaxFaults
    BY BackyardAssumption
  <1>5. TypeOK
    BY <1>1, <1>2, <1>3, <1>4 DEF TypeOK
  <1>6. \A o \in Ops : OpOK(o)
    BY DEF OpOK
  <1>7. \A p \in Procs : ProcOK(p) /\ (lock = p => HolderOK(p))
    BY BackyardAssumption, Zenon DEF ProcOK, Busy
  <1>8. LatchedIsQuiet
    BY DEF LatchedIsQuiet
  <1> QED BY <1>5, <1>6, <1>7, <1>8 DEF IInv

-----------------------------------------------------------------------------
\* Sessions and processes.

\* Opening, losing and ending a session, and an unanswered call, keep the
\* inductive invariant.
LEMMA SessionInv ==
  ASSUME IInv, NEW p \in Procs,
         OpenDatabase(p) \/ SessionLost(p) \/ Fault(p)
  PROVE  IInv'
  <1>0. faults \in 0..MaxFaults /\ MaxFaults \in Nat /\ (faults < MaxFaults => faults + 1 \in 0..MaxFaults)
    BY BackyardAssumption DEF IInv, TypeOK
  <1>1. CASE OpenDatabase(p)
    <2> USE <1>1 DEF OpenDatabase
    <2>1. Frame(p) /\ pc'[p] = "idle"
      BY DEF IInv, TypeOK, WorkerType, SweepType, Frame, sweep, PCs
    <2>2. ProcOK(p)'
      BY <2>1 DEF ProcOK, Busy
    <2>3. spc[p] = "idle"
      BY DEF IInv, ProcOK
    <2>4. HolderOK(p)'
      BY <2>1, <2>3 DEF HolderOK, Busy, sweep
    <2> QED BY <1>0, <2>1, <2>2, <2>4, ControlStep
  <1>2. CASE SessionLost(p)
    BY <1>0, <1>2, ExitStep, ControlStep DEF SessionLost
  <1>3. CASE Crash(p)
    BY <1>0, <1>3, ExitStep, ControlStep DEF Crash
  <1>4. CASE LoseSession(p)
    <2> USE <1>4 DEF LoseSession
    <2>1. Frame(p) /\ ProcOK(p)'
      BY TypeSame, ProcKept, DataSame DEF IInv, TypeOK, Frame, worker, sweep
    <2>2. lock' # p
      BY BackyardAssumption
    <2> QED BY <1>0, <2>1, <2>2, ControlStep
  <1>5. CASE Unavailable(p)
    BY <1>0, <1>5, RestStep, ControlStep DEF Unavailable, rows
  <1>6. CASE CleanupFails(p)
    <2> USE <1>6 DEF CleanupFails
    <2>1. "journal" \in PCs
      BY DEF PCs
    <2>2. Frame(p) /\ Moved(p, "journal")
      BY <2>1, GotoStep
    <2>3. ProcOK(p) /\ (lock = p => HolderOK(p))
      BY DEF IInv
    <2>4. ProcOK(p)'
      BY <2>2, <2>3 DEF Moved, ProcOK, Busy, rows
    <2>5. lock' = p => HolderOK(p)'
      BY <2>2, <2>3 DEF Moved, ProcOK, HolderOK, Busy, rows, costs
    <2> QED BY <1>0, <2>2, <2>4, <2>5, ControlStep
  <1> QED BY <1>1, <1>2, <1>3, <1>4, <1>5, <1>6 DEF Fault

-----------------------------------------------------------------------------
\* Deciding, building and recovering.

\* Building, simulating and persisting an operation keeps the inductive invariant.
LEMMA BuildInv ==
  ASSUME IInv, NEW p \in Procs, Build(p)
  PROVE  IInv'
  <1>0. TypeOK /\ faults \in 0..MaxFaults /\ ProcOK(p) /\ (lock = p => HolderOK(p))
    BY DEF IInv, TypeOK
  <1>1. CASE ReserveCost(p)
    <2> USE <1>1 DEF ReserveCost
    <2>1. PICK c \in Ops : c = cur[p]
      BY <1>0 DEF ProcOK, HolderOK, Busy
    <2>2. OpOK(c)
      BY DEF IInv
    <2>3. status[c] = "decided" /\ kind[c] = "funding" /\ cost[c] = "none" /\ ~costWire[c]
      BY <1>0, <2>1, <2>2 DEF ProcOK, HolderOK, Busy, OpOK
    <2>4. CostsType'
      BY <1>0, <2>1 DEF TypeOK, CostsType, CostStates
    <2>5. RowsType' /\ ChainType'
      BY <1>0, TypeSame DEF TypeOK
    <2>6. \A o \in Ops : Grow(o) /\ OpOK(o)'
      <3>1. \A o \in Ops \ {c} : Same(o)
        BY <1>0, <2>1 DEF TypeOK, CostsType, Same, rows, chain
      <3>2. Grow(c)
        BY <1>0, <2>1, <2>2, <2>3 DEF TypeOK, CostsType, Grow, OpOK, rows, chain
      <3>3. OpOK(c)'
        BY <1>0, <2>1, <2>2, <2>3 DEF TypeOK, CostsType, OpOK, rows, chain
      <3> QED BY <3>1, <3>2, <3>3, OneOp
    <2>7. "check" \in PCs
      BY DEF PCs
    <2>8. Frame(p) /\ Moved(p, "check")
      BY <2>7, GotoStep
    <2>9. ProcOK(p)'
      BY <1>0, <2>1, <2>3, <2>8 DEF TypeOK, CostsType, Moved, ProcOK, Busy, rows, chain
    <2>10. lock' = p => HolderOK(p)'
      BY <1>0, <2>1, <2>3, <2>8 DEF TypeOK, CostsType, Moved, HolderOK, Busy, rows, chain
    <2>11. latch' \in BOOLEAN /\ LatchedIsQuiet'
      BY QuietKept DEF rows
    <2> QED BY <1>0, <2>4, <2>5, <2>6, <2>8, <2>9, <2>10, <2>11, ProcessStep
  <1>2. CASE ReserveRefused(p)
    <2> USE <1>2 DEF ReserveRefused
    <2>0. OpOK(cur[p])
      BY <1>0 DEF IInv, ProcOK, Busy
    <2>1. "journal" \in PCs
      BY DEF PCs
    <2>2. Frame(p) /\ Moved(p, "journal")
      BY <2>1, GotoStep
    <2>3. ProcOK(p)'
      BY <1>0, <2>2 DEF Moved, ProcOK, Busy, rows, costs, chain
    <2>4. lock' = p => HolderOK(p)'
      BY <1>0, <2>0, <2>2 DEF Moved, HolderOK, Busy, rows, costs, ProcOK, OpOK
    <2> QED BY <1>0, <2>2, <2>3, <2>4, ControlStep
  <1>3. CASE Sign(p)
    <2> USE <1>3 DEF Sign
    <2> DEFINE l == IF kind[cur[p]] = "funding" THEN "bind" ELSE "simulate"
    <2>1. l \in PCs
      BY DEF PCs
    <2>2. Frame(p) /\ Moved(p, l)
      BY <2>1, GotoStep
    <2>3. ProcOK(p)'
      BY <1>0, <2>2 DEF Moved, ProcOK, Busy, rows, costs, chain
    <2>4. lock' = p => HolderOK(p)'
      BY <1>0, <2>2 DEF Moved, HolderOK, Busy, rows, costs
    <2> QED BY <1>0, <2>2, <2>3, <2>4, ControlStep
  <1>4. CASE CheckFails(p)
    <2> USE <1>4 DEF CheckFails
    <2> DEFINE l == IF kind[cur[p]] = "funding" THEN "unreserve" ELSE "journal"
    <2>0. OpOK(cur[p])
      BY <1>0 DEF IInv, ProcOK, Busy
    <2>1. l \in PCs
      BY DEF PCs
    <2>2. Frame(p) /\ Moved(p, l)
      BY <2>1, GotoStep
    <2>3. ProcOK(p)'
      BY <1>0, <2>2 DEF Moved, ProcOK, Busy, rows, costs, chain
    <2>4. lock' = p => HolderOK(p)'
      BY <1>0, <2>0, <2>2 DEF Moved, HolderOK, Busy, rows, costs, OpOK
    <2> QED BY <1>0, <2>2, <2>3, <2>4, ControlStep
  <1>5. CASE ReleaseUnsignedCost(p)
    <2> USE <1>5 DEF ReleaseUnsignedCost
    <2>1. PICK c \in Ops : c = cur[p]
      BY <1>0, Zenon DEF ProcOK, HolderOK, Busy
    <2>2. OpOK(c)
      BY DEF IInv
    <2>3. status[c] = "decided" /\ kind[c] = "funding" /\ ~costWire[c]
      BY <1>0, <2>1, <2>2 DEF ProcOK, HolderOK, Busy
    <2>4. CostsType'
      BY <1>0, <2>1 DEF TypeOK, CostsType, CostStates
    <2>5. RowsType' /\ ChainType'
      BY <1>0, TypeSame DEF TypeOK
    <2>6. \A o \in Ops : Grow(o) /\ OpOK(o)'
      <3>1. \A o \in Ops \ {c} : Same(o)
        BY <1>0, <2>1 DEF TypeOK, CostsType, Same, rows, chain
      <3>2. Grow(c)
        BY <1>0, <2>1, <2>2, <2>3 DEF TypeOK, CostsType, Grow, OpOK, rows, chain
      <3>3. OpOK(c)'
        BY <1>0, <2>1, <2>2, <2>3 DEF TypeOK, CostsType, OpOK, rows, chain
      <3> QED BY <3>1, <3>2, <3>3, OneOp
    <2>7. "journal" \in PCs
      BY DEF PCs
    <2>8. Frame(p) /\ Moved(p, "journal")
      BY <2>7, GotoStep
    <2>9. ProcOK(p)'
      BY <1>0, <2>1, <2>3, <2>8 DEF TypeOK, CostsType, Moved, ProcOK, Busy, rows, chain
    <2>10. lock' = p => HolderOK(p)'
      BY <1>0, <2>1, <2>3, <2>8 DEF TypeOK, CostsType, Moved, HolderOK, Busy, rows, chain
    <2>11. latch' \in BOOLEAN /\ LatchedIsQuiet'
      BY QuietKept DEF rows
    <2> QED BY <1>0, <2>4, <2>5, <2>6, <2>8, <2>9, <2>10, <2>11, ProcessStep, Zenon
  <1>6. CASE BindCostWire(p)
    <2> USE <1>6 DEF BindCostWire
    <2>1. PICK c \in Ops : c = cur[p]
      BY <1>0 DEF ProcOK, HolderOK, Busy
    <2>2. OpOK(c)
      BY DEF IInv
    <2>3. status[c] = "decided" /\ kind[c] = "funding"
      BY <1>0, <2>1, <2>2 DEF ProcOK, HolderOK, Busy
    <2>4. CostsType'
      BY <1>0, <2>1 DEF TypeOK, CostsType, CostStates
    <2>5. RowsType' /\ ChainType'
      BY <1>0, TypeSame DEF TypeOK
    <2>6. \A o \in Ops : Grow(o) /\ OpOK(o)'
      <3>1. \A o \in Ops \ {c} : Same(o)
        BY <1>0, <2>1, Zenon DEF TypeOK, CostsType, Same, rows, chain
      <3>2. Grow(c)
        BY <1>0, <2>1, <2>2, <2>3 DEF TypeOK, CostsType, Grow, OpOK, rows, chain
      <3>3. OpOK(c)'
        BY <1>0, <2>1, <2>2, <2>3 DEF TypeOK, CostsType, OpOK, rows, chain
      <3> QED BY <3>1, <3>2, <3>3, OneOp
    <2>7. "simulate" \in PCs
      BY DEF PCs
    <2>8. Frame(p) /\ Moved(p, "simulate")
      BY <2>7, GotoStep
    <2>9. ProcOK(p)'
      BY <1>0, <2>1, <2>3, <2>8 DEF TypeOK, CostsType, Moved, ProcOK, Busy, rows, chain
    <2>10. lock' = p => HolderOK(p)'
      BY <1>0, <2>1, <2>3, <2>8 DEF TypeOK, CostsType, Moved, HolderOK, Busy, rows, chain
    <2>11. latch' \in BOOLEAN /\ LatchedIsQuiet'
      BY QuietKept DEF rows
    <2> QED BY <1>0, <2>4, <2>5, <2>6, <2>8, <2>9, <2>10, <2>11, ProcessStep
  <1>7. CASE Simulate(p)
    <2> USE <1>7 DEF Simulate
    <2>1. PICK c \in Ops : c = cur[p]
      BY <1>0 DEF ProcOK, HolderOK, Busy
    <2>2. OpOK(c)
      BY DEF IInv
    <2>3. status[c] # "none" /\ (kind[c] = "funding" => costWire[c])
      BY <1>0, <2>1, <2>2 DEF ProcOK, HolderOK, Busy
    <2>4. ChainType'
      BY <1>0, <2>1 DEF TypeOK, ChainType, Seen, Fates, Disclosed
    <2>5. RowsType' /\ CostsType'
      BY <1>0, TypeSame DEF TypeOK
    <2>6. \A o \in Ops : Grow(o) /\ OpOK(o)'
      <3>1. \A o \in Ops \ {c} : Same(o)
        BY <1>0, <2>1 DEF TypeOK, ChainType, Same, rows, costs, Disclosed
      <3>2. Grow(c)
        BY <1>0, <2>1, <2>2, <2>3 DEF TypeOK, ChainType, Grow, OpOK, rows, costs, Disclosed
      <3>3. OpOK(c)'
        BY <1>0, <2>1, <2>2, <2>3 DEF TypeOK, ChainType, OpOK, rows, costs, Disclosed
      <3> QED BY <3>1, <3>2, <3>3, OneOp
    <2>7. "persist" \in PCs
      BY DEF PCs
    <2>8. Frame(p) /\ Moved(p, "persist")
      BY <2>7, GotoStep
    <2>9. ProcOK(p)'
      BY <1>0, <2>1, <2>3, <2>8, Zenon DEF TypeOK, ChainType, Moved, ProcOK, Busy, rows, costs
    <2>10. lock' = p => HolderOK(p)'
      BY <1>0, <2>1, <2>3, <2>8 DEF TypeOK, ChainType, Moved, HolderOK, Busy, rows, costs
    <2>11. latch' \in BOOLEAN /\ LatchedIsQuiet'
      BY QuietKept DEF rows
    <2> QED BY <1>0, <2>4, <2>5, <2>6, <2>8, <2>9, <2>10, <2>11, ProcessStep
  <1>8. CASE SimulationRefused(p)
    <2> USE <1>8 DEF SimulationRefused
    <2>1. PICK c \in Ops : c = cur[p]
      BY <1>0 DEF ProcOK, HolderOK, Busy
    <2>2. OpOK(c)
      BY DEF IInv
    <2>3. status[c] # "none" /\ (kind[c] = "funding" <=> costWire[c])
      BY <1>0, <2>1, <2>2 DEF ProcOK, HolderOK, Busy, OpOK
    <2>4. ChainType'
      BY <1>0, <2>1 DEF TypeOK, ChainType, Seen, Fates, Disclosed
    <2>5. RowsType' /\ CostsType'
      BY <1>0, TypeSame DEF TypeOK
    <2>6. \A o \in Ops : Grow(o) /\ OpOK(o)'
      <3>1. \A o \in Ops \ {c} : Same(o)
        BY <1>0, <2>1 DEF TypeOK, ChainType, Same, rows, costs, Disclosed
      <3>2. Grow(c)
        BY <1>0, <2>1, <2>2, <2>3 DEF TypeOK, ChainType, Grow, OpOK, rows, costs, Disclosed
      <3>3. OpOK(c)'
        BY <1>0, <2>1, <2>2, <2>3, Zenon DEF TypeOK, ChainType, OpOK, rows, costs, Disclosed
      <3> QED BY <3>1, <3>2, <3>3, OneOp
    <2>7. Frame(p) /\ ProcOK(p)' /\ (lock' = p => HolderOK(p)')
      <3>1. CASE ExitTo(p)
        BY <3>1, ExitStep, Zenon
      <3>2. CASE Goto(p, "journal") /\ kind[cur[p]] # "funding" /\ UNCHANGED <<lock, sweep>>
        <4>1. "journal" \in PCs
          BY DEF PCs
        <4>2. Frame(p) /\ Moved(p, "journal")
          BY <3>2, <4>1, GotoStep
        <4>3. ProcOK(p)'
          BY <1>0, <2>1, <2>3, <4>2, Zenon DEF Moved, ProcOK, Busy, rows, costs
        <4>4. lock' = p => HolderOK(p)'
          BY <1>0, <2>1, <2>3, <3>2, <4>2, Zenon DEF Moved, HolderOK, Busy, rows, costs
        <4> QED BY <4>2, <4>3, <4>4
      <3> QED BY <3>1, <3>2, Zenon
    <2>8. latch' \in BOOLEAN /\ LatchedIsQuiet'
      BY QuietKept, Zenon DEF rows
    <2> QED BY <1>0, <2>4, <2>5, <2>6, <2>7, <2>8, ProcessStep
  <1>9. CASE PersistSigned(p)
    <2> USE <1>9 DEF PersistSigned
    <2>1. PICK c \in Ops : c = cur[p]
      BY <1>0 DEF ProcOK, HolderOK, Busy
    <2>2. OpOK(c)
      BY DEF IInv
    <2>3. status[c] = "decided" /\ (kind[c] = "funding" => costWire[c])
      BY <1>0, <2>1, <2>2 DEF ProcOK, HolderOK, Busy
    <2>4. RowsType'
      BY <1>0, <2>1 DEF TypeOK, RowsType, Nonterminal, Unsigned, Unlanded, Terminal, Kinds
    <2>5. CostsType' /\ ChainType'
      BY <1>0, TypeSame DEF TypeOK
    <2>6. \A o \in Ops : Grow(o) /\ OpOK(o)'
      <3>1. \A o \in Ops \ {c} : Same(o)
        BY <1>0, <2>1, Zenon DEF TypeOK, RowsType, Same, costs, chain
      <3>2. Grow(c)
        BY <1>0, <2>1, <2>2, <2>3 DEF TypeOK, RowsType, Grow, OpOK, costs, chain
      <3>3. OpOK(c)'
        BY <1>0, <2>1, <2>2, <2>3, Zenon DEF TypeOK, RowsType, OpOK, costs, chain
      <3> QED BY <3>1, <3>2, <3>3, OneOp
    <2>7. \A o \in Ops : status[o] \in Terminal => status'[o] \in Terminal
      BY <1>0, <2>1, <2>3 DEF TypeOK, RowsType, Terminal, Unlanded
    <2>8. Frame(p) /\ ProcOK(p)' /\ (lock' = p => HolderOK(p)')
      BY <2>7, RestStep, Zenon
    <2>9. latch' \in BOOLEAN /\ LatchedIsQuiet'
      BY <2>3, QuietKept DEF Nonterminal, Unsigned, Unlanded
    <2> QED BY <1>0, <2>4, <2>5, <2>6, <2>8, <2>9, ProcessStep, Zenon
  <1>10. CASE JournalHold(p)
    <2> USE <1>10 DEF JournalHold
    <2>1. PICK c \in Ops : c = cur[p]
      BY <1>0 DEF ProcOK, HolderOK, Busy
    <2>2. OpOK(c)
      BY DEF IInv
    <2>3. status[c] = "decided" /\ ~costWire[c]
      BY <1>0, <2>1, <2>2 DEF ProcOK, HolderOK, Busy
    <2>4. RowsType'
      BY <1>0, <2>1 DEF TypeOK, RowsType, Nonterminal, Unsigned, Unlanded, Terminal, Kinds
    <2>5. CostsType' /\ ChainType'
      BY <1>0, TypeSame DEF TypeOK
    <2>6. \A o \in Ops : Grow(o) /\ OpOK(o)'
      <3>1. \A o \in Ops \ {c} : Same(o)
        BY <1>0, <2>1 DEF TypeOK, RowsType, Same, costs, chain
      <3>2. Grow(c)
        BY <1>0, <2>1, <2>2, <2>3 DEF TypeOK, RowsType, Grow, OpOK, costs, chain
      <3>3. OpOK(c)'
        BY <1>0, <2>1, <2>2, <2>3, Zenon DEF TypeOK, RowsType, OpOK, costs, chain
      <3> QED BY <3>1, <3>2, <3>3, OneOp
    <2>7. \A o \in Ops : status[o] \in Terminal => status'[o] \in Terminal
      BY <1>0, <2>1, <2>3 DEF TypeOK, RowsType, Terminal, Unlanded
    <2>8. Frame(p) /\ ProcOK(p)' /\ (lock' = p => HolderOK(p)')
      BY <2>7, RestStep, Zenon
    <2>9. latch' \in BOOLEAN /\ LatchedIsQuiet'
      BY <2>3, QuietKept DEF Nonterminal, Unsigned, Unlanded
    <2> QED BY <1>0, <2>4, <2>5, <2>6, <2>8, <2>9, ProcessStep, Zenon
  <1>11. CASE JournalNothing(p)
    <2> USE <1>11 DEF JournalNothing
    <2>1. CASE Rest(p) /\ UNCHANGED <<lock, sweep>>
      BY <1>0, <2>1, RestStep, ControlStep DEF rows
    <2>2. CASE ExitTo(p)
      BY <1>0, <2>2, ExitStep, ControlStep DEF rows
    <2> QED BY <2>1, <2>2
  <1> QED BY <1>1, <1>2, <1>3, <1>4, <1>5, <1>6, <1>7, <1>8, <1>9, <1>10, <1>11 DEF Build

\* Loading an operation and journaling a decision keep the inductive invariant.
LEMMA DecideInv ==
  ASSUME IInv, NEW p \in Procs, Decide(p)
  PROVE  IInv'
  <1>0. TypeOK /\ faults \in 0..MaxFaults /\ ProcOK(p) /\ (lock = p => HolderOK(p))
    BY DEF IInv, TypeOK
  <1>1. CASE LoadNonterminal(p)
    <2> USE <1>1 DEF LoadNonterminal
    <2>1. PICK o \in InFlight :
             /\ cur' = [cur EXCEPT ![p] = o]
             /\ mem' = [mem EXCEPT ![p] = status[o]]
             /\ pc' = [pc EXCEPT ![p] =
                    CASE status[o] \in Unsigned -> "recover"
                      [] status[o] \in Unlanded -> "land"
                      [] status[o] = "confirmed" -> "reconcile"]
      BY Zenon
    <2>2. o \in Ops /\ status[o] \in Nonterminal
      BY DEF InFlight
    <2>3. OpOK(o)
      BY <2>2 DEF IInv
    <2>4. /\ WorkerType' /\ cur'[p] = o /\ mem'[p] = status[o]
          /\ \/ pc'[p] = "recover" /\ status[o] = "decided"
             \/ pc'[p] = "land" /\ status[o] \in Unlanded
             \/ pc'[p] = "reconcile" /\ status[o] = "confirmed"
      BY <1>0, <2>1, <2>2 DEF TypeOK, WorkerType, PCs, Nonterminal, Unsigned, Unlanded
    <2>5. Frame(p) /\ spc'[p] = spc[p] /\ scur'[p] = scur[p]
      BY <1>0, <2>1, <2>4, Zenon DEF TypeOK, WorkerType, SweepType, Frame, sweep
    <2>6. ProcOK(p)'
      BY <1>0, <2>2, <2>3, <2>4, Zenon DEF ProcOK, OpOK, Busy, Unlanded, rows
    <2>7. lock' = p => HolderOK(p)'
      BY <1>0, <2>2, <2>4, <2>5, Zenon DEF HolderOK, Busy, rows, costs
    <2> QED BY <1>0, <2>5, <2>6, <2>7, ControlStep
  <1>2. CASE LoadNothing(p)
    <2> USE <1>2 DEF LoadNothing
    <2>1. "observe" \in PCs
      BY DEF PCs
    <2>2. Frame(p) /\ Moved(p, "observe")
      BY <2>1, GotoStep
    <2>3. ProcOK(p)'
      BY <1>0, <2>2 DEF Moved, ProcOK, Busy, rows, costs, chain
    <2>4. lock' = p => HolderOK(p)'
      BY <1>0, <2>2, Zenon DEF Moved, HolderOK, Busy, rows, costs, InFlight
    <2> QED BY <1>0, <2>2, <2>3, <2>4, ControlStep
  <1>3. CASE DecideHold(p)
    BY <1>0, <1>3, RestStep, ControlStep DEF DecideHold, rows
  <1>4. CASE DecideLatch(p)
    <2> USE <1>4 DEF DecideLatch
    <2>1. Frame(p) /\ ProcOK(p)' /\ (lock' = p => HolderOK(p)')
      BY RestStep, Zenon DEF rows
    <2>2. RowsType' /\ CostsType' /\ ChainType' /\ latch' \in BOOLEAN
      BY <1>0, TypeSame DEF TypeOK
    <2>3. \A o \in Ops : Grow(o) /\ OpOK(o)'
      BY DataSame DEF IInv
    <2>4. LatchedIsQuiet'
      BY <1>0 DEF HolderOK, LatchedIsQuiet, InFlight, rows
    <2> QED BY <1>0, <2>1, <2>2, <2>3, <2>4, ProcessStep
  <1>5. CASE RecordDecision(p)
    <2> USE <1>5 DEF RecordDecision
    <2> DEFINE Body(o, k) ==
             /\ status[o] = "none"
             /\ status' = [status EXCEPT ![o] = "decided"]
             /\ kind' = [kind EXCEPT ![o] = k]
             /\ cur' = [cur EXCEPT ![p] = o]
             /\ mem' = [mem EXCEPT ![p] = "decided"]
             /\ pc' = [pc EXCEPT ![p] = IF k = "funding" THEN "reserve" ELSE "check"]
    <2>1. PICK o \in Ops : \E k \in Kinds : Body(o, k)
      BY Zenon
    <2>2. PICK k \in Kinds : Body(o, k)
      BY <2>1, Zenon
    <2>3. OpOK(o) /\ cost[o] = "none" /\ ~costWire[o] /\ ~wire[o]
      BY <2>2 DEF IInv, OpOK
    <2>4. RowsType'
      BY <1>0, <2>2 DEF TypeOK, RowsType, Nonterminal, Unsigned, Unlanded
    <2>5. CostsType' /\ ChainType' /\ latch' \in BOOLEAN
      BY <1>0, TypeSame DEF TypeOK
    <2>6. \A i \in Ops : Grow(i) /\ OpOK(i)'
      <3>1. \A i \in Ops \ {o} : Same(i)
        BY <1>0, <2>2 DEF TypeOK, RowsType, Same, costs, chain
      <3>2. Grow(o)
        BY <2>2, <2>3 DEF OpOK, Grow, costs, chain
      <3>3. OpOK(o)'
        BY <1>0, <2>2, <2>3 DEF TypeOK, RowsType, OpOK, costs, chain
      <3> QED BY <3>1, <3>2, <3>3, OneOp
    <2>7. /\ WorkerType' /\ cur'[p] = o /\ mem'[p] = "decided"
          /\ pc'[p] = IF k = "funding" THEN "reserve" ELSE "check"
      BY <1>0, <2>2 DEF TypeOK, WorkerType, PCs, Nonterminal, Unsigned
    <2>8. Frame(p) /\ spc'[p] = spc[p] /\ scur'[p] = scur[p]
      BY <1>0, <2>2, <2>7, Zenon DEF TypeOK, WorkerType, SweepType, Frame, sweep
    <2>9. status'[o] = "decided" /\ kind'[o] = k /\ (\A i \in Ops : i # o => status'[i] = status[i])
      BY <1>0, <2>2 DEF TypeOK, RowsType
    <2>10. ProcOK(p)'
      BY <2>7, <2>9 DEF ProcOK, Busy
    <2>11. lock' = p => HolderOK(p)'
      <3>1. spc[p] # "idle" => scur[p] \in Ops /\ status[scur[p]] \in Terminal /\ scur[p] # o
        BY <1>0, <2>2, Zenon DEF HolderOK, Terminal
      <3> QED BY <2>3, <2>7, <2>8, <2>9, <3>1 DEF HolderOK, Busy, costs
    <2>12. LatchedIsQuiet'
      BY <1>0, Zenon DEF HolderOK, LatchedIsQuiet
    <2> QED BY <1>0, <2>4, <2>5, <2>6, <2>8, <2>10, <2>11, <2>12, ProcessStep, Zenon
  <1>6. CASE RecordRefused(p)
    BY <1>0, <1>6, ExitStep, ControlStep DEF RecordRefused
  <1> QED BY <1>1, <1>2, <1>3, <1>4, <1>5, <1>6 DEF Decide

\* The recovery of an unfinished build keeps the inductive invariant.
LEMMA RecoverInv ==
  ASSUME IInv, NEW p \in Procs, Recover(p)
  PROVE  IInv'
  <1>0. TypeOK /\ faults \in 0..MaxFaults /\ ProcOK(p) /\ (lock = p => HolderOK(p))
    BY DEF IInv, TypeOK
  <1>1. CASE FailUnsigned(p)
    <2> USE <1>1 DEF FailUnsigned
    <2>1. PICK c \in Ops : c = cur[p]
      BY <1>0, Zenon DEF ProcOK, HolderOK, Busy
    <2>2. OpOK(c)
      BY Zenon DEF IInv
    <2>3. status[c] = "decided" /\ ~costWire[c]
      BY <1>0, <2>1, <2>2, Zenon DEF ProcOK, HolderOK, Busy
    <2>4. RowsType'
      BY <1>0, <2>1, Zenon DEF TypeOK, RowsType, Nonterminal, Unsigned, Unlanded, Terminal, Kinds
    <2>5. CostsType' /\ ChainType'
      BY <1>0, TypeSame, Zenon DEF TypeOK
    <2>6. \A o \in Ops : Grow(o) /\ OpOK(o)'
      <3>1. \A o \in Ops \ {c} : Same(o)
        BY <1>0, <2>1 DEF TypeOK, RowsType, Same, costs, chain
      <3>2. Grow(c)
        BY <1>0, <2>1, <2>2, <2>3, Zenon DEF TypeOK, RowsType, Grow, OpOK, costs, chain
      <3>3. OpOK(c)'
        BY <1>0, <2>1, <2>2, <2>3, Zenon DEF TypeOK, RowsType, OpOK, costs, chain
      <3> QED BY <3>1, <3>2, <3>3, OneOp, Zenon
    <2>7. \A o \in Ops : status[o] \in Terminal => status'[o] \in Terminal
      BY <1>0, <2>1, <2>3, Zenon DEF TypeOK, RowsType, Terminal, Unlanded
    <2>8. "release" \in PCs
      BY Zenon DEF PCs
    <2>9. Frame(p) /\ Moved(p, "release")
      BY <2>8, GotoStep
    <2>10. ProcOK(p)'
      BY <1>0, <2>1, <2>3, <2>9, Zenon DEF TypeOK, RowsType, Moved, ProcOK, Busy, costs, chain
    <2>11. lock' = p => HolderOK(p)'
      BY <1>0, <2>1, <2>3, <2>7, <2>9, Zenon DEF TypeOK, RowsType, Moved, HolderOK, Busy, costs, chain
    <2>12. latch' \in BOOLEAN /\ LatchedIsQuiet'
      BY <2>3, QuietKept, Zenon DEF Nonterminal, Unsigned, Unlanded
    <2> QED BY <1>0, <2>4, <2>5, <2>6, <2>9, <2>10, <2>11, <2>12, ProcessStep
  <1>2. CASE ObserveBound(p)
    <2> USE <1>2 DEF ObserveBound
    <2>1. cur[p] \in Ops
      BY <1>0, Zenon DEF ProcOK, Busy
    <2>2. Frame(p)
      BY <1>0, <2>1 DEF TypeOK, WorkerType, SweepType, ChainType, Frame, sweep, PCs
    <2>3. /\ pc'[p] = "recovered" /\ cur'[p] = cur[p] /\ mem'[p] = mem[p]
          /\ seen'[p] = fate[cur[p]] /\ spc'[p] = spc[p] /\ scur'[p] = scur[p]
      BY <1>0 DEF TypeOK, WorkerType, sweep
    <2>4. ProcOK(p)'
      BY <1>0, <2>3, Zenon DEF ProcOK, Busy, rows, costs, chain
    <2>5. lock' = p => HolderOK(p)'
      BY <1>0, <2>3, Zenon DEF HolderOK, Busy, rows, costs
    <2> QED BY <1>0, <2>2, <2>4, <2>5, ControlStep, Zenon
  <1>3. CASE WaitBound(p)
    BY <1>0, <1>3, RestStep, ControlStep DEF WaitBound, rows
  <1>4. CASE ResimulateBound(p)
    <2> USE <1>4 DEF ResimulateBound
    <2>1. PICK c \in Ops : c = cur[p]
      BY <1>0, Zenon DEF ProcOK, HolderOK, Busy
    <2>2. OpOK(c)
      BY Zenon DEF IInv
    <2>3. status[c] # "none" /\ costWire[c]
      BY <1>0, <2>1, <2>2, Zenon DEF ProcOK, HolderOK, Busy
    <2>4. ChainType'
      BY <1>0, <2>1 DEF TypeOK, ChainType, Seen, Fates, Disclosed
    <2>5. RowsType' /\ CostsType'
      BY <1>0, TypeSame DEF TypeOK
    <2>6. \A o \in Ops : Grow(o) /\ OpOK(o)'
      <3>1. \A o \in Ops \ {c} : Same(o)
        BY <1>0, <2>1, Zenon DEF TypeOK, ChainType, Same, rows, costs, Disclosed
      <3>2. Grow(c)
        BY <1>0, <2>1, <2>2, <2>3, Zenon DEF TypeOK, ChainType, Grow, OpOK, rows, costs, Disclosed
      <3>3. OpOK(c)'
        BY <1>0, <2>1, <2>2, <2>3, Zenon DEF TypeOK, ChainType, OpOK, rows, costs, Disclosed
      <3> QED BY <3>1, <3>2, <3>3, OneOp
    <2>7. Frame(p) /\ ProcOK(p)' /\ (lock' = p => HolderOK(p)')
      <3>1. CASE ExitTo(p)
        BY <3>1, ExitStep
      <3>2. CASE Goto(p, "persist") /\ UNCHANGED <<lock, sweep>>
        <4>1. "persist" \in PCs
          BY DEF PCs
        <4>2. Frame(p) /\ Moved(p, "persist")
          BY <3>2, <4>1, GotoStep
        <4>3. ProcOK(p)'
          BY <1>0, <2>1, <2>3, <4>2, Zenon DEF Moved, ProcOK, Busy, rows, costs
        <4>4. lock' = p => HolderOK(p)'
          BY <1>0, <2>1, <2>3, <3>2, <4>2, Zenon DEF Moved, HolderOK, Busy, rows, costs
        <4> QED BY <4>2, <4>3, <4>4
      <3> QED BY <3>1, <3>2, Zenon
    <2>8. latch' \in BOOLEAN /\ LatchedIsQuiet'
      BY QuietKept DEF rows
    <2> QED BY <1>0, <2>4, <2>5, <2>6, <2>7, <2>8, ProcessStep
  <1>5. CASE RecoverBound(p)
    <2> USE <1>5 DEF RecoverBound
    <2> DEFINE l == IF seen[p] = "expired" THEN "release" ELSE "settle"
    <2>1. PICK c \in Ops : c = cur[p]
      BY <1>0, Zenon DEF ProcOK, HolderOK, Busy
    <2>2. OpOK(c)
      BY DEF IInv
    <2>3. status[c] = "decided" /\ costWire[c] /\ seen[p] = fate[c] /\ seen[p] # "open" /\ (seen[p] # "expired" => final[c])
      BY <1>0, <2>1, <2>2, Zenon DEF ProcOK, HolderOK, Busy
    <2>4. RowsType'
      BY <1>0, <2>1 DEF TypeOK, RowsType, Nonterminal, Unsigned, Unlanded, Terminal, Kinds
    <2>5. CostsType' /\ ChainType'
      BY <1>0, TypeSame, Zenon DEF TypeOK
    <2>6. \A o \in Ops : Grow(o) /\ OpOK(o)'
      <3>1. \A o \in Ops \ {c} : Same(o)
        BY <1>0, <2>1, Zenon DEF TypeOK, RowsType, Same, costs, chain
      <3>2. Grow(c)
        BY <1>0, <2>1, <2>2, <2>3, Zenon DEF TypeOK, RowsType, Grow, OpOK, costs, chain
      <3>3. OpOK(c)'
        BY <1>0, <2>1, <2>2, <2>3, Zenon DEF TypeOK, RowsType, OpOK, costs, chain
      <3> QED BY <3>1, <3>2, <3>3, OneOp, Zenon
    <2>7. \A o \in Ops : status[o] \in Terminal => status'[o] \in Terminal
      BY <1>0, <2>1, <2>3, Zenon DEF TypeOK, RowsType, Terminal, Unlanded
    <2>8. l \in PCs
      BY Zenon DEF PCs
    <2>9. Frame(p) /\ Moved(p, l)
      BY <2>8, GotoStep, Zenon
    <2>10. ProcOK(p)'
      BY <1>0, <2>1, <2>3, <2>9, Zenon DEF TypeOK, RowsType, Moved, ProcOK, Busy, costs, chain
    <2>11. lock' = p => HolderOK(p)'
      BY <1>0, <2>1, <2>3, <2>7, <2>9, Zenon DEF TypeOK, RowsType, Moved, HolderOK, Busy, costs, chain
    <2>12. latch' \in BOOLEAN /\ LatchedIsQuiet'
      BY <2>3, QuietKept, Zenon DEF Nonterminal, Unsigned, Unlanded
    <2> QED BY <1>0, <2>4, <2>5, <2>6, <2>9, <2>10, <2>11, <2>12, ProcessStep
  <1> QED BY <1>1, <1>2, <1>3, <1>4, <1>5 DEF Recover
=============================================================================
