------------------------------ MODULE Backyard ------------------------------
(***************************************************************************)
(* One Backyard vault (go/workers/internal/backyard): the journal of its    *)
(* operations, the withdrawal-cost reservation of each, the manual recovery *)
(* latch, and the engine processes that drive them.                         *)
(*                                                                         *)
(* A process has one database session, which holds the vault's advisory     *)
(* lock; every statement goes through it.  Two lanes share it: the worker   *)
(* (Tick) and the withdrawal settlement sweep.  RPC calls do not need it,   *)
(* so a process that lost its session goes on simulating, polling and       *)
(* sending until its next statement fails.                                  *)
(*                                                                         *)
(* The chain is WireFate (proved of chain.Land in LandingProofs) per        *)
(* operation, plus finality: every operation signs at most one wire.        *)
(***************************************************************************)
EXTENDS Naturals

CONSTANTS
    Procs,      \* engine processes contending for the vault's lock
    MaxOps,     \* bound: operations journaled
    MaxFaults,  \* bound: crashes, lost sessions and unanswered RPC calls
    NoProc      \* the lock is free

ASSUME BackyardAssumption ==
    /\ MaxOps \in Nat \ {0}
    /\ MaxFaults \in Nat
    /\ NoProc \notin Procs

Ops == 1..MaxOps

VARIABLES
    \* loyal_yield.multiply_operations, one row per operation
    status,    \* "none" before the row is inserted
    kind,      \* "funding": a withdrawal-cost-bearing sale; "capital": any other
               \* action of UnresolvedCapitalRecoverySQL; "other": the rest
    wire,      \* signed_wire IS NOT NULL
    intent,    \* broadcast_intent_at IS NOT NULL
    reason,    \* recovery_reason: "none", "expired" or "other"
    \* loyal_yield.backyard_withdrawal_cost_operations
    cost,      \* state, "none" before the row is inserted
    costWire,  \* signed_wire IS NOT NULL
    \* loyal_yield.backyard_manual_recovery_latches
    latch,
    \* the chain
    net,       \* what the network has seen of the wire
    fate,
    final,     \* the block that decided the fate is finalized
    \* the processes
    lock,      \* the process whose session holds the vault's lock
    pc,        \* the worker lane
    cur,       \* the operation it works on, 0 between ticks
    mem,       \* operation.Status as the worker holds it in memory
    seen,      \* the outcome chain.Land or chain.Observe returned
    spc,       \* the settlement lane
    scur,      \* the operation it works on, 0 between sweeps
    faults

rows == <<status, kind, wire, intent, reason>>
costs == <<cost, costWire>>
chain == <<net, fate, final>>
worker == <<pc, cur, mem, seen>>
sweep == <<spc, scur>>
vars == <<rows, costs, latch, chain, lock, worker, sweep, faults>>

Unsigned == {"decided"}
Unlanded == {"signed", "broadcast_intent"}
Nonterminal == Unsigned \union Unlanded \union {"confirmed"}
Terminal == {"reconciled", "failed", "manual_recovery"}
Kinds == {"funding", "capital", "other"}
CostStates == {"none", "reserved", "released", "settled"}
Seen == {"private", "simulated", "sent"}
Fates == {"open", "landed", "failed", "expired"}
PCs == {"waiting", "idle", "observe", "reserve", "check", "unreserve", "bind",
        "simulate", "persist", "journal", "recover", "recovered", "land",
        "intent", "send", "landed", "reconcile", "settle", "release",
        "settleLanded", "mark"}
SPCs == {"idle", "release", "settle"}

RowsType ==
    /\ status \in [Ops -> {"none"} \union Nonterminal \union Terminal]
    /\ kind \in [Ops -> Kinds]
    /\ wire \in [Ops -> BOOLEAN]
    /\ intent \in [Ops -> BOOLEAN]
    /\ reason \in [Ops -> {"none", "expired", "other"}]

CostsType ==
    /\ cost \in [Ops -> CostStates]
    /\ costWire \in [Ops -> BOOLEAN]

ChainType ==
    /\ net \in [Ops -> Seen]
    /\ fate \in [Ops -> Fates]
    /\ final \in [Ops -> BOOLEAN]

WorkerType ==
    /\ pc \in [Procs -> PCs]
    /\ cur \in [Procs -> Ops \union {0}]
    /\ mem \in [Procs -> {"none"} \union Nonterminal]
    /\ seen \in [Procs -> Fates]

SweepType ==
    /\ spc \in [Procs -> SPCs]
    /\ scur \in [Procs -> Ops \union {0}]

TypeOK ==
    /\ RowsType
    /\ CostsType
    /\ latch \in BOOLEAN
    /\ ChainType
    /\ lock \in Procs \union {NoProc}
    /\ WorkerType
    /\ SweepType
    /\ faults \in 0..MaxFaults

Init ==
    /\ status = [o \in Ops |-> "none"]
    /\ kind = [o \in Ops |-> "other"]
    /\ wire = [o \in Ops |-> FALSE]
    /\ intent = [o \in Ops |-> FALSE]
    /\ reason = [o \in Ops |-> "none"]
    /\ cost = [o \in Ops |-> "none"]
    /\ costWire = [o \in Ops |-> FALSE]
    /\ latch = FALSE
    /\ net = [o \in Ops |-> "private"]
    /\ fate = [o \in Ops |-> "open"]
    /\ final = [o \in Ops |-> FALSE]
    /\ lock = NoProc
    /\ pc = [p \in Procs |-> "waiting"]
    /\ cur = [p \in Procs |-> 0]
    /\ mem = [p \in Procs |-> "none"]
    /\ seen = [p \in Procs |-> "open"]
    /\ spc = [p \in Procs |-> "idle"]
    /\ scur = [p \in Procs |-> 0]
    /\ faults = 0

-----------------------------------------------------------------------------
\* The chain, per wire: WireFate and finality (external).

\* The network executes a wire it has seen: sent to it, or only simulated on a
\* node that forwards what it simulates (the disclosure the code guards against).
Execute(o) ==
    /\ fate[o] = "open"
    /\ net[o] # "private"
    /\ \E f \in {"landed", "failed"} : fate' = [fate EXCEPT ![o] = f]
    /\ UNCHANGED <<rows, costs, latch, net, final, lock, worker, sweep, faults>>

\* A finalized block lies beyond the wire's last valid height without it.
Expire(o) ==
    /\ fate[o] = "open"
    /\ status[o] # "none"
    /\ fate' = [fate EXCEPT ![o] = "expired"]
    /\ UNCHANGED <<rows, costs, latch, net, final, lock, worker, sweep, faults>>

Finalize(o) ==
    /\ fate[o] \in {"landed", "failed"}
    /\ ~final[o]
    /\ final' = [final EXCEPT ![o] = TRUE]
    /\ UNCHANGED <<rows, costs, latch, net, fate, lock, worker, sweep, faults>>

-----------------------------------------------------------------------------
\* Sessions and processes.

\* openWriter: the session connects and waits for the vault's lock.
OpenDatabase(p) ==
    /\ pc[p] = "waiting"
    /\ lock = NoProc
    /\ lock' = p
    /\ pc' = [pc EXCEPT ![p] = "idle"]
    /\ UNCHANGED <<rows, costs, latch, chain, cur, mem, seen, sweep, faults>>

\* The process ends and its supervisor restarts it into the wait.  Its session
\* ends with it, and with the session the lock.
ExitTo(p) ==
    /\ pc' = [pc EXCEPT ![p] = "waiting"]
    /\ mem' = [mem EXCEPT ![p] = "none"]
    /\ seen' = [seen EXCEPT ![p] = "open"]
    /\ cur' = [cur EXCEPT ![p] = 0]
    /\ spc' = [spc EXCEPT ![p] = "idle"]
    /\ scur' = [scur EXCEPT ![p] = 0]
    /\ lock' = IF lock = p THEN NoProc ELSE lock

Crash(p) ==
    /\ faults < MaxFaults
    /\ pc[p] # "waiting"
    /\ faults' = faults + 1
    /\ ExitTo(p)
    /\ UNCHANGED <<rows, costs, latch, chain>>

\* The backend of the session is gone; the process does not know yet.
LoseSession(p) ==
    /\ faults < MaxFaults
    /\ lock = p
    /\ faults' = faults + 1
    /\ lock' = NoProc
    /\ UNCHANGED <<rows, costs, latch, chain, worker, sweep>>

\* Labels whose step makes a statement of the store.
StoreStep == {"idle", "observe", "reserve", "unreserve", "bind", "persist",
    "journal", "recover", "recovered", "intent", "landed", "reconcile", "settle",
    "release", "settleLanded", "mark"}

\* BeforeConnect refuses a second connection: the statement fails with
\* errWriterSessionLost, which no tick survives, and engine.Run ends both lanes.
SessionLost(p) ==
    /\ lock # p
    /\ pc[p] \in StoreStep
    /\ ExitTo(p)
    /\ UNCHANGED <<rows, costs, latch, chain, faults>>

\* The tick is over; the worker waits for the next one.
Rest(p) ==
    /\ pc' = [pc EXCEPT ![p] = "idle"]
    /\ mem' = [mem EXCEPT ![p] = "none"]
    /\ seen' = [seen EXCEPT ![p] = "open"]
    /\ cur' = [cur EXCEPT ![p] = 0]

\* An RPC call gives no answer: the tick ends with
\* errConfirmedObservationUnavailable and the worker ticks again.
Unavailable(p) ==
    /\ faults < MaxFaults
    /\ pc[p] \in {"observe", "land", "reconcile"}
    /\ faults' = faults + 1
    /\ Rest(p)
    /\ UNCHANGED <<rows, costs, latch, chain, lock, sweep>>

\* The worker lane moves on within the tick.
Goto(p, label) ==
    /\ pc' = [pc EXCEPT ![p] = label]
    /\ UNCHANGED <<cur, mem, seen>>

-----------------------------------------------------------------------------
\* Tick: the latch, the operation in flight, or a new decision.

InFlight == {o \in Ops : status[o] \in Nonterminal}

\* stopWhileLatched, then LoadNonterminal and the switch of
\* advanceNonterminalWithManifest.
LoadNonterminal(p) ==
    /\ pc[p] = "idle"
    /\ lock = p
    /\ ~latch
    /\ \E o \in InFlight :
          /\ \A q \in InFlight : o <= q
          /\ cur' = [cur EXCEPT ![p] = o]
          /\ mem' = [mem EXCEPT ![p] = status[o]]
          /\ pc' = [pc EXCEPT ![p] =
                 CASE status[o] \in Unsigned -> "recover"
                   [] status[o] \in Unlanded -> "land"
                   [] status[o] = "confirmed" -> "reconcile"]
    /\ UNCHANGED <<rows, costs, latch, chain, lock, seen, sweep, faults>>

LoadNothing(p) ==
    /\ pc[p] = "idle"
    /\ lock = p
    /\ ~latch
    /\ InFlight = {}
    /\ Goto(p, "observe")
    /\ UNCHANGED <<rows, costs, latch, chain, lock, sweep, faults>>

\* Decide answers Hold, or a limit, a quote, the release control or a withdrawal
\* consent holds the decision before it is journaled.
DecideHold(p) ==
    /\ pc[p] = "observe"
    /\ Rest(p)
    /\ UNCHANGED <<rows, costs, latch, chain, lock, sweep, faults>>

\* Mutant: the latch is written on a connection without the lock.
DecideLatch_OtherSession(p) ==
    /\ pc[p] = "observe"
    /\ latch' = TRUE
    /\ Rest(p)
    /\ UNCHANGED <<rows, costs, chain, lock, sweep, faults>>

\* Decide answers HoldManualRecovery: latchManualRecovery.
DecideLatch(p) ==
    /\ pc[p] = "observe"
    /\ lock = p
    /\ latch' = TRUE
    /\ Rest(p)
    /\ UNCHANGED <<rows, costs, chain, lock, sweep, faults>>

\* ClearManualRecoveryHold, by an operator beside the worker, without its lock.
ClearLatch ==
    /\ latch
    /\ latch' = FALSE
    /\ UNCHANGED <<rows, costs, chain, lock, worker, sweep, faults>>

\* UnresolvedCapitalRecoverySQL.
UnresolvedCapitalRecovery ==
    \E o \in Ops : status[o] = "manual_recovery" /\ kind[o] # "other"

\* recordDecisionTx inserts the decided row.  The index
\* multiply_operations_one_nonterminal_per_route refuses a second one in flight.
RecordDecision(p) ==
    /\ pc[p] = "observe"
    /\ lock = p
    /\ ~UnresolvedCapitalRecovery
    /\ InFlight = {}
    /\ \E o \in Ops, k \in Kinds :
          /\ status[o] = "none"
          /\ \A q \in Ops : q < o => status[q] # "none"
          /\ status' = [status EXCEPT ![o] = "decided"]
          /\ kind' = [kind EXCEPT ![o] = k]
          /\ cur' = [cur EXCEPT ![p] = o]
          /\ mem' = [mem EXCEPT ![p] = "decided"]
          /\ pc' = [pc EXCEPT ![p] = IF k = "funding" THEN "reserve" ELSE "check"]
    /\ UNCHANGED <<wire, intent, reason, costs, latch, chain, lock, seen, sweep, faults>>

\* recordDecisionTx refuses: the tick's error ends the process.
RecordRefused(p) ==
    /\ pc[p] = "observe"
    /\ lock = p
    /\ UnresolvedCapitalRecovery
    /\ ExitTo(p)
    /\ UNCHANGED <<rows, costs, latch, chain, faults>>

-----------------------------------------------------------------------------
\* buildSimulatePersist.

\* reserveWithdrawalCost commits the reservation of a decided funding sale.
ReserveCost(p) ==
    /\ pc[p] = "reserve"
    /\ lock = p
    /\ status[cur[p]] = "decided"
    /\ cost' = [cost EXCEPT ![cur[p]] = "reserved"]
    /\ Goto(p, "check")
    /\ UNCHANGED <<rows, costWire, latch, chain, lock, sweep, faults>>

\* A consent, a limit or a stale quote refuses the reservation.
ReserveRefused(p) ==
    /\ pc[p] = "reserve"
    /\ Goto(p, "journal")
    /\ UNCHANGED <<rows, costs, latch, chain, lock, sweep, faults>>

\* Mutant: the wire is simulated before it is bound.
Sign_SimulateFirst(p) ==
    /\ pc[p] = "check"
    /\ Goto(p, "simulate")
    /\ UNCHANGED <<rows, costs, latch, chain, lock, sweep, faults>>

\* revalidate, the NAV check, the recompilation and the signing certificate pass,
\* and the message is signed.  A funding sale binds the wire to its reservation
\* before the wire leaves the process.
Sign(p) ==
    /\ pc[p] = "check"
    /\ Goto(p, IF kind[cur[p]] = "funding" THEN "bind" ELSE "simulate")
    /\ UNCHANGED <<rows, costs, latch, chain, lock, sweep, faults>>

\* One of the checks fails: a funding sale gives its reservation back.
CheckFails(p) ==
    /\ pc[p] = "check"
    /\ Goto(p, IF kind[cur[p]] = "funding" THEN "unreserve" ELSE "journal")
    /\ UNCHANGED <<rows, costs, latch, chain, lock, sweep, faults>>

\* releaseUnsignedWithdrawalCost, or its failure, which only wraps the hold.
ReleaseUnsignedCost(p) ==
    /\ pc[p] = "unreserve"
    /\ lock = p
    /\ cost' = [cost EXCEPT ![cur[p]] =
           IF @ = "reserved" /\ ~costWire[cur[p]] /\ status[cur[p]] = "decided"
              /\ ~wire[cur[p]]
           THEN "released" ELSE @]
    /\ Goto(p, "journal")
    /\ UNCHANGED <<rows, costWire, latch, chain, lock, sweep, faults>>

CleanupFails(p) ==
    /\ faults < MaxFaults
    /\ pc[p] = "unreserve"
    /\ faults' = faults + 1
    /\ Goto(p, "journal")
    /\ UNCHANGED <<rows, costs, latch, chain, lock, sweep>>

\* bindWithdrawalCostWire.
BindCostWire(p) ==
    /\ pc[p] = "bind"
    /\ lock = p
    /\ cost[cur[p]] = "reserved"
    /\ costWire' = [costWire EXCEPT ![cur[p]] = TRUE]
    /\ Goto(p, "simulate")
    /\ UNCHANGED <<rows, cost, latch, chain, lock, sweep, faults>>

\* What the network knows of a wire after a node simulated it.
Disclosed(o) == [net EXCEPT ![o] = IF @ = "private" THEN "simulated" ELSE @]

\* simulateSigned succeeds.
Simulate(p) ==
    /\ pc[p] = "simulate"
    /\ net' = Disclosed(cur[p])
    /\ Goto(p, "persist")
    /\ UNCHANGED <<rows, costs, latch, fate, final, lock, sweep, faults>>

\* The simulation is refused or unanswered.  A funding sale ends the process with
\* withdrawal_signed_wire_recovery_required and stays decided; any other
\* operation is held, or stays decided until the next tick.
SimulationRefused(p) ==
    /\ pc[p] = "simulate"
    /\ net' = Disclosed(cur[p])
    /\ \/ kind[cur[p]] = "funding" /\ ExitTo(p)
       \/ kind[cur[p]] # "funding" /\ Goto(p, "journal") /\ UNCHANGED <<lock, sweep>>
    /\ UNCHANGED <<rows, costs, latch, fate, final, faults>>

\* PersistSigned.  Tick then reloads the row and lands it, and a recovery leaves
\* that to the next tick: both are LoadNonterminal.
PersistSigned(p) ==
    /\ pc[p] = "persist"
    /\ lock = p
    /\ status[cur[p]] = "decided"
    /\ status' = [status EXCEPT ![cur[p]] = "signed"]
    /\ wire' = [wire EXCEPT ![cur[p]] = TRUE]
    /\ Rest(p)
    /\ UNCHANGED <<kind, intent, reason, costs, latch, chain, lock, sweep, faults>>

\* journalTickError: a hold fails the row, an unavailable observation leaves it
\* decided for the next tick, any other error ends the process.
JournalHold(p) ==
    /\ pc[p] = "journal"
    /\ lock = p
    /\ status[cur[p]] = "decided"
    /\ status' = [status EXCEPT ![cur[p]] = "failed"]
    /\ reason' = [reason EXCEPT ![cur[p]] = "other"]
    /\ Rest(p)
    /\ UNCHANGED <<kind, wire, intent, costs, latch, chain, lock, sweep, faults>>

JournalNothing(p) ==
    /\ pc[p] = "journal"
    /\ \/ Rest(p) /\ UNCHANGED <<lock, sweep>>
       \/ ExitTo(p)
    /\ UNCHANGED <<rows, costs, latch, chain, faults>>

-----------------------------------------------------------------------------
\* advanceNonterminalWithManifest on a decided row: the previous build did not
\* finish.

\* Mutant: the bound wire of the reservation is not looked at.
FailUnsigned_IgnoresBound(p) ==
    /\ pc[p] = "recover"
    /\ lock = p
    /\ status[cur[p]] = "decided"
    /\ status' = [status EXCEPT ![cur[p]] = "failed"]
    /\ reason' = [reason EXCEPT ![cur[p]] = "other"]
    /\ Goto(p, "release")
    /\ UNCHANGED <<kind, wire, intent, costs, latch, chain, lock, sweep, faults>>

\* MarkPreBroadcastFailed, when no signed wire was bound.
FailUnsigned(p) ==
    /\ pc[p] = "recover"
    /\ lock = p
    /\ ~costWire[cur[p]]
    /\ status[cur[p]] = "decided"
    /\ status' = [status EXCEPT ![cur[p]] = "failed"]
    /\ reason' = [reason EXCEPT ![cur[p]] = "other"]
    /\ Goto(p, "release")
    /\ UNCHANGED <<kind, wire, intent, costs, latch, chain, lock, sweep, faults>>

\* recoverDisclosedWithdrawalCost reads the bound wire, which nobody changes any
\* more, and asks the chain: a session lost after the read does not stop the call.
\* At commitment finalized, expiry, a failure or a landing decide.
ObserveBound(p) ==
    /\ pc[p] = "recover"
    /\ costWire[cur[p]]
    /\ \/ fate[cur[p]] = "expired"
       \/ fate[cur[p]] \in {"landed", "failed"} /\ final[cur[p]]
    /\ seen' = [seen EXCEPT ![p] = fate[cur[p]]]
    /\ pc' = [pc EXCEPT ![p] = "recovered"]
    /\ UNCHANGED <<rows, costs, latch, chain, lock, cur, mem, sweep, faults>>

\* A failure that is not final yet, or an expiry whose blockhash a node still
\* holds valid, waits for the next tick.
WaitBound(p) ==
    /\ pc[p] = "recover"
    /\ costWire[cur[p]]
    /\ fate[cur[p]] \in {"failed", "expired"}
    /\ Rest(p)
    /\ UNCHANGED <<rows, costs, latch, chain, lock, sweep, faults>>

\* No outcome yet, or none that the answering node knows: simulate the same wire
\* again.  A refusal ends the process; the next one starts over.
ResimulateBound(p) ==
    /\ pc[p] = "recover"
    /\ costWire[cur[p]]
    /\ net' = Disclosed(cur[p])
    /\ \/ Goto(p, "persist") /\ UNCHANGED <<lock, sweep>>
       \/ ExitTo(p)
    /\ UNCHANGED <<rows, costs, latch, fate, final, faults>>

\* The recovery's write: failed by expiry, failed with the receipt's proof
\* (settleDisclosedWithdrawalFailure), or hydrated to manual recovery.
RecoverBound(p) ==
    /\ pc[p] = "recovered"
    /\ lock = p
    /\ status[cur[p]] = "decided"
    /\ status' = [status EXCEPT ![cur[p]] =
           IF seen[p] = "landed" THEN "manual_recovery" ELSE "failed"]
    /\ reason' = [reason EXCEPT ![cur[p]] =
           IF seen[p] = "expired" THEN "expired" ELSE "other"]
    /\ wire' = [wire EXCEPT ![cur[p]] = seen[p] # "expired"]
    /\ Goto(p, IF seen[p] = "expired" THEN "release" ELSE "settle")
    /\ UNCHANGED <<kind, intent, costs, latch, chain, lock, sweep, faults>>

-----------------------------------------------------------------------------
\* Database.land: chain.Land on the persisted wire, at commitment confirmed.

\* Mutant: only a landing ends the loop of Land.
LandAnswer_LandedOnly(p) ==
    /\ pc[p] = "land"
    /\ fate[cur[p]] = "landed"
    /\ seen' = [seen EXCEPT ![p] = fate[cur[p]]]
    /\ pc' = [pc EXCEPT ![p] = "landed"]
    /\ UNCHANGED <<rows, costs, latch, chain, lock, cur, mem, sweep, faults>>

\* Land returns the wire's fate.
LandAnswer(p) ==
    /\ pc[p] = "land"
    /\ fate[cur[p]] # "open"
    /\ seen' = [seen EXCEPT ![p] = fate[cur[p]]]
    /\ pc' = [pc EXCEPT ![p] = "landed"]
    /\ UNCHANGED <<rows, costs, latch, chain, lock, cur, mem, sweep, faults>>

\* No outcome yet, or none that the answering node knows: Land resends, after
\* recordSend, which writes only while the row it loaded was signed.
LandResend(p) ==
    /\ pc[p] = "land"
    /\ Goto(p, IF mem[p] = "signed" THEN "intent" ELSE "send")
    /\ UNCHANGED <<rows, costs, latch, chain, lock, sweep, faults>>

\* Mutant: the intent stays in memory.
MarkBroadcastIntent_MemoryOnly(p) ==
    /\ pc[p] = "intent"
    /\ lock = p
    /\ mem' = [mem EXCEPT ![p] = "broadcast_intent"]
    /\ pc' = [pc EXCEPT ![p] = "send"]
    /\ UNCHANGED <<rows, costs, latch, chain, lock, cur, seen, sweep, faults>>

MarkBroadcastIntent(p) ==
    /\ pc[p] = "intent"
    /\ lock = p
    /\ status[cur[p]] = "signed"
    /\ wire[cur[p]]
    /\ status' = [status EXCEPT ![cur[p]] = "broadcast_intent"]
    /\ intent' = [intent EXCEPT ![cur[p]] = TRUE]
    /\ mem' = [mem EXCEPT ![p] = "broadcast_intent"]
    /\ pc' = [pc EXCEPT ![p] = "send"]
    /\ UNCHANGED <<kind, wire, reason, costs, latch, chain, lock, cur, seen, sweep, faults>>

SendWire(p) ==
    /\ pc[p] = "send"
    /\ net' = [net EXCEPT ![cur[p]] = "sent"]
    /\ Goto(p, "land")
    /\ UNCHANGED <<rows, costs, latch, fate, final, lock, sweep, faults>>

\* MarkExpiredAbsentFailed.
FailExpired(p) ==
    /\ pc[p] = "landed"
    /\ lock = p
    /\ seen[p] = "expired"
    /\ status[cur[p]] = mem[p]
    /\ status' = [status EXCEPT ![cur[p]] = "failed"]
    /\ reason' = [reason EXCEPT ![cur[p]] = "expired"]
    /\ Goto(p, "release")
    /\ UNCHANGED <<kind, wire, intent, costs, latch, chain, lock, sweep, faults>>

\* signed_signature_found_before_broadcast_intent.
FoundBeforeIntent(p) ==
    /\ pc[p] = "landed"
    /\ lock = p
    /\ seen[p] \in {"landed", "failed"}
    /\ mem[p] = "signed"
    /\ status[cur[p]] = "signed"
    /\ status' = [status EXCEPT ![cur[p]] = "manual_recovery"]
    /\ reason' = [reason EXCEPT ![cur[p]] = "other"]
    /\ Rest(p)
    /\ UNCHANGED <<kind, wire, intent, costs, latch, chain, lock, sweep, faults>>

\* recoverConfirmedFailure: the finalized receipt proves that nothing but the fee
\* moved, or it does not and an operator decides.
SettleFailure(p) ==
    /\ pc[p] = "landed"
    /\ lock = p
    /\ seen[p] = "failed"
    /\ mem[p] = "broadcast_intent"
    /\ status[cur[p]] = mem[p]
    /\ final[cur[p]]
    /\ \E to \in {"failed", "manual_recovery"} : status' = [status EXCEPT ![cur[p]] = to]
    /\ reason' = [reason EXCEPT ![cur[p]] = "other"]
    /\ Goto(p, "settle")
    /\ UNCHANGED <<kind, wire, intent, costs, latch, chain, lock, sweep, faults>>

\* readFailureReceipt finds no finalized receipt yet.
ReceiptNotFinal(p) ==
    /\ pc[p] = "landed"
    /\ seen[p] = "failed"
    /\ mem[p] = "broadcast_intent"
    /\ ~final[cur[p]]
    /\ Rest(p)
    /\ UNCHANGED <<rows, costs, latch, chain, lock, sweep, faults>>

MarkConfirmed(p) ==
    /\ pc[p] = "landed"
    /\ lock = p
    /\ seen[p] = "landed"
    /\ mem[p] = "broadcast_intent"
    /\ status[cur[p]] = mem[p]
    /\ status' = [status EXCEPT ![cur[p]] = "confirmed"]
    /\ Rest(p)
    /\ UNCHANGED <<kind, wire, intent, reason, costs, latch, chain, lock, sweep, faults>>

-----------------------------------------------------------------------------
\* Database.reconcile.

\* The signature is not final, on the node that answers.
NotFinal(p) ==
    /\ pc[p] = "reconcile"
    /\ Rest(p)
    /\ UNCHANGED <<rows, costs, latch, chain, lock, sweep, faults>>

\* Effects, slot or foreign custody do not match the finalized receipt.
ReconcileMismatch(p) ==
    /\ pc[p] = "reconcile"
    /\ lock = p
    /\ final[cur[p]]
    /\ status[cur[p]] = mem[p]
    /\ status' = [status EXCEPT ![cur[p]] = "manual_recovery"]
    /\ reason' = [reason EXCEPT ![cur[p]] = "other"]
    /\ Rest(p)
    /\ UNCHANGED <<kind, wire, intent, costs, latch, chain, lock, sweep, faults>>

\* Mutant: the operation is reconciled before its reservation is settled.
ReconcileMatch_Unsettled(p) ==
    /\ pc[p] = "reconcile"
    /\ final[cur[p]]
    /\ Goto(p, "mark")
    /\ UNCHANGED <<rows, costs, latch, chain, lock, sweep, faults>>

ReconcileMatch(p) ==
    /\ pc[p] = "reconcile"
    /\ final[cur[p]]
    /\ Goto(p, "settleLanded")
    /\ UNCHANGED <<rows, costs, latch, chain, lock, sweep, faults>>

MarkReconciled(p) ==
    /\ pc[p] = "mark"
    /\ lock = p
    /\ status[cur[p]] = "confirmed"
    /\ status' = [status EXCEPT ![cur[p]] = "reconciled"]
    /\ Rest(p)
    /\ UNCHANGED <<kind, wire, intent, reason, costs, latch, chain, lock, sweep, faults>>

-----------------------------------------------------------------------------
\* Closing a reservation, from the worker's tick and from the settlement lane.

\* releaseWithdrawalCost: an unsigned failure or a finalized absence.
ReleasedCost(o) ==
    IF /\ cost[o] = "reserved"
       /\ status[o] = "failed"
       /\ \/ ~wire[o] /\ ~costWire[o]
          \/ reason[o] = "expired"
    THEN "released" ELSE cost[o]

\* settleWithdrawalCost books the finalized receipt of the operation's wire.
HasReceipt(o) == wire[o] /\ fate[o] \in {"landed", "failed"} /\ final[o]

SettledCost(o) == IF cost[o] = "reserved" THEN "settled" ELSE cost[o]

ReleaseCost(p) ==
    /\ pc[p] = "release"
    /\ lock = p
    /\ cost' = [cost EXCEPT ![cur[p]] = ReleasedCost(cur[p])]
    /\ Rest(p)
    /\ UNCHANGED <<rows, costWire, latch, chain, lock, sweep, faults>>

SettleCost(p) ==
    /\ pc[p] \in {"settle", "settleLanded"}
    /\ lock = p
    /\ cost[cur[p]] = "reserved" => HasReceipt(cur[p])
    /\ cost' = [cost EXCEPT ![cur[p]] = SettledCost(cur[p])]
    /\ \/ pc[p] = "settle" /\ Rest(p)
       \/ pc[p] = "settleLanded" /\ Goto(p, "mark")
    /\ UNCHANGED <<rows, costWire, latch, chain, lock, sweep, faults>>

\* Mutant: only reconciled operations are swept.
SweepScan_Reconciled(p) ==
    /\ lock = p
    /\ spc[p] = "idle"
    /\ \E o \in Ops :
          /\ status[o] = "reconciled"
          /\ cost[o] = "reserved"
          /\ scur' = [scur EXCEPT ![p] = o]
    /\ spc' = [spc EXCEPT ![p] = "release"]
    /\ UNCHANGED <<rows, costs, latch, chain, lock, worker, faults>>

\* withdrawalSettlementWorker.sweep takes the next terminal operation whose
\* reservation is open.
SweepScan(p) ==
    /\ lock = p
    /\ spc[p] = "idle"
    /\ \E o \in Ops :
          /\ status[o] \in Terminal
          /\ cost[o] = "reserved"
          /\ scur' = [scur EXCEPT ![p] = o]
    /\ spc' = [spc EXCEPT ![p] = "release"]
    /\ UNCHANGED <<rows, costs, latch, chain, lock, worker, faults>>

SweepRelease(p) ==
    /\ lock = p
    /\ spc[p] = "release"
    /\ cost' = [cost EXCEPT ![scur[p]] = ReleasedCost(scur[p])]
    /\ spc' = [spc EXCEPT ![p] = "settle"]
    /\ UNCHANGED <<rows, costWire, latch, chain, lock, worker, scur, faults>>

\* Settled, or an error (no finalized receipt yet, a timeout, a lost session),
\* which is only a warning: the next sweep tries again.
SweepSettle(p) ==
    /\ lock = p
    /\ spc[p] = "settle"
    /\ HasReceipt(scur[p])
    /\ cost' = [cost EXCEPT ![scur[p]] = SettledCost(scur[p])]
    /\ spc' = [spc EXCEPT ![p] = "idle"]
    /\ scur' = [scur EXCEPT ![p] = 0]
    /\ UNCHANGED <<rows, costWire, latch, chain, lock, worker, faults>>

SweepWarning(p) ==
    /\ \/ lock # p /\ spc[p] # "idle"
       \/ spc[p] = "settle" /\ ~HasReceipt(scur[p])
    /\ spc' = [spc EXCEPT ![p] = "idle"]
    /\ scur' = [scur EXCEPT ![p] = 0]
    /\ UNCHANGED <<rows, costs, latch, chain, lock, worker, faults>>

-----------------------------------------------------------------------------
ChainStep(o) == Execute(o) \/ Expire(o) \/ Finalize(o)

Fault(p) == Crash(p) \/ LoseSession(p) \/ Unavailable(p) \/ CleanupFails(p)

Build(p) ==
    \/ ReserveCost(p) \/ ReserveRefused(p) \/ Sign(p) \/ CheckFails(p)
    \/ ReleaseUnsignedCost(p) \/ BindCostWire(p) \/ Simulate(p)
    \/ SimulationRefused(p) \/ PersistSigned(p) \/ JournalHold(p) \/ JournalNothing(p)

Recover(p) ==
    FailUnsigned(p) \/ ObserveBound(p) \/ WaitBound(p) \/ ResimulateBound(p) \/ RecoverBound(p)

Land(p) ==
    \/ LandAnswer(p) \/ LandResend(p) \/ MarkBroadcastIntent(p) \/ SendWire(p)
    \/ FailExpired(p) \/ FoundBeforeIntent(p) \/ SettleFailure(p)
    \/ ReceiptNotFinal(p) \/ MarkConfirmed(p)

Reconcile(p) ==
    NotFinal(p) \/ ReconcileMismatch(p) \/ ReconcileMatch(p) \/ MarkReconciled(p)

Decide(p) ==
    \/ LoadNonterminal(p) \/ LoadNothing(p) \/ DecideHold(p) \/ DecideLatch(p)
    \/ RecordDecision(p) \/ RecordRefused(p)

Tick(p) ==
    \/ OpenDatabase(p) \/ SessionLost(p) \/ Decide(p) \/ Build(p) \/ Recover(p)
    \/ Land(p) \/ Reconcile(p) \/ ReleaseCost(p) \/ SettleCost(p)

Sweep(p) == SweepScan(p) \/ SweepRelease(p) \/ SweepSettle(p) \/ SweepWarning(p)

Next ==
    \/ \E o \in Ops : ChainStep(o)
    \/ \E p \in Procs : Tick(p) \/ Sweep(p) \/ Fault(p)
    \/ ClearLatch

Spec == Init /\ [][Next]_vars

\* The cluster goes on, so every blockhash expires and every block finalizes; a
\* process takes its next step, and one of those waiting gets a free lock.
\* Nodes answer: an outcome that is there is not missed for ever (this is what
\* EventuallyDecided shows of Land).  The sweep runs first thing in every
\* process, and its statements are not outrun for ever by exits of the worker.
Fairness ==
    /\ \A o \in Ops : WF_vars(Expire(o)) /\ WF_vars(Finalize(o))
    /\ WF_vars(\E p \in Procs : OpenDatabase(p))
    /\ \A p \in Procs :
          /\ WF_vars(Tick(p))
          /\ SF_vars(LandAnswer(p))
          /\ SF_vars(ObserveBound(p))
          /\ SF_vars(ReconcileMismatch(p) \/ ReconcileMatch(p))
          /\ SF_vars(SweepScan(p))
          /\ SF_vars(SweepRelease(p))
          /\ SF_vars(SweepSettle(p) \/ SweepWarning(p))

FairSpec == Spec /\ Fairness

-----------------------------------------------------------------------------
\* A failed operation whose wire the journal or its reservation holds moved no
\* capital and never will: the wire failed on chain or can no longer land.  The
\* next decision plans on that, although the wire was simulated and sent by
\* processes that may still be running without their session.
FailedWireIsDead ==
    \A o \in Ops : status[o] = "failed" /\ (wire[o] \/ costWire[o])
                       => fate[o] \in {"failed", "expired"}

\* A released reservation frees the participants' cost limit, so no wire of its
\* operation may ever execute: none left the process, or it expired.  "Consent
\* updates, cancellation and time alone never prove that a signed wire cannot
\* land" (releaseWithdrawalCost).
ReleasedNeverSpends ==
    \A o \in Ops : cost[o] = "released" => net[o] = "private" \/ fate[o] = "expired"

\* A settled reservation books the finalized receipt of its own operation.
SettledIsFinal ==
    \A o \in Ops : cost[o] = "settled" => fate[o] \in {"landed", "failed"} /\ final[o]

\* A reconciled operation landed, is finalized, and its reservation is settled.
ReconciledIsBooked ==
    \A o \in Ops : status[o] = "reconciled" =>
        /\ fate[o] = "landed"
        /\ final[o]
        /\ kind[o] = "funding" <=> cost[o] = "settled"

\* Write-ahead: bytes were sent only under a journaled wire and broadcast intent,
\* also by a process that lost its session in between (Database.land).
SentIsJournaled ==
    \A o \in Ops : net[o] = "sent" => wire[o] /\ intent[o]

\* The latch stops the route at rest: no operation is in flight under it, so none
\* is abandoned half way while the worker does nothing (Tick returns first).
LatchedIsQuiet == latch => InFlight = {}

\* Labels at which the worker is inside an operation.
Busy == {"reserve", "check", "unreserve", "bind", "simulate", "persist", "journal",
         "recover", "recovered", "land", "intent", "send", "landed", "reconcile",
         "settleLanded", "mark"}

\* There is no fencing token: what the lock's holder has in memory is what the
\* journal says, at every step of its tick.
HolderIsCurrent ==
    \A p \in Procs : lock = p /\ pc[p] \in Busy => status[cur[p]] = mem[p]

\* Every journaled operation comes to rest: reconciled, failed or handed to an
\* operator, whatever process dies in between and whatever becomes of its wire.
EventuallyTerminal ==
    \A o \in Ops : status[o] \in Nonterminal ~> status[o] \in Terminal

\* No reservation holds a participant's limit for ever: it is settled from a
\* receipt or released, by the tick or by the settlement sweep.
ReservationCloses ==
    \A o \in Ops : cost[o] = "reserved" ~> cost[o] \in {"released", "settled"}

-----------------------------------------------------------------------------
\* The strengthening under which the safety properties are inductive.

\* An operation: its row, its wire's fate and its reservation.  Only a funding sale
\* has a reservation, its wire is bound before anyone sees it, and under a bound
\* wire it is released only by expiry.
OpOK(o) ==
    /\ status[o] = "none" => fate[o] = "open" /\ net[o] = "private" /\ cost[o] = "none"
    /\ status[o] \in {"none", "decided"} => ~wire[o] /\ ~intent[o]
    /\ status[o] \in {"signed", "broadcast_intent", "confirmed", "reconciled"} => wire[o]
    /\ status[o] \in {"broadcast_intent", "confirmed", "reconciled"} => intent[o]
    /\ status[o] \in {"confirmed", "reconciled"} => fate[o] = "landed"
    /\ status[o] = "reconciled" => final[o] /\ (kind[o] = "funding" => cost[o] = "settled")
    /\ status[o] = "failed" /\ (wire[o] \/ costWire[o]) => fate[o] \in {"failed", "expired"}
    /\ reason[o] = "expired" => status[o] = "failed" /\ fate[o] = "expired"
    /\ fate[o] \in {"landed", "failed"} => net[o] # "private"
    /\ final[o] => fate[o] \in {"landed", "failed"}
    /\ net[o] = "sent" => wire[o] /\ intent[o]
    /\ cost[o] # "none" => kind[o] = "funding"
    /\ costWire[o] => cost[o] # "none"
    /\ kind[o] = "funding" /\ (wire[o] \/ net[o] # "private") => costWire[o]
    /\ cost[o] = "released" /\ costWire[o] => status[o] = "failed" /\ fate[o] = "expired"
    /\ cost[o] = "settled" => wire[o] /\ fate[o] \in {"landed", "failed"} /\ final[o]

\* What a process knows, with or without its session.
ProcOK(p) ==
    /\ pc[p] = "waiting" => spc[p] = "idle"
    /\ pc[p] \in Busy \union {"settle", "release"} => cur[p] \in Ops
    /\ pc[p] \in Busy => status[cur[p]] # "none"
    /\ pc[p] \in {"reserve", "unreserve", "bind"} => kind[cur[p]] = "funding"
    /\ pc[p] \in {"simulate", "persist"} /\ kind[cur[p]] = "funding" => costWire[cur[p]]
    /\ pc[p] \in {"land", "intent", "send", "landed"} => mem[p] \in Unlanded /\ wire[cur[p]]
    /\ pc[p] = "intent" => mem[p] = "signed"
    /\ pc[p] \in {"land", "intent", "send", "landed"} /\ mem[p] # "signed" => intent[cur[p]]
    /\ pc[p] = "send" => mem[p] # "signed"
    /\ pc[p] \in {"recovered", "landed"} => seen[p] = fate[cur[p]] /\ seen[p] # "open"
    /\ pc[p] = "recovered" /\ seen[p] # "expired" => final[cur[p]]
    /\ pc[p] \in {"settleLanded", "mark"} => final[cur[p]]

\* What only the holder of the lock knows.
HolderOK(p) ==
    /\ pc[p] # "waiting"
    /\ pc[p] = "observe" => InFlight = {} /\ ~latch
    /\ pc[p] \in Busy => status[cur[p]] = mem[p]
    /\ pc[p] \in {"reserve", "check", "unreserve", "bind", "simulate", "persist",
                  "journal", "recover", "recovered"} => mem[p] = "decided"
    /\ pc[p] \in {"reconcile", "settleLanded", "mark"} => mem[p] = "confirmed"
    /\ pc[p] = "reserve" => cost[cur[p]] = "none"
    /\ pc[p] \in {"check", "unreserve", "bind"} /\ kind[cur[p]] = "funding" =>
           cost[cur[p]] = "reserved" /\ ~costWire[cur[p]]
    /\ pc[p] = "journal" => ~costWire[cur[p]]
    /\ pc[p] = "recovered" => costWire[cur[p]]
    /\ pc[p] = "mark" /\ kind[cur[p]] = "funding" => cost[cur[p]] = "settled"
    /\ spc[p] # "idle" => scur[p] \in Ops /\ status[scur[p]] \in Terminal

IInv ==
    /\ TypeOK
    /\ \A o \in Ops : OpOK(o)
    /\ \A p \in Procs : ProcOK(p) /\ (lock = p => HolderOK(p))
    /\ LatchedIsQuiet
=============================================================================
