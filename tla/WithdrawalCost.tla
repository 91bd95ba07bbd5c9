--------------------------- MODULE WithdrawalCost ---------------------------
(***************************************************************************)
(* Who pays for a withdrawal sale (backyard/withdrawal_cost*.go, earnmax/   *)
(* withdrawal_cost_allocation.go): its highest cost is split over the       *)
(* holders and frozen in the reservation, the finalized cost is split again *)
(* within what is frozen.  Backyard has the reservation's life, this module *)
(* its amounts, as integers of USDC's smallest unit.                        *)
(*                                                                         *)
(* A cost has two components: the part that the certified NAV already       *)
(* deducts (covered), and the rest (incremental).                           *)
(***************************************************************************)
EXTENDS Integers, FiniteSets, SequencesExt

CONSTANTS
    N,          \* receipts that take part, in the order of their identities
    LPs,        \* escrowed LP of a receipt
    Rests,      \* LP of everyone else
    MaxPrepared,\* bound: highest cost of a prepared sale
    MaxActual   \* bound: finalized cost

ASSUME WithdrawalCostAssumption ==
    /\ N \in Nat \ {0}
    /\ LPs \subseteq Nat \ {0}
    /\ Rests \subseteq Nat
    /\ MaxPrepared \in Nat
    /\ MaxActual \in Nat

Participants == 1..N
Other == N + 1
Holders == 1..(N + 1)

VARIABLES
    phase,     \* of the operation: "idle", "prepared", "reserved", "finalized", "settled"
    lp,        \* LP of every holder; together they are effectiveLP
    max,       \* MaxCost and IncrementalCost of the preparation
    inc,
    share,     \* MaxCost of every participant, and OtherHolders
    incShare,  \* IncrementalCost of every participant, and IncrementalOtherHolders
    actual,    \* the finalized cost
    charge,    \* the settled shares
    incCharge,
    excess     \* ExcessCost, which the pool pays

frozen == <<lp, max, inc, share, incShare>>
settled == <<charge, incCharge, excess>>
vars == <<phase, frozen, actual, settled>>

Nobody == [h \in Holders |-> 0]
Sum(f) == FoldLeft(+, 0, f)
effectiveLP == Sum(lp)

Init ==
    /\ phase = "idle"
    /\ lp = Nobody
    /\ max = 0 /\ inc = 0
    /\ share = Nobody /\ incShare = Nobody
    /\ actual = 0
    /\ charge = Nobody /\ incCharge = Nobody
    /\ excess = 0

-----------------------------------------------------------------------------
\* A holder's part of a total, rounded down, and what the rounding leaves.
Floor(total, w, h) == (total * w[h]) \div Sum(w)
Remainder(total, w, h) == (total * w[h]) % Sum(w)
Floors(total, w) == [h \in Holders |-> Floor(total, w, h)]

\* Largest remainder first, then by identity, other holders last.
LargestFirst(total, w) ==
    SetToSortSeq(Holders, LAMBDA g, h : \/ Remainder(total, w, g) > Remainder(total, w, h)
                                        \/ Remainder(total, w, g) = Remainder(total, w, h) /\ g < h)

\* Mutant: everything the rounding leaves goes to the first in the order.
AllocateWithdrawalCost_First(total, w) ==
    LET left == total - Sum(Floors(total, w))
    IN [h \in Holders |-> Floor(total, w, h) + IF h = LargestFirst(total, w)[1] THEN left ELSE 0]

\* One unit each to the first in the order.
AllocateWithdrawalCost(total, w) ==
    LET left == total - Sum(Floors(total, w))
        first == {LargestFirst(total, w)[k] : k \in 1..left}
    IN [h \in Holders |-> Floor(total, w, h) + IF h \in first THEN 1 ELSE 0]

\* prepareWithdrawalCost and allocate.  Other holders never pay an incremental
\* cost: withdrawal_cost_charges_holders.
Prepare ==
    /\ phase = "idle"
    /\ \E w \in [Participants -> LPs], rest \in Rests, t \in 1..MaxPrepared, i \in 0..MaxPrepared :
          /\ i <= t
          /\ lp' = [h \in Holders |-> IF h = Other THEN rest ELSE w[h]]
          /\ max' = t
          /\ inc' = i
          /\ incShare' = AllocateWithdrawalCost(i, lp')
          /\ share' = [h \in Holders |-> AllocateWithdrawalCost(t - i, lp')[h] + incShare'[h]]
          /\ incShare'[Other] = 0
    /\ phase' = "prepared"
    /\ UNCHANGED <<actual, settled>>

\* validateAccounting, of the reservation and again of the settlement.
ValidAccounting ==
    /\ inc <= max
    /\ \A h \in Holders : incShare[h] <= share[h]
    /\ Sum(share) = max
    /\ Sum(incShare) = inc

\* reserveWithdrawalCostRecord freezes the preparation.
Reserve ==
    /\ phase = "prepared"
    /\ ValidAccounting
    /\ phase' = "reserved"
    /\ UNCHANGED <<frozen, actual, settled>>

\* The receipt is final: withdrawalReceiptCost, zero when the wire failed.
Finalize ==
    /\ phase = "reserved"
    /\ actual' \in 0..MaxActual
    /\ phase' = "finalized"
    /\ UNCHANGED <<frozen, settled>>

-----------------------------------------------------------------------------
\* allocateCappedWithdrawalComponent hands out what is left in rounds: one unit to
\* everyone in the order who is below the cap.
HandOut(r, h, caps) ==
    IF r.left > 0 /\ r.amounts[h] < caps[h]
    THEN [amounts |-> [r.amounts EXCEPT ![h] = @ + 1], left |-> r.left - 1]
    ELSE r

Round(r, order, caps) == FoldLeft(LAMBDA acc, h : HandOut(acc, h, caps), r, order)

\* Mutant: the rounds do not look at the caps.
Capped_Unlimited(total, w, caps) ==
    [ok |-> TRUE, amounts |-> AllocateWithdrawalCost(total, w)]

\* ok: the floors are within the caps and nothing is left in the end.  A round that
\* hands out nothing is the last; repeating it changes nothing.
Capped(total, w, caps) ==
    LET floors == Floors(total, w)
        start == [amounts |-> floors, left |-> total - Sum(floors)]
        order == LargestFirst(total, w)
        after[k \in 0..start.left] == IF k = 0 THEN start ELSE Round(after[k - 1], order, caps)
        end == after[start.left]
    IN [ok |-> (\A h \in Holders : floors[h] <= caps[h]) /\ end.left = 0,
        amounts |-> end.amounts]

\* withdrawalActualIncremental: the covered part is used up first.
ActualIncremental == actual - Min({actual, max - inc})

\* What exceeds the reservation.
Excess == Max({actual - max, 0})

IncComponent == Capped(ActualIncremental - Excess, lp, incShare)
CoveredComponent ==
    Capped(actual - ActualIncremental, lp, [h \in Holders |-> share[h] - incShare[h]])

\* allocateSettlement accepts the finalized cost.
Settles ==
    /\ ValidAccounting
    /\ actual - ActualIncremental <= max - inc
    /\ ActualIncremental - Excess <= inc
    /\ IncComponent.ok
    /\ CoveredComponent.ok

\* settleWithdrawalCost.
Settle ==
    /\ phase = "finalized"
    /\ Settles
    /\ incCharge' = IncComponent.amounts
    /\ charge' = [h \in Holders |-> IncComponent.amounts[h] + CoveredComponent.amounts[h]]
    /\ excess' = Excess
    /\ phase' = "settled"
    /\ UNCHANGED <<frozen, actual>>

-----------------------------------------------------------------------------
Next == Prepare \/ Reserve \/ Finalize \/ Settle

Spec == Init /\ [][Next]_vars

-----------------------------------------------------------------------------
\* A reserved share is the exact share of the component, rounded up or down: no
\* holder is charged a unit more than their LP's part.
ShareIsProportional ==
    phase = "reserved" =>
        \A h \in Holders :
            LET coveredShare == share[h] - incShare[h]
            IN /\ coveredShare * effectiveLP - (max - inc) * lp[h] \in -effectiveLP + 1 .. effectiveLP - 1
               /\ incShare[h] * effectiveLP - inc * lp[h] \in -effectiveLP + 1 .. effectiveLP - 1

\* Every finalized cost settles, zero, below the reservation and above it, although
\* the shares of a smaller total are not the frozen shares scaled down: a refusal
\* would leave the reservation open for ever.  And it settles exactly: the charges and
\* the pool's excess add up to it, and no holder pays more than was frozen for them.
EveryCostSettles ==
    /\ phase = "finalized" => Settles
    /\ phase = "settled" =>
          /\ Sum(charge) + excess = actual
          /\ Sum(incCharge) + excess = ActualIncremental
          /\ \A h \in Holders : /\ incCharge[h] <= incShare[h]
                                /\ charge[h] - incCharge[h] <= share[h] - incShare[h]
=============================================================================
