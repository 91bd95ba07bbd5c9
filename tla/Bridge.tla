------------------------------- MODULE Bridge -------------------------------
(***************************************************************************)
(* Relay bridge transfers (loyal_yield.bridge_transfers): the web handlers  *)
(* that quote, confirm, release and submit a transfer for the client, and   *)
(* the tracker (go/workers/internal/bridge) that follows it at Relay.       *)
(*                                                                         *)
(* The tracker's family lock is not on the connections it writes with: one  *)
(* that lost the lock goes on until it notices, beside its successor.       *)
(* Hence a set of trackers, each anywhere in its tick.                      *)
(*                                                                         *)
(* A time stamp is what its queries tell apart: the window it is in.        *)
(***************************************************************************)
EXTENDS Naturals

CONSTANTS
    InIds,       \* incoming transfers of one sender, chain and asset
    OutIds,      \* outgoing transfers
    DepositIds,  \* requests Relay makes of deposits into a deposit address
    Trackers,
    NoId,        \* the advisory lock of the incoming route is free
    MaxFaults    \* bound: unanswered calls, failed ticks and lost requests

Ids == InIds \union OutIds \union DepositIds
ClientIds == InIds \union OutIds

ASSUME BridgeAssumption ==
    /\ NoId \notin Ids
    /\ DepositIds \intersect ClientIds = {}
    /\ InIds \intersect OutIds = {}
    /\ MaxFaults \in Nat

VARIABLES
    \* the row of a transfer
    state,      \* "none" before the row is inserted, "pruned" after its deletion
    quotedAt,   \* within abandonedQuoteAge: "new"; beyond: "old"
    confirmedAt,\* "null", within InConfirmWindow: "new", within LostSubmitWindow:
                \* "late", beyond: "old"
    released,   \* released_at IS NOT NULL
    submittedAt,\* "null", within LostSubmitWindow: "new", within trackWindow: "open",
                \* beyond: "old"
    destTx,     \* destination_tx IS NOT NULL
    refundTx,   \* refund_tx IS NOT NULL
    settledAt,  \* settled_at IS NOT NULL
    amounts,    \* "quoted" or "final"
    updatedLate,\* updated_at lies beyond the track window: markUnsettled passes over it
    \* the client of a transfer, and the confirm handler that serves it
    client,
    handler,
    routeLock,  \* the transfer whose confirmation holds the route's lock
    \* the origin chain and Relay
    sent,       \* the client's deposit is broadcast
    relay,      \* Relay's status of the request
    hashes,     \* Relay's answer carries the hash of the fill or the refund
    \* the trackers
    pc,
    polled,     \* per row: the state openTransfers read, "none" when done
    answer,     \* per row: Relay's answer to the poll
    work,       \* rows the current query of marking, adoption or pruning returned
    found,      \* per row: the status detection read
    warning,    \* "bridge transfer unsettled": "written", "lost" with the tick that
                \* was to write it, or "none"
    faults

row == <<state, quotedAt, confirmedAt, released, submittedAt, destTx, refundTx,
         settledAt, amounts, updatedLate>>
outside == <<sent, relay, hashes>>
tracker == <<pc, polled, answer, work, found, warning>>
web == <<client, handler, routeLock>>
vars == <<row, web, outside, tracker, faults>>

TransferStates == {"quoted", "submitted", "failed", "filled", "refunded"}
NoAnswer == [status |-> "none", hashes |-> FALSE]
Init ==
    /\ state = [i \in Ids |-> "none"]
    /\ quotedAt = [i \in Ids |-> "new"]
    /\ confirmedAt = [i \in Ids |-> "null"]
    /\ released = [i \in Ids |-> FALSE]
    /\ submittedAt = [i \in Ids |-> "null"]
    /\ destTx = [i \in Ids |-> FALSE]
    /\ refundTx = [i \in Ids |-> FALSE]
    /\ settledAt = [i \in Ids |-> FALSE]
    /\ amounts = [i \in Ids |-> "quoted"]
    /\ updatedLate = [i \in Ids |-> FALSE]
    /\ client = [i \in ClientIds |-> "idle"]
    /\ handler = [i \in ClientIds |-> "none"]
    /\ routeLock = NoId
    /\ sent = [i \in Ids |-> FALSE]
    /\ relay = [i \in Ids |-> "waiting"]
    /\ hashes = [i \in Ids |-> FALSE]
    /\ pc = [t \in Trackers |-> "drop"]
    /\ polled = [t \in Trackers |-> [i \in Ids |-> "none"]]
    /\ answer = [t \in Trackers |-> [i \in Ids |-> NoAnswer]]
    /\ work = [t \in Trackers |-> {}]
    /\ found = [t \in Trackers |-> [i \in DepositIds |-> "none"]]
    /\ warning = [i \in Ids |-> "none"]
    /\ faults = 0

-----------------------------------------------------------------------------
\* TransferState.

Settled(s) == s \in {"filled", "refunded"}

Submit(s) == IF s = "quoted" THEN "submitted" ELSE s

Rank(s) ==
    CASE s = "quoted" -> 0
      [] s = "submitted" -> 1
      [] s = "failed" -> 2
      [] OTHER -> 3

\* The state a Relay status stands for.
Seen(status) ==
    CASE status = "waiting" -> "quoted"
      [] status = "pending" -> "submitted"
      [] status = "failure" -> "failed"
      [] status = "success" -> "filled"
      [] status = "refund" -> "refunded"

\* The state only moves to a higher rank.
Advance(s, status) == IF Rank(Seen(status)) <= Rank(s) THEN s ELSE Seen(status)

\* openState, and openState within the track window.
OpenState(i) ==
    \/ state[i] \in {"submitted", "failed"}
    \/ state[i] = "filled" /\ ~destTx[i]
    \/ state[i] = "refunded" /\ ~refundTx[i]

OpenTransfer(i) == OpenState(i) /\ submittedAt[i] \in {"new", "open"}

AbandonedQuote(i) == state[i] = "quoted" /\ confirmedAt[i] = "null" /\ quotedAt[i] = "old"

\* bridgeInInFlight: a fresh confirmation, or a deposit on its way.
Confirmed(i) == state[i] = "quoted" /\ ~released[i] /\ confirmedAt[i] = "new"

BridgeInInFlight(i) == Confirmed(i) \/ (state[i] = "submitted" /\ submittedAt[i] = "new")

BridgeInBlocker(i) == \E j \in InIds \ {i} : BridgeInInFlight(j)

Fault == faults < MaxFaults /\ faults' = faults + 1

-----------------------------------------------------------------------------
\* The web handlers and the client that calls them (use-bridge-move).

\* bridgeQuote up to its call of Relay.
BridgeQuote(i) ==
    /\ client[i] = "idle"
    /\ i \in InIds => ~BridgeInBlocker(i)
    /\ client' = [client EXCEPT ![i] = "quoting"]
    /\ UNCHANGED <<row, handler, routeLock, outside, tracker, faults>>

\* bridgeQuote inserts the row Relay quoted.
InsertQuote(i) ==
    /\ client[i] = "quoting"
    /\ state' = [state EXCEPT ![i] = "quoted"]
    /\ client' = [client EXCEPT ![i] = "quoted"]
    /\ UNCHANGED <<quotedAt, confirmedAt, released, submittedAt, destTx, refundTx,
                   settledAt, amounts, updatedLate, handler, routeLock, outside, tracker, faults>>

\* The client posts the confirmation.
PostConfirm(i) ==
    /\ client[i] = "quoted"
    /\ client' = [client EXCEPT ![i] = "confirming"]
    /\ handler' = [handler EXCEPT ![i] = "select"]
    /\ UNCHANGED <<row, routeLock, outside, tracker, faults>>

\* What a client that still waits for its confirmation does on an error: it
\* releases an incoming transfer and drops an outgoing one.
GiveUp(i) ==
    client' = [client EXCEPT ![i] =
        IF @ # "confirming" THEN @ ELSE IF i \in InIds THEN "releasing" ELSE "done"]

Quoted(i) == state[i] = "quoted" /\ ~released[i]

\* confirmBridgeTransfer reads the row.
ConfirmSelect(i) ==
    /\ handler[i] = "select"
    /\ \/ /\ Quoted(i)
          /\ handler' = [handler EXCEPT ![i] = IF i \in InIds THEN "lock" ELSE "update"]
          /\ UNCHANGED client
       \/ /\ ~Quoted(i)
          /\ handler' = [handler EXCEPT ![i] = "none"]
          /\ GiveUp(i)
    /\ UNCHANGED <<row, routeLock, outside, tracker, faults>>

\* Mutant: the blocker is looked for without the route's lock.
ConfirmLock_Unlocked(i) ==
    /\ handler[i] = "lock"
    /\ \/ /\ ~BridgeInBlocker(i)
          /\ handler' = [handler EXCEPT ![i] = "update"]
          /\ UNCHANGED <<client, routeLock>>
       \/ /\ BridgeInBlocker(i)
          /\ handler' = [handler EXCEPT ![i] = "none"]
          /\ client' = [client EXCEPT ![i] = IF @ = "confirming" THEN "done" ELSE @]
          /\ UNCHANGED routeLock
    /\ UNCHANGED <<row, outside, tracker, faults>>

\* It takes the route's lock and looks for another transfer in flight.
ConfirmLock(i) ==
    /\ handler[i] = "lock"
    /\ routeLock = NoId
    /\ \/ /\ ~BridgeInBlocker(i)
          /\ routeLock' = i
          /\ handler' = [handler EXCEPT ![i] = "update"]
          /\ UNCHANGED client
       \/ /\ BridgeInBlocker(i)
          /\ handler' = [handler EXCEPT ![i] = "none"]
          /\ client' = [client EXCEPT ![i] = IF @ = "confirming" THEN "done" ELSE @]
          /\ UNCHANGED routeLock
    /\ UNCHANGED <<row, outside, tracker, faults>>

FreeLock(i) == routeLock' = IF routeLock = i THEN NoId ELSE routeLock

\* It stamps confirmed_at and commits, which frees the lock.
ConfirmUpdate(i) ==
    /\ handler[i] = "update"
    /\ \/ /\ Quoted(i)
          /\ confirmedAt' = [confirmedAt EXCEPT ![i] = IF @ = "null" THEN "new" ELSE @]
          /\ client' = [client EXCEPT ![i] = IF @ = "confirming" THEN "confirmed" ELSE @]
       \/ /\ ~Quoted(i)
          /\ GiveUp(i)
          /\ UNCHANGED confirmedAt
    /\ handler' = [handler EXCEPT ![i] = "none"]
    /\ FreeLock(i)
    /\ UNCHANGED <<state, quotedAt, released, submittedAt, destTx, refundTx, settledAt,
                   amounts, updatedLate, outside, tracker, faults>>

\* The handler fails or runs into its deadline: its transaction rolls back.
ConfirmFails(i) ==
    /\ handler[i] # "none"
    /\ Fault
    /\ handler' = [handler EXCEPT ![i] = "none"]
    /\ FreeLock(i)
    /\ GiveUp(i)
    /\ UNCHANGED <<row, outside, tracker>>

\* The client waits no longer for a handler that still runs.
ConfirmTimeout(i) ==
    /\ client[i] = "confirming"
    /\ Fault
    /\ GiveUp(i)
    /\ UNCHANGED <<row, handler, routeLock, outside, tracker>>

\* The confirmed client hands the deposit to the wallet.
SendDeposit(i) ==
    /\ client[i] = "confirmed"
    /\ sent' = [sent EXCEPT ![i] = TRUE]
    /\ client' = [client EXCEPT ![i] = "sent"]
    /\ UNCHANGED <<row, handler, routeLock, relay, hashes, tracker, faults>>

\* The wallet answers with an error, which does not prove that nothing went out.
\* A timeout after the handover releases nothing.
SendFails(i) ==
    /\ client[i] = "confirmed"
    /\ \E b \in BOOLEAN : sent' = [sent EXCEPT ![i] = b]
    /\ \E c \in {"done"} \union (IF i \in InIds THEN {"releasing"} ELSE {}) :
          client' = [client EXCEPT ![i] = c]
    /\ UNCHANGED <<row, handler, routeLock, relay, hashes, tracker, faults>>

\* bridgeRelease, or a release that never arrives.
BridgeRelease(i) ==
    /\ client[i] = "releasing"
    /\ released' = [released EXCEPT ![i] = @ \/ state[i] = "quoted"]
    /\ client' = [client EXCEPT ![i] = "done"]
    /\ UNCHANGED <<state, quotedAt, confirmedAt, submittedAt, destTx, refundTx, settledAt,
                   amounts, updatedLate, handler, routeLock, outside, tracker, faults>>

\* bridgeSubmit.
BridgeSubmit(i) ==
    /\ client[i] = "sent"
    /\ state' = [state EXCEPT ![i] = Submit(@)]
    /\ submittedAt' = [submittedAt EXCEPT ![i] = IF state[i] = "quoted" THEN "new" ELSE @]
    /\ client' = [client EXCEPT ![i] = "done"]
    /\ UNCHANGED <<quotedAt, confirmedAt, released, destTx, refundTx, settledAt, amounts,
                   updatedLate, handler, routeLock, outside, tracker, faults>>

\* The client goes away: no release and no submit arrives.
ClientLost(i) ==
    /\ client[i] \in {"releasing", "sent"}
    /\ Fault
    /\ client' = [client EXCEPT ![i] = "done"]
    /\ UNCHANGED <<row, handler, routeLock, outside, tracker>>

-----------------------------------------------------------------------------
\* The origin chain and Relay (external).

\* A deposit into a deposit address needs no client. The request's creation time
\* will be the row's submitted_at.
Deposit(i) ==
    /\ ~sent[i]
    /\ sent' = [sent EXCEPT ![i] = TRUE]
    /\ submittedAt' = [submittedAt EXCEPT ![i] = "open"]
    /\ UNCHANGED <<state, quotedAt, confirmedAt, released, destTx, refundTx, settledAt,
                   amounts, updatedLate, web, relay, hashes, tracker, faults>>

RelaySees(i) ==
    /\ sent[i]
    /\ relay[i] = "waiting"
    /\ relay' = [relay EXCEPT ![i] = "pending"]
    /\ UNCHANGED <<row, web, sent, hashes, tracker, faults>>

\* A failure can still be refunded or filled.
RelayMoves(i) ==
    /\ \/ /\ relay[i] = "pending"
          /\ \E r \in {"failure", "success", "refund"} : relay' = [relay EXCEPT ![i] = r]
       \/ /\ relay[i] = "failure"
          /\ \E r \in {"success", "refund"} : relay' = [relay EXCEPT ![i] = r]
    /\ UNCHANGED <<row, web, sent, hashes, tracker, faults>>

RelayHashes(i) ==
    /\ relay[i] \in {"success", "refund"}
    /\ ~hashes[i]
    /\ hashes' = [hashes EXCEPT ![i] = TRUE]
    /\ UNCHANGED <<row, web, sent, relay, tracker, faults>>

-----------------------------------------------------------------------------
\* Time. A window passes where a query still looks at it.

AgeQuote(i) ==
    /\ state[i] = "quoted" /\ confirmedAt[i] = "null" /\ quotedAt[i] = "new"
    /\ quotedAt' = [quotedAt EXCEPT ![i] = "old"]
    /\ UNCHANGED <<state, confirmedAt, released, submittedAt, destTx, refundTx, settledAt,
                   amounts, updatedLate, web, outside, tracker, faults>>

AgeConfirmation(i) ==
    /\ state[i] = "quoted" /\ confirmedAt[i] \in {"new", "late"}
    /\ confirmedAt' = [confirmedAt EXCEPT ![i] = IF @ = "new" THEN "late" ELSE "old"]
    /\ UNCHANGED <<state, quotedAt, released, submittedAt, destTx, refundTx, settledAt,
                   amounts, updatedLate, web, outside, tracker, faults>>

AgeSubmission(i) ==
    /\ OpenState(i) \/ state[i] = "none"
    /\ submittedAt[i] \in {"new", "open"}
    /\ submittedAt' = [submittedAt EXCEPT ![i] = IF @ = "new" THEN "open" ELSE "old"]
    /\ UNCHANGED <<state, quotedAt, confirmedAt, released, destTx, refundTx, settledAt,
                   amounts, updatedLate, web, outside, tracker, faults>>

-----------------------------------------------------------------------------
\* Tracker.Tick: dropUnsettled, pollOpen, adoptLostSubmits, pruneAbandoned.

\* Mutant: only submitted rows are marked.
MarkUnsettled_Submitted(t) ==
    LET late == {i \in Ids : state[i] = "submitted" /\ submittedAt[i] = "old" /\ ~updatedLate[i]}
    IN /\ pc[t] = "drop"
       /\ updatedLate' = [i \in Ids |-> updatedLate[i] \/ i \in late]
       /\ work' = [work EXCEPT ![t] = late]
       /\ pc' = [pc EXCEPT ![t] = "warn"]
       /\ UNCHANGED <<state, quotedAt, confirmedAt, released, submittedAt, destTx, refundTx,
                      settledAt, amounts, web, outside, polled, answer, found, warning, faults>>

\* Mutant: a row is marked whenever it is late.
MarkUnsettled_EveryTick(t) ==
    LET late == {i \in Ids : OpenState(i) /\ submittedAt[i] = "old"}
    IN /\ pc[t] = "drop"
       /\ updatedLate' = [i \in Ids |-> updatedLate[i] \/ i \in late]
       /\ work' = [work EXCEPT ![t] = late]
       /\ pc' = [pc EXCEPT ![t] = "warn"]
       /\ UNCHANGED <<state, quotedAt, confirmedAt, released, submittedAt, destTx, refundTx,
                      settledAt, amounts, web, outside, polled, answer, found, warning, faults>>

\* dropUnsettled: the UPDATE markUnsettled commits, and returns the rows it marked ...
MarkUnsettled(t) ==
    LET late == {i \in Ids : OpenState(i) /\ submittedAt[i] = "old" /\ ~updatedLate[i]}
    IN /\ pc[t] = "drop"
       /\ updatedLate' = [i \in Ids |-> updatedLate[i] \/ i \in late]
       /\ work' = [work EXCEPT ![t] = late]
       /\ pc' = [pc EXCEPT ![t] = "warn"]
       /\ UNCHANGED <<state, quotedAt, confirmedAt, released, submittedAt, destTx, refundTx,
                      settledAt, amounts, web, outside, polled, answer, found, warning, faults>>

\* ... which are warned of one by one.
WarnUnsettled(t, i) ==
    /\ pc[t] = "warn"
    /\ i \in work[t]
    /\ warning' = [warning EXCEPT ![i] = "written"]
    /\ work' = [work EXCEPT ![t] = @ \ {i}]
    /\ UNCHANGED <<row, web, outside, pc, polled, answer, found, faults>>

\* pollOpen reads the open transfers.
ReadOpen(t) ==
    /\ pc[t] = "warn"
    /\ work[t] = {}
    /\ polled' = [polled EXCEPT ![t] =
                     [i \in Ids |-> IF OpenTransfer(i) THEN state[i] ELSE "none"]]
    /\ pc' = [pc EXCEPT ![t] = "poll"]
    /\ UNCHANGED <<row, web, outside, answer, work, found, faults, warning>>

\* It asks Relay for one of them. The fill of a deposit also needs its settled
\* request: a request that is not settled is a PollError.
AskRelay(t, i) ==
    /\ pc[t] = "poll"
    /\ polled[t][i] # "none" /\ answer[t][i] = NoAnswer
    /\ answer' = [answer EXCEPT ![t][i] = [status |-> relay[i], hashes |-> hashes[i]]]
    /\ UNCHANGED <<row, web, outside, pc, polled, work, found, faults, warning>>

PollDone(t, i) ==
    /\ polled' = [polled EXCEPT ![t][i] = "none"]
    /\ answer' = [answer EXCEPT ![t][i] = NoAnswer]

\* Mutant: the hash is taken from any status.
Step_AnyStatus(s, a) ==
    LET next == Advance(s, a.status)
    IN [next |-> next,
        destTx |-> a.hashes,
        refundTx |-> a.hashes /\ a.status = "refund" /\ next = "refunded"]

\* openTransfer.step: the next state and the hashes an answer stands for.
Step(s, a) ==
    LET next == Advance(s, a.status)
    IN [next |-> next,
        destTx |-> a.hashes /\ a.status = "success" /\ next = "filled",
        refundTx |-> a.hashes /\ a.status = "refund" /\ next = "refunded"]

\* Mutant: no compare-and-swap on the polled state.
Advances_AnyState(t, i) == OpenTransfer(i)

\* advanceTransfer still finds the row in the state that was polled, open and in
\* its window.
Advances(t, i) == state[i] = polled[t][i] /\ OpenTransfer(i)

AdvanceTransfer(t, i) ==
    LET s == Step(polled[t][i], answer[t][i])
        moves == Advances(t, i) /\ (s.next # polled[t][i] \/ s.destTx \/ s.refundTx)
    IN /\ pc[t] = "poll"
       /\ answer[t][i] # NoAnswer
       /\ state' = [state EXCEPT ![i] = IF moves THEN s.next ELSE @]
       /\ destTx' = [destTx EXCEPT ![i] = @ \/ (moves /\ s.destTx)]
       /\ refundTx' = [refundTx EXCEPT ![i] = @ \/ (moves /\ s.refundTx)]
       /\ settledAt' = [settledAt EXCEPT ![i] = @ \/ (moves /\ Settled(s.next))]
       /\ amounts' = [amounts EXCEPT ![i] =
                         IF moves /\ s.destTx /\ i \in DepositIds THEN "final" ELSE @]
       /\ PollDone(t, i)
       /\ UNCHANGED <<quotedAt, confirmedAt, released, submittedAt, updatedLate, web, outside,
                      pc, work, found, faults, warning>>

\* Relay does not answer, or with a status or a request the tracker cannot use.
PollError(t, i) ==
    /\ pc[t] = "poll"
    /\ polled[t][i] # "none"
    /\ Fault
    /\ PollDone(t, i)
    /\ UNCHANGED <<row, web, outside, pc, work, found, warning>>

\* Mutant: adoption ends with InConfirmWindow.
ReadConfirmed_ConfirmWindow(t) ==
    /\ pc[t] = "poll"
    /\ \A i \in Ids : polled[t][i] = "none"
    /\ work' = [work EXCEPT ![t] =
                   {i \in ClientIds : state[i] = "quoted" /\ confirmedAt[i] = "new"}]
    /\ pc' = [pc EXCEPT ![t] = "adopt"]
    /\ UNCHANGED <<row, web, outside, polled, answer, found, faults, warning>>

\* adoptLostSubmits reads the confirmed quotes. It takes all of them:
\* lostSubmitBatch is not modelled.
ReadConfirmed(t) ==
    /\ pc[t] = "poll"
    /\ \A i \in Ids : polled[t][i] = "none"
    /\ work' = [work EXCEPT ![t] =
                   {i \in ClientIds : state[i] = "quoted" /\ confirmedAt[i] \in {"new", "late"}}]
    /\ pc' = [pc EXCEPT ![t] = "adopt"]
    /\ UNCHANGED <<row, web, outside, polled, answer, found, faults, warning>>

\* It adopts a quote whose deposit Relay has seen, if it is still quoted.
AdoptSubmit(t, i) ==
    /\ pc[t] = "adopt"
    /\ i \in work[t]
    /\ LET adopts == relay[i] # "waiting" /\ state[i] = "quoted"
       IN /\ state' = [state EXCEPT ![i] = IF adopts THEN "submitted" ELSE @]
          /\ submittedAt' = [submittedAt EXCEPT ![i] = IF adopts THEN "new" ELSE @]
    /\ work' = [work EXCEPT ![t] = @ \ {i}]
    /\ UNCHANGED <<quotedAt, confirmedAt, released, destTx, refundTx, settledAt, amounts,
                   updatedLate, web, outside, pc, polled, answer, found, faults, warning>>

AdoptError(t, i) ==
    /\ pc[t] = "adopt"
    /\ i \in work[t]
    /\ Fault
    /\ work' = [work EXCEPT ![t] = @ \ {i}]
    /\ UNCHANGED <<row, web, outside, pc, polled, answer, found, warning>>

\* pruneAbandoned: the subselect of its DELETE, then the DELETE itself, which
\* checks each row again.
SelectAbandoned(t) ==
    /\ pc[t] = "adopt"
    /\ work[t] = {}
    /\ work' = [work EXCEPT ![t] = {i \in ClientIds : AbandonedQuote(i)}]
    /\ pc' = [pc EXCEPT ![t] = "prune"]
    /\ UNCHANGED <<row, web, outside, polled, answer, found, faults, warning>>

\* Mutant: the DELETE trusts its subselect.
Prune_Unchecked(t) ==
    /\ pc[t] = "prune"
    /\ state' = [i \in Ids |-> IF i \in work[t] THEN "pruned" ELSE state[i]]
    /\ work' = [work EXCEPT ![t] = {}]
    /\ pc' = [pc EXCEPT ![t] = "drop"]
    /\ UNCHANGED <<quotedAt, confirmedAt, released, submittedAt, destTx, refundTx, settledAt,
                   amounts, updatedLate, web, outside, polled, answer, found, faults, warning>>

Prune(t) ==
    /\ pc[t] = "prune"
    /\ state' = [i \in Ids |-> IF i \in work[t] /\ AbandonedQuote(i) THEN "pruned" ELSE state[i]]
    /\ work' = [work EXCEPT ![t] = {}]
    /\ pc' = [pc EXCEPT ![t] = "drop"]
    /\ UNCHANGED <<quotedAt, confirmedAt, released, submittedAt, destTx, refundTx, settledAt,
                   amounts, updatedLate, web, outside, polled, answer, found, faults, warning>>

\* A query fails, the tick's deadline passes or the process dies: the rest of the
\* tick is dropped, and with it the warnings it had still to write.
TickFails(t) ==
    /\ pc[t] # "drop"
    /\ Fault
    /\ pc' = [pc EXCEPT ![t] = "drop"]
    /\ polled' = [polled EXCEPT ![t] = [i \in Ids |-> "none"]]
    /\ answer' = [answer EXCEPT ![t] = [i \in Ids |-> NoAnswer]]
    /\ work' = [work EXCEPT ![t] = {}]
    /\ warning' = [i \in Ids |-> IF pc[t] = "warn" /\ i \in work[t] THEN "lost" ELSE warning[i]]
    /\ UNCHANGED <<row, web, outside, found>>

\* detect, which runs beside the tick: it reads Relay's requests of the last
\* trackLookback that have an origin deposit ...
DetectRequest(t, i) ==
    /\ found[t][i] = "none"
    /\ relay[i] # "waiting"
    /\ submittedAt[i] = "open"
    /\ found' = [found EXCEPT ![t][i] = relay[i]]
    /\ UNCHANGED <<row, web, outside, pc, polled, answer, work, faults, warning>>

\* ... and inserts what is not there. The updated_at of a row that is inserted
\* after its window passed is beyond the window from the start.
InsertDetected(t, i) ==
    /\ found[t][i] # "none"
    /\ state' = [state EXCEPT ![i] = IF @ = "none" THEN Advance("submitted", found[t][i]) ELSE @]
    /\ updatedLate' = [updatedLate EXCEPT ![i] = @ \/ (state[i] = "none" /\ submittedAt[i] = "old")]
    /\ found' = [found EXCEPT ![t][i] = "none"]
    /\ UNCHANGED <<quotedAt, confirmedAt, released, submittedAt, destTx, refundTx, settledAt,
                   amounts, web, outside, pc, polled, answer, work, faults, warning>>

-----------------------------------------------------------------------------
Client(i) ==
    \/ BridgeQuote(i) \/ InsertQuote(i) \/ PostConfirm(i)
    \/ ConfirmSelect(i) \/ ConfirmLock(i) \/ ConfirmUpdate(i) \/ ConfirmFails(i) \/ ConfirmTimeout(i)
    \/ SendDeposit(i) \/ SendFails(i) \/ BridgeRelease(i) \/ BridgeSubmit(i) \/ ClientLost(i)

Relay(i) == RelaySees(i) \/ RelayMoves(i) \/ RelayHashes(i)

Age(i) == AgeQuote(i) \/ AgeConfirmation(i) \/ AgeSubmission(i)

Poll(t) == \E i \in Ids : AskRelay(t, i) \/ AdvanceTransfer(t, i) \/ PollError(t, i)

Adopt(t) == \E i \in ClientIds : AdoptSubmit(t, i) \/ AdoptError(t, i)

Warn(t) == \E i \in Ids : WarnUnsettled(t, i)

Tick(t) ==
    \/ MarkUnsettled(t) \/ Warn(t) \/ ReadOpen(t) \/ Poll(t) \/ ReadConfirmed(t) \/ Adopt(t)
    \/ SelectAbandoned(t) \/ Prune(t) \/ TickFails(t)

Detect(t, i) == DetectRequest(t, i) \/ InsertDetected(t, i)

Next ==
    \/ \E i \in ClientIds : Client(i)
    \/ \E i \in DepositIds : Deposit(i)
    \/ \E i \in Ids : Relay(i) \/ Age(i)
    \/ \E t \in Trackers : Tick(t) \/ \E i \in DepositIds : Detect(t, i)

Spec == Init /\ [][Next]_vars

\* Run ticks and detects for as long as the engine lives. Nothing is assumed of
\* the client, of Relay or of time.
Fairness ==
    \A t \in Trackers : WF_vars(Tick(t)) /\ \A i \in DepositIds : WF_vars(Detect(t, i))

FairSpec == Spec /\ Fairness

-----------------------------------------------------------------------------
\* Two transfers of one route are never both confirmed and unsent, though quotes
\* do not exclude each other and a confirmation can be late, lost or released:
\* confirmBridgeTransfer looks for a blocker under the route's lock.
OneConfirmed == \A i, j \in InIds : Confirmed(i) /\ Confirmed(j) => i = j

\* The row of a deposit that a client may have sent is never pruned, even if it was
\* abandoned when the DELETE chose its rows.
SentIsKept == \A i \in ClientIds : sent[i] => state[i] \in TransferStates

\* A transfer is recorded as filled or refunded only when that is Relay's final
\* status, has only the hash that belongs to it, and a deposit's fill the amounts of
\* Relay's settled request, whatever was polled before or frozen by detection.
OutcomeIsRelays ==
    \A i \in Ids :
        /\ state[i] = "filled" => relay[i] = "success"
        /\ state[i] = "refunded" => relay[i] = "refund"
        /\ destTx[i] => state[i] = "filled" /\ settledAt[i]
        /\ refundTx[i] => state[i] = "refunded" /\ settledAt[i]
        /\ i \in DepositIds /\ destTx[i] => amounts[i] = "final"

\* A transfer is warned of at most once, by one tracker, however many tick at once
\* and whatever happens to them: markUnsettled returns no row twice.
ToWarn(t) == IF pc[t] = "warn" THEN work[t] ELSE {}
OneWarning ==
    \A t \in Trackers : \A i \in ToWarn(t) :
        warning[i] = "none" /\ \A u \in Trackers : i \in ToWarn(u) => u = t

\* A row only moves forward, and once it was marked unsettled, or inserted too late
\* to be, not at all: an older answer written after a newer one, or after the mark,
\* changes nothing.
Forward(i) ==
    /\ state[i] \in TransferStates /\ state'[i] # state[i] =>
          \/ state'[i] = "pruned" /\ state[i] = "quoted"
          \/ state'[i] \in TransferStates /\ Rank(state'[i]) > Rank(state[i])
    /\ updatedLate[i] => /\ state'[i] = state[i]
                      /\ destTx'[i] = destTx[i] /\ refundTx'[i] = refundTx[i]

StateOnlyAdvances == [][\A i \in Ids : Forward(i)]_vars

-----------------------------------------------------------------------------
\* The inductive invariant of the proofs.

RelayStates == {"waiting", "pending", "failure", "success", "refund"}

RowType ==
    /\ state \in [Ids -> TransferStates \union {"none", "pruned"}]
    /\ quotedAt \in [Ids -> {"new", "old"}]
    /\ confirmedAt \in [Ids -> {"null", "new", "late", "old"}]
    /\ released \in [Ids -> BOOLEAN]
    /\ submittedAt \in [Ids -> {"null", "new", "open", "old"}]
    /\ destTx \in [Ids -> BOOLEAN] /\ refundTx \in [Ids -> BOOLEAN]
    /\ settledAt \in [Ids -> BOOLEAN]
    /\ amounts \in [Ids -> {"quoted", "final"}]
    /\ updatedLate \in [Ids -> BOOLEAN]

WebType ==
    /\ client \in [ClientIds -> {"idle", "quoting", "quoted", "confirming", "confirmed",
                                 "releasing", "sent", "done"}]
    /\ handler \in [ClientIds -> {"none", "select", "lock", "update"}]
    /\ routeLock \in InIds \union {NoId}

OutsideType ==
    /\ sent \in [Ids -> BOOLEAN]
    /\ relay \in [Ids -> RelayStates]
    /\ hashes \in [Ids -> BOOLEAN]

TrackerType ==
    /\ pc \in [Trackers -> {"drop", "warn", "poll", "adopt", "prune"}]
    /\ polled \in [Trackers -> [Ids -> TransferStates \union {"none"}]]
    /\ answer \in [Trackers -> [Ids -> [status : RelayStates, hashes : BOOLEAN] \union {NoAnswer}]]
    /\ work \in [Trackers -> SUBSET Ids]
    /\ found \in [Trackers -> [DepositIds -> RelayStates \union {"none"}]]
    /\ warning \in [Ids -> {"none", "written", "lost"}]

TypeOK == RowType /\ WebType /\ OutsideType /\ TrackerType /\ faults \in 0..MaxFaults

\* What a client knows of its row: nothing is there before its quote is inserted,
\* and from its confirmation on the row is one that pruneAbandoned passes over.
ClientOK(i) ==
    /\ client[i] \in {"idle", "quoting"} => state[i] = "none" /\ confirmedAt[i] = "null"
    /\ sent[i] \/ client[i] \in {"confirmed", "sent"} =>
          state[i] \in TransferStates /\ confirmedAt[i] # "null"

\* What a row says of Relay, and of its window.
RowOK(i) ==
    /\ state[i] = "filled" => relay[i] = "success"
    /\ state[i] = "refunded" => relay[i] = "refund"
    /\ destTx[i] => state[i] = "filled" /\ settledAt[i]
    /\ refundTx[i] => state[i] = "refunded" /\ settledAt[i]
    /\ updatedLate[i] => submittedAt[i] = "old" /\ state[i] \in TransferStates \ {"quoted"}
    /\ i \in DepositIds => /\ submittedAt[i] # "null" => sent[i]
                           /\ destTx[i] => amounts[i] = "final"

\* A final status a tracker remembers is still Relay's.
TrackerOK(t) ==
    /\ \A i \in Ids : answer[t][i].status \in {"success", "refund"} => answer[t][i].status = relay[i]
    /\ \A i \in DepositIds : found[t][i] \in {"success", "refund"} => found[t][i] = relay[i]

\* The rows that are to be warned of are marked, and so are the ones that were.
WarningOK ==
    /\ OneWarning
    /\ \A t \in Trackers : \A i \in ToWarn(t) : updatedLate[i]
    /\ \A i \in Ids : warning[i] # "none" => updatedLate[i]

\* The confirmation that is about to write has the route's lock, and while it has
\* the lock no other transfer of the route is confirmed.
LockOK ==
    /\ \A i \in ClientIds : handler[i] = "lock" => i \in InIds
    /\ \A i \in InIds : handler[i] = "update" => routeLock = i
    /\ \A i \in InIds : routeLock # NoId /\ routeLock # i => ~Confirmed(i)
    /\ OneConfirmed

IInv ==
    /\ TypeOK
    /\ LockOK
    /\ \A i \in ClientIds : ClientOK(i)
    /\ \A i \in Ids : RowOK(i)
    /\ \A t \in Trackers : TrackerOK(t)
    /\ WarningOK

-----------------------------------------------------------------------------
\* Once Relay has the hash that ends a transfer, the row gets it, unless a window
\* passes first: lost submits are adopted, deposits are detected, failed ticks and
\* unanswered polls are repeated.
OutcomeIsRecorded ==
    \A i \in Ids : hashes[i] ~> \/ destTx[i] \/ refundTx[i]
                                \/ confirmedAt[i] = "old" \/ submittedAt[i] = "old"

\* A transfer that was recorded within its window and is open when the window ends
\* is warned of, unless the tick that marked it fails before it writes the warning.
\* (One that is recorded later is not: markUnsettled passes over it.)
UnsettledIsReported ==
    \A i \in Ids : (OpenState(i) /\ submittedAt[i] = "old" /\ ~updatedLate[i]) ~> warning[i] # "none"
=============================================================================
