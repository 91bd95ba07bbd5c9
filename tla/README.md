# TLA+ models and proofs for loyal-yield-routing

This directory models the part of the repository where money moves under
concurrency: how a signed Solana transaction ("wire") is landed, how the
Backyard worker journals an operation around it, how withdrawal costs are
reserved and settled, how bridge transfers are followed, how an operator stops a
money path, and how engine processes run and stop; and three parts beside it
where messages, answers and timers race: the chat alert relay, the web app's
Solana reads, and the realtime stream that keeps the Earn page current. TLC checks every module on
small instances; TLAPS proves the main safety properties for every value of the
constants. `PROJECT.json` lists components, runs, mutants, hazards and theorems,
and maps every definition to the source lines it stands for.

## 1. Inventory of the system

The repository is a monorepo. Go workers (`go/workers`) run against PostgreSQL
and Solana RPC nodes; web handlers (`internal/webapp`) serve the clients under
`web/`; Rust crates hold on-chain programs and realtime services.

| Part | State | Operations | Talks to |
|---|---|---|---|
| `internal/chain` Land/Observe | none of its own; the caller's row | read height, read status, record, send, wait | RPC nodes |
| `internal/backyard` worker | `multiply_operations`, `backyard_manual_recovery_latches` | Tick: decide, build, persist, land, reconcile, recover, latch | chain, release controls, cost store |
| `internal/backyard` withdrawal cost | `backyard_withdrawal_cost_operations` | reserve, bind, release, settle, sweep | worker, consents, receipts |
| `internal/earnmax` | consents, claim attempts, deposit quotes | consent, admit, reserve and reconcile attempts, quote | web handlers, cost store |
| `internal/releasecontrol` | `vault_release_controls` and history | Check, Set, Show | every admitting transaction, operators |
| `internal/bridge` and `webapp/funding_bridge*.go` | `bridge_transfers` | quote, confirm, release, submit; poll, adopt, detect, prune, report | Relay, the client |
| `internal/engine` | family advisory locks, lanes | HoldFamily, Run | every worker process |
| `internal/autodeposit`, `fleet`, `fleetexec`, `multiply`, `observer` | their own journals, leases and cursors | plan, execute, recover, observe | chain, engine |
| `web/observability/telegram-relay` | windows, idempotency cache, daily tally, snapshot file | handle, sweep, recap, export and import state | ClickStack, chats |
| `web/apps/web/src/lib/solana/rpc-rate-limit.ts` | per endpoint: queue, window, cooldown, probe; flights and recent answers | fetch, pump, retry | RPC nodes |
| `web/.../smart-accounts/server/read-model.ts` | completed results, loads in flight, load order, cooldown | read, forced read | the RPC queue |
| `crates/loyal-yield-realtime` | event table, listener cursor, table of clients | admit, replay, broadcast, expire | PostgreSQL, pages |
| `web/.../earn-realtime`, `realtime-sync` | cursor store, batcher, coordinator, lifecycle | connect, receive, flush, read, acknowledge, resync | realtime service |
| `webapp`, `admin`, `stats`, other clients and crates | requests and read models | - | - |

The behaviours that are hard to test, and which the models therefore contain:

- a process that lost its database session, and with it the writer lock, keeps
  simulating, polling and sending (there is no fencing token);
- RPC nodes behind a load balancer lag, forks are abandoned, and an "absent"
  answer is not proof of absence;
- a wire that was only simulated may have been forwarded, so it has left the
  process before anything was sent;
- every multi-transaction sequence (fail then release, settle then reconcile,
  intent then send) can be cut between its parts;
- a client vanishes after its deposit, gives up on a confirmation that still
  commits, or gets an error from a wallet that did broadcast;
- two trackers overlap, because the family lock is not on the connections they
  write with;
- an operator's hold races with admissions that are already in a transaction;
- integer cost shares have to add up, stay proportional and stay below caps;
- JavaScript handlers interleave at every `await`: a send, a lock, a read or a
  body that settles late meets state that has moved on;
- the realtime handler awaits the database between registering a client, reading
  the high-water mark, opening the live stream and replaying, and the listener
  broadcasts in between;
- a page unmounts, reloads or is denied its storage while reads and batches are
  under way.

## 2. Modules

| Module | Models | Extends / uses |
|---|---|---|
| `SolanaChain` | cluster and RPC nodes (external), and the two answers `client.go` reads | - |
| `Landing` | `chain.Land`, `chain.Observe` | `SolanaChain`, refines `WireFate` |
| `WireFate` | abstract specification: one permanent fate per wire, every answer is it | - |
| `Backyard` | one vault: journal, reservations, latch, worker and sweep of every process | built on the interface of `WireFate` |
| `WithdrawalCost` | allocation and settlement amounts of one reservation | community `SequencesExt` |
| `Bridge` | bridge transfers: handlers, client, tracker; Relay and time external | - |
| `ReleaseControl` | one control row, its locks, admitting transactions and operators | - |
| `Engine` | family lock, `engine.Run` and its lanes | - |
| `AlertRelay` | the relay process, its snapshot, deliveries and sweeps | - |
| `RpcQueue` | the rate-limited, shared, retried fetch of one endpoint | - |
| `ReadModel` | `loadSmartAccountReadModel` for one key | `RpcQueue` |
| `RealtimeServer` | event table, listener, retention, `GET /events` for one client | - |
| `EarnRealtime` | the page: lifecycle, cursor store, batcher, coordinator, mounts | `RealtimeServer` |
| `MC*` | instances for TLC | - |
| `LandingProofs`, `BackyardBuild`, `BackyardProofs`, `BridgeClient`, `BridgeProofs`, `ReleaseControlProofs`, `EngineProofs`, `ReadModelProofs` | theorems | `TLAPS` |

How they compose: `Landing` is shown to implement `WireFate`, by TLC on an
instance and by proof in general. `Backyard` uses exactly that interface: a wire
is open, landed, failed or expired for ever, and `Land` returns what it is.
`Backyard` adds finality, which `reconcile` and settlement wait for. The step
`SettleCost` of `Backyard` succeeds whenever there is a finalized receipt; that
an amount can always be divided is `EveryCostSettles` of `WithdrawalCost`.
`RecordDecision` of `Backyard` is one of the admitting transactions of
`ReleaseControl`. Backyard's writer does not use `Engine`'s `HoldFamily` but
takes the lock on its only session, which is why the two differ in what a lost
lock means. `ReadModel` runs on `RpcQueue`: a load is a call of its `Fetch`, and one
clock moves both. `EarnRealtime` runs on `RealtimeServer`: the page registers a
client, and its stream is the service's channel.

### Landing
`phase` is the place in the loop of `Land`; each RPC call is a step and may be
answered by another node. `Cut` is every way a call ends without an outcome.
`SolanaChain` has heights and slots apart (slots are skipped), forks of
unconfirmed blocks, and one replay mark per node. External assumption: a node
whose context slot has reached a finalized slot has replayed the finalized chain
up to it. The comment on `Observe` relies on the same.

### Backyard
One variable per column that control depends on: `status`, `wire`, `intent`,
`reason` of the row, `cost` and `costWire` of the reservation, the `latch`. A
process is `pc`/`cur`/`mem`/`seen` (the tick) and `spc`/`scur` (the sweep); `mem`
is `operation.Status` as the Go code holds it, `seen` the outcome that `Land`
returned. A label names the next statement or RPC call. Statements need
`lock = p`; RPC steps do not. `kind` says whether the operation is a cost-bearing
funding sale, other capital movement, or neither.

Abstractions: what `Decide` picks is a choice; build checks pass or fail; the
statuses `built`, `simulated`, `reconciling` and the cost state `unknown` are
read by queries but never written by the current code, so they do not occur;
branches for a corrupt journal (undecodable effects, incomplete wire) are not
reachable in the model; a signing error after the reservation ends the process
and is a `Crash`; `finalization_transaction_error` needs a confirmed block to be
rolled back, which `SolanaChain` excludes. A row in `manual_recovery` stays
there: resolving it is an operator's work outside the code.
`FailedWireIsDead` is about wires the journal or the reservation holds. A wire of
an operation without reservation that was simulated but never persisted is
outside it, and nothing is claimed of it: no journal knows its signature.

### WithdrawalCost
`AllocateWithdrawalCost` and `allocateCappedWithdrawalComponent` as functions
over holders, the "other holders" last. Amounts are `big.Int` products in the
code, so width plays no role. The present preparation keeps the incremental part
at zero; the model checks the general domain that the functions and their tests
accept.

### Bridge
A time stamp is the window it is in (`new`, `late`, `old` and so on); windows
pass only where a query still looks. `submit` is modelled as one step because its
UPDATE repeats the state it read. The poll reads all open rows, asks Relay for
each on its own and writes each on its own. `dropUnsettled` is two steps: the UPDATE that
marks the late rows by their `updated_at`, and one warning per marked row; a tick that
fails in between loses the rest (`warning` is then `lost`), and a row whose detection
comes after its window has a late `updated_at` from the start and is never marked.
`docs/workers/facts.md` line 65 says that a row still open after seven days "gets one"
warning: `OneWarning` shows that it never gets two, and `UnsettledIsReported` names the two
cases in which it gets none. `lostSubmitBatch` and the read-only
scan for unmoved balances are not modelled. That a late submit or adoption can
bring a second transfer in flight is accepted by
`docs/plans/2026-11-05-evm-bridge.md`; `OneConfirmed` is about confirmed, unsent
transfers.

### ReleaseControl
A transaction is its statements. `sharing` and `writing` are the row locks that
`FOR SHARE` and `UPDATE` take; an `INSERT ... ON CONFLICT DO NOTHING` waits for an
uncommitted insert in the same way. The last row of `history` is the control.

### Engine
`lane` follows the goroutine of `Run` through return, check, report and cancel,
because the order of these four between lanes decides what `Run` returns. The
connection of the lock closes when the context ends, possibly before the lanes
are done; the model keeps that overlap. `cmd/loyal-engine/retail.go` and
`cmd/loyal-observer/main.go` wire the two in the same way.

### AlertRelay
One process. `handler` and `sweep` are the requests and the firings of the timer
that are under way; a step runs from one `await` to the next. Microtasks run
before the clock, a socket or the timer is looked at again (`Ready`), which is how
the code's handlers can rely on state between two awaits. `windows` with `order` is the
Map of open windows, `remembered` the idempotency cache, both bounded by
`MaxCacheEntries`. `announced`, `owed` and `recapped` are history: what the chats were
told, which events a recap still owes, which periods were posted. A send that
reached only one of two chats is a failed one, as in the code. SIGTERM drains and
persists, a crash leaves the last snapshot, or a torn one that the next process cannot
read and starts without.

`serializeWindow` drops the `deferred` flag. A window that a second restart restores
inside the grace period is therefore quiet although nobody was told; the README of
the relay says that a deploy "changes nothing an operator can see". The model does
what the code does and marks such a window `forgotten`; `SuppressedWasDelivered`
names this as its one exception and does not hold without it.

### RpcQueue and ReadModel
Times are ages and times left, so the clock needs no bound. The queue's operators
map an endpoint state to the next, like the functions they stand for; every action
that changes the endpoint ends in `PumpEndpointQueue`, as in the code. A call is
`queued`, on the wire (`sent`, then `read` once the server has read its accounts),
in its `body`, in `backoff`, or `sharing` the flight of an equal request. `chain` is
the version of the accounts, so that "older" has a meaning. `ReadModel` adds tokens
(`latest`, `nextOrder`), the completed result and its own cooldown, which a 429 starts and
any failure that says "max usage reached" may start. A forced read goes
past the completed result, but its requests still meet the queue's cache and
flights; `PublishedInOrder` is therefore about the order of loads.

### RealtimeServer and EarnRealtime
The table hands out a number when a transaction begins and shows the row when it
commits; `MaxOpen` bounds how many smaller numbers may still be open when one commits.
`link` is one client: its handler's place, the live threshold `least`
(`i64::MAX` until stored), and its channel as what was `sent` and how much was
`taken`. Listener and handler interleave at every query. In the page an action is one
task with the promise reactions it sets off; `Become` is what follows every change of
a session: a batch that has been read is acknowledged, a stream that is over is
followed by the next connection. Sessions are numbered because promises of an
unmounted one settle later. `scoped` says that the coordinator still has the scope of the
last session: a hook that is only disabled leaves it, so that its late reads are committed
and a new session of the same identity takes them over, while a change of identity or a
reload drops them. `reconcileRelated`, which runs beside the reads of a batch, may fail it
(`RelatedFails`). The page is one whose policy is loaded and whose resources are
registered; before that a read resolves with nothing to show, and the code reads again
when the policy arrives. What a resource shows is the set of events its reads
reflected; a read may reflect the state at its start or at its end. A batch that
still waits for its admission when its page unmounts can afterwards only invalidate
resources of the next page, which is a `Refresh`.

## 3. Runs

| Run | Instance | Shows |
|---|---|---|
| `landing` | 2 landers, 2 nodes, height 3, expiry 2, 1 fork, 1 cut | expired wires never land, answers stay true, `Landing` implements `WireFate`, every `Land` decides |
| `backyard_safety` | 2 processes, 2 operations, 2 faults | journal, cost and latch agree with the chain |
| `backyard_live` | 1 process, 1 operation, 2 faults | every operation ends, every reservation closes |
| `bridge_safety` | 2 incoming transfers or 1 deposit, 2 trackers, 2 faults | one confirmed transfer per route, kept rows, true outcomes with final amounts, at most one warning, state only advances |
| `bridge_live` | an incoming, an outgoing transfer or a deposit, 1 tracker, 1 fault | an outcome is recorded inside the windows, what leaves them open is warned of unless the marking tick failed |
| `release_control` | 1 admitter, 2 operators, 2 owners, 2 amounts, 3 versions | a hold is a barrier, changes are informed, admissions respect allowlist and cap |
| `withdrawal_cost` | 3 receipts of 1..3 LP, others 0, 1 or 4 LP, prepared up to 5, actual up to 7 | shares are proportional; every cost settles, exactly and within its reservation |
| `engine` | 2 processes, 2 lanes, 2 faults | `Run` never returns nil; a lost lock or a stopped lane ends the process |
| `alert_relay` | 2 requests, 2 sweeps, 2 signatures, room for 1 window, 2 faults | nothing silenced untold, posted twice or lost from a recap; held alerts are released, requests answered |
| `read_model` | 2 callers, 2 loads, 1 dispatch per window, 2 attempts | window and probe are kept, answers never go back, forced loads win, every read settles |
| `earn_realtime` | 3 events, replay limit 1, channel of 2, 2 expiries, 1 fault, 2 mounts, 1 refresh | no row twice, nothing handed is lost, only the session's own batch moves the cursor, a page is admitted |
| `earn_gap` | 2 events, 2 resources, no fault | **violated**: the stream is not gap-free (section 3.2) |

### 3.1 Bounds

Why the bounds are enough for the cases that matter: two processes are one that
lost its session and its successor; two operations are one that fails and the
next that plans on it; two faults are a lost session and a crash of the
successor. Height 3 with expiry 2 has blocks before, at and beyond expiry, and
four slots for three heights leave one to be skipped. Two trackers are the overlap
after a lost lock. Three receipts with unequal LP and an amount that exceeds the
reservation reach several rounds of the capped hand-out. In `alert_relay` the second
delivery overlaps the first, may grow it past the escalation threshold, or evicts
its window; a period ends within the clock. In `read_model` one dispatch per window
makes every second request wait, and two attempts reach both the retry and the
last failure. In `earn_realtime` a replay of two rows exceeds the limit, two rows and a
resync exceed the channel, the third live row overruns it, and two expiries remove both
row 0, whose cursor the tab may hold, and the row after it, which is what makes a cursor
expired. Its state constraint `FewDisturbances` allows a fault, a refresh and two mounts
together up to three in all, and a single mount once all three rows are committed.

`bridge_safety` and `bridge_live` use the state constraint `Transfers` of `MCBridge`:
several transfers may run together until a tracker starts a tick or Relay sees a
deposit, and one alone from then on. Confirmations race only before that, and
trackers treat rows one by one, so transfers interact only at their confirmation.
In `bridge_live` the constraint leaves the behaviours in which one of the three kinds
of transfer runs.

Symmetry is used for processes (`backyard_safety`), incoming transfers, trackers,
operators and owners, never in a run with a liveness property.

Deadlock is not checked where the system may stop: when all bounds of a one-shot
protocol are used up (`landing`, `release_control`, `withdrawal_cost`,
`earn_realtime`), and in `engine`, where a process may stay down.

### 3.2 What `earn_gap` found

`docs/plans/realtime-web-mobile-readiness-verifier.md` line 138 requires that "valid
cursors replay every retained matching row, then continue live", and
`web/docs/solana/frontend-realtime-sync-verifier.md` line 12 asks for a "gap-free SSE
lifecycle". `crates/loyal-yield-realtime/src/main.rs` stores the live threshold (605)
before it queries and enqueues the replay (607-613). TLC's behaviour: a page holds
cursor 0; row 1 is committed; the handler reads high-water mark 1; row 2 is committed;
the threshold is stored; the listener puts row 2 into the channel; the replay puts
row 1 behind it. The page takes row 2, drops row 1 because its id is lower
(`stream.ts` 249-254), and acknowledges 2: what row 1 touched is not read. The model has three more ways to the
same end: a row broadcast between the high-water query and the threshold (skipped
live, and above what is replayed), a row that commits after a higher id was broadcast
(with `MaxOpen` above 1), and retention between the check of the oldest id and the
replay.

### 3.3 Mutants

Each property has a mutant, an operator with the suffix of the bug it plants
(`Classify_AnyNode`, `ConfirmLock_Unlocked`, ...), defined before the definition
it would replace. No specification uses it.

### 3.4 Fairness

- `Landing`: blocks are produced, confirmed and finalized, nodes catch up, a
  running call takes its next step (RPC clients have timeouts, the timer fires).
- `Backyard`: blockhashes expire and blocks finalize; a process takes its next
  step; one of the waiting processes gets a free lock. Strong fairness for
  reading an outcome that is there: a node that does not know it yet is asked
  again every second, and nodes catch up, which is `EventuallyDecided`. Strong
  fairness for the sweep's statements: it runs at the start of every process and
  every ten seconds, next to a worker whose errors may end the process. Faults
  are bounded and not fair.
- `Bridge`: ticks and detection go on. Nothing is assumed of client, Relay or
  time, so `OutcomeIsRecorded` has the passing of a window as an alternative.
- `AlertRelay`: every await ends (sends have a timeout), the timer keeps firing,
  time goes on, the platform restarts an ended process. Strong fairness, because
  microtasks disable the event loop's other work again and again without
  starving it.
- `ReadModel`: a fetch settles, timers fire, promises run on, the clock goes on.
- `EarnRealtime`: the tasks of service and browser run, a read is answered or
  fails, the batcher's timer fires. Writers, faults, mounts and unmounts are not
  fair.
- `Engine`: goroutines are scheduled, lanes return once their context ends, a
  closed connection is noticed.

## 4. Proofs

All proofs are checked by TLAPS without assumptions beyond the named `ASSUME`s of
the modules (`ChainAssumption`, `LandingAssumption`, `BackyardAssumption`,
`BridgeAssumption`, `ReleaseControlAssumption`, `EngineAssumption`, `QueueAssumption`,
`ReadModelAssumption`): finite bounds are naturals, "no
process" is no process, and so on. The sets of processes, nodes, operations,
lanes and owners are arbitrary.

- **`LandingProofs`**. `IInv` adds to the properties that the marks of the chain
  are ordered, slots grow with heights, a height that was read stays finalized,
  and an expiry was concluded under a finalized block beyond it. The heart is
  `ReadStatus`: a node at or beyond the finalized slot of the height that was read
  has replayed every block that could hold the wire. `Refinement` maps the chain
  to a fate and shows every step to be a step of `WireFate` or a stutter.
- **`BackyardProofs`** (land, reconcile, close, sweep, and the theorems) on
  `BackyardBuild` (state predicates that do not change when their variables do not,
  session steps, and decide, build, recover). `IInv` has three parts: `OpOK` relates the row, the reservation and
  the wire's fate of every operation; `ProcOK` is what a process knows with or
  without its session, and hence only facts that no other process can undo (a
  journaled wire stays journaled, a fate stays); `HolderOK` is what only the holder
  of the lock knows (its memory equals the row). The split is the point: a
  process that lost its session keeps `ProcOK`, and that is enough for its
  remaining RPC steps to be harmless.
- **`BridgeProofs`** (tracker, and the theorems) on `BridgeClient` (clients, handlers,
  Relay, time). `IInv` says, beside types: the handler that is about to confirm
  has the route's lock, and while one has it no other transfer of the route is
  confirmed; from a client's confirmation on its row is one `pruneAbandoned` passes
  over; a final status that a tracker remembers is still Relay's, since final
  statuses stay, so writing it late writes the truth; a row that is to be warned of
  is marked, so no other tick selects it. The runs follow one transfer at a time past
  its confirmation (constraint `Transfers`, section 3.1); the theorems have no such
  constraint, and any number of trackers.
- **`ReleaseControlProofs`**. A checked transaction shares the row and its version
  is the current one; an operator that wrote has the row alone. From this follow
  the barrier, the limits and informed changes.
- **`EngineProofs`**. A lane that passed its check has an error or its context had
  ended; a lane cancels others only after an error is in the channel or the
  context had ended. Hence `Run` never returns nil.

- **`ReadModelProofs`**. `LoadInv`: the latest token was issued after everything that is
  published, and a load that can still settle has a token. Steps of the queue leave
  the read model's state alone, so the theorem holds whatever the RPC layer does.

`RecordedBeforeSent`, `SettledIsBooked`, `HolderAgrees`, `TypeCorrect` and `RunJoins` state
properties that no run checks any more: the proof covers every instance.

Model-checked only: liveness (under fairness, out of reach of the prover),
`WithdrawalCost` (sums over holders need induction over data), and the safety of
`AlertRelay`, `RpcQueue`, `RealtimeServer` and `EarnRealtime`.

## 5. Not modelled, and the plan

The mapped definitions stand for about 5,100 lines. That is some 29% of the files
they are in and a very small part of the whole repository, most of which is
TypeScript: user interfaces, mobile and extension shells, SDKs, generated clients,
codecs, tests and scripts. Those have no protocol of their own to check; a model of
them would be a transliteration. Also not modelled: transaction builders and codecs
(byte-level data), the decision policy (arithmetic over market data), on-chain
programs. Reasons per component are in `PROJECT.json`.

Left out of modelled components: keyless batches of the RPC queue; the mutation
reconciliation registry and `waitForEarnRealtimeRecovery` of the Earn page; claims and
matching of the realtime service (every row matches); `lostSubmitBatch` of the tracker;
consent budgets of withdrawal costs.

Known behaviours of the code that no property claims anything about:

- two overlapping sweeps of the relay can post the restart recap twice, and a held
  window can be evicted before it is told of;
- the relay's restart forgets which windows were held (section 2, AlertRelay);
- a forced read can still be served from the RPC queue's one-second cache, and the
  read model's own cooldown does not start on the queue's `SolanaRpcRateLimitError`;
- the RPC queue serves priorities strictly, so a steady stream of urgent requests
  starves the others;
- a reconciliation of the Earn page that failed holds its batches back until the
  next connection without cursor, and a batch acknowledged meanwhile leaves a cursor;
- with more than 32 confirmed quotes in two hours the tracker never adopts the
  oldest lost submit;
- a capital-moving row in manual recovery ends every worker that wants to decide,
  until an operator resolves the row by hand;
- `Set` of a release control waits for every `FOR SHARE` holder; PostgreSQL's lock
  queue is not modelled and no fairness of it is assumed.

Plan, in order:

1. `WithdrawalConsent`: consents and their generations, the cost budget that
   concurrent reservations share (`withdrawalCostLimits`, the generation lock), and
   claim attempts with the sweep's other half (`PendingAttempts`, `Reconcile`).
2. The mutation reconciliation registry as a part of `EarnRealtime`.
3. `Autodeposit`: claims, attempts, and their reconciliation, on `WireFate`.
4. `LookupTables` and `FleetJournal` from `fleetexec`: leases, activation,
   retirement; waves and cross-mint recovery.
5. `Multiply` and the observer's stream cursors.
6. An abstract specification of an operation (planned, in flight, done exactly
   once) that `Backyard` implements.
7. Proofs: safety of `AlertRelay` and of `EarnRealtime`.
8. `lostSubmitBatch` as a parameter of `Bridge`, to state when adoption starves.
