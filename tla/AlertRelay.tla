----------------------------- MODULE AlertRelay -----------------------------
(***************************************************************************)
(* The chat alert relay (web/observability/telegram-relay).  ClickStack    *)
(* posts deliveries; the relay announces the first of a signature, holds   *)
(* the rest quiet in a window, counts them for a daily recap, and keeps a  *)
(* snapshot for the next process.  One JavaScript process: handlers and    *)
(* overlapping sweeps interleave only where they await a send or a lock.   *)
(***************************************************************************)
EXTENDS Integers, Sequences, FiniteSets

CONSTANTS
    Messages,          \* deliveries ClickStack may make: [idem, key, eval, events, ok]
    Unparsed,          \* keys of deliveries without a readable row block
    Handlers, Sweeps,  \* concurrent requests; overlapping firings of the timer
    Configs,           \* settings of the process: [stateFile, grace, recap]
    Day, Cooldown, IdempotencyTtl, MaxCacheEntries, Multiplier, MaxFlushAttempts,
    NoWindow, NoRecap, NoState,
    MaxNow, MaxReceived, MaxFaults  \* bounds: the clock, deliveries, failed sends and lost processes

Keys == {m.key : m \in Messages}
Idems == {m.idem : m \in Messages}
Evals == {m.eval : m \in Messages}
Actors == Handlers \union Sweeps
MaxEscalations == 2

ASSUME RelayAssumption ==
    /\ \A c \in Configs : c.grace \in Nat
    /\ NoWindow \notin [key : Keys]
    /\ Handlers \intersect Sweeps = {}
    /\ {Day, Cooldown, IdempotencyTtl, MaxCacheEntries, MaxFlushAttempts} \subseteq Nat \ {0}
    /\ {Multiplier, MaxNow, MaxReceived, MaxFaults} \subseteq Nat

VARIABLES
    now, config,
    up,            \* "up", "stopping" (SIGTERM), "down"
    windows,       \* per key the open window, or NoWindow
    order,         \* the keys of the open windows in the order of the Map
    remembered,    \* ExpiringCache of idempotency keys, oldest first: [key, expiresAt]
    eventLocks, idempotencyLocks,   \* per key who holds (head) and who waits
    handler, sweep,
    relay,         \* the other fields of AlertRelay
    disk,          \* STATE_FILE, NoState when missing or unreadable
    announced,     \* history: <<key, openedAt>> of windows a chat message told of
    owed,          \* history: events acknowledged and not yet in a finished recap
    recapped,      \* history: periods whose recap this process posted, in order
    received, faults

vars == <<now, config, up, windows, order, remembered, eventLocks, idempotencyLocks,
          handler, sweep, relay, disk, announced, owed, recapped, received, faults>>

IdleHandler == [pc |-> "idle"]
IdleSweep == [pc |-> "idle"]
EmptyTally == [events |-> 0, listed |-> FALSE]

Open(ws) == {k \in Keys : ws[k] # NoWindow}

-----------------------------------------------------------------------------
\* Pure parts.

\* The next boundary strictly after `from` (the offset of the day is 0).
NextRecapTime(from) == (from \div Day + 1) * Day

WindowExpiry(at, recapAt) ==
    LET floor == at + Cooldown IN
    IF recapAt >= floor THEN recapAt
    ELSE recapAt + ((floor - recapAt + Day - 1) \div Day) * Day

OpenWindow(m, at, recapAt) ==
    [openedAt |-> at,
     expiresAt |-> WindowExpiry(at, recapAt),
     counts |-> [e \in Evals |-> IF e = m.eval THEN m.events ELSE 0],
     opening |-> m.events,
     suppressed |-> FALSE,
     escalations |-> 0,
     deferred |-> FALSE,
     forgotten |-> FALSE]

\* record: one evaluation counts once; if its snapshot grows, the increase is added.
Added(w, m) == IF m.events > w.counts[m.eval] THEN m.events - w.counts[m.eval] ELSE 0

Accumulate(w, m) ==
    [w EXCEPT !.suppressed = TRUE, !.counts[m.eval] = @ + Added(w, m)]

ShouldEscalate(w) ==
    /\ Multiplier > 1
    /\ w.escalations < MaxEscalations
    /\ \E e \in Evals : w.counts[e] >= w.opening * Multiplier ^ (w.escalations + 1)

CountDelivery(tally, m, added) ==
    [events |-> tally.events + added,
     listed |-> tally.listed \/ (added > 0 /\ m.key \notin Unparsed)]

\* The windows trimWindows deletes: expired ones that held nothing back, then
\* any, each time the oldest first.
Trimmed(ws, line, at) ==
    LET idle(k) == ws[k].expiresAt <= at /\ ~ws[k].suppressed
        victims == SelectSeq(line, idle) \o SelectSeq(line, LAMBDA k : ~idle(k))
    IN {victims[i] : i \in 1..(Len(line) - MaxCacheEntries)}

\* ExpiringCache.
Live(cache, at) == SelectSeq(cache, LAMBDA e : e.expiresAt > at)
Cached(cache, k, at) == \E i \in DOMAIN cache : cache[i].key = k /\ cache[i].expiresAt > at
Remember(cache, k, at) ==
    LET has == \E i \in DOMAIN cache : cache[i].key = k
        swept == IF ~has /\ Len(cache) >= MaxCacheEntries THEN Live(cache, at) ELSE cache
        room == IF ~has /\ Len(swept) >= MaxCacheEntries THEN Tail(swept) ELSE swept
    IN Append(SelectSeq(room, LAMBDA e : e.key # k), [key |-> k, expiresAt |-> at + IdempotencyTtl])

InRestartGrace(at) == at < relay.startedAt + config.grace

-----------------------------------------------------------------------------
\* exportState and importState.

ExportState(r) ==
    [windows |-> [k \in Keys |-> IF windows[k] # NoWindow /\ windows[k].expiresAt > now
                                 THEN windows[k] ELSE NoWindow],
     order |-> order,
     daily |-> r.daily, nextRecapAt |-> r.nextRecapAt, pendingRecap |-> r.pendingRecap]

\* A write that fails is logged: the process goes on as if it had not swept yet.
PersistState(r) == disk' = IF config.stateFile THEN ExportState(r) ELSE disk

\* The fields the constructor gives a process that starts now.
FreshRelay ==
    [startedAt |-> now, restartRecapDone |-> config.grace = 0, daily |-> EmptyTally,
     nextRecapAt |-> NextRecapTime(now), recapAttempts |-> 0, recapInFlight |-> FALSE,
     pendingRecap |-> NoRecap]

\* serializeWindow does not write the deferred flag; deserializeWindow clears it
\* (forgotten is history).
RestoredWindow(k) ==
    IF disk # NoState /\ disk.windows[k] # NoWindow /\ disk.windows[k].expiresAt > now
    THEN [disk.windows[k] EXCEPT !.deferred = FALSE,
                                 !.forgotten = @ \/ disk.windows[k].deferred]
    ELSE NoWindow

ImportState ==
    LET daily == disk # NoState /\ now - disk.nextRecapAt < Day
        late == disk # NoState /\ disk.pendingRecap # NoRecap /\ now - disk.pendingRecap.until < Day
    IN [FreshRelay EXCEPT
          !.daily = IF daily THEN disk.daily ELSE @,
          !.nextRecapAt = IF daily THEN disk.nextRecapAt ELSE @,
          !.pendingRecap = IF late THEN disk.pendingRecap ELSE @]

-----------------------------------------------------------------------------
\* withLock: the head of a queue holds the lock.  A handler that may go on, and
\* the loop of a sweep, are microtasks: they run before the clock, a socket or
\* the timer is looked at again.

Holds(locks, k, a) == locks[k] # <<>> /\ Head(locks[k]) = a

Ready ==
    \/ \E h \in Handlers : \/ handler[h].pc = "enter" /\ Holds(idempotencyLocks, handler[h].msg.idem, h)
                           \/ handler[h].pc = "decide" /\ Holds(eventLocks, handler[h].msg.key, h)
    \/ \E s \in Sweeps : \/ sweep[s].pc = "close"
                         \/ sweep[s].pc = "locked" /\ Holds(eventLocks, sweep[s].key, s)

Fault(failed) == IF failed THEN faults < MaxFaults /\ faults' = faults + 1 ELSE UNCHANGED faults

\* The sender's promise settles: a send that timed out, or reached only one of
\* the two chats, is a failed one.
Settled(ok) == ~Ready /\ Fault(~ok)

-----------------------------------------------------------------------------
\* handle.

Receive(h, m) ==
    /\ up = "up" /\ ~Ready
    /\ handler[h].pc = "idle"
    /\ received < MaxReceived
    /\ received' = received + 1
    /\ idempotencyLocks' = [idempotencyLocks EXCEPT ![m.idem] = Append(@, h)]
    /\ handler' = [handler EXCEPT ![h] = [pc |-> "enter", msg |-> m]]
    /\ UNCHANGED <<now, config, up, windows, order, remembered, eventLocks, sweep, relay, disk,
                   announced, owed, recapped, faults>>

\* The handler returns or throws: both finally blocks release.
Answer(h) ==
    LET m == handler[h].msg IN
    /\ handler' = [handler EXCEPT ![h] = IdleHandler]
    /\ idempotencyLocks' = [idempotencyLocks EXCEPT ![m.idem] = Tail(@)]
    /\ eventLocks' = [eventLocks EXCEPT ![m.key] = IF Holds(eventLocks, m.key, h) THEN Tail(@) ELSE @]

Enter(h) ==
    LET m == handler[h].msg IN
    /\ handler[h].pc = "enter"
    /\ Holds(idempotencyLocks, m.idem, h)
    /\ \/ /\ Cached(remembered, m.idem, now) \/ m.ok
          /\ remembered' = IF Cached(remembered, m.idem, now) THEN remembered
                           ELSE Remember(remembered, m.idem, now)
          /\ Answer(h)
       \/ /\ ~Cached(remembered, m.idem, now) /\ ~m.ok
          /\ handler' = [handler EXCEPT ![h] = [pc |-> "decide", msg |-> m, at |-> now]]
          /\ eventLocks' = [eventLocks EXCEPT ![m.key] = Append(@, h)]
          /\ UNCHANGED <<remembered, idempotencyLocks>>
    /\ UNCHANGED <<now, config, up, windows, order, sweep, relay, disk, announced, owed, recapped,
                   received, faults>>

\* windows.set, countDelivery, trimWindows and rememberIdempotencyKey of a new window.
Register(h, w) ==
    LET m == handler[h].msg
        at == handler[h].at
        ws == [windows EXCEPT ![m.key] = w]
        line == Append(SelectSeq(order, LAMBDA k : k # m.key), m.key)
        gone == Trimmed(ws, line, at)
    IN /\ windows' = [k \in Keys |-> IF k \in gone THEN NoWindow ELSE ws[k]]
       /\ order' = SelectSeq(line, LAMBDA k : k \notin gone)
       /\ relay' = [relay EXCEPT !.daily = CountDelivery(@, m, m.events)]
       /\ owed' = owed + m.events
       /\ remembered' = Remember(remembered, m.idem, at)

\* No open window: hold the alert during the restart grace, else send it.
FirstOfWindow(h) ==
    LET m == handler[h].msg
        at == handler[h].at
        opened == OpenWindow(m, at, relay.nextRecapAt)
    IN \/ /\ InRestartGrace(at)
          /\ Register(h, [opened EXCEPT !.deferred = TRUE])
          /\ Answer(h)
       \/ /\ ~InRestartGrace(at)
          /\ handler' = [handler EXCEPT ![h] = [pc |-> "send", msg |-> m, at |-> at, opened |-> opened]]
          /\ windows' = [windows EXCEPT ![m.key] = NoWindow]
          /\ order' = SelectSeq(order, LAMBDA k : k # m.key)
          /\ UNCHANGED <<relay, owed, remembered, idempotencyLocks, eventLocks>>

\* An open window: count the delivery and acknowledge it, escalating if it grew.
Repeat(h) ==
    LET m == handler[h].msg
        at == handler[h].at
        w == Accumulate(windows[m.key], m)
        added == Added(windows[m.key], m)
    IN /\ windows' = [windows EXCEPT ![m.key] = w]
       /\ relay' = [relay EXCEPT !.daily = CountDelivery(@, m, added)]
       /\ owed' = owed + added
       /\ remembered' = Remember(remembered, m.idem, at)
       /\ UNCHANGED order
       /\ IF InRestartGrace(at) \/ ~ShouldEscalate(w)
          THEN Answer(h)
          ELSE /\ handler' = [handler EXCEPT ![h].pc = "escalate"]
               /\ UNCHANGED <<idempotencyLocks, eventLocks>>

\* Mutant: deliveries of one key are not serialized.
Decide_Unlocked(h) ==
    LET k == handler[h].msg.key IN
    /\ handler[h].pc = "decide"
    /\ IF windows[k] = NoWindow \/ (windows[k].expiresAt <= handler[h].at /\ ~windows[k].deferred)
       THEN FirstOfWindow(h) ELSE Repeat(h)
    /\ UNCHANGED <<now, config, up, sweep, disk, announced, recapped, received, faults>>

Decide(h) ==
    LET k == handler[h].msg.key IN
    /\ handler[h].pc = "decide"
    /\ Holds(eventLocks, k, h)
    /\ IF windows[k] = NoWindow \/ (windows[k].expiresAt <= handler[h].at /\ ~windows[k].deferred)
       THEN FirstOfWindow(h) ELSE Repeat(h)
    /\ UNCHANGED <<now, config, up, sweep, disk, announced, recapped, received, faults>>

\* Mutant: the window is registered although the send failed.
SendNew_Regardless(h, ok) ==
    /\ handler[h].pc = "send"
    /\ Settled(ok)
    /\ Register(h, handler[h].opened)
    /\ announced' = IF ok THEN announced \union {<<handler[h].msg.key, handler[h].at>>} ELSE announced
    /\ Answer(h)
    /\ UNCHANGED <<now, config, up, sweep, disk, recapped, received>>

\* Mutant: a send that throws skips the release of the outer lock.
SendNew_Strands(h, ok) ==
    /\ handler[h].pc = "send"
    /\ Settled(ok)
    /\ IF ok
       THEN /\ Register(h, handler[h].opened)
            /\ announced' = announced \union {<<handler[h].msg.key, handler[h].at>>}
       ELSE UNCHANGED <<windows, order, relay, owed, remembered, announced>>
    /\ IF ok THEN Answer(h)
       ELSE /\ handler' = [handler EXCEPT ![h] = IdleHandler]
            /\ eventLocks' = [eventLocks EXCEPT ![handler[h].msg.key] = Tail(@)]
            /\ UNCHANGED idempotencyLocks
    /\ UNCHANGED <<now, config, up, sweep, disk, recapped, received>>

\* The window is registered only once the chats have accepted.
SendNew(h, ok) ==
    /\ handler[h].pc = "send"
    /\ Settled(ok)
    /\ IF ok
       THEN /\ Register(h, handler[h].opened)
            /\ announced' = announced \union {<<handler[h].msg.key, handler[h].at>>}
       ELSE UNCHANGED <<windows, order, relay, owed, remembered, announced>>
    /\ Answer(h)
    /\ UNCHANGED <<now, config, up, sweep, disk, recapped, received>>

SendEscalation(h, ok) ==
    LET k == handler[h].msg.key IN
    /\ handler[h].pc = "escalate"
    /\ Settled(ok)
    /\ windows' = IF ok /\ windows[k] # NoWindow
                  THEN [windows EXCEPT ![k].escalations = @ + 1] ELSE windows
    /\ Answer(h)
    /\ UNCHANGED <<now, config, up, order, remembered, sweep, relay, disk, announced, owed, recapped,
                   received>>

-----------------------------------------------------------------------------
\* sweep, and the snapshot index.ts writes after it.

Deferred == {k \in Open(windows) : windows[k].deferred}
Scan == {<<k, windows[k].openedAt>> : k \in Open(windows)}

\* The timer fires: expired idempotency keys go, and flushRestartRecap begins.
SweepStart(s) ==
    /\ up = "up" /\ ~Ready
    /\ sweep[s].pc = "idle"
    /\ remembered' = Live(remembered, now)
    /\ \/ /\ relay.restartRecapDone \/ InRestartGrace(now) \/ Deferred = {}
          /\ relay' = [relay EXCEPT !.restartRecapDone = @ \/ ~InRestartGrace(now)]
          /\ sweep' = [sweep EXCEPT ![s] = [pc |-> "close", at |-> now, todo |-> Scan]]
       \/ /\ ~relay.restartRecapDone /\ ~InRestartGrace(now) /\ Deferred # {}
          /\ sweep' = [sweep EXCEPT ![s] = [pc |-> "restart", at |-> now, held |-> Deferred]]
          /\ UNCHANGED relay
    /\ UNCHANGED <<now, config, up, windows, order, eventLocks, idempotencyLocks, handler, disk,
                   announced, owed, recapped, received, faults>>

\* Mutant: the recap counts as done before it is accepted.
SendRestartRecap_Once(s, ok) ==
    LET told == {k \in sweep[s].held : windows[k] # NoWindow} IN
    /\ sweep[s].pc = "restart"
    /\ Settled(ok)
    /\ relay' = [relay EXCEPT !.restartRecapDone = TRUE]
    /\ windows' = [k \in Keys |-> IF ok /\ k \in told THEN [windows[k] EXCEPT !.deferred = FALSE]
                                  ELSE windows[k]]
    /\ announced' = announced \union {<<k, windows[k].openedAt>> : k \in IF ok THEN told ELSE {}}
    /\ sweep' = [sweep EXCEPT ![s] = [pc |-> "close", at |-> sweep[s].at, todo |-> Scan]]
    /\ UNCHANGED <<now, config, up, order, remembered, eventLocks, idempotencyLocks, handler, disk,
                   owed, recapped, received>>

\* The restart recap is accepted, or logged as failed and left for the next sweep.
SendRestartRecap(s, ok) ==
    LET told == {k \in sweep[s].held : windows[k] # NoWindow} IN
    /\ sweep[s].pc = "restart"
    /\ Settled(ok)
    /\ relay' = [relay EXCEPT !.restartRecapDone = @ \/ ok]
    /\ windows' = [k \in Keys |-> IF ok /\ k \in told THEN [windows[k] EXCEPT !.deferred = FALSE]
                                  ELSE windows[k]]
    /\ announced' = announced \union {<<k, windows[k].openedAt>> : k \in IF ok THEN told ELSE {}}
    /\ sweep' = [sweep EXCEPT ![s] = [pc |-> "close", at |-> sweep[s].at, todo |-> Scan]]
    /\ UNCHANGED <<now, config, up, order, remembered, eventLocks, idempotencyLocks, handler, disk,
                   owed, recapped, received>>

\* closeWindow, under the lock of the key and only for the window that was scanned.
CloseWindow(k, openedAt) ==
    LET same == windows[k] # NoWindow /\ windows[k].openedAt = openedAt IN
    /\ windows' = [windows EXCEPT ![k] = IF same THEN NoWindow ELSE @]
    /\ order' = SelectSeq(order, LAMBDA x : ~(same /\ x = k))

SweepWindow(s) ==
    /\ sweep[s].pc = "close"
    /\ \E scanned \in sweep[s].todo :
         LET k == scanned[1]
             due == windows[k] # NoWindow /\ windows[k].openedAt = scanned[2]
                      /\ windows[k].expiresAt <= sweep[s].at /\ ~windows[k].deferred
         IN \/ /\ due => eventLocks[k] = <<>>
               /\ IF due THEN CloseWindow(k, scanned[2]) ELSE UNCHANGED <<windows, order>>
               /\ sweep' = [sweep EXCEPT ![s].todo = @ \ {scanned}]
               /\ UNCHANGED eventLocks
            \/ /\ due /\ eventLocks[k] # <<>>
               /\ eventLocks' = [eventLocks EXCEPT ![k] = Append(@, s)]
               /\ sweep' = [sweep EXCEPT ![s] = [pc |-> "locked", at |-> sweep[s].at, key |-> k,
                                                 openedAt |-> scanned[2],
                                                 todo |-> sweep[s].todo \ {scanned}]]
               /\ UNCHANGED <<windows, order>>
    /\ UNCHANGED <<now, config, up, remembered, idempotencyLocks, handler, relay, disk, announced,
                   owed, recapped, received, faults>>

SweepLocked(s) ==
    LET k == sweep[s].key IN
    /\ sweep[s].pc = "locked"
    /\ Holds(eventLocks, k, s)
    /\ CloseWindow(k, sweep[s].openedAt)
    /\ eventLocks' = [eventLocks EXCEPT ![k] = Tail(@)]
    /\ sweep' = [sweep EXCEPT ![s] = [pc |-> "close", at |-> sweep[s].at, todo |-> sweep[s].todo]]
    /\ UNCHANGED <<now, config, up, remembered, idempotencyLocks, handler, relay, disk, announced,
                   owed, recapped, received, faults>>

\* The period came due: its tally is taken over before the send begins.
TakePeriod(at) ==
    LET reports == config.recap /\ relay.daily.listed IN
    [relay EXCEPT !.daily = EmptyTally,
                  !.nextRecapAt = NextRecapTime(at),
                  !.recapAttempts = 0,
                  !.pendingRecap = IF reports THEN [events |-> relay.daily.events, until |-> relay.nextRecapAt]
                                   ELSE NoRecap]

\* Mutant: a recap in flight does not keep a second sweep from sending it.
FlushDailyRecap_Overlaps(s) ==
    LET due == relay.pendingRecap = NoRecap /\ sweep[s].at >= relay.nextRecapAt
        taken == IF due THEN TakePeriod(sweep[s].at) ELSE relay
        sends == taken.pendingRecap # NoRecap
    IN
    /\ sweep[s].pc = "close" /\ sweep[s].todo = {}
    /\ IF sends
       THEN /\ relay' = [taken EXCEPT !.recapInFlight = TRUE]
            /\ sweep' = [sweep EXCEPT ![s] = [pc |-> "daily", recap |-> taken.pendingRecap]]
            /\ UNCHANGED <<disk, owed>>
       ELSE /\ relay' = IF relay.recapInFlight THEN relay ELSE taken
            /\ owed' = IF due /\ ~relay.recapInFlight THEN owed - relay.daily.events ELSE owed
            /\ PersistState(relay')
            /\ sweep' = [sweep EXCEPT ![s] = IdleSweep]
    /\ UNCHANGED <<now, config, up, windows, order, remembered, eventLocks, idempotencyLocks, handler,
                   announced, recapped, received, faults>>

FlushDailyRecap(s) ==
    LET due == relay.pendingRecap = NoRecap /\ sweep[s].at >= relay.nextRecapAt
        taken == IF due THEN TakePeriod(sweep[s].at) ELSE relay
        sends == ~relay.recapInFlight /\ taken.pendingRecap # NoRecap
    IN
    /\ sweep[s].pc = "close" /\ sweep[s].todo = {}
    /\ IF sends
       THEN /\ relay' = [taken EXCEPT !.recapInFlight = TRUE]
            /\ sweep' = [sweep EXCEPT ![s] = [pc |-> "daily", recap |-> taken.pendingRecap]]
            /\ UNCHANGED <<disk, owed>>
       ELSE /\ relay' = IF relay.recapInFlight THEN relay ELSE taken
            /\ owed' = IF due /\ ~relay.recapInFlight THEN owed - relay.daily.events ELSE owed
            /\ PersistState(relay')
            /\ sweep' = [sweep EXCEPT ![s] = IdleSweep]
    /\ UNCHANGED <<now, config, up, windows, order, remembered, eventLocks, idempotencyLocks, handler,
                   announced, recapped, received, faults>>

\* Mutant: the tally is cleared when the send ends, not when it begins.
SendDailyRecap_ClearsAfter(s, ok) ==
    LET attempts == relay.recapAttempts + 1
        done == ok \/ attempts >= MaxFlushAttempts
    IN
    /\ sweep[s].pc = "daily"
    /\ Settled(ok)
    /\ relay' = [relay EXCEPT !.recapInFlight = FALSE, !.daily = EmptyTally,
                              !.recapAttempts = IF done THEN 0 ELSE attempts,
                              !.pendingRecap = IF done THEN NoRecap ELSE @]
    /\ owed' = IF done THEN owed - sweep[s].recap.events ELSE owed
    /\ recapped' = IF ok THEN Append(recapped, sweep[s].recap.until) ELSE recapped
    /\ PersistState(relay')
    /\ sweep' = [sweep EXCEPT ![s] = IdleSweep]
    /\ UNCHANGED <<now, config, up, windows, order, remembered, eventLocks, idempotencyLocks, handler,
                   announced, received>>

\* An accepted recap is done; one that failed MaxFlushAttempts times is dropped.
SendDailyRecap(s, ok) ==
    LET attempts == relay.recapAttempts + 1
        done == ok \/ attempts >= MaxFlushAttempts
    IN
    /\ sweep[s].pc = "daily"
    /\ Settled(ok)
    /\ relay' = [relay EXCEPT !.recapInFlight = FALSE,
                              !.recapAttempts = IF done THEN 0 ELSE attempts,
                              !.pendingRecap = IF done THEN NoRecap ELSE @]
    /\ owed' = IF done THEN owed - sweep[s].recap.events ELSE owed
    /\ recapped' = IF ok THEN Append(recapped, sweep[s].recap.until) ELSE recapped
    /\ PersistState(relay')
    /\ sweep' = [sweep EXCEPT ![s] = IdleSweep]
    /\ UNCHANGED <<now, config, up, windows, order, remembered, eventLocks, idempotencyLocks, handler,
                   announced, received>>

-----------------------------------------------------------------------------
\* The process and the clock.

\* Bound: a process ends while the grace of its successor still fits the clock.
Restartable(at) == at + config.grace <= MaxNow

Tick ==
    /\ ~Ready
    /\ now < MaxNow
    /\ up = "up" \/ Restartable(now + 1)
    /\ now' = now + 1
    /\ UNCHANGED <<config, up, windows, order, remembered, eventLocks, idempotencyLocks, handler,
                   sweep, relay, disk, announced, owed, recapped, received, faults>>

\* SIGTERM: the timer stops and the server takes no further request.
Stop ==
    /\ up = "up" /\ ~Ready
    /\ Restartable(now) /\ faults < MaxFaults
    /\ faults' = faults + 1
    /\ up' = "stopping"
    /\ UNCHANGED <<now, config, windows, order, remembered, eventLocks, idempotencyLocks, handler,
                   sweep, relay, disk, announced, owed, recapped, received>>

\* What a process leaves behind: nothing but its snapshot.
Gone ==
    /\ up' = "down"
    /\ windows' = [k \in Keys |-> NoWindow]
    /\ order' = <<>>
    /\ remembered' = <<>>
    /\ eventLocks' = [k \in Keys |-> <<>>]
    /\ idempotencyLocks' = [i \in Idems |-> <<>>]
    /\ handler' = [h \in Handlers |-> IdleHandler]
    /\ sweep' = [s \in Sweeps |-> IdleSweep]
    /\ UNCHANGED <<now, config, relay, announced, owed, recapped, received>>

\* The requests have drained: persist and exit, whatever a sweep is awaiting.
Exit ==
    /\ up = "stopping" /\ ~Ready
    /\ \A h \in Handlers : handler[h].pc = "idle"
    /\ PersistState(relay)
    /\ Gone
    /\ UNCHANGED faults

\* The process is lost; one that does not drain is killed by the platform.  Lost
\* while it writes, it leaves a torn snapshot that restoreState cannot read.
Crash ==
    /\ up # "down" /\ Restartable(now)
    /\ Fault(up = "up")
    /\ Gone
    /\ disk' \in {disk, NoState}

\* A new process.
Boot ==
    /\ up = "down"
    /\ up' = "up"
    /\ windows' = [k \in Keys |-> RestoredWindow(k)]
    /\ order' = IF disk = NoState THEN <<>> ELSE SelectSeq(disk.order, LAMBDA k : RestoredWindow(k) # NoWindow)
    /\ relay' = ImportState
    /\ owed' = ImportState.daily.events
                 + (IF ImportState.pendingRecap = NoRecap THEN 0 ELSE ImportState.pendingRecap.events)
    /\ recapped' = <<>>
    /\ UNCHANGED <<now, config, remembered, eventLocks, idempotencyLocks, handler, sweep, disk,
                   announced, received, faults>>

Init ==
    /\ now = 0
    /\ config \in Configs
    /\ up = "up"
    /\ windows = [k \in Keys |-> NoWindow]
    /\ order = <<>>
    /\ remembered = <<>>
    /\ eventLocks = [k \in Keys |-> <<>>]
    /\ idempotencyLocks = [i \in Idems |-> <<>>]
    /\ handler = [h \in Handlers |-> IdleHandler]
    /\ sweep = [s \in Sweeps |-> IdleSweep]
    /\ relay = FreshRelay
    /\ disk = NoState
    /\ announced = {}
    /\ owed = 0
    /\ recapped = <<>>
    /\ received = 0
    /\ faults = 0

HandlerStep(h) ==
    \/ Enter(h)
    \/ Decide(h)
    \/ \E ok \in BOOLEAN : SendNew(h, ok) \/ SendEscalation(h, ok)

SweepStep(s) ==
    \/ SweepWindow(s)
    \/ SweepLocked(s)
    \/ FlushDailyRecap(s)
    \/ \E ok \in BOOLEAN : SendRestartRecap(s, ok) \/ SendDailyRecap(s, ok)

Next ==
    \/ \E h \in Handlers : HandlerStep(h) \/ \E m \in Messages : Receive(h, m)
    \/ \E s \in Sweeps : SweepStep(s) \/ SweepStart(s)
    \/ Tick
    \/ Stop \/ Exit \/ Crash \/ Boot

Spec == Init /\ [][Next]_vars

\* Every await ends (a send has a timeout), the timer keeps firing, time goes
\* on, and the platform restarts a process that has ended.  The event loop
\* serves what waits for it between two drains of the microtasks, which
\* disable it again and again: hence strong fairness.
FairSpec ==
    /\ Spec
    /\ SF_vars(\E h \in Handlers : HandlerStep(h))
    /\ SF_vars(\E s \in Sweeps : SweepStep(s) \/ SweepStart(s))
    /\ SF_vars(Tick)
    /\ WF_vars(Exit \/ Boot)

-----------------------------------------------------------------------------
\* A window that holds its key quiet was told of in the chats, or waits for the
\* restart recap: relay.ts registers a window only once the send was accepted,
\* "or the retry would be suppressed as a repeat of a message that was never
\* delivered".  The exception is a window that a restart during the grace period
\* restored without its deferred flag: it is quiet, and no recap will tell of it.
SuppressedWasDelivered ==
    \A k \in Keys : windows[k] # NoWindow =>
        \/ <<k, windows[k].openedAt>> \in announced
        \/ windows[k].deferred
        \/ windows[k].forgotten

\* One incident, one message: a key is announced only when no window of it is
\* open, or when its window waits for the restart recap, however deliveries
\* of one incident overlap while the first is being sent.
OneAlertPerWindow ==
    [][\A told \in announced' \ announced :
         windows[told[1]] = NoWindow \/ windows[told[1]].deferred]_vars

\* The recap of a period is posted once, although sweeps overlap and a failed
\* recap is retried (flushDailyRecap's recapInFlight).
PeriodReportedOnce ==
    \A i, j \in DOMAIN recapped : i # j => recapped[i] # recapped[j]

\* Every event of an acknowledged delivery is in the tally of the running or of
\* the pending period until a recap with it is accepted or given up: none is
\* lost to a delivery that arrives while a recap is being sent.
EventsAreCounted ==
    up # "down" =>
        owed = relay.daily.events
                 + (IF relay.pendingRecap = NoRecap THEN 0 ELSE relay.pendingRecap.events)

\* An alert held in the restart grace does not stay held: the recap is retried
\* by every sweep, and no window is deferred after the last one.
DeferredIsReleased ==
    \A k \in Keys : (k \in Deferred) ~> (k \notin Deferred)

\* Every request is answered: no lock of withLock is left held, and the two
\* lock tables are never taken in opposite orders.
EveryRequestIsAnswered ==
    \A h \in Handlers : (handler[h].pc # "idle") ~> (handler[h].pc = "idle")
=============================================================================
