------------------------------ MODULE RpcQueue ------------------------------
(***************************************************************************)
(* The Solana RPC fetch that the web app gives to every Connection         *)
(* (web/apps/web/src/lib/solana/rpc-rate-limit.ts), for one endpoint: a    *)
(* rolling window over dispatches, a shared cooldown with one recovery     *)
(* probe after a 429, retries of reads, one flight per request key and a   *)
(* short cache of answers.  One JavaScript process: an action is one       *)
(* macrotask with the microtasks it releases.  Times are kept relative to  *)
(* the present (ages, and time left), so that the clock needs no bound.    *)
(***************************************************************************)
EXTENDS Integers, Sequences, FiniteSets

CONSTANTS
    Callers,      \* concurrent users of the fetch
    Requests,     \* what they may ask: [key, method]
    MaxRequests,  \* getFrontendSolanaRpcMaxRequestsPerWindow
    Window, Ttl,  \* the rolling window, the life of a cached answer
    MaxAttempts,  \* FRONTEND_SOLANA_RPC_MAX_READ_ATTEMPTS
    MaxRecent,    \* FRONTEND_SOLANA_RPC_COMPLETED_RESULT_MAX_ENTRIES
    Delays,       \* Retry-After and the jittered backoff: any of these
    NoTimer, NoLeader,
    MaxChain      \* bound: changes of the accounts read

Keys == {r.key : r \in Requests}

\* A few methods stand for the code's tables.  A request without a key (a batch)
\* is queued by itself, is neither shared nor retried, and is left out.
Cacheable(method) == method \in {"getAccountInfo", "getLatestBlockhash"}
Retryable(method) == Cacheable(method)
Priority(method) ==
    CASE method \in {"getLatestBlockhash", "sendTransaction"} -> 0
      [] method \in {"getSignaturesForAddress"} -> 2
      [] OTHER -> 1

ASSUME QueueAssumption ==
    /\ {MaxRequests, Window, Ttl, MaxAttempts, MaxRecent} \subseteq Nat \ {0}
    /\ Delays \subseteq Nat \ {0} /\ Delays # {}
    /\ MaxChain \in Nat
    /\ NoTimer \notin Nat /\ NoLeader \notin Callers

VARIABLES
    endpoint,  \* RpcEndpointState
    call,      \* per caller the call of the fetch it is in
    inflight,  \* per key the caller whose request the others share
    recent,    \* the cached answers, oldest first: [key, seen, left]
    chain,     \* version of the accounts at the RPC server
    told,      \* history: per key the newest version a finished call returned
    log        \* history: ages of the dispatches of the last Window

queueVars == <<endpoint, call, inflight, recent, chain, told, log>>

\* What a call returns instead of a version: an error, or a 429 response as it is.
Nothing == -1
TooMany == -2
Version(seen) == seen >= 0
Idle == [pc |-> "idle"]
OnWire == {"sent", "read"}
Greater(a, b) == IF a >= b THEN a ELSE b

-----------------------------------------------------------------------------
\* The endpoint's queue.  Each operator maps an endpoint state to the next.

ScheduleEndpointPump(e, delay) == IF e.timer # NoTimer THEN e ELSE [e EXCEPT !.timer = delay]

\* The order in which selectNextQueueEntry takes entries: by priority, then by sequence.
InOrder(queue) ==
    LET of(p) == SelectSeq(queue, LAMBDA entry : entry.priority = p) IN of(0) \o of(1) \o of(2)

\* Mutants: a late 429 ends the probe of another request; a failed probe stays in flight.
MarkEndpointRateLimited_EndsProbe(e, delay, isProbe) ==
    [e EXCEPT !.limited = TRUE, !.probing = FALSE, !.cooldown = Greater(@, delay)]
MarkEndpointRateLimited_KeepsProbe(e, delay, isProbe) ==
    [e EXCEPT !.limited = TRUE, !.cooldown = Greater(@, delay)]

MarkEndpointRateLimited(e, delay, isProbe) ==
    [e EXCEPT !.limited = TRUE,
              !.probing = @ /\ ~isProbe,
              !.cooldown = Greater(@, delay)]

ClearEndpointRateLimit(e) == [e EXCEPT !.cooldown = 0, !.limited = FALSE, !.probing = FALSE]

PruneDispatchWindow(e) ==
    [e EXCEPT !.dispatched = SelectSeq(@, LAMBDA age : age < Window)]

\* dispatchQueueEntry for the first n entries: the state kept, and who was sent.
Dispatch(e, n, isProbe) ==
    LET line == InOrder(e.queue) IN
    [endpoint |-> [e EXCEPT !.queue = SubSeq(line, n + 1, Len(line)),
                            !.dispatched = @ \o [i \in 1..n |-> 0],
                            !.probing = @ \/ isProbe],
     out |-> {line[i].caller : i \in 1..n},
     probe |-> isProbe]

Quiet(e) == [endpoint |-> e, out |-> {}, probe |-> FALSE]

\* Mutant: a probe leaves as soon as the cooldown is over.
PumpLimited_NoWindow(e) ==
    IF e.probing THEN Quiet(e)
    ELSE IF e.cooldown > 0 THEN Quiet(ScheduleEndpointPump(e, e.cooldown))
    ELSE Dispatch(e, 1, TRUE)

\* The rate-limited branch of pumpEndpointQueue, of a pruned state.
PumpLimited(e) ==
    LET untilWindow == IF Len(e.dispatched) >= MaxRequests THEN Window - Head(e.dispatched) ELSE 0
        untilReady == Greater(e.cooldown, untilWindow)
    IN IF e.probing THEN Quiet(e)
       ELSE IF untilReady > 0 THEN Quiet(ScheduleEndpointPump(e, untilReady))
       ELSE Dispatch(e, 1, TRUE)

PumpFreely(e) ==
    LET room == Greater(0, MaxRequests - Len(e.dispatched))
        d == Dispatch(e, IF Len(e.queue) < room THEN Len(e.queue) ELSE room, FALSE)
    IN IF d.endpoint.queue = <<>> THEN d
       ELSE [d EXCEPT !.endpoint = ScheduleEndpointPump(@, Window - Head(@.dispatched))]

PumpEndpointQueue(e) ==
    IF e.queue = <<>> THEN Quiet(e)
    ELSE LET p == PruneDispatchWindow(e) IN IF p.limited THEN PumpLimited(p) ELSE PumpFreely(p)

\* runQueuedFetch up to its pump.
Enqueue(e, c, method) ==
    [e EXCEPT !.queue = Append(@, [caller |-> c, priority |-> Priority(method)])]

\* A step ends by pumping: it leaves endpoint e and calls cs.
Pumped(e, cs) ==
    LET p == PumpEndpointQueue(e) IN
    /\ endpoint' = p.endpoint
    /\ call' = [c \in Callers |->
                  IF c \in p.out THEN [cs[c] EXCEPT !.pc = "sent", !.probe = p.probe]
                  ELSE cs[c]]
    /\ log' = log \o [i \in 1..Cardinality(p.out) |-> 0]

-----------------------------------------------------------------------------
\* Settling a flight.

GetRecentSnapshot(key) == {i \in DOMAIN recent : recent[i].key = key /\ recent[i].left > 0}

\* Expired entries go first, then the oldest until there is room.
SetRecentSnapshot(key, seen) ==
    LET live == SelectSeq(recent, LAMBDA s : s.left > 0)
        room == SubSeq(live, Greater(0, Len(live) - MaxRecent + 1) + 1, Len(live))
    IN Append(room, [key |-> key, seen |-> seen, left |-> Ttl])

\* A call that has returned `seen`.
Finished(c, seen) == [pc |-> "done", req |-> call[c].req, seen |-> seen, floor |-> call[c].floor]

Sharing(c) ==
    {d \in Callers : d = c \/ (call[d].pc = "sharing" /\ inflight[call[c].req.key] = c
                               /\ call[d].req.key = call[c].req.key)}

\* The calls after c's request settles for c and for everyone who shares it.
Settled(c, seen) ==
    [d \in Callers |-> IF d \in Sharing(c) THEN Finished(d, seen) ELSE call[d]]

Closed(c) ==
    [k \in Keys |-> IF inflight[k] = c THEN NoLeader ELSE inflight[k]]

Told(key, seen) == told' = [told EXCEPT ![key] = Greater(@, seen)]

-----------------------------------------------------------------------------
\* Actions.

\* getFrontendSolanaRpcFetch: a fresh cached answer, the flight of an equal
\* request, or a request of its own.
Begin(r) ==
    [pc |-> "queued", req |-> r, floor |-> told[r.key], attempt |-> 1, probe |-> FALSE,
     left |-> 0, seen |-> Nothing]

Fetch(c, r) ==
    LET hit == IF Cacheable(r.method) THEN GetRecentSnapshot(r.key) ELSE {} IN
       /\ call[c].pc \in {"idle", "done"}
       /\ \/ /\ hit # {}
             /\ \E i \in hit :
                  /\ call' = [call EXCEPT ![c] = [pc |-> "done", req |-> r, seen |-> recent[i].seen,
                                                  floor |-> told[r.key]]]
                  /\ Told(r.key, recent[i].seen)
             /\ UNCHANGED <<endpoint, inflight, log>>
          \/ /\ hit = {} /\ inflight[r.key] # NoLeader
             /\ call' = [call EXCEPT ![c] = [pc |-> "sharing", req |-> r, floor |-> told[r.key]]]
             /\ UNCHANGED <<endpoint, inflight, told, log>>
          \/ /\ hit = {} /\ inflight[r.key] = NoLeader
             /\ inflight' = [inflight EXCEPT ![r.key] = c]
             /\ Pumped(Enqueue(endpoint, c, r.method), [call EXCEPT ![c] = Begin(r)])
             /\ UNCHANGED told
       /\ UNCHANGED <<recent, chain>>

\* External: the server reads its accounts.
Serve(c) ==
    /\ call[c].pc = "sent"
    /\ call' = [call EXCEPT ![c].pc = "read", ![c].seen = chain]
    /\ UNCHANGED <<endpoint, inflight, recent, chain, told, log>>

\* The fetch of an attempt settles (the handlers of dispatchQueueEntry), and
\* runRpcFetch goes on: the endpoint after the outcome, and whether the call
\* retries.
After(c, outcome, delay) ==
    IF outcome \in {"429", "TypeError"} THEN MarkEndpointRateLimited(endpoint, delay, call[c].probe)
    ELSE IF call[c].probe THEN ClearEndpointRateLimit(endpoint)
    ELSE endpoint

Retries(c, outcome) ==
    /\ Retryable(call[c].req.method)
    /\ outcome \in {"429", "TypeError", "5xx"}
    /\ call[c].attempt < MaxAttempts

\* runRpcFetch goes on at once after a 429 or a TypeError: the queue keeps the cooldown.
RetryNow(c, outcome, delay) ==
    /\ Retries(c, outcome) /\ outcome # "5xx"
    /\ Pumped(Enqueue(After(c, outcome, delay), c, call[c].req.method),
              [call EXCEPT ![c].pc = "queued", ![c].attempt = @ + 1, ![c].seen = Nothing,
                           ![c].probe = FALSE])
    /\ UNCHANGED <<inflight, recent, chain, told>>

\* It waits by itself after a 5xx.
RetryLater(c, outcome, delay) ==
    /\ Retries(c, outcome) /\ outcome = "5xx"
    /\ Pumped(After(c, outcome, delay),
              [call EXCEPT ![c].pc = "backoff", ![c].attempt = @ + 1, ![c].seen = Nothing,
                           ![c].probe = FALSE, ![c].left = delay])
    /\ UNCHANGED <<inflight, recent, chain, told>>

\* The request is rejected for everyone who shares it: the attempts of a read
\* are used up by a 429, or the fetch itself failed.
Reject(c, outcome, delay) ==
    /\ ~Retries(c, outcome)
    /\ outcome \in {"TypeError", "abort"} \/ (outcome = "429" /\ Retryable(call[c].req.method))
    /\ Pumped(After(c, outcome, delay), Settled(c, Nothing))
    /\ inflight' = Closed(c)
    /\ UNCHANGED <<recent, chain, told>>

\* Mutant: the flight is taken off the map before its body is read.
Respond_ReleasesEarly(c, outcome, delay) ==
    /\ ~Retries(c, outcome)
    /\ outcome \in {"ok", "error", "5xx"}
    /\ Pumped(After(c, outcome, delay), [call EXCEPT ![c].pc = "body", ![c].probe = FALSE])
    /\ inflight' = Closed(c)
    /\ UNCHANGED <<recent, chain, told>>

\* A response to return: snapshotResponse has its body still to read.
Respond(c, outcome, delay) ==
    LET answer == CASE outcome = "ok" -> call[c].seen [] outcome = "429" -> TooMany [] OTHER -> Nothing
    IN /\ ~Retries(c, outcome)
       /\ \/ outcome \in {"ok", "error", "5xx"}
          \/ outcome = "429" /\ ~Retryable(call[c].req.method)
       /\ Pumped(After(c, outcome, delay),
                 [call EXCEPT ![c].pc = "body", ![c].seen = answer, ![c].probe = FALSE])
       /\ UNCHANGED <<inflight, recent, chain, told>>

\* Any outcome may come back; a good answer only from a server that has read.
Arrive(c, outcome, delay) ==
    /\ call[c].pc \in OnWire
    /\ outcome = "ok" => call[c].pc = "read"
    /\ \/ RetryNow(c, outcome, delay)
       \/ RetryLater(c, outcome, delay)
       \/ Reject(c, outcome, delay)
       \/ Respond(c, outcome, delay)

\* response.text() settles: the answer is cached if it is a success, and
\* returned to everyone who shares the request.
Body(c, complete) ==
    LET key == call[c].req.key
        seen == IF complete THEN call[c].seen ELSE Nothing
    IN /\ call[c].pc = "body"
       /\ recent' = IF Cacheable(call[c].req.method) /\ Version(seen)
                    THEN SetRecentSnapshot(key, seen) ELSE recent
       /\ call' = Settled(c, seen)
       /\ inflight' = Closed(c)
       /\ Told(key, seen)
       /\ UNCHANGED <<endpoint, chain, log>>

\* The wait after a 5xx ends.
Wake(c) ==
    /\ call[c].pc = "backoff" /\ call[c].left = 0
    /\ Pumped(Enqueue(endpoint, c, call[c].req.method), [call EXCEPT ![c].pc = "queued"])
    /\ UNCHANGED <<inflight, recent, chain, told>>

\* The timer of scheduleEndpointPump.
Fire ==
    /\ endpoint.timer = 0
    /\ Pumped([endpoint EXCEPT !.timer = NoTimer], call)
    /\ UNCHANGED <<inflight, recent, chain, told>>

\* Time passes: by one unit for every age and every time left.
Less(n) == IF n = 0 THEN 0 ELSE n - 1
Older(age) == IF age = Window THEN Window ELSE age + 1

Tick ==
    /\ endpoint' = [endpoint EXCEPT !.cooldown = Less(@),
                                    !.dispatched = [i \in DOMAIN @ |-> Older(@[i])],
                                    !.timer = IF @ = NoTimer THEN NoTimer ELSE Less(@)]
    /\ call' = [c \in Callers |->
                  IF call[c].pc = "backoff" THEN [call[c] EXCEPT !.left = Less(@)] ELSE call[c]]
    /\ recent' = [i \in DOMAIN recent |-> [recent[i] EXCEPT !.left = Less(@)]]
    /\ log' = SelectSeq([i \in DOMAIN log |-> log[i] + 1], LAMBDA age : age < Window)
    /\ UNCHANGED <<inflight, chain, told>>

\* External: the accounts change.
Change ==
    /\ chain < MaxChain
    /\ chain' = chain + 1
    /\ UNCHANGED <<endpoint, call, inflight, recent, told, log>>

QueueInit ==
    /\ endpoint = [cooldown |-> 0, dispatched |-> <<>>, queue |-> <<>>, limited |-> FALSE,
                   probing |-> FALSE, timer |-> NoTimer]
    /\ call = [c \in Callers |-> Idle]
    /\ inflight = [k \in Keys |-> NoLeader]
    /\ recent = <<>>
    /\ chain = 0
    /\ told = [k \in Keys |-> Nothing]
    /\ log = <<>>

Outcomes == {"ok", "error", "5xx", "429", "TypeError", "abort"}

Answered(c) ==
    \/ Serve(c)
    \/ \E outcome \in Outcomes, delay \in Delays : Arrive(c, outcome, delay)
    \/ \E complete \in BOOLEAN : Body(c, complete)

QueueEvent ==
    \/ \E c \in Callers : Answered(c) \/ Wake(c)
    \/ Fire
    \/ Change

-----------------------------------------------------------------------------
\* Properties.

\* However requests, retries and recovery probes interleave, no more than
\* MaxRequests requests leave within one Window (the dispatchedAt window of
\* pumpEndpointQueue, kept on both of its branches).
RateIsKept == Len(log) <= MaxRequests

\* recoveryProbeInFlight tells the truth: it is set exactly while one probe,
\* and no second, is on the wire of a rate-limited endpoint.  Late answers of
\* requests sent before the limit must not disturb it.
OneRecoveryProbe ==
    LET probes == {c \in Callers : call[c].pc \in OnWire /\ call[c].probe} IN
    /\ Cardinality(probes) <= 1
    /\ endpoint.probing <=> probes # {}
    /\ endpoint.probing => endpoint.limited

\* A call never returns an older version than a call for the same key had
\* returned before it began: one flight per key at a time, and a cache that
\* only the last flight writes, keep late answers from going back.
ReadsNeverGoBack ==
    \A c \in Callers : call[c].pc = "done" /\ Version(call[c].seen) => call[c].seen >= call[c].floor
=============================================================================
