------------------------------ MODULE ReadModel ------------------------------
(***************************************************************************)
(* The smart-account read model of the web server                          *)
(* (features/smart-accounts/server/read-model.ts with the reuse rules of   *)
(* refresh-plan.ts), for one cache key, over the RPC fetch its Connection  *)
(* is built with: a load is a request to RpcQueue.  A read joins the load  *)
(* in flight, takes a completed result, or loads; a forced read (after a   *)
(* confirmed mutation) always loads.                                       *)
(***************************************************************************)
EXTENDS RpcQueue

CONSTANTS
    Loads,           \* the requests a load may make
    CompletedTtl,    \* OVERVIEW_COMPLETED_RESULT_TTL_MS
    CooldownTime,    \* OVERVIEW_RATE_LIMIT_COOLDOWN_MS
    LoadAttempts,    \* 1 + the length of OVERVIEW_MISSING_SETTINGS_RETRY_DELAYS_MS
    Missing,         \* versions of the chain without the settings account
    MaxLoads         \* bound: loads begun

ASSUME ReadModelAssumption ==
    /\ Loads \subseteq Requests
    /\ {CompletedTtl, CooldownTime, LoadAttempts, MaxLoads} \subseteq Nat \ {0}

VARIABLES
    reader,     \* per caller the read it serves
    completed,  \* overviewCompletedResultsByKey: [seen, order, left]; left 0 when expired
    loading,    \* overviewLoadPromisesByKey: the order of the load, 0 for none
    latest,     \* overviewLoadOrder.#latestByKey, 0 for none
    nextOrder,  \* overviewLoadOrder.#nextOrder
    cooldown    \* overviewRateLimitCooldownUntilByKey: time left, 0 for none

readVars == <<reader, completed, loading, latest, nextOrder, cooldown>>
vars == <<queueVars, readVars>>

-----------------------------------------------------------------------------
\* SmartAccountReadModelLoadOrder.
\* Mutant: any load publishes.
IsCurrent_Always(order) == TRUE

IsCurrent(order) == latest = order

AfterFinish(order) == IF IsCurrent(order) THEN 0 ELSE latest

\* resolveSmartAccountReadModelReuse.
Reuse(forced) ==
    CASE forced -> "load"
      [] ~forced /\ loading # 0 -> "in-flight"
      [] ~forced /\ loading = 0 /\ completed.left > 0 -> "completed"
      [] OTHER -> "load"

\* loadSmartAccountReadModel up to its first await.
Read(r, forced) ==
    LET reuse == Reuse(forced)
    IN /\ reader[r].pc = "idle"
       /\ \/ /\ cooldown > 0 \/ reuse = "completed"
             /\ UNCHANGED <<queueVars, reader, loading, latest, nextOrder>>
          \/ /\ cooldown = 0 /\ reuse = "in-flight"
             /\ reader' = [reader EXCEPT ![r] = [pc |-> "joined", order |-> loading]]
             /\ UNCHANGED <<queueVars, loading, latest, nextOrder>>
          \/ /\ cooldown = 0 /\ reuse = "load"
             /\ nextOrder < MaxLoads
             /\ nextOrder' = nextOrder + 1
             /\ latest' = nextOrder + 1
             /\ loading' = nextOrder + 1
             /\ \E load \in Loads :
                  /\ reader' = [reader EXCEPT ![r] = [pc |-> "loading", order |-> nextOrder + 1,
                                                           attempt |-> 1, load |-> load]]
                  /\ Fetch(r, load)
       /\ UNCHANGED <<completed, cooldown>>

\* The load settles: it publishes its result, or the cooldown a 429 calls for,
\* if its token is the latest; it releases its promise and its token, and
\* answers who joined it.
Finish(r, seen) ==
    LET order == reader[r].order IN
    /\ completed' = IF Version(seen) /\ IsCurrent(order)
                    THEN [seen |-> seen, order |-> order, left |-> CompletedTtl] ELSE completed
    /\ cooldown' = CASE ~IsCurrent(order) -> cooldown
                     [] IsCurrent(order) /\ seen = TooMany -> CooldownTime
                     [] IsCurrent(order) /\ Version(seen) -> 0
                     [] OTHER -> cooldown
    /\ loading' = IF loading = order THEN 0 ELSE loading
    /\ latest' = AfterFinish(order)
    /\ reader' = [q \in Callers |->
                    IF q = r \/ (reader[q].pc = "joined" /\ reader[q].order = order)
                    THEN Idle ELSE reader[q]]
    /\ UNCHANGED nextOrder

\* args.load() settles.  A missing settings account is tried again after a
\* pause.  isRpcRateLimitError knows the 429 response of a method that the
\* queue does not retry, not the queue's own SolanaRpcRateLimitError; and it takes
\* a failure that says "max usage reached" for a 429.
Loaded(r) ==
    LET seen == call[r].seen
        again == seen \in Missing /\ reader[r].attempt < LoadAttempts
    IN /\ reader[r].pc = "loading" /\ call[r].pc = "done"
       /\ \/ /\ again
             /\ reader' = [reader EXCEPT ![r].pc = "pause", ![r].attempt = @ + 1]
             /\ UNCHANGED <<completed, loading, latest, nextOrder, cooldown>>
          \/ /\ ~again
             /\ \E result \in CASE seen \in Missing -> {Nothing}
                               [] seen = Nothing -> {Nothing, TooMany}
                               [] OTHER -> {seen} : Finish(r, result)
       /\ call' = [call EXCEPT ![r] = Idle]
       /\ UNCHANGED <<endpoint, inflight, recent, chain, told, log>>

\* The pause (250 ms or more) is over.
Retry(r) ==
    /\ reader[r].pc = "pause"
    /\ reader' = [reader EXCEPT ![r].pc = "loading"]
    /\ Fetch(r, reader[r].load)
    /\ UNCHANGED <<completed, loading, latest, nextOrder, cooldown>>

ReadTick ==
    /\ Tick
    /\ completed' = [completed EXCEPT !.left = Less(@)]
    /\ cooldown' = Less(cooldown)
    /\ UNCHANGED <<reader, loading, latest, nextOrder>>

Init ==
    /\ QueueInit
    /\ reader = [r \in Callers |-> Idle]
    /\ completed = [seen |-> Nothing, order |-> 0, left |-> 0]
    /\ loading = 0 /\ latest = 0 /\ nextOrder = 0 /\ cooldown = 0

Next ==
    \/ \E r \in Callers : (\E forced \in BOOLEAN : Read(r, forced)) \/ Loaded(r) \/ Retry(r)
    \/ QueueEvent /\ UNCHANGED readVars
    \/ ReadTick

Spec == Init /\ [][Next]_vars

\* A fetch settles (the platform gives up on a dead connection), timers fire,
\* promises run on and the clock goes on.  Nothing makes a caller read.
Progress ==
    \/ \E r \in Callers : Loaded(r) \/ Retry(r)
    \/ UNCHANGED readVars /\ (Fire \/ \E c \in Callers : Answered(c) \/ Wake(c))

FairSpec == Spec /\ WF_vars(Progress) /\ WF_vars(ReadTick)

-----------------------------------------------------------------------------
\* Properties.

\* "an older policy result must not publish over a forced read": the completed
\* result never goes back to a load that began earlier, although loads overlap
\* and settle in any order.
PublishedInOrder == [][completed'.order >= completed.order]_vars

\* Every read returns or fails: no pump of the queue below, no joiner of a load
\* and no retry is forgotten, whatever the endpoint answers.
EveryReadSettles == \A r \in Callers : reader[r].pc # "idle" ~> reader[r].pc = "idle"

\* The strengthening under which PublishedInOrder holds: the latest token is the
\* newest load's and was issued after everything published, and a load that can
\* still settle has a token.
LoadInv ==
    /\ nextOrder \in Nat
    /\ latest \in 0..nextOrder
    /\ completed = [seen |-> completed.seen, order |-> completed.order, left |-> completed.left]
    /\ completed.order \in 0..nextOrder
    /\ latest # 0 => completed.order < latest
    /\ DOMAIN reader = Callers
    /\ \A r \in Callers :
          reader[r].pc \in {"loading", "pause"} =>
              reader[r] \in [pc : {"loading", "pause"}, order : 1..nextOrder,
                             attempt : Nat, load : Loads]

=============================================================================
