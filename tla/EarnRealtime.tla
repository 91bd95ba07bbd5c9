---------------------------- MODULE EarnRealtime ----------------------------
(***************************************************************************)
(* The page's side of the Earn stream: the lifecycle that keeps one stream *)
(* open, the cursor in the browser's storage, the batcher of invalidations *)
(* and the coordinator that re-reads the resources they name.              *)
(*                                                                         *)
(* JavaScript runs to completion: an action is one task (a timer, a frame  *)
(* of the stream, the answer to a read) and every promise reaction it      *)
(* sets off.  A page session is one run of the hook's effect: it ends when *)
(* the identity changes or goes away, or when the hook is disabled, which  *)
(* leaves the coordinator and its reads to the next session.  What a       *)
(* session that ended still awaits settles later, so sessions are          *)
(* numbered.  What a resource shows is the set of events it reflects; the  *)
(* page has its policy and its resources, without which a read resolves    *)
(* with nothing to show.                                                   *)
(***************************************************************************)
EXTENDS RealtimeServer

CONSTANTS
    Resources,      \* EARN_SYNC_RESOURCES
    Touches,        \* the resources an event invalidates
    MaxMounts,      \* page sessions
    MaxRefreshes    \* invalidations that come from elsewhere in the page

ASSUME PageAssumption ==
    /\ Touches \in [1..MaxEvents -> SUBSET Resources]
    /\ MaxMounts \in Nat \ {0}
    /\ MaxRefreshes \in Nat

VARIABLES
    mounted,    \* a session is mounted: the last one of 1..mounts
    scoped,     \* the coordinator has the scope of the last session
    mounts,
    page,       \* the sessions
    store,      \* the cursor: sessionStorage, the module's copy, its tombstone
    refreshes,
    handed,     \* the events the stream handed to a page
    applied     \* the events a committed read of each resource reflected

pageVars == <<mounted, scoped, mounts, page, store, refreshes, handed, applied>>
vars == <<serverVars, faults, pageVars>>

Idle == [start |-> None, dirty |-> FALSE]

\* A fresh session.  admission is the hook's admissionPromise, which holds
\* batches back; flight is the batch being flushed, {} when none is; stale says
\* that the batcher's epoch moved on since that flush began.
Fresh ==
    [conn |-> "idle", from |-> None, last |-> None, why |-> "none",
     admission |-> "ok", admitting |-> {},
     pending |-> {}, timer |-> FALSE,
     flight |-> {}, phase |-> "none", awaiting |-> {}, stale |-> FALSE,
     read |-> [r \in Resources |-> Idle]]

\* isCurrent: the generation follows the scope.
Current(g) == scoped /\ g = mounts

-----------------------------------------------------------------------------
\* The cursor store.  A write the browser denies leaves a tombstone, which
\* hides sessionStorage until a later write succeeds.

LatestCursor(a, b) == IF a = None THEN b ELSE IF b = None \/ a >= b THEN a ELSE b

Cursor(s) == LatestCursor(IF s.tombstone THEN None ELSE s.primary, s.memory)

Acknowledge(s, e, works) ==
    LET next == LatestCursor(Cursor(s), e)
    IN  [primary |-> IF works THEN next ELSE s.primary, memory |-> next,
         tombstone |-> ~works]

\* Mutant: sessionStorage keeps the cursor.
Clear_MemoryOnly(s, works) == [s EXCEPT !.memory = None]

Clear(s, works) ==
    [primary |-> IF works THEN None ELSE s.primary, memory |-> None,
     tombstone |-> ~works]

-----------------------------------------------------------------------------
\* The coordinator.  Invalidating a resource reads it; while a read is in
\* flight it asks for one trailing read, which the same promise covers.  The
\* position is the same with the loop inside its own hook.

\* Mutant: an invalidation joins the read in flight.
Invalidate_Joins(p, R) ==
    [p EXCEPT !.read = [r \in Resources |->
        IF r \notin R \/ p.read[r] # Idle THEN p.read[r]
        ELSE [start |-> done, dirty |-> FALSE]]]

Invalidate(p, R) ==
    [p EXCEPT !.read = [r \in Resources |->
        IF r \notin R THEN p.read[r]
        ELSE IF p.read[r] = Idle THEN [start |-> done, dirty |-> FALSE]
        ELSE [p.read[r] EXCEPT !.dirty = TRUE]]]

-----------------------------------------------------------------------------
\* The batcher.

\* schedule, which does nothing while a batch is in flight.
Schedule(p) == [p EXCEPT !.timer = p.timer \/ (p.flight = {} /\ p.pending # {})]

Enqueue(p, e) ==
    IF e \in p.pending \/ (e \in p.flight /\ ~p.stale) THEN p
    ELSE Schedule([p EXCEPT !.pending = @ \cup {e}])

Landed(p) == [p EXCEPT !.flight = {}, !.phase = "none", !.awaiting = {}, !.stale = FALSE]

Accepted(p) == Schedule(Landed(p))

Rejected(p) ==
    Schedule([Landed(p) EXCEPT !.pending = IF p.stale THEN @ ELSE @ \cup p.flight])

\* acceptEarnRealtimeInvalidationBatch and the handler of the batch, once the
\* admission is over.  An event the page does not understand touches everything.
AcceptBatch(p) ==
    LET R == UNION {Touches[e] : e \in p.flight}
    IN  [Invalidate(p, R) EXCEPT !.phase = "reads", !.awaiting = R]

Reset(p) == [p EXCEPT !.pending = {}, !.timer = FALSE, !.stale = p.flight # {}]

\* Mutant: disposing of the batcher leaves its epoch.
Dispose_KeepsEpoch(p) ==
    [Fresh EXCEPT !.flight = IF p.phase = "reads" THEN p.flight ELSE {},
                  !.phase = IF p.phase = "reads" THEN "reads" ELSE "none",
                  !.awaiting = p.awaiting,
                  !.stale = p.stale,
                  !.read = p.read]

\* Unmounting aborts the lifecycle and disposes of the batcher.  A batch that
\* still waits for the admission can only ask for reads of the next session.
Dispose(p) ==
    [Fresh EXCEPT !.flight = IF p.phase = "reads" THEN p.flight ELSE {},
                  !.phase = IF p.phase = "reads" THEN "reads" ELSE "none",
                  !.awaiting = p.awaiting,
                  !.stale = p.phase = "reads",
                  !.read = p.read]

-----------------------------------------------------------------------------
\* The lifecycle.

EndStream(p, why) == [p EXCEPT !.conn = "ending", !.why = why]

\* A stream that ended waits for the reconciliation it started, and a
\* reconciliation that fails aborts its stream; then the loop connects again.
\* After resync_required it starts over, without cursor and batch.
StreamIsOver(p) ==
    \/ p.conn = "ending" /\ p.admission # "pending"
    \/ p.conn = "open" /\ p.from = None /\ p.admission = "failed"

Resyncs(p) == StreamIsOver(p) /\ p.why = "resync"

Reconnect(p) ==
    [IF Resyncs(p) THEN Reset(p) ELSE p
     EXCEPT !.conn = "idle", !.why = "none", !.last = None, !.from = None]

-----------------------------------------------------------------------------
\* What the end of resource r's read sets off in a session: first in its
\* admission, then in its batch.

AfterAdmission(p, r, ok) ==
    IF r \notin p.admitting THEN p
    ELSE IF ~ok THEN [p EXCEPT !.admission = "failed", !.admitting = {}]
    ELSE [p EXCEPT !.admitting = @ \ {r},
                   !.admission = IF p.admitting = {r} THEN "ok" ELSE @]

AfterRead(p, r, ok) ==
    CASE p.phase = "admission" /\ p.admission = "failed" -> Rejected(p)
      [] p.phase = "admission" /\ p.admission = "ok" -> AcceptBatch(p)
      [] r \in p.awaiting /\ ~ok -> Rejected(p)
      [] OTHER -> [p EXCEPT !.awaiting = @ \ {r}]

IsRead(p) == p.phase = "reads" /\ p.awaiting = {}

\* Session g becomes p.  Its batch is acknowledged if it has been read, and its
\* lifecycle goes on if its stream is over; n faults have happened, and denying
\* the write of the cursor is one more.
Become(g, p, l, n) ==
    LET q == IF IsRead(p) THEN Accepted(p) ELSE p
        acks == IsRead(p) /\ ~p.stale
    IN  \E works \in BOOLEAN :
            LET s == IF acks THEN Acknowledge(store, Newest(p.flight), works) ELSE store
            IN  /\ works \/ ((acks \/ Resyncs(q)) /\ n < MaxFaults)
                /\ page' = [page EXCEPT ![g] = IF StreamIsOver(q) THEN Reconnect(q) ELSE q]
                /\ store' = IF Resyncs(q) THEN Clear(s, works) ELSE s
                /\ link' = IF StreamIsOver(q) THEN NoLink ELSE l
                /\ faults' = IF works THEN n ELSE n + 1

-----------------------------------------------------------------------------
\* The stream, in the mounted session.

Connect ==
    LET p == page[mounts]
    IN  /\ mounted /\ p.conn = "idle"
        /\ page' = [page EXCEPT ![mounts].conn = "opening", ![mounts].from = Cursor(store)]
        /\ store' = [store EXCEPT !.memory = Cursor(store)]
        /\ link' = Register(Cursor(store))
        /\ UNCHANGED <<done, expired, broadcast, fetched, faults>>
        /\ UNCHANGED <<mounted, scoped, mounts, refreshes, handed, applied>>

\* Without a cursor the page reads everything before it counts as connected.
Connected ==
    LET p == [page[mounts] EXCEPT !.conn = "open", !.last = page[mounts].from]
    IN  /\ mounted /\ page[mounts].conn = "opening" /\ link.pc = "serving"
        /\ page' = [page EXCEPT ![mounts] =
              IF p.from # None THEN p
              ELSE [Invalidate(p, Resources) EXCEPT !.admission = "pending",
                                                    !.admitting = Resources]]
        /\ UNCHANGED <<serverVars, faults>>
        /\ UNCHANGED <<mounted, scoped, mounts, store, refreshes, handed, applied>>

Receive ==
    LET p == page[mounts]
        m == link.sent[link.taken + 1]
        l == [link EXCEPT !.taken = @ + 1]
        fresh == m # Resync /\ (p.last = None \/ m > p.last)
    IN  /\ mounted /\ p.conn = "open" /\ link.taken < Len(link.sent)
        /\ Become(mounts,
                  IF m = Resync THEN EndStream(p, "resync")
                  ELSE IF fresh THEN [Enqueue(p, m) EXCEPT !.last = m]
                  ELSE p,
                  IF m = Resync THEN NoLink ELSE l, faults)
        /\ handed' = IF fresh THEN handed \cup {m} ELSE handed
        /\ UNCHANGED <<done, expired, broadcast, fetched>>
        /\ UNCHANGED <<mounted, scoped, mounts, refreshes, applied>>

StreamClosed ==
    /\ mounted /\ page[mounts].conn = "open"
    /\ ~link.open /\ link.taken = Len(link.sent)
    /\ Become(mounts, EndStream(page[mounts], "closed"), NoLink, faults)
    /\ UNCHANGED <<done, expired, broadcast, fetched>>
    /\ UNCHANGED <<mounted, scoped, mounts, refreshes, handed, applied>>

\* The request is refused, the network drops the stream, it stays silent too
\* long, its token expires or is renewed.
Disconnect ==
    /\ faults < MaxFaults
    /\ mounted /\ page[mounts].conn \in {"opening", "open"}
    /\ Become(mounts, EndStream(page[mounts], "closed"), NoLink, faults + 1)
    /\ UNCHANGED <<done, expired, broadcast, fetched>>
    /\ UNCHANGED <<mounted, scoped, mounts, refreshes, handed, applied>>

\* The service is deployed: its streams end, and the new process listens from
\* the newest row on.
Deploy ==
    LET p == page[mounts]
        streams == mounted /\ p.conn \in {"opening", "open"}
    IN  /\ faults < MaxFaults
        /\ mounts > 0
        /\ Become(mounts, IF streams THEN EndStream(p, "closed") ELSE p,
                  IF streams THEN NoLink ELSE link, faults + 1)
        /\ broadcast' = IF Log = {} THEN 0 ELSE Newest(Log)
        /\ fetched' = <<>>
        /\ UNCHANGED <<done, expired, mounted, scoped, mounts, refreshes, handed, applied>>

-----------------------------------------------------------------------------
\* Batches and reads.

FlushNow ==
    LET p == page[mounts]
        q == [p EXCEPT !.timer = FALSE, !.flight = p.pending, !.pending = {}]
    IN  /\ mounted /\ p.timer
        /\ Become(mounts,
                  CASE p.admission = "failed" -> Rejected(q)
                    [] p.admission = "pending" -> [q EXCEPT !.phase = "admission"]
                    [] p.admission = "ok" -> AcceptBatch(q),
                  link, faults)
        /\ UNCHANGED <<done, expired, broadcast, fetched>>
        /\ UNCHANGED <<mounted, scoped, mounts, refreshes, handed, applied>>

\* The read of r in session g is answered, with the state at its start or now,
\* or fails.  Only a current one is committed or repeated.
ReadDone(g, r, ok) ==
    LET p == page[g]
        again == Current(g) /\ p.read[r].dirty
        q == [p EXCEPT !.read[r] = Idle]
    IN  /\ p.read[r] # Idle
        /\ ok \/ faults < MaxFaults
        /\ Become(g,
                  IF again THEN Invalidate(q, {r})
                  ELSE AfterRead(AfterAdmission(q, r, ok), r, ok),
                  link, IF ok THEN faults ELSE faults + 1)
        /\ \E seen \in {p.read[r].start, done} :
              applied' = IF ok /\ Current(g) THEN [applied EXCEPT ![r] = @ \cup seen]
                         ELSE applied
        /\ UNCHANGED <<done, expired, broadcast, fetched>>
        /\ UNCHANGED <<mounted, scoped, mounts, refreshes, handed>>

\* An account subscription, the fallback of a mutation or of a sweep, or a
\* batch of an earlier session asks for a read.
Refresh(r) ==
    /\ refreshes < MaxRefreshes
    /\ scoped
    /\ page' = [page EXCEPT ![mounts] = Invalidate(@, {r})]
    /\ refreshes' = refreshes + 1
    /\ UNCHANGED <<serverVars, faults, mounted, scoped, mounts, store, handed, applied>>

\* reconcileRelated, which runs beside the reads of a batch, fails.
RelatedFails ==
    LET p == page[mounts]
    IN  /\ faults < MaxFaults
        /\ mounted /\ p.phase = "reads"
        /\ Become(mounts, Rejected(p), link, faults + 1)
        /\ UNCHANGED <<done, expired, broadcast, fetched>>
        /\ UNCHANGED <<mounted, scoped, mounts, refreshes, handed, applied>>

-----------------------------------------------------------------------------
\* Sessions.

\* A session of the scope the coordinator has takes over its reads.
Mount ==
    /\ ~mounted /\ mounts < MaxMounts
    /\ mounted' = TRUE
    /\ scoped' = TRUE
    /\ mounts' = mounts + 1
    /\ page' = IF ~scoped THEN page
               ELSE [page EXCEPT ![mounts] = Fresh, ![mounts + 1].read = page[mounts].read]
    /\ UNCHANGED <<serverVars, faults, store, refreshes, handed, applied>>

\* The hook is disabled, or its identity changes or goes away.
Unmount ==
    /\ mounted
    /\ mounted' = FALSE
    /\ scoped' \in BOOLEAN
    /\ page' = [page EXCEPT ![mounts] = Dispose(@)]
    /\ link' = NoLink
    /\ handed' = {}
    /\ UNCHANGED <<done, expired, broadcast, fetched, faults>>
    /\ UNCHANGED <<mounts, store, refreshes, applied>>

\* A reload leaves nothing but sessionStorage.
Reload ==
    /\ mounted
    /\ mounted' = FALSE
    /\ scoped' = FALSE
    /\ page' = [g \in 1..MaxMounts |-> Fresh]
    /\ store' = [store EXCEPT !.memory = None, !.tombstone = FALSE]
    /\ link' = NoLink
    /\ handed' = {}
    /\ UNCHANGED <<done, expired, broadcast, fetched, faults>>
    /\ UNCHANGED <<mounts, refreshes, applied>>

-----------------------------------------------------------------------------
\* The tab may hold the cursor of row 0 from an earlier visit.
Init ==
    /\ ServerInit
    /\ mounted = FALSE
    /\ scoped = FALSE
    /\ mounts = 0
    /\ page = [g \in 1..MaxMounts |-> Fresh]
    /\ \E c \in {None, 0} : store = [primary |-> c, memory |-> None, tombstone |-> FALSE]
    /\ refreshes = 0
    /\ handed = {}
    /\ applied = [r \in Resources |-> {}]

Server == (Writers \/ ReplayFails \/ ServerStep) /\ UNCHANGED pageVars
Stream == Connect \/ Connected \/ Receive \/ StreamClosed
Reads == \E g \in 1..MaxMounts, r \in Resources, ok \in BOOLEAN : ReadDone(g, r, ok)

Next ==
    \/ Server
    \/ Stream
    \/ FlushNow
    \/ Reads
    \/ Disconnect
    \/ Deploy
    \/ RelatedFails
    \/ \E r \in Resources : Refresh(r)
    \/ Mount
    \/ Unmount
    \/ Reload

Spec == Init /\ [][Next]_vars

\* The service's tasks and the browser's run, every read is answered or fails,
\* and the batcher's timer fires.
Progress == (ServerStep /\ UNCHANGED pageVars) \/ Stream \/ Reads

FairSpec == Spec /\ WF_vars(Progress) /\ WF_vars(FlushNow)

-----------------------------------------------------------------------------
Covers(e) == \A r \in Touches[e] : e \in applied[r]
Passed(e) == Cursor(store) # None /\ e <= Cursor(store)

(***************************************************************************)
(* A page that has a cursor to resume from has lost nothing it was handed: *)
(* each event is still in its batcher, or a read that reflects it has been *)
(* committed for every resource it touches; through failed reads, retries, *)
(* batches merged with later events, reads already in flight, reconnects,  *)
(* resyncs and denied storage (flushNow, ResourceRefreshCoordinator.run,   *)
(* SafeEarnRealtimeCursorStore).                                           *)
(***************************************************************************)
Held(p) == p.pending \cup IF p.stale THEN {} ELSE p.flight
HandedIsKept ==
    Cursor(store) # None => \A e \in handed : Covers(e) \/ e \in Held(page[mounts])

(***************************************************************************)
(* Only the mounted session moves the cursor, and only to an event of the  *)
(* batch it has in flight or, for a resync, to none: what a session that   *)
(* ended still awaits neither acknowledges its batch nor clears what the   *)
(* next one acknowledged (EarnRealtimeInvalidationBatcher's epoch).        *)
(***************************************************************************)
OwnBatchMovesCursor ==
    [][Cursor(store)' # Cursor(store) =>
          /\ mounted
          /\ mounted' => Cursor(store)' \in page[mounts].flight \cup {None}]_vars

(***************************************************************************)
(* A mounted page gets a live stream, and, if it had no cursor, is         *)
(* reconciled.  An expired cursor, a replay over the limit or a failed one *)
(* sends it through one resync; a live row that overruns its channel       *)
(* closes its stream without one, and it comes back with its cursor.       *)
(* Neither goes round in circles (runEarnRealtimeLifecycle,                *)
(* SafeEarnRealtimeCursorStore.clear, enqueue_replay, broadcast_row).      *)
(***************************************************************************)
Admitted(p) == p.conn = "open" /\ link.open /\ (p.from # None \/ p.admission = "ok")
PageIsAdmitted == mounted ~> (~mounted \/ Admitted(page[mounts]))

(***************************************************************************)
(* The stream has no gap: the cursor passes no committed event whose       *)
(* resources the page has not read since (the documents' gap-free SSE      *)
(* lifecycle).                                                             *)
(***************************************************************************)
GapFree == \A e \in done \ {0} : Passed(e) => Covers(e)

=============================================================================
