--------------------------- MODULE RealtimeServer ---------------------------
(***************************************************************************)
(* The realtime service: the table of events that database transactions    *)
(* append to, the listener that broadcasts new rows, the retention loop,    *)
(* and the handler of GET /events, which admits one client with or without *)
(* a cursor, replays what it missed and then streams live rows.            *)
(*                                                                         *)
(* The handler awaits the database between its steps, so the listener runs *)
(* between any two of them.  Rows are the numbers the table's sequence     *)
(* hands out in order; a row is numbered before its transaction commits.   *)
(* All rows here match the client's claims.                                *)
(***************************************************************************)
EXTENDS Integers, Sequences, FiniteSets

CONSTANTS
    MaxEvents,      \* rows written after the first one, row 0
    MaxOpen,        \* writing transactions open at once
    MaxExpired,     \* rows that outlive the retention period
    CatchUpLimit,   \* REALTIME_CATCH_UP_LIMIT
    ClientBuffer,   \* REALTIME_CLIENT_BUFFER
    MaxFaults,      \* failures of any kind, here and in the page
    None,           \* no cursor
    Resync          \* the message resync_required

ASSUME ServerAssumption ==
    /\ {MaxEvents, MaxOpen, CatchUpLimit} \subseteq Nat \ {0}
    /\ {MaxExpired, MaxFaults} \subseteq Nat
    /\ ClientBuffer \in Nat /\ ClientBuffer > CatchUpLimit
    /\ {None, Resync} \cap Int = {}

VARIABLES
    done,       \* the rows whose transactions committed
    expired,    \* the rows retention deleted
    broadcast,  \* the listener's cursor
    fetched,    \* the rows it fetched and has not broadcast yet
    link,       \* the client's connection, as the service sees it
    faults      \* the failures so far

serverVars == <<done, expired, broadcast, fetched, link>>

Log == done \ expired

\* i64::MAX, the threshold of a client that is not admitted yet.
Never == MaxEvents + 1

NoLink ==
    [pc |-> "none", from |-> None, high |-> 0, least |-> Never,
     sent |-> <<>>, taken |-> 0, open |-> FALSE]

\* The first thing the handler does for an authenticated request: it enters
\* the client in the table of clients, before it reads the high-water mark.
Register(cursor) == [NoLink EXCEPT !.pc = "registered", !.from = cursor, !.open = TRUE]

Oldest(S) == CHOOSE e \in S : \A x \in S : e <= x
Newest(S) == CHOOSE e \in S : \A x \in S : x <= e

\* ORDER BY id: the one increasing sequence of the rows S.
Sorted(S) == {s \in [1..Cardinality(S) -> S] : \A i, j \in DOMAIN s : i < j => s[i] < s[j]}

\* LIMIT n.
Prefix(s, n) == SubSeq(s, 1, IF Len(s) < n THEN Len(s) ELSE n)

-----------------------------------------------------------------------------
\* The client's channel, which never blocks a sender.

Room(l) == ClientBuffer - (Len(l.sent) - l.taken)

TrySend(l, rows) ==
    [l EXCEPT !.sent = @ \o Prefix(rows, Room(l))]

\* resync_required, lost if the channel is full; the client leaves the table
\* and its stream ends once it is drained.
EnqueueResync(l) == [TrySend(l, <<Resync>>) EXCEPT !.open = FALSE]

-----------------------------------------------------------------------------
\* The table.

\* A transaction commits row e, with fewer than MaxOpen that have an earlier
\* number still open.
Commit(e) ==
    /\ e \notin done
    /\ Cardinality(1..(e - 1) \ done) < MaxOpen
    /\ done' = done \cup {e}
    /\ UNCHANGED <<expired, broadcast, fetched, link, faults>>

CleanupExpired ==
    /\ Log # {}
    /\ Cardinality(expired) < MaxExpired
    /\ expired' = expired \cup {Oldest(Log)}
    /\ UNCHANGED <<done, broadcast, fetched, link, faults>>

-----------------------------------------------------------------------------
\* The listener.  A notification and the fallback tick do the same, so a lost
\* notification only delays it; a failed session keeps the cursor.

FetchEventsAfter ==
    LET rows == {e \in Log : e > broadcast}
    IN  /\ fetched = <<>>
        /\ rows # {}
        /\ \E next \in Sorted(rows) : fetched' = Prefix(next, CatchUpLimit)
        /\ UNCHANGED <<done, expired, broadcast, link, faults>>

BroadcastRow ==
    /\ fetched # <<>>
    /\ broadcast' = Head(fetched)
    /\ fetched' = Tail(fetched)
    /\ link' = IF ~link.open \/ Head(fetched) <= link.least THEN link
               ELSE IF Room(link) = 0 THEN [link EXCEPT !.open = FALSE]
               ELSE TrySend(link, <<Head(fetched)>>)
    /\ UNCHANGED <<done, expired, faults>>

-----------------------------------------------------------------------------
\* The handler of GET /events, from the query of the high-water mark on.

LatestEventId ==
    /\ link.pc = "registered"
    /\ link' = [link EXCEPT !.pc = "latest", !.high = IF Log = {} THEN 0 ELSE Newest(Log)]
    /\ UNCHANGED <<done, expired, broadcast, fetched, faults>>

\* The handler returns the stream.
Serve(l) == [l EXCEPT !.pc = "serving", !.from = None, !.high = 0]

\* Mutant: live rows begin at the client's cursor.
StoreMinimum_OfCursor ==
    /\ link.pc = "latest"
    /\ link' = IF link.from = None THEN [Serve(link) EXCEPT !.least = link.high]
               ELSE [link EXCEPT !.least = link.from, !.pc = "stored"]
    /\ UNCHANGED <<done, expired, broadcast, fetched, faults>>

StoreMinimum ==
    /\ link.pc = "latest"
    /\ link' = IF link.from = None THEN [Serve(link) EXCEPT !.least = link.high]
               ELSE [link EXCEPT !.least = link.high, !.pc = "stored"]
    /\ UNCHANGED <<done, expired, broadcast, fetched, faults>>

\* A cursor older than the oldest row left is answered with a resync.
MinEventId ==
    /\ link.pc = "stored"
    /\ link' = IF Log # {} /\ link.from + 1 < Oldest(Log)
               THEN Serve(EnqueueResync(link))
               ELSE [link EXCEPT !.pc = "checked"]
    /\ UNCHANGED <<done, expired, broadcast, fetched, faults>>

Replayed(l, rows) ==
    IF Len(rows) > CatchUpLimit THEN EnqueueResync(l)
    ELSE IF Len(rows) > Room(l) THEN EnqueueResync(TrySend(l, rows))
    ELSE TrySend(l, rows)

EnqueueReplay ==
    /\ link.pc = "checked"
    /\ \E rows \in Sorted({e \in Log : link.from < e /\ e <= link.high}) :
          link' = Serve(Replayed(link, rows))
    /\ UNCHANGED <<done, expired, broadcast, fetched, faults>>

\* A query of the replay fails or times out.
ReplayFails ==
    /\ faults < MaxFaults
    /\ link.pc \in {"stored", "checked"}
    /\ link' = Serve(EnqueueResync(link))
    /\ faults' = faults + 1
    /\ UNCHANGED <<done, expired, broadcast, fetched>>

-----------------------------------------------------------------------------
ServerInit ==
    /\ done = {0}
    /\ expired = {}
    /\ broadcast = 0
    /\ fetched = <<>>
    /\ link = NoLink
    /\ faults = 0

Writers == CleanupExpired \/ \E e \in 1..MaxEvents : Commit(e)

ServerStep ==
    \/ FetchEventsAfter
    \/ BroadcastRow
    \/ LatestEventId
    \/ StoreMinimum
    \/ MinEventId
    \/ EnqueueReplay

-----------------------------------------------------------------------------
(***************************************************************************)
(* No row is put twice into one stream: the rows the handler replays end   *)
(* where the rows the listener hands the same client begin, whenever the   *)
(* two run (events, enqueue_replay, broadcast_row).                        *)
(***************************************************************************)
SentOnce ==
    \A i, j \in 1..Len(link.sent) : i # j => link.sent[i] # link.sent[j]

=============================================================================
