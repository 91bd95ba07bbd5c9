------------------------------- MODULE Engine -------------------------------
(***************************************************************************)
(* Processes of one family (go/workers/internal/engine): each holds the    *)
(* family's advisory lock on a connection of its own (HoldFamily) and runs *)
(* its lanes (Run) until one of them stops, the process is told to stop or *)
(* the lock is lost.  The lanes write on other connections.                *)
(***************************************************************************)
EXTENDS Naturals

CONSTANTS
    Procs,
    Lanes,
    NoProc,     \* the lock is free
    MaxFaults   \* bound: dropped connections, signals and lanes that stop by themselves

ASSUME EngineAssumption ==
    /\ Lanes # {}
    /\ NoProc \notin Procs
    /\ MaxFaults \in Nat

VARIABLES
    lock,     \* the process whose connection holds the lock
    proc,     \* "down", "up", or "returned" from Run
    cause,    \* why the context of the process ended: "none", "signal", "lost"
    owned,    \* a lane has called cancel
    lane,     \* per lane of Run: "off", "running", "returned", "checked", "reported", "done"
    err,      \* what the lane returned: "nil", "canceled", "error"
    results,  \* an error is in the channel
    exit,     \* what the process ended with: "none", "nil", "error", "ended", "lost"
    faults

vars == <<lock, proc, cause, owned, lane, err, results, exit, faults>>

Errors == {"nil", "canceled", "error"}

TypeOK ==
    /\ lock \in Procs \union {NoProc}
    /\ proc \in [Procs -> {"down", "up", "returned"}]
    /\ cause \in [Procs -> {"none", "signal", "lost"}]
    /\ owned \in [Procs -> BOOLEAN]
    /\ lane \in [Procs -> [Lanes -> {"off", "running", "returned", "checked", "reported", "done"}]]
    /\ err \in [Procs -> [Lanes -> Errors]]
    /\ results \in [Procs -> BOOLEAN]
    /\ exit \in [Procs -> {"none", "nil", "error", "ended", "lost"}]
    /\ faults \in 0..MaxFaults

Init ==
    /\ lock = NoProc
    /\ proc = [p \in Procs |-> "down"]
    /\ cause = [p \in Procs |-> "none"]
    /\ owned = [p \in Procs |-> FALSE]
    /\ lane = [p \in Procs |-> [l \in Lanes |-> "off"]]
    /\ err = [p \in Procs |-> [l \in Lanes |-> "nil"]]
    /\ results = [p \in Procs |-> FALSE]
    /\ exit = [p \in Procs |-> "none"]
    /\ faults = 0

\* owned.Err() # nil: a lane called cancel, or the parent context ended.
OwnedEnded(p) == owned[p] \/ cause[p] # "none"

-----------------------------------------------------------------------------
\* The family's lock.

\* HoldFamily gets the lock, and Run starts the lanes.  ErrFamilyHeld ends the
\* process, which changes nothing here.
HoldFamily(p) ==
    /\ proc[p] = "down"
    /\ lock = NoProc
    /\ lock' = p
    /\ proc' = [proc EXCEPT ![p] = "up"]
    /\ lane' = [lane EXCEPT ![p] = [l \in Lanes |-> "running"]]
    /\ UNCHANGED <<cause, owned, err, results, exit, faults>>

\* The lock's connection drops (external).
DropConnection(p) ==
    /\ lock = p
    /\ faults < MaxFaults
    /\ faults' = faults + 1
    /\ lock' = NoProc
    /\ UNCHANGED <<proc, cause, owned, lane, err, results, exit>>

\* Mutant: the loss is seen and the context is not stopped.
LockLost_Unheard(p) ==
    /\ proc[p] = "up"
    /\ lock # p
    /\ cause[p] = "none"
    /\ UNCHANGED vars

\* WaitForNotification returns, lost is closed, and the context is stopped.
LockLost(p) ==
    /\ proc[p] = "up"
    /\ lock # p
    /\ cause[p] = "none"
    /\ cause' = [cause EXCEPT ![p] = "lost"]
    /\ UNCHANGED <<lock, proc, owned, lane, err, results, exit, faults>>

\* SIGTERM ends the context.
Signal(p) ==
    /\ proc[p] = "up"
    /\ cause[p] = "none"
    /\ faults < MaxFaults
    /\ faults' = faults + 1
    /\ cause' = [cause EXCEPT ![p] = "signal"]
    /\ UNCHANGED <<lock, proc, owned, lane, err, results, exit>>

\* The waiting goroutine sees the context's end and closes the connection, while
\* lanes may still run.
CloseConnection(p) ==
    /\ lock = p
    /\ cause[p] # "none"
    /\ lock' = NoProc
    /\ UNCHANGED <<proc, cause, owned, lane, err, results, exit, faults>>

-----------------------------------------------------------------------------
\* Run, a goroutine per lane.

\* lane.Run returns after its context ended, with any error ...
LaneEnds(p, l) ==
    /\ lane[p][l] = "running"
    /\ OwnedEnded(p)
    /\ \E e \in Errors : err' = [err EXCEPT ![p][l] = e]
    /\ lane' = [lane EXCEPT ![p][l] = "returned"]
    /\ UNCHANGED <<lock, proc, cause, owned, results, exit, faults>>

\* ... or before.
LaneStops(p, l) ==
    /\ lane[p][l] = "running"
    /\ ~OwnedEnded(p)
    /\ faults < MaxFaults
    /\ faults' = faults + 1
    /\ \E e \in Errors : err' = [err EXCEPT ![p][l] = e]
    /\ lane' = [lane EXCEPT ![p][l] = "returned"]
    /\ UNCHANGED <<lock, proc, cause, owned, results, exit>>

\* Mutant: a lane that stops without an error is taken for a stop on demand.
CheckLane_Trusting(p, l) ==
    /\ lane[p][l] = "returned"
    /\ lane' = [lane EXCEPT ![p][l] = "checked"]
    /\ UNCHANGED <<lock, proc, cause, owned, err, results, exit, faults>>

\* A lane that stops unexpectedly has an error.
CheckLane(p, l) ==
    /\ lane[p][l] = "returned"
    /\ err' = [err EXCEPT ![p][l] = IF ~OwnedEnded(p) THEN "error" ELSE @]
    /\ lane' = [lane EXCEPT ![p][l] = "checked"]
    /\ UNCHANGED <<lock, proc, cause, owned, results, exit, faults>>

\* results <- err, which nothing reads after.
Report(p, l) ==
    /\ lane[p][l] = "checked"
    /\ results' = [results EXCEPT ![p] = @ \/ err[p][l] = "error"]
    /\ err' = [err EXCEPT ![p][l] = "nil"]
    /\ lane' = [lane EXCEPT ![p][l] = "reported"]
    /\ UNCHANGED <<lock, proc, cause, owned, exit, faults>>

Cancel(p, l) ==
    /\ lane[p][l] = "reported"
    /\ owned' = [owned EXCEPT ![p] = TRUE]
    /\ lane' = [lane EXCEPT ![p][l] = "done"]
    /\ UNCHANGED <<lock, proc, cause, err, results, exit, faults>>

\* wg.Wait, the errors or ctx.Err(), and the cause that runRetail puts before them.
Return(p) ==
    /\ proc[p] = "up"
    /\ \A l \in Lanes : lane[p][l] = "done"
    /\ exit' = [exit EXCEPT ![p] =
           IF cause[p] = "lost" THEN "lost"
           ELSE IF results[p] THEN "error" ELSE IF cause[p] # "none" THEN "ended" ELSE "nil"]
    /\ proc' = [proc EXCEPT ![p] = "returned"]
    /\ UNCHANGED <<lock, cause, owned, lane, err, results, faults>>

\* The process exits, which closes the connection, and is down until it is started again.
Exit(p) ==
    /\ proc[p] = "returned"
    /\ proc' = [proc EXCEPT ![p] = "down"]
    /\ lock' = IF lock = p THEN NoProc ELSE lock
    /\ cause' = [cause EXCEPT ![p] = "none"]
    /\ owned' = [owned EXCEPT ![p] = FALSE]
    /\ lane' = [lane EXCEPT ![p] = [l \in Lanes |-> "off"]]
    /\ err' = [err EXCEPT ![p] = [l \in Lanes |-> "nil"]]
    /\ results' = [results EXCEPT ![p] = FALSE]
    /\ exit' = [exit EXCEPT ![p] = "none"]
    /\ UNCHANGED faults

-----------------------------------------------------------------------------
Lane(p, l) == LaneEnds(p, l) \/ CheckLane(p, l) \/ Report(p, l) \/ Cancel(p, l)

Process(p) ==
    \/ HoldFamily(p) \/ LockLost(p) \/ CloseConnection(p) \/ Return(p) \/ Exit(p)
    \/ \E l \in Lanes : Lane(p, l)

Fault(p) == DropConnection(p) \/ Signal(p) \/ \E l \in Lanes : LaneStops(p, l)

Next == \E p \in Procs : Process(p) \/ Fault(p)

Spec == Init /\ [][Next]_vars

\* A process is scheduled, lanes stop when their context ends, and a dropped
\* connection is noticed.
Fairness ==
    \A p \in Procs :
        /\ WF_vars(LockLost(p)) /\ WF_vars(CloseConnection(p))
        /\ WF_vars(Return(p)) /\ WF_vars(Exit(p))
        /\ \A l \in Lanes : WF_vars(Lane(p, l))

FairSpec == Spec /\ Fairness

-----------------------------------------------------------------------------
\* Run never returns nil, so a supervisor never takes the end of a process for
\* success: whichever lane cancels first, and however the end of the context, its
\* return and the others' interleave, an error is in the channel or the context
\* ended.
NeverNil == \A p \in Procs : exit[p] # "nil"

\* Run joins its lanes: no lane of a process that returned still runs, so nothing
\* is closed under a lane.
LanesAreJoined ==
    \A p \in Procs : proc[p] # "up" => \A l \in Lanes : lane[p][l] \in {"off", "done"}

\* A process that lost its lock, or one of its lanes, stops: the successor is not
\* alone at once, but in the end, and no family runs on with half of its lanes.
LostPartEnds ==
    \A p \in Procs :
        (proc[p] = "up" /\ (lock # p \/ \E l \in Lanes : lane[p][l] # "running")) ~> proc[p] # "up"

-----------------------------------------------------------------------------
\* The strengthening under which NeverNil and LanesAreJoined are inductive: a lane
\* past its check has an error or its context had ended, and a lane cancels the
\* others only after an error is in the channel or the context had ended.
LaneOK(p, l) ==
    /\ lane[p][l] = "checked" => err[p][l] = "error" \/ OwnedEnded(p)
    /\ lane[p][l] = "reported" => results[p] \/ OwnedEnded(p)
    /\ lane[p][l] = "done" => owned[p]
    /\ proc[p] # "up" => lane[p][l] \in {"off", "done"}
    /\ proc[p] = "up" => lane[p][l] # "off"

IInv ==
    /\ TypeOK
    /\ \A p \in Procs : owned[p] => results[p] \/ cause[p] # "none"
    /\ \A p \in Procs, l \in Lanes : LaneOK(p, l)
    /\ NeverNil
=============================================================================
