--------------------------- MODULE ReleaseControl ---------------------------
(***************************************************************************)
(* The release control of one vault and action (go/workers/internal/       *)
(* releasecontrol): operators open and hold a money path by compare-and-   *)
(* swap on the control's version, while the three admitting transactions   *)
(* (RecordDecisionOnManifest, DepositQuoter.Quote, reserveValidated) check *)
(* it FOR SHARE and store the version they were admitted under.            *)
(*                                                                         *)
(* A transaction is its statements, each a step: the locks of the row are  *)
(* what keeps them apart.  Its effects are visible from its commit on.     *)
(***************************************************************************)
EXTENDS Naturals, Sequences

CONSTANTS
    Admitters,    \* transactions that ask for an admission, each once
    Operators,    \* operators with the release-control command
    Owners,
    Amounts,      \* raw amounts and caps
    TakesOwners,  \* the action has owners to compare with an allowlist
    TakesLimit,   \* the action has an amount to compare with a cap
    Null,         \* SQL NULL: no allowlist, no cap, no amount
    NoOperator,   \* no transaction holds the row for update
    MaxVersion    \* bound: changes of the control

ASSUME ReleaseControlAssumption ==
    /\ Amounts \subseteq Nat
    /\ TakesOwners \in BOOLEAN
    /\ TakesLimit \in BOOLEAN
    /\ NoOperator \notin Operators
    /\ MaxVersion \in Nat

\* What an operator sets, and what validate lets through.
Changes == [state : {"open", "held"},
            allowed : {Null} \union (SUBSET Owners \ {{}}),
            max : {Null} \union Amounts]

Valid(c) == (c.allowed # Null => TakesOwners) /\ (c.max # Null => TakesLimit)

NoChange == [state |-> "held", allowed |-> Null, max |-> Null]

\* What a transaction asks for: the owners it pays, and an amount or none.
Requests == [owners : SUBSET Owners, amount : {Null} \union Amounts]

VARIABLES
    history,    \* vault_release_control_history; its last row is the control
    \* the locks of the control's row
    sharing,    \* transactions that hold it FOR SHARE
    writing,    \* the operator whose transaction holds it for update
    \* the admitting transactions
    apc,
    request,
    admission,  \* the version Check returned, 0 before
    \* the operators
    spc,
    expect,     \* --expect-version, from show
    change      \* what the open transaction of a Set has written

row == <<history, sharing, writing>>
admit == <<apc, request, admission>>
set == <<spc, expect, change>>
vars == <<row, admit, set>>

\* The committed control: version 0 is the missing row.
version == Len(history)
Control == history[version]

TypeOK ==
    /\ history \in Seq({c \in Changes : Valid(c)})
    /\ sharing \subseteq Admitters
    /\ writing \in Operators \union {NoOperator}
    /\ apc \in [Admitters -> {"idle", "checked", "admitted"}]
    /\ request \in [Admitters -> Requests]
    /\ admission \in [Admitters -> Nat]
    /\ spc \in [Operators -> {"idle", "shown", "written"}]
    /\ expect \in [Operators -> Nat]
    /\ change \in [Operators -> Changes]

Init ==
    /\ history = <<>>
    /\ sharing = {}
    /\ writing = NoOperator
    /\ apc = [a \in Admitters |-> "idle"]
    /\ request \in [Admitters -> Requests]
    /\ admission = [a \in Admitters |-> 0]
    /\ spc = [s \in Operators |-> "idle"]
    /\ expect = [s \in Operators |-> 0]
    /\ change = [s \in Operators |-> NoChange]

-----------------------------------------------------------------------------
\* Mutant: one allowed owner is enough.
Refusal_SomeOwner(c, r) ==
    CASE c.state # "open" -> "release_control_held"
      [] c.state = "open" /\ c.allowed # Null /\ r.owners \intersect c.allowed = {} ->
             "owner_not_admitted"
      [] OTHER -> IF c.max # Null /\ (r.amount = Null \/ r.amount > c.max)
                  THEN "amount_over_canary_limit" ELSE "none"

\* refusal: "none" when the control admits the request.
Refusal(c, r) ==
    CASE c.state # "open" -> "release_control_held"
      [] c.state = "open" /\ c.allowed # Null /\ (r.owners = {} \/ ~(r.owners \subseteq c.allowed)) ->
             "owner_not_admitted"
      [] OTHER -> IF c.max # Null /\ (r.amount = Null \/ r.amount > c.max)
                  THEN "amount_over_canary_limit" ELSE "none"

\* Mutant: the control is read without FOR SHARE.
Check_Unlocked(a) ==
    /\ apc[a] = "idle"
    /\ version > 0
    /\ Refusal(Control, request[a]) = "none"
    /\ apc' = [apc EXCEPT ![a] = "checked"]
    /\ admission' = [admission EXCEPT ![a] = version]
    /\ UNCHANGED <<history, sharing, writing, request, set>>

\* Check, inside the admitting transaction: the row is locked FOR SHARE, behind a
\* change that is being made.  A missing row and a refusal roll back: the
\* transaction may be tried again.
Check(a) ==
    /\ apc[a] = "idle"
    /\ version > 0
    /\ writing = NoOperator
    /\ Refusal(Control, request[a]) = "none"
    /\ sharing' = sharing \union {a}
    /\ apc' = [apc EXCEPT ![a] = "checked"]
    /\ admission' = [admission EXCEPT ![a] = version]
    /\ UNCHANGED <<history, writing, request, set>>

\* The operation, the quote or the attempt is stored with its version, and the
\* transaction commits.
Admit(a) ==
    /\ apc[a] = "checked"
    /\ apc' = [apc EXCEPT ![a] = "admitted"]
    /\ sharing' = sharing \ {a}
    /\ UNCHANGED <<history, writing, request, admission, set>>

\* A later check, an error or a lost session rolls the transaction back.
Abort(a) ==
    /\ apc[a] = "checked"
    /\ apc' = [apc EXCEPT ![a] = "idle"]
    /\ admission' = [admission EXCEPT ![a] = 0]
    /\ sharing' = sharing \ {a}
    /\ UNCHANGED <<history, writing, request, set>>

-----------------------------------------------------------------------------
\* The operator reads the control.
Show(s) ==
    /\ spc[s] = "idle"
    /\ expect' = [expect EXCEPT ![s] = version]
    /\ spc' = [spc EXCEPT ![s] = "shown"]
    /\ UNCHANGED <<row, admit, change>>

\* Mutant: the version is not compared.
Write_LastWins(s) ==
    /\ spc[s] = "shown"
    /\ version < MaxVersion
    /\ writing = NoOperator
    /\ sharing = {}
    /\ writing' = s
    /\ \E c \in Changes : Valid(c) /\ change' = [change EXCEPT ![s] = c]
    /\ spc' = [spc EXCEPT ![s] = "written"]
    /\ UNCHANGED <<history, sharing, admit, expect>>

\* Set: a change that validate accepts; its INSERT (of version 1) or UPDATE finds
\* the version it expects and has the row to itself.
Write(s) ==
    /\ spc[s] = "shown"
    /\ version < MaxVersion
    /\ version = expect[s]
    /\ writing = NoOperator
    /\ sharing = {}
    /\ writing' = s
    /\ \E c \in Changes : Valid(c) /\ change' = [change EXCEPT ![s] = c]
    /\ spc' = [spc EXCEPT ![s] = "written"]
    /\ UNCHANGED <<history, sharing, admit, expect>>

\* It finds another version: ErrVersionConflict.
Conflict(s) ==
    /\ spc[s] = "shown"
    /\ version # expect[s]
    /\ spc' = [spc EXCEPT ![s] = "idle"]
    /\ UNCHANGED <<row, admit, expect, change>>

\* The change and its row of the history commit together.
Commit(s) ==
    /\ spc[s] = "written"
    /\ history' = Append(history, change[s])
    /\ change' = [change EXCEPT ![s] = NoChange]
    /\ writing' = NoOperator
    /\ spc' = [spc EXCEPT ![s] = "idle"]
    /\ UNCHANGED <<sharing, admit, expect>>

Rollback(s) ==
    /\ spc[s] = "written"
    /\ change' = [change EXCEPT ![s] = NoChange]
    /\ writing' = NoOperator
    /\ spc' = [spc EXCEPT ![s] = "idle"]
    /\ UNCHANGED <<history, sharing, admit, expect>>

-----------------------------------------------------------------------------
Next ==
    \/ \E a \in Admitters : Check(a) \/ Admit(a) \/ Abort(a)
    \/ \E s \in Operators : Show(s) \/ Write(s) \/ Conflict(s) \/ Commit(s) \/ Rollback(s)

Spec == Init /\ [][Next]_vars

-----------------------------------------------------------------------------
\* A hold is a barrier: an admission commits only while the control it was checked
\* against is the committed one and open.  A change that committed between Check
\* and the commit would let a transaction through that the operator has stopped.
HoldIsBarrier ==
    [][\A a \in Admitters : apc[a] = "checked" /\ apc'[a] = "admitted" =>
          version = admission[a] /\ Control.state = "open"]_vars

\* Whatever was admitted was allowed by the control of the version it stores: open,
\* every owner on the list, the amount known and within the cap.
AdmittedIsAllowed ==
    \A a \in Admitters : apc[a] = "admitted" =>
        /\ admission[a] \in DOMAIN history
        /\ LET c == history[admission[a]]
           IN /\ c.state = "open"
              /\ c.allowed # Null => request[a].owners # {} /\ request[a].owners \subseteq c.allowed
              /\ c.max # Null => request[a].amount # Null /\ request[a].amount <= c.max

\* No operator overwrites a change they have not seen: a change commits on the
\* version its operator read.
ChangeIsInformed ==
    [][\A s \in Operators : spc[s] = "written" /\ spc'[s] = "idle" /\ history' # history =>
          version = expect[s]]_vars

-----------------------------------------------------------------------------
\* The strengthening under which the properties are inductive: a checked
\* transaction shares the row and its admission is current; an operator that wrote
\* has the row alone and wrote on the version they read.
AdmitInv ==
    \A a \in Admitters :
        /\ apc[a] = "checked" => /\ a \in sharing
                                 /\ admission[a] = version
                                 /\ version > 0
                                 /\ Refusal(Control, request[a]) = "none"
        /\ apc[a] = "admitted" => /\ admission[a] \in 1..version
                                  /\ Refusal(history[admission[a]], request[a]) = "none"

SetInv ==
    \A s \in Operators :
        spc[s] = "written" => writing = s /\ sharing = {} /\ expect[s] = version

ChangeInv == \A s \in Operators : Valid(change[s])

IInv == TypeOK /\ AdmitInv /\ SetInv /\ ChangeInv
=============================================================================
