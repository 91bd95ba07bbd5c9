------------------------ MODULE ReleaseControlProofs ------------------------
(***************************************************************************)
(* Theorems about ReleaseControl, for any number of admitting transactions *)
(* and operators, any control and any request.                             *)
(***************************************************************************)
EXTENDS ReleaseControl, TLAPS

\* Nothing of the control is committed or locked at first.
LEMMA InitInv == Init => IInv
  <1> SUFFICES ASSUME Init PROVE IInv
    OBVIOUS
  <1> USE DEF Init
  <1>1. NoChange \in Changes /\ Valid(NoChange)
    BY DEF NoChange, Changes, Valid
  <1>2. TypeOK
    BY <1>1, ReleaseControlAssumption DEF TypeOK
  <1>3. AdmitInv /\ SetInv /\ ChangeInv
    BY <1>1 DEF AdmitInv, SetInv, ChangeInv
  <1> QED BY <1>2, <1>3 DEF IInv

\* Check, the commit and the rollback of an admitting transaction.
LEMMA AdmitterInv ==
  ASSUME IInv, NEW a \in Admitters, Check(a) \/ Admit(a) \/ Abort(a)
  PROVE  IInv'
  <1> USE DEF set, IInv
  <1>1. version \in Nat /\ history' = history /\ version' = version
    BY DEF TypeOK, version, Check, Admit, Abort
  <1>2. TypeOK'
    BY <1>1 DEF TypeOK, Check, Admit, Abort
  <1>3. AdmitInv'
    <2> SUFFICES ASSUME NEW b \in Admitters
                 PROVE  /\ apc'[b] = "checked" => /\ b \in sharing'
                                                  /\ admission'[b] = version
                                                  /\ version > 0
                                                  /\ Refusal(history[version], request'[b]) = "none"
                        /\ apc'[b] = "admitted" => /\ admission'[b] \in 1..version
                                                   /\ Refusal(history[admission'[b]], request'[b]) = "none"
      BY <1>1 DEF AdmitInv, Control
    <2>1. CASE Check(a)
      BY <2>1 DEF Check, AdmitInv, TypeOK, Control
    <2>2. CASE Admit(a)
      BY <1>1, <2>2 DEF Admit, AdmitInv, TypeOK, Control
    <2>3. CASE Abort(a)
      BY <2>3 DEF Abort, AdmitInv, TypeOK, Control
    <2> QED BY <2>1, <2>2, <2>3
  <1>4. SetInv'
    BY <1>1, ReleaseControlAssumption DEF SetInv, Check, Admit, Abort, TypeOK
  <1>5. ChangeInv'
    BY DEF ChangeInv, Check, Admit, Abort
  <1> QED BY <1>2, <1>3, <1>4, <1>5

\* The steps of an operator that leave the history alone.
LEMMA OperatorInv ==
  ASSUME IInv, NEW s \in Operators, Show(s) \/ Write(s) \/ Conflict(s) \/ Rollback(s)
  PROVE  IInv'
  <1> USE DEF row, admit, IInv
  <1>1. version \in Nat /\ history' = history /\ version' = version
    BY DEF TypeOK, version, Show, Write, Conflict, Rollback
  <1>2. NoChange \in Changes /\ Valid(NoChange)
    BY DEF NoChange, Changes, Valid
  <1>3. TypeOK'
    BY <1>1, <1>2, ReleaseControlAssumption, ZenonT(30) DEF TypeOK, Show, Write, Conflict, Rollback
  <1>4. AdmitInv'
    BY <1>1 DEF AdmitInv, Control, Show, Write, Conflict, Rollback
  <1>5. SetInv'
    BY <1>1, ReleaseControlAssumption DEF SetInv, TypeOK, Show, Write, Conflict, Rollback
  <1>6. ChangeInv'
    BY <1>2 DEF ChangeInv, TypeOK, Show, Write, Conflict, Rollback
  <1> QED BY <1>3, <1>4, <1>5, <1>6

\* A change commits: nobody shares the row, so no admission was checked against
\* the control it replaces, and what was admitted keeps its row of the history.
LEMMA CommitInv ==
  ASSUME IInv, NEW s \in Operators, Commit(s)
  PROVE  IInv'
  <1> USE DEF Commit, admit, IInv
  <1>1. version \in Nat /\ sharing = {} /\ writing = s
    BY DEF TypeOK, version, SetInv
  <1>2. change[s] \in Changes /\ Valid(change[s]) /\ NoChange \in Changes /\ Valid(NoChange)
    BY DEF TypeOK, ChangeInv, NoChange, Changes, Valid
  <1>3. TypeOK'
    BY <1>2 DEF TypeOK
  <1>4. /\ version' = version + 1
        /\ \A i \in 1..version : history'[i] = history[i]
    BY DEF TypeOK, version
  <1>5. AdmitInv'
    <2>1. \A a \in Admitters : apc[a] # "checked"
      BY <1>1 DEF AdmitInv
    <2>2. \A a \in Admitters : apc[a] = "admitted" =>
             /\ admission[a] \in 1..version /\ admission[a] \in 1..(version + 1)
             /\ Refusal(history[admission[a]], request[a]) = "none"
      BY <1>1 DEF AdmitInv
    <2> QED BY <1>4, <2>1, <2>2, Zenon DEF AdmitInv
  <1>6. SetInv'
    BY <1>1 DEF SetInv, TypeOK
  <1>7. ChangeInv'
    BY <1>2 DEF ChangeInv, TypeOK
  <1> QED BY <1>3, <1>5, <1>6, <1>7

\* IInv is an invariant of the release control.
THEOREM InductiveInvariant == Spec => []IInv
  <1>1. IInv /\ [Next]_vars => IInv'
    <2> SUFFICES ASSUME IInv, [Next]_vars PROVE IInv'
      OBVIOUS
    <2>1. CASE Next
      BY <2>1, AdmitterInv, OperatorInv, CommitInv DEF Next
    <2>2. CASE UNCHANGED vars
      BY <2>2 DEF vars, row, admit, set, IInv, TypeOK, AdmitInv, SetInv, ChangeInv, version, Control
    <2> QED BY <2>1, <2>2
  <1> QED BY <1>1, InitInv, PTL DEF Spec

\* No admission commits under a control that was changed or held since Check read
\* it FOR SHARE.
THEOREM Barrier == Spec => HoldIsBarrier
  <1>1. IInv /\ [Next]_vars =>
          [\A a \in Admitters : apc[a] = "checked" /\ apc'[a] = "admitted" =>
              version = admission[a] /\ Control.state = "open"]_vars
    <2> SUFFICES ASSUME IInv, NEW a \in Admitters, apc[a] = "checked"
                 PROVE  version = admission[a] /\ Control.state = "open"
      OBVIOUS
    <2>1. version = admission[a] /\ Refusal(Control, request[a]) = "none"
      BY DEF IInv, AdmitInv
    <2> QED BY <2>1 DEF Refusal
  <1> QED BY <1>1, InductiveInvariant, PTL DEF Spec, HoldIsBarrier

\* What refusal lets through is allowed by the control, and the stored version
\* still names that control after any number of changes.
THEOREM Allowed == Spec => []AdmittedIsAllowed
  <1>1. IInv => AdmittedIsAllowed
    <2> SUFFICES ASSUME IInv, NEW a \in Admitters, apc[a] = "admitted"
                 PROVE  /\ admission[a] \in DOMAIN history
                        /\ LET c == history[admission[a]]
                           IN /\ c.state = "open"
                              /\ c.allowed # Null => request[a].owners # {} /\ request[a].owners \subseteq c.allowed
                              /\ c.max # Null => request[a].amount # Null /\ request[a].amount <= c.max
      BY DEF AdmittedIsAllowed
    <2>1. PICK v \in 1..version : v = admission[a] /\ Refusal(history[v], request[a]) = "none"
      BY DEF IInv, AdmitInv
    <2>2. v \in DOMAIN history /\ history[v] \in Changes
      BY DEF IInv, TypeOK, version
    <2>3. request[a] \in Requests
      BY DEF IInv, TypeOK
    <2>4. history[v].max # Null => history[v].max \in Nat
      BY <2>2, ReleaseControlAssumption, Zenon DEF Changes
    <2>5. request[a].amount # Null => request[a].amount \in Nat
      BY <2>3, ReleaseControlAssumption, Zenon DEF Requests
    <2>6. /\ history[v].state = "open"
          /\ history[v].allowed # Null =>
                request[a].owners # {} /\ request[a].owners \subseteq history[v].allowed
          /\ history[v].max # Null =>
                request[a].amount # Null /\ ~(request[a].amount > history[v].max)
      BY <2>1 DEF Refusal
    <2> QED BY <2>1, <2>2, <2>4, <2>5, <2>6
  <1> QED BY <1>1, InductiveInvariant, PTL

\* Set's compare-and-swap: a change commits on the version its operator read.
THEOREM Informed == Spec => ChangeIsInformed
  <1>1. IInv /\ [Next]_vars =>
          [\A s \in Operators : spc[s] = "written" /\ spc'[s] = "idle" /\ history' # history =>
              version = expect[s]]_vars
    BY DEF IInv, SetInv
  <1> QED BY <1>1, InductiveInvariant, PTL DEF Spec, ChangeIsInformed
=============================================================================
