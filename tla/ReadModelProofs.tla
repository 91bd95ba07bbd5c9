-------------------------- MODULE ReadModelProofs --------------------------
(***************************************************************************)
(* Theorems about ReadModel, for any number of callers, any requests and   *)
(* any bounds.  The RPC queue below the read model does not matter to the  *)
(* order of publication: its steps leave the read model's state alone.     *)
(***************************************************************************)
EXTENDS ReadModel, TLAPS

\* Nothing is loading and nothing is published at first.
LEMMA InitInv == Init => LoadInv
  BY DEF Init, LoadInv, Idle

\* A read that loads takes the next token; one that does not changes no token.
LEMMA ReadInv ==
  ASSUME LoadInv, NEW r \in Callers, NEW forced \in BOOLEAN, Read(r, forced)
  PROVE  LoadInv'
  <1> USE DEF LoadInv
  <1>1. completed' = completed
    BY DEF Read
  <1>2. CASE UNCHANGED <<reader, latest, nextOrder>>
    BY <1>1, <1>2
  <1>3. CASE reader' = [reader EXCEPT ![r] = [pc |-> "joined", order |-> loading]]
             /\ UNCHANGED <<latest, nextOrder>>
    BY <1>1, <1>3
  <1>4. CASE /\ nextOrder' = nextOrder + 1
             /\ latest' = nextOrder + 1
             /\ \E load \in Loads :
                  reader' = [reader EXCEPT ![r] = [pc |-> "loading", order |-> nextOrder + 1,
                                                   attempt |-> 1, load |-> load]]
    BY <1>1, <1>4
  <1> QED BY <1>2, <1>3, <1>4 DEF Read

\* A load that settles publishes only under the latest token, and gives it back.
LEMMA FinishInv ==
  ASSUME LoadInv, NEW r \in Callers, NEW seen, reader[r].pc = "loading", Finish(r, seen)
  PROVE  LoadInv'
  <1> USE DEF LoadInv, IsCurrent
  <1>1. reader[r].order \in 1..nextOrder /\ nextOrder' = nextOrder
    BY DEF Finish
  <1>2. completed' = [seen |-> completed'.seen, order |-> completed'.order, left |-> completed'.left]
    BY DEF Finish
  <1>3. CASE IsCurrent(reader[r].order)
    <2>1. latest' = 0 /\ completed'.order \in {completed.order, reader[r].order}
      BY <1>3 DEF Finish, AfterFinish
    <2>2. completed'.order \in 0..nextOrder'
      BY <1>1, <2>1
    <2> QED BY <1>1, <1>2, <2>1, <2>2 DEF Finish, Idle
  <1>4. CASE ~IsCurrent(reader[r].order)
    <2>1. latest' = latest /\ completed' = completed
      BY <1>4 DEF Finish, AfterFinish
    <2> QED BY <1>1, <2>1 DEF Finish, Idle
  <1> QED BY <1>3, <1>4

\* A load that settles, or failed and is to be tried again, keeps the invariant.
LEMMA LoadedInv ==
  ASSUME LoadInv, NEW r \in Callers, Loaded(r)
  PROVE  LoadInv'
  <1>1. CASE \E seen : Finish(r, seen)
    BY <1>1, FinishInv DEF Loaded
  <1>2. CASE /\ reader' = [reader EXCEPT ![r].pc = "pause", ![r].attempt = @ + 1]
             /\ UNCHANGED <<completed, latest, nextOrder>>
    BY <1>2 DEF Loaded, LoadInv
  <1> QED BY <1>1, <1>2 DEF Loaded

\* Starting the next attempt keeps it.
LEMMA RetryInv ==
  ASSUME LoadInv, NEW r \in Callers, Retry(r)
  PROVE  LoadInv'
  BY DEF Retry, LoadInv

\* Every step keeps the invariant.
LEMMA NextInv ==
  ASSUME LoadInv, [Next]_vars
  PROVE  LoadInv'
  <1>1. CASE \E r \in Callers, forced \in BOOLEAN : Read(r, forced)
    BY <1>1, ReadInv
  <1>2. CASE \E r \in Callers : Loaded(r)
    BY <1>2, LoadedInv
  <1>3. CASE \E r \in Callers : Retry(r)
    BY <1>3, RetryInv
  <1>4. CASE ReadTick
    BY <1>4 DEF ReadTick, LoadInv
  <1>5. CASE UNCHANGED readVars
    BY <1>5 DEF readVars, LoadInv
  <1> QED BY <1>1, <1>2, <1>3, <1>4, <1>5 DEF Next, vars

(***************************************************************************)
(* The order of the tokens is an invariant of the read model.              *)
(***************************************************************************)
THEOREM InductiveInvariant == Spec => []LoadInv
  BY InitInv, NextInv, PTL DEF Spec

(***************************************************************************)
(* PublishedInOrder holds of every instance: however many loads overlap    *)
(* and in whatever order they settle, the published result never goes back *)
(* to a load that began earlier (SmartAccountReadModelLoadOrder).          *)
(***************************************************************************)
THEOREM PublishesInOrder == Spec => PublishedInOrder
  <1>1. ASSUME LoadInv, [Next]_vars
        PROVE  [completed'.order >= completed.order]_vars
    <2> SUFFICES completed'.order >= completed.order
      OBVIOUS
    <2>1. CASE completed' = completed
      BY <1>1, <2>1 DEF LoadInv
    <2>2. CASE ReadTick
      BY <1>1, <2>2 DEF ReadTick, LoadInv
    <2>3. CASE \E r \in Callers : Loaded(r)
      <3> PICK r \in Callers : Loaded(r)
        BY <2>3
      <3>1. completed'.order = completed.order
              \/ (IsCurrent(reader[r].order) /\ completed'.order = reader[r].order)
        BY DEF Loaded, Finish
      <3>2. reader[r].order \in 1..nextOrder
        BY <1>1 DEF Loaded, LoadInv
      <3> QED BY <1>1, <3>1, <3>2 DEF IsCurrent, LoadInv
    <2>4. [Next]_vars => completed' = completed \/ ReadTick \/ \E r \in Callers : Loaded(r)
      BY DEF Next, vars, readVars, Read, Retry
    <2> QED BY <1>1, <2>1, <2>2, <2>3, <2>4
  <1> QED BY <1>1, InductiveInvariant, PTL DEF Spec, PublishedInOrder

=============================================================================
