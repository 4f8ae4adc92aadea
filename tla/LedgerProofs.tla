---------------------------- MODULE LedgerProofs ----------------------------
(***************************************************************************)
(* The posting engine implements AtomicLedger and keeps its safety         *)
(* properties, for any number of workers, accounts, transactions and       *)
(* attempts.                                                               *)
(***************************************************************************)
EXTENDS LedgerInductive, FiniteSetTheorems

\* Every step keeps the invariant, given that it keeps the tables well typed.
LEMMA NextKeepsIInv ==
  ASSUME IInv, DbTypeOK', [Next]_vars
  PROVE  IInv'
<1>1. ASSUME NEW w \in Worker, pc[w] # "idle", Rollback(w) \/ Retry(w)
      PROVE  IInv'
  <2>1. Elsewhere(w)
    BY <1>1 DEF Rollback, Retry, Elsewhere, dbVars
  <2>. QED BY <1>1, <2>1, EndKeepsIInv DEF Rollback, Retry, Finish
<1>2. ASSUME NEW w \in Worker, Step(w)
      PROVE  IInv'
  <2>1. CASE RefuseReversal(w) \/ Refuse(w)
    BY <1>1, <2>1 DEF RefuseReversal, Refuse, Locked
  <2>. QED BY <1>2, <2>1, LoadKeepsIInv, RouteKeepsIInv, LockKeepsIInv, WriteKeepsIInv,
              CommitKeepsIInv DEF Step
<1>3. CASE UNCHANGED vars
  <2>1. TypeOK'
    BY <1>3 DEF vars, IInv, TypeOK, LockedRow
  <2>2. ASSUME NEW w \in Worker
        PROVE  JobOK(w)' /\ RowOK(w)' /\ HeaderOK(w)' /\ WriteOK(w)'
    <3>1. /\ JobOK(w) /\ RowOK(w) /\ HeaderOK(w) /\ WriteOK(w)
      BY DEF IInv
    <3>2. JobOK(w)'
      BY <1>3, <3>1 DEF vars, JobOK, HasLegs
    <3>3. RowOK(w)'
      BY <1>3, <3>1 DEF vars, RowOK, HasLegs, Row
    <3>4. HeaderOK(w)'
      BY <1>3, <3>1 DEF vars, HeaderOK, HasLegs
    <3>5. WriteOK(w)'
      BY <1>3, <3>1 DEF vars, WriteOK, NewRows
    <3>. QED BY <3>2, <3>3, <3>4, <3>5
  <2>. QED BY <2>1, <2>2 DEF IInv
<1>4. ASSUME NEW w \in Worker, Crash(w) \/ Retry(w)
      PROVE  IInv'
  BY <1>1, <1>4 DEF Crash, Retry
<1>5. CASE Next
  BY <1>2, <1>4, <1>5, BeginKeepsIInv, AccountStepKeepsIInv DEF Next
<1>. QED BY <1>3, <1>5

\* The two invariants hold together: AtomicInv needs the refinement, and IInv
\* needs the tables AtomicInv keeps well typed.
LEMMA JointInvariant == Spec => [](IInv /\ AtomicInv)
<1>1. Init => IInv /\ AtomicInv
  BY InitIInv, InitAtomicInv DEF Init
<1>2. IInv /\ AtomicInv /\ [Next]_vars => (IInv /\ AtomicInv)'
  <2>. SUFFICES ASSUME IInv, AtomicInv, [Next]_vars PROVE IInv' /\ AtomicInv'
    OBVIOUS
  <2>1. AtomicInv'
    BY StepRefines, NextKeepsInv
  <2>2. DbTypeOK'
    BY <2>1 DEF AtomicInv
  <2>. QED BY <2>1, <2>2, NextKeepsIInv
<1>. QED BY <1>1, <1>2, PTL DEF Spec

\* Type correctness of the engine: its tables, locks and workers keep their
\* shapes whatever is interleaved, rolled back or retried.
THEOREM TypeCorrect == Spec => []TypeOK
<1>1. IInv => TypeOK
  BY DEF IInv
<1>. QED BY <1>1, JointInvariant, PTL

\* What LockAccounts returned stays true until the transaction ends: no check
\* made on a locked row is stale at COMMIT, and ApplyBalanceDelta's version
\* predicate never fires.
THEOREM RowsStayCurrent == Spec => []LockedRowsAreCurrent
<1>1. IInv => LockedRowsAreCurrent
  BY DEF IInv, RowOK, LockedRowsAreCurrent
<1>. QED BY <1>1, JointInvariant, PTL

\* The engine implements AtomicLedger: with its locks, any interleaving of
\* postings, reversals, crashes and retries looks like whole transactions one
\* after another.
THEOREM Refinement == Spec => AtomicSpec
<1>1. Init => AtomicInit
  BY DEF Init
<1>. QED BY <1>1, StepRefines, JointInvariant, PTL DEF Spec, AtomicSpec

\* No interleaving overdraws an account or leaves the width of the column.
THEOREM NeverOverdrawn == Spec => []NoOverdraft
<1>1. AtomicInv => NoOverdraft
  BY DEF AtomicInv
<1>. QED BY <1>1, JointInvariant, PTL

\* Concurrent reversals of one transaction: one of them posts, as its mirror.
THEOREM NeverReversedTwice == Spec => []ReversedOnce
<1>1. AtomicInv => ReversedOnce
  BY DEF AtomicInv
<1>. QED BY <1>1, JointInvariant, PTL

\* Concurrent requests under one idempotency key: one of them posts.
THEOREM KeyPostsOnce == Spec => []OneTransactionPerKey
<1>1. AtomicInv => OneTransactionPerKey
  BY DEF AtomicInv
<1>. QED BY <1>1, JointInvariant, PTL

\* The outbox the engine writes is a gapless, consistent history of every
\* balance: what a projector that applies events by version needs.
THEOREM OutboxTellsHistory == Spec => []EventsTellHistory
<1>1. AtomicInv => EventsTellHistory
  BY DEF AtomicInv
<1>. QED BY <1>1, JointInvariant, PTL

\* No posting lands on an account frozen or closed in the meantime.
THEOREM FrozenRowsDoNotMove == Spec => OnlyActiveRowsMove
BY Refinement, AtomicOnlyActive, PTL

\* No crash, retry or race rewrites committed history.
THEOREM HistoryNeverChanges == Spec => HistoryIsFinal
BY Refinement, AtomicHistory, PTL

-----------------------------------------------------------------------------
(* Deadlock freedom                                                        *)

\* Of finitely many accounts, one has the highest id.
LEMMA HighestAccount ==
  ASSUME NEW T \in SUBSET Account, T # {}
  PROVE  \E a \in T : \A b \in T : b <= a
<1>. DEFINE Above(a) == {b \in Account : b > a}
            Sets == {Above(a) : a \in T}
<1>1. Sets \subseteq FiniteSubsetsOf(Account) /\ Sets # {}
  <2>1. \A a \in T : Above(a) \in SUBSET Account
    OBVIOUS
  <2>2. \A a \in T : IsFiniteSet(Above(a))
    BY <2>1, FiniteAccountAssumption, FS_Subset
  <2>. HIDE DEF Above
  <2>. QED BY <2>1, <2>2 DEF FiniteSubsetsOf
<1>2. IsWellFoundedOn(StrictSubsetOrdering(Account), FiniteSubsetsOf(Account))
  BY FS_StrictSubsetOrderingWellFounded
<1>3. PICK m \in Sets : \A s \in Sets : <<s, m>> \notin StrictSubsetOrdering(Account)
  <2>. HIDE DEF Sets
  <2>. QED BY <1>1, <1>2, WFMin
<1>4. PICK a \in T : m = Above(a)
  OBVIOUS
<1>5. ASSUME NEW b \in T, b > a
      PROVE  FALSE
  <2>1. Above(b) \in Sets /\ Above(b) \subseteq Above(a) /\ Above(b) # Above(a)
    <3>1. b \in Above(a) /\ b \notin Above(b)
      <4>1. b \in Account /\ b \in Nat /\ a \in Nat
        BY AccountAssumption
      <4>2. ~(b > b)
        BY <4>1
      <4>. QED BY <1>5, <4>1, <4>2
    <3>2. ASSUME NEW c \in Account, c > b PROVE c > a
      <4>1. a \in Nat /\ b \in Nat /\ c \in Nat
        BY AccountAssumption
      <4>. QED BY <1>5, <3>2, <4>1
    <3>. QED BY <3>1, <3>2
  <2>2. Above(a) \subseteq Account
    OBVIOUS
  <2>. HIDE DEF Above
  <2>. QED BY Zenon, <1>3, <1>4, <2>1, <2>2 DEF StrictSubsetOrdering
<1>. QED BY <1>5, AccountAssumption

\* Whoever holds a lock has its entries, and if it needs another row, that row
\* has a higher id than the one it holds.
LEMMA HolderIsAhead ==
  ASSUME IInv, NEW v \in Worker
  PROVE  /\ \A x \in TxId : headerLock[x] = v => HasLegs(v)
         /\ \A a \in Account : rowLock[a] = v =>
              HasLegs(v) /\ \A b \in Account : IsNextRow(v, b) => a < b
BY DEF IInv, HeaderOK, RowOK, IsNextRow

\* Header lock first, rows in id order, unique index last: in any set of
\* workers somebody waits for nobody in the set, so PostgreSQL never has a cycle
\* to break, however many transactions run.
THEOREM DeadlockFree == Spec => []NoDeadlock
<1>1. IInv => NoDeadlock
  <2>. SUFFICES ASSUME IInv, NEW S \in SUBSET Worker, S # {}
                PROVE  \E w \in S : \A v \in S : ~WaitsFor(w, v)
    BY DEF NoDeadlock
  <2>. USE DEF IInv
  <2>1. CASE \E w \in S : pc[w] = "commit"
    <3>1. PICK w \in S : pc[w] = "commit"
      BY <2>1
    <3>2. \A v \in S : ~WaitsFor(w, v)
      BY <3>1 DEF WaitsFor, Locked
    <3>. QED BY <3>2
  <2>2. CASE /\ \A w \in S : pc[w] # "commit"
             /\ \E w \in S : Locked(w)
    <3>1. PICK w \in S : Locked(w)
      BY <2>2
    <3>2. \A a \in Account : ~IsNextRow(w, a)
      BY <3>1 DEF Locked, IsNextRow
    <3>. QED BY <2>2, <3>1, <3>2 DEF WaitsFor, Locked
  <2>3. CASE /\ \A w \in S : /\ pc[w] # "commit" /\ ~Locked(w)
                             /\ pc[w] = "lock" => \E a \in Account : IsNextRow(w, a)
             /\ \E w \in S : pc[w] = "lock"
    <3>. DEFINE T == {a \in Account : \E w \in S : pc[w] = "lock" /\ IsNextRow(w, a)}
    <3>1. T \in SUBSET Account /\ T # {}
      BY <2>3
    <3>2. PICK a \in T : \A b \in T : b <= a
      <4>. HIDE DEF T
      <4>. QED BY <3>1, HighestAccount
    <3>3. PICK w \in S : pc[w] = "lock" /\ IsNextRow(w, a)
      OBVIOUS
    <3>4. ASSUME NEW v \in S, WaitsFor(w, v)
          PROVE  FALSE
      <4>1. PICK c \in Account : IsNextRow(w, c) /\ rowLock[c] = v
        BY <2>3, <3>3, <3>4 DEF WaitsFor
      <4>2. c = a
        BY <3>3, <4>1, AccountAssumption DEF IsNextRow
      <4>3. HasLegs(v) /\ \A b \in Account : IsNextRow(v, b) => a < b
        BY <4>1, <4>2, HolderIsAhead
      <4>4. pc[v] = "lock"
        BY <2>3, <4>3 DEF HasLegs
      <4>5. PICK b \in Account : IsNextRow(v, b)
        BY <2>3, <4>4
      <4>. QED BY <3>2, <4>3, <4>4, <4>5, AccountAssumption
    <3>. QED BY <3>3, <3>4
  <2>4. CASE \A w \in S : pc[w] \notin {"lock", "commit"}
    <3>1. PICK w \in S : TRUE
      OBVIOUS
    <3>2. ASSUME NEW v \in S, WaitsFor(w, v)
          PROVE  FALSE
      <4>1. pc[w] = "load" /\ headerLock[job[w].reverses] = v
        BY <2>4, <3>2 DEF WaitsFor, Locked
      <4>2. job[w].reverses \in TxId
        BY <4>1 DEF JobOK, TypeOK
      <4>. QED BY <2>4, <4>1, <4>2, HolderIsAhead DEF HasLegs
    <3>. QED BY <3>1, <3>2
  <2>5. CASE \E w \in S : /\ pc[w] = "lock" /\ ~Locked(w)
                          /\ \A a \in Account : ~IsNextRow(w, a)
    <3>1. PICK w \in S : /\ pc[w] = "lock" /\ ~Locked(w)
                         /\ \A a \in Account : ~IsNextRow(w, a)
      BY <2>5
    <3>2. \A v \in S : ~WaitsFor(w, v)
      BY <3>1 DEF WaitsFor
    <3>. QED BY <3>2
  <2>. QED BY <2>1, <2>2, <2>3, <2>4, <2>5
<1>. QED BY <1>1, JointInvariant, PTL
=============================================================================
