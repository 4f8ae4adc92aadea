--------------------------- MODULE LedgerInvariant --------------------------
(***************************************************************************)
(* The inductive invariant of the posting engine, for any number of        *)
(* workers, accounts, transactions and attempts: what each worker holds    *)
(* and has read at each statement.  Here it is shown to hold at first, to  *)
(* make COMMIT a step of AtomicLedger, and to survive the end of a         *)
(* transaction and every change of the chart of accounts.                  *)
(***************************************************************************)
EXTENDS Ledger, AtomicLedgerProofs, TLAPS

\* A worker whose transaction has its entries and is taking or holding locks.
HasLegs(w) == pc[w] \in {"lock", "commit"}

(* What a worker is doing: an idle one does nothing; an open one has an id *)
(* of its own that no committed transaction has, and comes from a request  *)
(* that passed validation or from a reversal.                              *)
JobOK(w) ==
  /\ pc[w] = "idle" => job[w] = NoJob
  /\ pc[w] # "idle" => /\ job[w].id \in TxId
                       /\ transactions[job[w].id].status = "NONE"
                       /\ \A v \in Worker \ {w} : job[v].id # job[w].id
  /\ pc[w] = "route" => job[w].reverses = None
  /\ pc[w] = "load" => job[w].reverses # None
  /\ pc[w] # "idle" /\ job[w].reverses = None =>
       \E r \in Request :
         /\ Valid(r) /\ r.legs = job[w].named /\ r.key = job[w].key
         /\ HasLegs(w) => \E chosen \in Routings :
                            job[w].legs = RoutedLegs(r.legs, chosen)

(* Row locks: a lock is held by the worker that read the row and by no     *)
(* other, for rows its entries touch, lowest ids first.                    *)
RowOK(w) ==
  /\ \A a \in Account : rowLock[a] = w => a \in DOMAIN snap[w]
  /\ \A a \in DOMAIN snap[w] :
       /\ HasLegs(w)
       /\ a \in Touched(job[w].legs)
       /\ \A b \in Touched(job[w].legs) \ DOMAIN snap[w] : a < b
       /\ snap[w][a].status # "NONE" => rowLock[a] = w /\ snap[w][a] = Row(a)

(* Header locks: a reversal holds its original's, which therefore stays    *)
(* POSTED and is what the reversal mirrors.                                *)
HeaderOK(w) ==
  /\ \A x \in TxId : headerLock[x] = w => HasLegs(w) /\ job[w].reverses = x
  /\ HasLegs(w) /\ job[w].reverses # None =>
       /\ headerLock[job[w].reverses] = w
       /\ transactions[job[w].reverses].status = "POSTED"
       /\ job[w].legs = Mirror(journal[job[w].reverses])

(* Uncommitted writes: they are what AtomicLedger would write now, on rows *)
(* this worker has locked, under a key nobody else has or is about to.     *)
WriteOK(w) ==
  pc[w] = "commit" =>
    /\ rows[w] = NewRows(job[w].legs)
    /\ \A a \in Touched(job[w].legs) :
         /\ rowLock[a] = w
         /\ status[a] = "ACTIVE"
         /\ CurrencyOf[a] = job[w].legs.currency
         /\ Storable(a, available[a] + Delta(job[w].legs, a))
    /\ job[w].key # None =>
         /\ \A x \in TxId : transactions[x].key # job[w].key
         /\ \A v \in Worker \ {w} : pc[v] = "commit" => job[v].key # job[w].key

IInv == /\ TypeOK
        /\ \A w \in Worker : JobOK(w) /\ RowOK(w) /\ HeaderOK(w) /\ WriteOK(w)

-----------------------------------------------------------------------------
(* The initial state                                                       *)

\* Nobody has started: the invariant holds.
LEMMA InitIInv == Init => IInv
<1>. SUFFICES ASSUME Init PROVE IInv
  OBVIOUS
<1>1. DbTypeOK
  BY InitAtomicInv DEF Init, AtomicInv
<1>2. NoLegs \in AnyLegs
  BY DEF NoLegs, Nothing, AnyLegs, Side
<1>3. TypeOK
  BY <1>1, <1>2, MaxAttemptsAssumption DEF Init, TypeOK, NoJob, Empty
<1>4. \A w \in Worker : JobOK(w) /\ RowOK(w) /\ HeaderOK(w) /\ WriteOK(w)
  BY WorkerAssumption DEF Init, JobOK, RowOK, HeaderOK, WriteOK, HasLegs, Empty
<1>. QED BY <1>3, <1>4 DEF IInv

-----------------------------------------------------------------------------
(* Refinement: each step of the engine is a step of AtomicLedger or none   *)

\* COMMIT makes the transaction take effect as AtomicLedger says, on the
\* balances of that instant.
LEMMA CommitRefines ==
  ASSUME IInv, NEW w \in Worker, Commit(w)
  PROVE  AtomicNext \/ UNCHANGED dbVars
<1>. DEFINE l == job[w].legs
<1>. USE DEF IInv
<1>. SUFFICES ASSUME Balanced(l) PROVE AtomicNext
  BY DEF Commit
<1>1. Publish(w) /\ pc[w] = "commit" /\ HasLegs(w)
  BY DEF Commit, HasLegs
<1>2. /\ job[w].id \in TxId /\ transactions[job[w].id].status = "NONE"
      /\ l \in AnyLegs /\ job[w].key \in Key \cup {None}
      /\ job[w].reverses \in TxId \cup {None}
  BY <1>1 DEF JobOK, TypeOK
<1>3. rows[w] = NewRows(l) /\ DOMAIN rows[w] = Touched(l)
  BY <1>1 DEF WriteOK, NewRows
<1>4. Apply(job[w].id, l, job[w].key, job[w].reverses)
  <2>1. /\ job[w].key # None => \A y \in TxId : transactions[y].key # job[w].key
        /\ \A a \in Touched(l) : /\ status[a] = "ACTIVE"
                                 /\ CurrencyOf[a] = l.currency
                                 /\ Storable(a, available[a] + Delta(l, a))
    BY <1>1 DEF WriteOK
  <2>2. available' = [a \in Account |-> available[a] + Delta(l, a)]
    <3>1. \A a \in Account : available[a] \in Int
      BY DEF TypeOK, DbTypeOK
    <3>2. \A a \in Account \ Touched(l) : available[a] + Delta(l, a) = available[a]
      BY <1>2, <3>1, DeltaFacts
    <3>. QED BY <1>1, <1>3, <3>2 DEF Publish, NewRows
  <2>3. version' = [a \in Account |-> IF a \in Touched(l) THEN version[a] + 1
                                      ELSE version[a]]
    BY <1>1, <1>3 DEF Publish, NewRows
  <2>. HIDE DEF l
  <2>. QED BY <1>1, <1>2, <1>3, <2>1, <2>2, <2>3 DEF Apply, Publish, Headers, l
<1>5. CASE job[w].reverses = None
  <2>1. PICK r \in Request : /\ Valid(r) /\ r.key = job[w].key
                            /\ \E chosen \in Routings : l = RoutedLegs(r.legs, chosen)
    BY <1>1, <1>5 DEF JobOK
  <2>2. Post(job[w].id, r)
    BY <1>4, <1>5, <2>1 DEF Post
  <2>. QED BY <1>2, <2>2 DEF AtomicNext
<1>6. CASE job[w].reverses # None
  <2>1. Reverse(job[w].id, job[w].reverses, job[w].key)
    BY <1>1, <1>4, <1>6 DEF HeaderOK, Reverse
  <2>. QED BY <1>2, <1>6, <2>1 DEF AtomicNext
<1>. QED BY <1>5, <1>6

\* Every other step leaves the committed tables alone, or is an account step.
LEMMA StepRefines == IInv /\ [Next]_vars => [AtomicNext]_dbVars
<1>. SUFFICES ASSUME IInv, [Next]_vars PROVE AtomicNext \/ UNCHANGED dbVars
  OBVIOUS
<1>1. ASSUME NEW w \in Worker, Step(w)
      PROVE  AtomicNext \/ UNCHANGED dbVars
  BY Zenon, <1>1, CommitRefines DEF Step, LoadTransactionForUpdate, RefuseReversal, RouteToShards,
     LockRow, WriteRows, Refuse, Rollback
<1>2. ASSUME NEW w \in Worker, PostTransaction(w) \/ ReverseTransaction(w)
                               \/ Crash(w) \/ Retry(w)
      PROVE  UNCHANGED dbVars
  BY <1>2 DEF PostTransaction, ReverseTransaction, Crash, Retry, Rollback
<1>3. ASSUME NEW a \in Account, CreateAccount(a) \/ ShardAccount(a)
                                \/ \E s \in Status : SetStatus(a, s)
      PROVE  AtomicNext
  BY <1>3 DEF CreateAccount, ShardAccount, SetStatus, AtomicNext
<1>4. CASE UNCHANGED vars
  BY <1>4 DEF vars, dbVars
<1>. QED BY <1>1, <1>2, <1>3, <1>4 DEF Next

-----------------------------------------------------------------------------
(* The invariant is inductive                                              *)

(* What the end of w's transaction leaves alone: every row w has not       *)
(* locked, and every header but its own and the one it reverses.           *)
Elsewhere(w) ==
  /\ status' = status
  /\ \A a \in Account : rowLock[a] # w => /\ available'[a] = available[a]
                                         /\ version'[a] = version[a]
  /\ \A x \in TxId \ {job[w].id} :
       /\ journal'[x] = journal[x]
       /\ transactions'[x].key = transactions[x].key
       /\ (pc[w] = "commit" => x # job[w].reverses) =>
            transactions'[x] = transactions[x]
  /\ \A x \in TxId : transactions'[x].key # transactions[x].key =>
       pc[w] = "commit" /\ transactions'[x].key = job[w].key

\* A transaction that ends, committed or not, leaves the other workers' part
\* of the invariant as it was.
LEMMA EndKeepsIInv ==
  ASSUME IInv, DbTypeOK', NEW w \in Worker, Elsewhere(w), pc[w] # "idle",
         ReleaseLocks(w),
         \/ pc' = [pc EXCEPT ![w] = "idle"] /\ job' = [job EXCEPT ![w] = NoJob]
         \/ /\ UNCHANGED dbVars
            /\ job[w].attempt < MaxAttempts
            /\ job' = [job EXCEPT ![w].legs = NoLegs, ![w].attempt = job[w].attempt + 1]
            /\ pc' = [pc EXCEPT ![w] = IF job[w].reverses = None THEN "route" ELSE "load"]
  PROVE  IInv'
<1>. USE DEF IInv
<1>1. /\ NoLegs \in AnyLegs
      /\ pc'[w] \in {"idle", "route", "load"}
      /\ snap'[w] = Empty /\ rows'[w] = Empty
      /\ \A v \in Worker \ {w} : /\ pc'[v] = pc[v] /\ job'[v] = job[v]
                                 /\ snap'[v] = snap[v] /\ rows'[v] = rows[v]
      /\ \A a \in Account : rowLock'[a] = IF rowLock[a] = w THEN None ELSE rowLock[a]
      /\ \A x \in TxId : headerLock'[x] = IF headerLock[x] = w THEN None ELSE headerLock[x]
  BY DEF ReleaseLocks, TypeOK, NoLegs, Nothing, AnyLegs, Side
<1>2. TypeOK'
  <2>1. job' \in [Worker -> [id : TxId \cup {None}, named : AnyLegs, legs : AnyLegs,
                             key : Key \cup {None}, reverses : TxId \cup {None},
                             attempt : 0..MaxAttempts]]
    BY <1>1, MaxAttemptsAssumption DEF TypeOK, NoJob
  <2>2. /\ pc' \in [Worker -> {"idle", "route", "load", "lock", "commit"}]
        /\ rowLock' \in [Account -> Worker \cup {None}]
        /\ headerLock' \in [TxId -> Worker \cup {None}]
    BY Zenon DEF ReleaseLocks, TypeOK
  <2>3. DOMAIN snap' = Worker /\ DOMAIN rows' = Worker
    BY DEF ReleaseLocks, TypeOK
  <2>4. ASSUME NEW v \in Worker
        PROVE  /\ snap'[v] \in [DOMAIN snap'[v] -> LockedRow]
               /\ DOMAIN snap'[v] \subseteq Account
               /\ rows'[v] \in [DOMAIN rows'[v] -> BalanceRow]
               /\ DOMAIN rows'[v] \subseteq Account
    <3>1. CASE v = w
      BY Zenon, <1>1, <3>1 DEF Empty
    <3>2. CASE v # w
      BY <1>1, <3>2 DEF TypeOK
    <3>. QED BY <3>1, <3>2
  <2>. QED BY <2>1, <2>2, <2>3, <2>4 DEF TypeOK, LockedRow
<1>3. ASSUME NEW v \in Worker
      PROVE  JobOK(v)' /\ RowOK(v)' /\ HeaderOK(v)' /\ WriteOK(v)'
  <2>1. CASE v = w
    <3>1. JobOK(w)'
      <4>1. CASE pc'[w] = "idle"
        BY <1>1, <4>1 DEF JobOK, TypeOK
      <4>2. CASE pc'[w] # "idle"
        <5>1. /\ UNCHANGED dbVars
              /\ job'[w].id = job[w].id /\ job'[w].named = job[w].named
              /\ job'[w].key = job[w].key /\ job'[w].reverses = job[w].reverses
              /\ pc'[w] = IF job[w].reverses = None THEN "route" ELSE "load"
          BY <4>2 DEF TypeOK
        <5>. QED BY <1>1, <5>1 DEF JobOK, HasLegs, dbVars
      <4>. QED BY <4>1, <4>2
    <3>2. RowOK(w)'
      BY <1>1, WorkerAssumption DEF RowOK, Empty
    <3>3. HeaderOK(w)' /\ WriteOK(w)'
      BY <1>1, WorkerAssumption DEF HeaderOK, WriteOK, HasLegs
    <3>. QED BY <2>1, <3>1, <3>2, <3>3
  <2>2. CASE v # w
    <3>1. JobOK(v) /\ RowOK(v) /\ HeaderOK(v) /\ WriteOK(v) /\ (HasLegs(v)' <=> HasLegs(v))
      BY <1>1, <2>2 DEF HasLegs
    <3>2. JobOK(v)'
      <4>1. pc[v] # "idle" => transactions'[job[v].id].status = "NONE"
        <5>. SUFFICES ASSUME pc[v] # "idle"
                      PROVE  transactions'[job[v].id].status = "NONE"
          OBVIOUS
        <5>1. /\ job[v].id \in TxId /\ job[v].id # job[w].id
              /\ transactions[job[v].id].status = "NONE"
          BY <2>2, <3>1 DEF JobOK
        <5>2. pc[w] = "commit" => job[v].id # job[w].reverses
          BY <5>1, NoneAssumption DEF HeaderOK, HasLegs
        <5>. QED BY <5>1, <5>2 DEF Elsewhere
      <4>2. pc[v] # "idle" => \A u \in Worker \ {v} : job'[u].id # job[v].id
        <5>1. job'[w].id \in {job[w].id, None}
          BY DEF TypeOK, NoJob
        <5>. QED BY <1>1, <2>2, <3>1, <5>1, NoneAssumption DEF JobOK
      <4>. QED BY <1>1, <2>2, <3>1, <4>1, <4>2 DEF JobOK
    <3>3. RowOK(v)'
      <4>1. \A a \in Account : rowLock'[a] = v <=> rowLock[a] = v
        BY <1>1, <2>2, WorkerAssumption
      <4>2. \A a \in Account : rowLock[a] = v => Row(a)' = Row(a)
        BY <2>2 DEF Row, Elsewhere
      <4>3. DOMAIN snap[v] \subseteq Account /\ snap'[v] = snap[v] /\ job'[v] = job[v]
        BY <1>1, <2>2 DEF TypeOK
      <4>. HIDE DEF Row
      <4>. QED BY <3>1, <4>1, <4>2, <4>3 DEF RowOK
    <3>4. HeaderOK(v)'
      <4>1. \A x \in TxId : headerLock'[x] = v <=> headerLock[x] = v
        BY <1>1, <2>2, WorkerAssumption
      <4>2. ASSUME HasLegs(v), job[v].reverses # None
            PROVE  /\ transactions'[job[v].reverses].status = "POSTED"
                   /\ journal'[job[v].reverses] = journal[job[v].reverses]
        <5>1. /\ job[v].reverses \in TxId
              /\ transactions[job[v].reverses].status = "POSTED"
              /\ headerLock[job[v].reverses] = v
          BY <3>1, <4>2 DEF HeaderOK, TypeOK
        <5>2. job[v].reverses # job[w].id
          BY <5>1 DEF JobOK
        <5>3. pc[w] = "commit" => job[v].reverses # job[w].reverses
          BY <2>2, <5>1, NoneAssumption DEF HeaderOK, HasLegs
        <5>. QED BY <5>1, <5>2, <5>3 DEF Elsewhere
      <4>3. job'[v] = job[v] /\ job[v].reverses \in TxId \cup {None}
        BY <1>1, <2>2 DEF TypeOK
      <4>. QED BY <3>1, <4>1, <4>2, <4>3 DEF HeaderOK
    <3>5. WriteOK(v)'
      <4>. SUFFICES ASSUME pc[v] = "commit" PROVE WriteOK(v)'
        BY <1>1, <2>2 DEF WriteOK
      <4>1. /\ pc'[v] = pc[v] /\ job'[v] = job[v] /\ rows'[v] = rows[v]
            /\ \A u \in Worker \ {v} : pc'[u] = "commit" =>
                                         pc[u] = "commit" /\ job'[u] = job[u]
        BY <1>1, <2>2
      <4>2. \A a \in Touched(job[v].legs) :
              /\ rowLock[a] = v /\ rowLock'[a] = v
              /\ available'[a] = available[a] /\ version'[a] = version[a]
        BY <1>1, <2>2, <3>1 DEF WriteOK, Elsewhere, Touched
      <4>3. NewRows(job[v].legs)' = NewRows(job[v].legs)
        BY <4>1, <4>2 DEF NewRows, Touched, Delta
      <4>4. job[v].key # None => \A x \in TxId : transactions'[x].key # job[v].key
        BY <2>2, <3>1 DEF WriteOK, Elsewhere
      <4>5. status' = status
        BY DEF Elsewhere
      <4>. QED BY <3>1, <4>1, <4>2, <4>3, <4>4, <4>5 DEF WriteOK
    <3>. QED BY <3>2, <3>3, <3>4, <3>5
  <2>. QED BY <2>1, <2>2
<1>. QED BY <1>2, <1>3

\* A status changes only on rows that are not locked, and a row is inserted
\* only where nobody could have locked one.
LEMMA AccountStepKeepsIInv ==
  ASSUME IInv, DbTypeOK', NEW a \in Account,
         CreateAccount(a) \/ ShardAccount(a) \/ \E s \in Status : SetStatus(a, s)
  PROVE  IInv'
<1>. USE DEF IInv
<1>1. /\ UNCHANGED <<lockVars, workerVars>>
      /\ UNCHANGED <<available, version, transactions, journal>>
      /\ \A b \in Account : status'[b] # status[b] => rowLock[b] = None \/ status[b] = "NONE"
  <2>1. CASE CreateAccount(a)
    BY <2>1 DEF CreateAccount, InsertAccount, TypeOK, DbTypeOK
  <2>2. CASE ShardAccount(a)
    BY <2>2 DEF ShardAccount, InsertShards, ShardsOf, TypeOK, DbTypeOK
  <2>3. CASE \E s \in Status : SetStatus(a, s)
    BY <2>3 DEF SetStatus, UpdateStatus, TypeOK, DbTypeOK
  <2>. QED BY <2>1, <2>2, <2>3
<1>2. TypeOK'
  BY <1>1 DEF TypeOK, LockedRow, lockVars, workerVars
<1>3. ASSUME NEW w \in Worker
      PROVE  JobOK(w)' /\ RowOK(w)' /\ HeaderOK(w)' /\ WriteOK(w)'
  <2>1. JobOK(w)' /\ HeaderOK(w)'
    BY <1>1 DEF JobOK, HeaderOK, HasLegs, lockVars, workerVars
  <2>2. RowOK(w)'
    <3>1. ASSUME NEW b \in DOMAIN snap[w], snap[w][b].status # "NONE"
          PROVE  rowLock[b] = w /\ snap[w][b] = Row(b)'
      <4>1. b \in Account /\ rowLock[b] = w /\ snap[w][b] = Row(b)
        BY <3>1 DEF RowOK, TypeOK
      <4>2. status'[b] = status[b]
        BY <1>1, <3>1, <4>1, WorkerAssumption DEF Row
      <4>. QED BY <1>1, <4>1, <4>2 DEF Row
    <3>2. rowLock' = rowLock /\ snap' = snap /\ job' = job /\ pc' = pc
      BY <1>1 DEF lockVars, workerVars
    <3>. QED BY <3>1, <3>2 DEF RowOK, HasLegs
  <2>3. WriteOK(w)'
    <3>1. NewRows(job[w].legs)' = NewRows(job[w].legs)
      BY <1>1 DEF NewRows, workerVars
    <3>2. pc[w] = "commit" => \A b \in Touched(job[w].legs) : status'[b] = "ACTIVE"
      BY <1>1, WorkerAssumption DEF WriteOK, Touched
    <3>. QED BY <1>1, <3>1, <3>2 DEF WriteOK, lockVars, workerVars
  <2>. QED BY <2>1, <2>2, <2>3
<1>. QED BY <1>2, <1>3
=============================================================================
