--------------------------- MODULE LedgerInductive --------------------------
(***************************************************************************)
(* The invariant of the posting engine survives the row locks and the      *)
(* writes of a transaction and its COMMIT.                                 *)
(***************************************************************************)
EXTENDS LedgerSteps

\* LockAccounts takes a free row in id order and reads it under the lock.
LEMMA LockKeepsIInv ==
  ASSUME IInv, DbTypeOK', NEW w \in Worker, NEW a \in Account, LockRow(w, a)
  PROVE  IInv'
<1>. SUFFICES ASSUME TypeOK, JobOK(w), RowOK(w), HeaderOK(w), WriteOK(w)
              PROVE  IInv'
  BY DEF IInv
<1>1. /\ pc[w] = "lock" /\ rowLock[a] = None
      /\ a \in Touched(job[w].legs) /\ a \notin DOMAIN snap[w]
      /\ \A b \in Touched(job[w].legs) \ DOMAIN snap[w] : a <= b
      /\ UNCHANGED <<dbVars, headerLock, pc, job, rows>>
  BY DEF LockRow, IsNextRow
<1>2. /\ rowLock'[a] = IF status[a] = "NONE" THEN None ELSE w
      /\ \A b \in Account \ {a} : rowLock'[b] = rowLock[b]
      /\ rowLock' \in [Account -> Worker \cup {None}]
  BY <1>1 DEF LockRow, TypeOK
<1>3. /\ DOMAIN snap' = Worker
      /\ \A v \in Worker \ {w} : snap'[v] = snap[v]
      /\ DOMAIN snap'[w] = DOMAIN snap[w] \cup {a}
      /\ snap'[w][a] = Row(a)
      /\ \A b \in DOMAIN snap[w] : snap'[w][b] = snap[w][b]
  BY <1>1 DEF LockRow, TypeOK
<1>4. TypeOK'
  <2>1. Row(a) \in LockedRow
    BY DEF Row, LockedRow, TypeOK, DbTypeOK
  <2>2. snap'[w] = [b \in DOMAIN snap[w] \cup {a} |->
                      IF b = a THEN Row(a) ELSE snap[w][b]]
    BY DEF LockRow, TypeOK
  <2>3. snap'[w] \in [DOMAIN snap'[w] -> LockedRow] /\ DOMAIN snap'[w] \subseteq Account
    BY <1>3, <2>1, <2>2 DEF TypeOK
  <2>4. \A v \in Worker : /\ snap'[v] \in [DOMAIN snap'[v] -> LockedRow]
                          /\ DOMAIN snap'[v] \subseteq Account
    BY <1>3, <2>3 DEF TypeOK
  <2>. QED BY <1>1, <1>2, <1>3, <2>4 DEF TypeOK, LockedRow
<1>5. OwnStep(w)
  BY <1>1, <1>2, <1>3 DEF OwnStep
<1>6. JobOK(w)' /\ HeaderOK(w)' /\ WriteOK(w)'
  <2>1. /\ (HasLegs(w)' <=> HasLegs(w)) /\ pc' = pc /\ job' = job /\ headerLock' = headerLock
        /\ transactions' = transactions /\ journal' = journal
    BY <1>1 DEF HasLegs, dbVars
  <2>2. JobOK(w)'
    BY <2>1 DEF JobOK
  <2>3. HeaderOK(w)'
    BY <2>1 DEF HeaderOK
  <2>4. WriteOK(w)'
    BY <1>1, <2>1 DEF WriteOK
  <2>. QED BY <2>2, <2>3, <2>4
<1>7. RowOK(w)'
  <2>1. \A b \in Account : Row(b)' = Row(b)
    BY <1>1 DEF Row, dbVars
  <2>2. ASSUME NEW b \in DOMAIN snap'[w]
        PROVE  /\ b \in Touched(job[w].legs)
               /\ \A c \in Touched(job[w].legs) \ DOMAIN snap'[w] : b < c
               /\ snap'[w][b].status # "NONE" => rowLock'[b] = w /\ snap'[w][b] = Row(b)
    <3>1. CASE b = a
      <4>1. \A c \in Touched(job[w].legs) \ DOMAIN snap'[w] : a < c
        BY <1>1, <1>3, AccountAssumption DEF Touched
      <4>. QED BY <1>1, <1>2, <1>3, <3>1, <4>1 DEF Row
    <3>2. CASE b # a
      BY <1>1, <1>2, <1>3, <3>2 DEF RowOK, TypeOK
    <3>. QED BY <3>1, <3>2
  <2>3. \A b \in Account : rowLock'[b] = w => b \in DOMAIN snap'[w]
    BY <1>1, <1>2, <1>3, WorkerAssumption DEF RowOK
  <2>4. HasLegs(w)' /\ job' = job
    BY <1>1 DEF HasLegs
  <2>5. DOMAIN snap'[w] \subseteq Account
    BY <1>4 DEF TypeOK
  <2>. QED BY <2>1, <2>2, <2>3, <2>4, <2>5 DEF RowOK
<1>. QED BY <1>4, <1>5, <1>6, <1>7, OthersKeep DEF IInv

\* The writes are computed from rows that are still what was locked.
LEMMA WriteKeepsIInv ==
  ASSUME IInv, DbTypeOK', NEW w \in Worker, WriteRows(w)
  PROVE  IInv'
<1>. SUFFICES ASSUME TypeOK, JobOK(w), RowOK(w), HeaderOK(w), WriteOK(w)
              PROVE  IInv'
  BY DEF IInv
<1>. DEFINE l == job[w].legs
<1>1. /\ pc[w] = "lock" /\ Touched(l) \subseteq DOMAIN snap[w]
      /\ pc'[w] = "commit" /\ rows'[w] = NewRows(l)
      /\ \A v \in Worker \ {w} : pc'[v] = pc[v] /\ rows'[v] = rows[v]
      /\ UNCHANGED <<dbVars, lockVars, job, snap>>
      /\ pc' \in [Worker -> {"idle", "route", "load", "lock", "commit"}]
      /\ DOMAIN rows' = Worker
  BY DEF WriteRows, Locked, TypeOK, NewRows
<1>2. ASSUME NEW a \in Touched(l)
      PROVE  /\ rowLock[a] = w /\ status[a] = "ACTIVE" /\ CurrencyOf[a] = l.currency
             /\ Storable(a, available[a] + Delta(l, a))
  <2>1. a \in DOMAIN snap[w] /\ snap[w][a].status = "ACTIVE" /\ CurrencyOf[a] = l.currency
    BY <1>1 DEF WriteRows, Postable
  <2>2. rowLock[a] = w /\ snap[w][a] = Row(a)
    BY <2>1 DEF RowOK
  <2>3. Storable(a, snap[w][a].available + Delta(l, a))
    BY DEF WriteRows, Affordable, Projected
  <2>. QED BY <2>1, <2>2, <2>3 DEF Row
<1>3. /\ job[w].key # None => \A x \in TxId : transactions[x].key # job[w].key
      /\ job[w].key # None =>
           \A v \in Worker \ {w} : pc[v] = "commit" => job[v].key # job[w].key
  BY DEF WriteRows, KeyTaken, KeyInFlight
<1>4. TypeOK'
  <2>1. l \in AnyLegs /\ Touched(l) \subseteq Account
    BY DEF TypeOK, Touched
  <2>2. \A a \in Touched(l) : [available |-> available[a] + Delta(l, a),
                              version |-> version[a] + 1] \in BalanceRow
    BY <2>1, DeltaFacts DEF TypeOK, DbTypeOK, BalanceRow
  <2>3. NewRows(l) \in [Touched(l) -> BalanceRow] /\ DOMAIN NewRows(l) = Touched(l)
    BY <2>2 DEF NewRows
  <2>4. \A v \in Worker : /\ rows'[v] \in [DOMAIN rows'[v] -> BalanceRow]
                          /\ DOMAIN rows'[v] \subseteq Account
    BY <1>1, <2>1, <2>3 DEF TypeOK
  <2>. QED BY <1>1, <2>4 DEF TypeOK, LockedRow, lockVars
<1>5. OwnStep(w)
  BY <1>1, <1>3 DEF OwnStep, lockVars
<1>6. JobOK(w)' /\ RowOK(w)' /\ HeaderOK(w)'
  <2>1. /\ HasLegs(w) /\ HasLegs(w)' /\ job' = job /\ snap' = snap
        /\ rowLock' = rowLock /\ headerLock' = headerLock
        /\ transactions' = transactions /\ journal' = journal
        /\ \A a : Row(a)' = Row(a)
    BY <1>1 DEF HasLegs, Row, dbVars, lockVars
  <2>2. JobOK(w)'
    BY <1>1, <2>1 DEF JobOK
  <2>3. RowOK(w)'
    BY <2>1 DEF RowOK
  <2>4. HeaderOK(w)'
    BY <2>1 DEF HeaderOK
  <2>. QED BY <2>2, <2>3, <2>4
<1>7. WriteOK(w)'
  <2>1. NewRows(l)' = NewRows(l)
    BY <1>1 DEF NewRows, dbVars
  <2>. QED BY <1>1, <1>2, <1>3, <2>1 DEF WriteOK, dbVars, lockVars
<1>. QED BY <1>4, <1>5, <1>6, <1>7, OthersKeep DEF IInv

\* COMMIT writes only rows and headers the worker has locked, and its own.
LEMMA CommitKeepsIInv ==
  ASSUME IInv, DbTypeOK', NEW w \in Worker, Commit(w)
  PROVE  IInv'
<1>. SUFFICES ASSUME TypeOK, JobOK(w), RowOK(w), HeaderOK(w), WriteOK(w)
              PROVE  IInv'
  BY DEF IInv
<1>1. pc[w] = "commit" /\ job[w].id \in TxId /\ HasLegs(w)
  BY DEF Commit, JobOK, HasLegs
<1>2. CASE Balanced(job[w].legs)
  <2>1. Publish(w)
    BY <1>2 DEF Commit
  <2>2. \A a \in DOMAIN rows[w] : rowLock[a] = w
    <3>1. rows[w] = NewRows(job[w].legs) /\ \A a \in Touched(job[w].legs) : rowLock[a] = w
      BY <1>1 DEF WriteOK
    <3>2. DOMAIN NewRows(job[w].legs) = Touched(job[w].legs)
      BY DEF NewRows
    <3>. QED BY <3>1, <3>2
  <2>3. \A a \in Account : rowLock[a] # w => available'[a] = available[a] /\ version'[a] = version[a]
    BY <2>1, <2>2 DEF Publish
  <2>4. transactions' = Headers(w) /\ status' = status
    BY <2>1 DEF Publish
  <2>5. \A x \in TxId \ {job[w].id} : /\ journal'[x] = journal[x]
                                      /\ transactions'[x].key = transactions[x].key
                                      /\ x # job[w].reverses => transactions'[x] = transactions[x]
    <3>1. \A x \in TxId : transactions'[x] = Headers(w)[x]
      BY <2>4
    <3>2. \A x \in TxId \ {job[w].id} : journal'[x] = journal[x]
      BY <2>1 DEF Publish, TypeOK, DbTypeOK
    <3>3. \A x \in TxId : [transactions[x] EXCEPT !.status = "REVERSED"].key
                          = transactions[x].key
      BY DEF TypeOK, DbTypeOK
    <3>. QED BY Zenon, <3>1, <3>2, <3>3 DEF Headers
  <2>6. transactions'[job[w].id].key = job[w].key
    BY <1>1, <2>4 DEF Headers
  <2>7. Elsewhere(w)
    BY <1>1, <2>3, <2>4, <2>5, <2>6 DEF Elsewhere
  <2>. QED BY Zenon, <1>1, <2>7, EndKeepsIInv DEF Commit, Finish
<1>3. CASE ~Balanced(job[w].legs)
  <2>1. Elsewhere(w)
    BY <1>3 DEF Commit, Elsewhere, dbVars
  <2>. QED BY Zenon, <1>1, <2>1, EndKeepsIInv DEF Commit, Finish
<1>. QED BY <1>2, <1>3
=============================================================================
