----------------------------- MODULE LedgerSteps ----------------------------
(***************************************************************************)
(* The invariant of the posting engine survives the beginning of a         *)
(* transaction and every statement before its first row lock.              *)
(***************************************************************************)
EXTENDS LedgerInvariant

(* What a statement of w changes: locks nobody held and its own part of    *)
(* the state, without taking the id or the uncommitted key of another.     *)
OwnStep(w) ==
  /\ UNCHANGED dbVars
  /\ \A v \in Worker \ {w} : /\ pc'[v] = pc[v] /\ job'[v] = job[v]
                             /\ snap'[v] = snap[v] /\ rows'[v] = rows[v]
  /\ \A a \in Account : rowLock'[a] = rowLock[a] \/ (rowLock[a] = None /\ rowLock'[a] = w)
  /\ \A x \in TxId :
       headerLock'[x] = headerLock[x] \/ (headerLock[x] = None /\ headerLock'[x] = w)
  /\ job'[w].id = job[w].id \/ \A v \in Worker : job[v].id # job'[w].id
  /\ pc'[w] = "commit" /\ job'[w].key # None =>
       \A v \in Worker \ {w} : pc[v] = "commit" => job[v].key # job'[w].key

\* Such a statement leaves the other workers' part of the invariant alone.
LEMMA OthersKeep ==
  ASSUME IInv, NEW w \in Worker, OwnStep(w), NEW v \in Worker, v # w
  PROVE  JobOK(v)' /\ RowOK(v)' /\ HeaderOK(v)' /\ WriteOK(v)'
<1>1. /\ JobOK(v) /\ RowOK(v) /\ HeaderOK(v) /\ WriteOK(v) /\ (HasLegs(v)' <=> HasLegs(v))
      /\ pc'[v] = pc[v] /\ job'[v] = job[v] /\ snap'[v] = snap[v] /\ rows'[v] = rows[v]
      /\ \A a \in Account : rowLock'[a] = v <=> rowLock[a] = v
      /\ \A x \in TxId : headerLock'[x] = v <=> headerLock[x] = v
      /\ job[v].reverses \in TxId \cup {None}
      /\ DOMAIN snap[v] \subseteq Account
  BY WorkerAssumption DEF IInv, TypeOK, OwnStep, HasLegs
<1>2. /\ available' = available /\ version' = version /\ status' = status
      /\ transactions' = transactions /\ journal' = journal
  BY DEF OwnStep, dbVars
<1>3. JobOK(v)'
  <2>1. pc[v] # "idle" => \A u \in Worker \ {v} : job'[u].id # job[v].id
    BY <1>1 DEF JobOK, OwnStep
  <2>. QED BY <1>1, <1>2, <2>1 DEF JobOK
<1>4. RowOK(v)'
  BY <1>1, <1>2 DEF RowOK, Row
<1>5. HeaderOK(v)'
  BY <1>1, <1>2 DEF HeaderOK
<1>6. WriteOK(v)'
  <2>1. \A a \in Touched(job[v].legs) : a \in Account
    BY DEF Touched
  <2>2. NewRows(job[v].legs)' = NewRows(job[v].legs)
    BY <1>1, <1>2 DEF NewRows
  <2>3. ASSUME pc[v] = "commit", job[v].key # None, NEW u \in Worker \ {v}, pc'[u] = "commit"
        PROVE  job'[u].key # job[v].key
    BY <1>1, <2>3 DEF WriteOK, OwnStep
  <2>. QED BY <1>1, <1>2, <2>1, <2>2, <2>3 DEF WriteOK
<1>. QED BY <1>3, <1>4, <1>5, <1>6

\* A worker that opens a transaction has no locks and a fresh id.
LEMMA OpenKeepsIInv ==
  ASSUME IInv, DbTypeOK', NEW w \in Worker, NEW x \in TxId, NEW l \in AnyLegs,
         NEW k \in Key \cup {None}, NEW o \in TxId \cup {None},
         pc[w] = "idle", FreshId(x), UNCHANGED <<dbVars, lockVars, snap, rows>>,
         o = None => \E r \in Request : Valid(r) /\ r.legs = l /\ r.key = k,
         job' = [job EXCEPT ![w] = [id |-> x, named |-> l, legs |-> NoLegs, key |-> k,
                                    reverses |-> o, attempt |-> 1]],
         pc' = [pc EXCEPT ![w] = IF o = None THEN "route" ELSE "load"]
  PROVE  IInv'
<1>. SUFFICES ASSUME TypeOK, JobOK(w), RowOK(w), HeaderOK(w), WriteOK(w)
              PROVE  IInv'
  BY DEF IInv
<1>1. /\ pc'[w] = IF o = None THEN "route" ELSE "load"
      /\ job'[w] = [id |-> x, named |-> l, legs |-> NoLegs, key |-> k,
                    reverses |-> o, attempt |-> 1]
      /\ \A v \in Worker \ {w} : pc'[v] = pc[v] /\ job'[v] = job[v]
  BY DEF TypeOK
<1>2. TypeOK'
  <2>1. NoLegs \in AnyLegs /\ 1 \in 0..MaxAttempts
    BY MaxAttemptsAssumption DEF NoLegs, Nothing, AnyLegs, Side
  <2>2. pc' \in [Worker -> {"idle", "route", "load", "lock", "commit"}]
    BY DEF TypeOK
  <2>3. job' \in [Worker -> [id : TxId \cup {None}, named : AnyLegs, legs : AnyLegs,
                             key : Key \cup {None}, reverses : TxId \cup {None},
                             attempt : 0..MaxAttempts]]
    BY <2>1 DEF TypeOK
  <2>. QED BY <2>2, <2>3 DEF TypeOK, LockedRow, lockVars
<1>3. OwnStep(w)
  BY <1>1 DEF OwnStep, FreshId, lockVars
<1>4. JobOK(w)'
  BY <1>1 DEF JobOK, HasLegs, FreshId, dbVars
<1>5. RowOK(w)' /\ HeaderOK(w)' /\ WriteOK(w)'
  <2>1. ~HasLegs(w) /\ ~HasLegs(w)' /\ snap' = snap /\ rowLock' = rowLock
        /\ headerLock' = headerLock
    BY <1>1 DEF HasLegs, lockVars
  <2>2. RowOK(w)'
    BY <2>1 DEF RowOK
  <2>3. HeaderOK(w)'
    BY <2>1 DEF HeaderOK
  <2>4. WriteOK(w)'
    BY <2>1 DEF WriteOK, HasLegs
  <2>. QED BY <2>2, <2>3, <2>4
<1>. QED BY <1>2, <1>3, <1>4, <1>5, OthersKeep DEF IInv

\* PostTransaction and ReverseTransaction open one.
LEMMA BeginKeepsIInv ==
  ASSUME IInv, DbTypeOK', NEW w \in Worker, PostTransaction(w) \/ ReverseTransaction(w)
  PROVE  IInv'
<1>1. CASE PostTransaction(w)
  <2>1. PICK r \in Request, x \in TxId :
          /\ Valid(r) /\ FreshId(x)
          /\ job' = [job EXCEPT ![w] =
               [id |-> x, named |-> r.legs, legs |-> NoLegs, key |-> r.key,
                reverses |-> None, attempt |-> 1]]
    BY Zenon, <1>1 DEF PostTransaction
  <2>2. r.legs \in AnyLegs /\ r.key \in Key \cup {None}
    BY RequestAssumption DEF Legs, AnyLegs
  <2>3. /\ pc' = [pc EXCEPT ![w] = IF None = None THEN "route" ELSE "load"]
        /\ pc[w] = "idle" /\ UNCHANGED <<dbVars, lockVars, snap, rows>>
    BY <1>1 DEF PostTransaction
  <2>. QED BY Zenon, <2>1, <2>2, <2>3, OpenKeepsIInv
<1>2. CASE ReverseTransaction(w)
  <2>1. PICK o \in TxId, x \in TxId, k \in Key \cup {None} :
          /\ FreshId(x)
          /\ job' = [job EXCEPT ![w] =
               [id |-> x, named |-> NoLegs, legs |-> NoLegs, key |-> k,
                reverses |-> o, attempt |-> 1]]
    BY Zenon, <1>2 DEF ReverseTransaction
  <2>2. o # None /\ NoLegs \in AnyLegs
    BY NoneAssumption DEF NoLegs, Nothing, AnyLegs, Side
  <2>3. /\ pc' = [pc EXCEPT ![w] = IF o = None THEN "route" ELSE "load"]
        /\ pc[w] = "idle" /\ UNCHANGED <<dbVars, lockVars, snap, rows>>
    BY <1>2, <2>2 DEF ReverseTransaction
  <2>. QED BY Zenon, <2>1, <2>2, <2>3, OpenKeepsIInv
<1>. QED BY <1>1, <1>2

\* Giving a job its entries changes nothing else of it.
LEMMA SetLegs ==
  ASSUME TypeOK, NEW w \in Worker, NEW l \in AnyLegs, job' = [job EXCEPT ![w].legs = l]
  PROVE  /\ job' \in [Worker -> [id : TxId \cup {None}, named : AnyLegs, legs : AnyLegs,
                                 key : Key \cup {None}, reverses : TxId \cup {None},
                                 attempt : 0..MaxAttempts]]
         /\ \A v \in Worker \ {w} : job'[v] = job[v]
         /\ job'[w].id = job[w].id /\ job'[w].key = job[w].key
         /\ job'[w].reverses = job[w].reverses /\ job'[w].named = job[w].named
         /\ job'[w].legs = l
<1>1. job \in [Worker -> [id : TxId \cup {None}, named : AnyLegs, legs : AnyLegs,
                          key : Key \cup {None}, reverses : TxId \cup {None},
                          attempt : 0..MaxAttempts]]
  BY DEF TypeOK
<1>2. job[w] \in [id : TxId \cup {None}, named : AnyLegs, legs : AnyLegs,
                  key : Key \cup {None}, reverses : TxId \cup {None},
                  attempt : 0..MaxAttempts]
  BY Zenon, <1>1
<1>. QED BY Zenon, <1>1, <1>2

\* A reversal locks the header of a POSTED transaction and mirrors its entries.
LEMMA LoadKeepsIInv ==
  ASSUME IInv, DbTypeOK', NEW w \in Worker, LoadTransactionForUpdate(w)
  PROVE  IInv'
<1>. SUFFICES ASSUME TypeOK, JobOK(w), RowOK(w), HeaderOK(w), WriteOK(w)
              PROVE  IInv'
  BY DEF IInv
<1>. DEFINE o == job[w].reverses
<1>1. o \in TxId /\ o # None /\ journal[o] \in AnyLegs
  BY DEF LoadTransactionForUpdate, JobOK, TypeOK, DbTypeOK
<1>2. Mirror(journal[o]) \in AnyLegs
  BY <1>1, MirrorType
<1>3. /\ pc[w] = "load" /\ pc'[w] = "lock"
      /\ headerLock[o] = None /\ headerLock'[o] = w
      /\ transactions[o].status = "POSTED"
      /\ UNCHANGED <<dbVars, rowLock, snap, rows>>
      /\ \A v \in Worker \ {w} : pc'[v] = pc[v]
      /\ \A x \in TxId \ {o} : headerLock'[x] = headerLock[x]
  BY <1>1 DEF LoadTransactionForUpdate, TypeOK
<1>4. job' = [job EXCEPT ![w].legs = Mirror(journal[o])]
  BY DEF LoadTransactionForUpdate
<1>5. TypeOK'
  <2>1. /\ pc' \in [Worker -> {"idle", "route", "load", "lock", "commit"}]
        /\ headerLock' \in [TxId -> Worker \cup {None}]
    BY Zenon DEF LoadTransactionForUpdate, TypeOK
  <2>. QED BY Zenon, <1>2, <1>3, <1>4, <2>1, SetLegs DEF TypeOK, LockedRow
<1>. HIDE DEF o
<1>6. /\ job'[w].id = job[w].id /\ job'[w].key = job[w].key /\ job'[w].reverses = o
      /\ job'[w].legs = Mirror(journal[o]) /\ \A v \in Worker \ {w} : job'[v] = job[v]
  BY Zenon, <1>2, <1>4, SetLegs DEF o
<1>7. OwnStep(w)
  BY <1>1, <1>3, <1>6 DEF OwnStep
<1>8. JobOK(w)'
  BY <1>1, <1>3, <1>6 DEF JobOK, dbVars
<1>9. DOMAIN snap[w] = {} /\ \A a \in Account : rowLock[a] # w
  BY <1>3 DEF RowOK, HasLegs
<1>10. RowOK(w)'
  BY <1>3, <1>9 DEF RowOK
<1>11. HeaderOK(w)'
  BY <1>1, <1>3, <1>6 DEF HeaderOK, HasLegs, dbVars
<1>12. WriteOK(w)'
  BY <1>3 DEF WriteOK
<1>. QED BY <1>5, <1>7, <1>8, <1>10, <1>11, <1>12, OthersKeep DEF IInv

\* Routing gives a request its entries, from the shards it found.
LEMMA RouteKeepsIInv ==
  ASSUME IInv, DbTypeOK', NEW w \in Worker, RouteToShards(w)
  PROVE  IInv'
<1>. SUFFICES ASSUME TypeOK, JobOK(w), RowOK(w), HeaderOK(w), WriteOK(w)
              PROVE  IInv'
  BY DEF IInv
<1>1. PICK chosen \in Routings :
        job' = [job EXCEPT ![w].legs = RoutedLegs(job[w].named, chosen)]
  BY Zenon DEF RouteToShards, ShardChoices
<1>2. PICK r \in Request : Valid(r) /\ r.legs = job[w].named /\ r.key = job[w].key
  BY DEF RouteToShards, JobOK
<1>3. RoutedLegs(job[w].named, chosen) \in AnyLegs
  BY <1>2, RequestAssumption, RoutedType
<1>4. /\ pc[w] = "route" /\ pc'[w] = "lock"
      /\ UNCHANGED <<dbVars, lockVars, snap, rows>>
      /\ \A v \in Worker \ {w} : pc'[v] = pc[v]
      /\ pc' \in [Worker -> {"idle", "route", "load", "lock", "commit"}]
  BY DEF RouteToShards, TypeOK
<1>5. TypeOK'
  BY Zenon, <1>1, <1>3, <1>4, SetLegs DEF TypeOK, LockedRow, lockVars
<1>6. /\ job'[w].id = job[w].id /\ job'[w].key = job[w].key
      /\ job'[w].reverses = job[w].reverses /\ job'[w].named = job[w].named
      /\ job'[w].legs = RoutedLegs(job[w].named, chosen)
      /\ \A v \in Worker \ {w} : job'[v] = job[v]
  BY Zenon, <1>1, <1>3, SetLegs
<1>7. OwnStep(w)
  BY <1>4, <1>6 DEF OwnStep, lockVars
<1>8. JobOK(w)'
  BY <1>2, <1>4, <1>6 DEF JobOK, dbVars
<1>9. /\ DOMAIN snap[w] = {} /\ \A a \in Account : rowLock[a] # w
      /\ \A x \in TxId : headerLock[x] # w
      /\ job[w].reverses = None
  BY <1>4 DEF RowOK, HeaderOK, JobOK, HasLegs
<1>10. RowOK(w)'
  BY <1>4, <1>9 DEF RowOK, lockVars
<1>11. HeaderOK(w)'
  BY <1>4, <1>6, <1>9 DEF HeaderOK, lockVars
<1>12. WriteOK(w)'
  BY <1>4 DEF WriteOK
<1>. QED BY <1>5, <1>7, <1>8, <1>10, <1>11, <1>12, OthersKeep DEF IInv
=============================================================================
