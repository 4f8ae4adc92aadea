------------------------------- MODULE Ledger -------------------------------
(***************************************************************************)
(* The double-entry posting engine: Service.PostTransaction and            *)
(* Service.ReverseTransaction running concurrently, each as one PostgreSQL *)
(* transaction at READ COMMITTED that takes its row locks in account-id    *)
(* order, writes the journal, the balances and the outbox, and commits.    *)
(*                                                                         *)
(* The committed tables are AtomicLedger's variables.  Row locks are       *)
(* rowLock (accounts and account_balances, which LockAccounts takes        *)
(* together) and headerLock (transactions).  A worker is a goroutine with a*)
(* transaction open; what it has read is in snap, and what it has written  *)
(* and not committed is in rows.                                           *)
(***************************************************************************)
EXTENDS AtomicLedger

CONSTANTS Worker,         \* goroutines that post or reverse
          MaxAttempts     \* Retrier.maxAttempts

ASSUME WorkerAssumption == None \notin Worker
ASSUME MaxAttemptsAssumption == MaxAttempts \in Nat \ {0}

VARIABLES rowLock,        \* who holds the account's row locks
          headerLock,     \* who holds the transactions row's lock
          pc,             \* the next statement of each worker
          job,            \* what each worker is posting
          snap,           \* the rows LockAccounts returned to each worker
          rows            \* the balance rows each worker has written

lockVars == <<rowLock, headerLock>>
workerVars == <<pc, job, snap, rows>>
vars == <<available, version, status, transactions, journal, outbox,
          rowLock, headerLock, pc, job, snap, rows>>

-----------------------------------------------------------------------------
(* Shards                                                                  *)

\* ResolveShards: the children that are ACTIVE, never the parent.
ActiveShards(p) == {a \in ShardsOf(p) : status[a] = "ACTIVE"}

\* One shard per logical account per transaction, any active one.
ShardChoices(l) ==
  {chosen \in Routings :
     \A a \in Account : IF a \in Touched(l) /\ ActiveShards(a) # {}
                        THEN chosen[a] \in ActiveShards(a)
                        ELSE chosen[a] = a}

-----------------------------------------------------------------------------
(* The initial state                                                       *)

Empty == [a \in {} |-> None]
NoJob == [id |-> None, named |-> NoLegs, legs |-> NoLegs, key |-> None,
          reverses |-> None, attempt |-> 0]

Init == /\ AtomicInit
        /\ rowLock = [a \in Account |-> None]
        /\ headerLock = [x \in TxId |-> None]
        /\ pc = [w \in Worker |-> "idle"]
        /\ job = [w \in Worker |-> NoJob]
        /\ snap = [w \in Worker |-> Empty]
        /\ rows = [w \in Worker |-> Empty]

-----------------------------------------------------------------------------
(* Starting an operation                                                   *)

\* uuid.NewV7: an id no transaction and no open request has.
FreshId(x) == /\ transactions[x].status = "NONE"
              /\ \A w \in Worker : job[w].id # x

\* PostTransaction up to InTx: validate, take the key, generate the id.
PostTransaction(w) ==
  /\ pc[w] = "idle"
  /\ \E r \in Request, x \in TxId :
       /\ Valid(r)
       /\ FreshId(x)
       /\ job' = [job EXCEPT ![w] =
            [id |-> x, named |-> r.legs, legs |-> NoLegs, key |-> r.key,
             reverses |-> None, attempt |-> 1]]
  /\ pc' = [pc EXCEPT ![w] = "route"]
  /\ UNCHANGED <<dbVars, lockVars, snap, rows>>

\* doReverse up to InTx, with or without an idempotency key.
ReverseTransaction(w) ==
  /\ pc[w] = "idle"
  /\ \E o \in TxId, x \in TxId, k \in Key \cup {None} :
       /\ FreshId(x)
       /\ job' = [job EXCEPT ![w] =
            [id |-> x, named |-> NoLegs, legs |-> NoLegs, key |-> k,
             reverses |-> o, attempt |-> 1]]
  /\ pc' = [pc EXCEPT ![w] = "load"]
  /\ UNCHANGED <<dbVars, lockVars, snap, rows>>

-----------------------------------------------------------------------------
(* The end of a transaction                                                *)

ReleaseLocks(w) ==
  /\ rowLock' = [a \in Account |-> IF rowLock[a] = w THEN None ELSE rowLock[a]]
  /\ headerLock' = [x \in TxId |-> IF headerLock[x] = w THEN None ELSE headerLock[x]]
  /\ snap' = [snap EXCEPT ![w] = Empty]
  /\ rows' = [rows EXCEPT ![w] = Empty]

Finish(w) == /\ ReleaseLocks(w)
             /\ pc' = [pc EXCEPT ![w] = "idle"]
             /\ job' = [job EXCEPT ![w] = NoJob]

\* A rollback: the database is as if the transaction had never started.
Rollback(w) == Finish(w) /\ UNCHANGED dbVars

-----------------------------------------------------------------------------
(* The statements of a transaction                                         *)

\* LoadTransactionForUpdate, which waits for the header's lock, and the checks
\* on what it returned: only a POSTED transaction is reversed.
LoadTransactionForUpdate(w) ==
  LET o == job[w].reverses IN
  /\ pc[w] = "load"
  /\ headerLock[o] = None
  /\ transactions[o].status = "POSTED"
  /\ headerLock' = [headerLock EXCEPT ![o] = w]
  /\ job' = [job EXCEPT ![w].legs = Mirror(journal[o])]
  /\ pc' = [pc EXCEPT ![w] = "lock"]
  /\ UNCHANGED <<dbVars, rowLock, snap, rows>>

\* ErrTransactionNotFound, ErrAlreadyReversed, ErrTransactionNotPosted.
RefuseReversal(w) ==
  LET o == job[w].reverses IN
  /\ pc[w] = "load"
  /\ headerLock[o] = None
  /\ transactions[o].status # "POSTED"
  /\ Rollback(w)

\* routeToShards: reads the shard set without a lock, then picks.
RouteToShards(w) ==
  /\ pc[w] = "route"
  /\ \E chosen \in ShardChoices(job[w].named) :
       job' = [job EXCEPT ![w].legs = RoutedLegs(job[w].named, chosen)]
  /\ pc' = [pc EXCEPT ![w] = "lock"]
  /\ UNCHANGED <<dbVars, lockVars, snap, rows>>

\* MUTANT: rows locked in the order of the request, debits first, not by id.
IsNextRowAsRequested(w, a) ==
  LET left == Touched(job[w].legs) \ DOMAIN snap[w]
      debits == {b \in left : job[w].legs.debit[b] # 0}
  IN a \in IF debits # {} THEN debits ELSE left

\* The row LockAccounts locks next: the lowest id it has not visited.
IsNextRow(w, a) == /\ a \in Touched(job[w].legs) \ DOMAIN snap[w]
                   /\ \A b \in Touched(job[w].legs) \ DOMAIN snap[w] : a <= b

Row(a) == [available |-> available[a], version |-> version[a], status |-> status[a]]

\* MUTANT: a plain SELECT, which neither waits nor locks.
LockRowWithoutLock(w, a) ==
  /\ pc[w] = "lock"
  /\ IsNextRow(w, a)
  /\ snap' = [snap EXCEPT ![w] =
                [b \in DOMAIN snap[w] \cup {a} |->
                   IF b = a THEN Row(a) ELSE snap[w][b]]]
  /\ UNCHANGED <<dbVars, lockVars, pc, job, rows>>

\* LockAccounts, one row at a time: wait for the lock, then read the row as it
\* is now.  An account with no row is not locked and not returned.
LockRow(w, a) ==
  /\ pc[w] = "lock"
  /\ IsNextRow(w, a)
  /\ rowLock[a] = None
  /\ rowLock' = IF status[a] = "NONE" THEN rowLock
                ELSE [rowLock EXCEPT ![a] = w]
  /\ snap' = [snap EXCEPT ![w] =
                [b \in DOMAIN snap[w] \cup {a} |->
                   IF b = a THEN Row(a) ELSE snap[w][b]]]
  /\ UNCHANGED <<dbVars, headerLock, pc, job, rows>>

\* LockAccounts has returned.
Locked(w) == /\ pc[w] = "lock"
             /\ Touched(job[w].legs) \subseteq DOMAIN snap[w]

\* The checks of lockAndValidate on the rows it locked.
Postable(w) == \A a \in Touched(job[w].legs) :
                 /\ snap[w][a].status = "ACTIVE"
                 /\ CurrencyOf[a] = job[w].legs.currency

\* applyEntries: the balance the locked row would have.
Projected(w, a) == snap[w][a].available + Delta(job[w].legs, a)

\* MUTANT: the overflow check without the overdraft check.
AffordableOverdrawn(w) == \A a \in Touched(job[w].legs) :
                            Projected(w, a) \in (-MaxMinor - 1)..MaxMinor

Affordable(w) == \A a \in Touched(job[w].legs) : Storable(a, Projected(w, a))

\* The WHERE clause of ApplyBalanceDelta: the row is the one that was locked.
VersionHolds(w) == \A a \in Touched(job[w].legs) : version[a] = snap[w][a].version

\* The unique index on (principal_id, idempotency_key): an insert waits for an
\* uncommitted row with its key and fails on a committed one.
KeyInFlight(w) == \E v \in Worker \ {w} : /\ pc[v] = "commit"
                                         /\ job[v].key # None
                                         /\ job[v].key = job[w].key

KeyTaken(w) == /\ job[w].key # None
               /\ \E x \in TxId : transactions[x].key = job[w].key

\* The WHERE clause of MarkReversed: the original has not been reversed since.
StillPosted(w) == job[w].reverses # None =>
                    transactions[job[w].reverses].status = "POSTED"

\* MUTANT: the transaction's sign convention used for the account's balance.
WriteRowsTransactionSign(w) ==
  /\ Locked(w) /\ Postable(w) /\ ~KeyInFlight(w) /\ ~KeyTaken(w)
  /\ Affordable(w) /\ VersionHolds(w) /\ StillPosted(w)
  /\ rows' = [rows EXCEPT ![w] =
       [a \in Touched(job[w].legs) |->
          [available |-> available[a] + job[w].legs.debit[a] - job[w].legs.credit[a],
           version |-> version[a] + 1]]]
  /\ pc' = [pc EXCEPT ![w] = "commit"]
  /\ UNCHANGED <<dbVars, lockVars, job, snap>>

\* MUTANT: ApplyBalanceDelta bumps the version only of balances that grow.
WriteRowsSameVersion(w) ==
  /\ Locked(w) /\ Postable(w) /\ ~KeyInFlight(w) /\ ~KeyTaken(w)
  /\ Affordable(w) /\ VersionHolds(w) /\ StillPosted(w)
  /\ rows' = [rows EXCEPT ![w] =
       [a \in Touched(job[w].legs) |->
          [available |-> available[a] + Delta(job[w].legs, a),
           version |-> IF Delta(job[w].legs, a) > 0 THEN version[a] + 1 ELSE version[a]]]]
  /\ pc' = [pc EXCEPT ![w] = "commit"]
  /\ UNCHANGED <<dbVars, lockVars, job, snap>>

\* InsertTransaction, InsertEntries, applyEntries, MarkReversed and the outbox
\* rows: everything the transaction writes, none of it visible yet.
WriteRows(w) ==
  /\ Locked(w)
  /\ Postable(w)
  /\ ~KeyInFlight(w)
  /\ ~KeyTaken(w)
  /\ Affordable(w)
  /\ VersionHolds(w)
  /\ StillPosted(w)
  /\ rows' = [rows EXCEPT ![w] =
       [a \in Touched(job[w].legs) |->
          [available |-> available[a] + Delta(job[w].legs, a),
           version |-> version[a] + 1]]]
  /\ pc' = [pc EXCEPT ![w] = "commit"]
  /\ UNCHANGED <<dbVars, lockVars, job, snap>>

\* ErrAccountNotFound, ErrAccountNotPostable and ErrCurrencyMismatch before the
\* insert; ErrDuplicateIdempotencyKey, ErrInsufficientFunds, ErrMoneyOverflow,
\* ErrBalanceVersionConflict and ErrAlreadyReversed once it no longer waits.
Refuse(w) ==
  /\ Locked(w)
  /\ \/ ~Postable(w)
     \/ /\ ~KeyInFlight(w)
        /\ \/ KeyTaken(w) \/ ~Affordable(w)
           \/ ~VersionHolds(w) \/ ~StillPosted(w)
  /\ Rollback(w)

\* What the header rows become: the new one, and the one it reverses.
Headers(w) ==
  [x \in TxId |->
     IF x = job[w].id
     THEN [status |-> "POSTED", key |-> job[w].key, reverses |-> job[w].reverses]
     ELSE IF x = job[w].reverses
     THEN [transactions[x] EXCEPT !.status = "REVERSED"]
     ELSE transactions[x]]

\* The writes of a transaction become visible, all of them in one step.
Publish(w) ==
  /\ available' = [a \in Account |-> IF a \in DOMAIN rows[w]
                                     THEN rows[w][a].available ELSE available[a]]
  /\ version' = [a \in Account |-> IF a \in DOMAIN rows[w]
                                   THEN rows[w][a].version ELSE version[a]]
  /\ transactions' = Headers(w)
  /\ journal' = [journal EXCEPT ![job[w].id] = job[w].legs]
  /\ outbox' = outbox \cup TransactionEvents(job[w].id, job[w].reverses, rows[w])
  /\ UNCHANGED status

\* COMMIT: the deferred trigger ledger_assert_transaction_balanced runs, and
\* refuses the transaction or lets it through; either way the locks go.
Commit(w) == /\ pc[w] = "commit"
             /\ IF Balanced(job[w].legs) THEN Publish(w) ELSE UNCHANGED dbVars
             /\ Finish(w)

\* The process dies, the deadline passes or the connection drops: PostgreSQL
\* rolls the open transaction back.
Crash(w) == pc[w] # "idle" /\ Rollback(w)

\* Retrier.Do after 40001 or 40P01: the whole callback runs again, with the id
\* that was generated outside it.
Retry(w) ==
  /\ pc[w] # "idle"
  /\ job[w].attempt < MaxAttempts
  /\ ReleaseLocks(w)
  /\ job' = [job EXCEPT ![w].legs = NoLegs, ![w].attempt = job[w].attempt + 1]
  /\ pc' = [pc EXCEPT ![w] = IF job[w].reverses = None THEN "route" ELSE "load"]
  /\ UNCHANGED dbVars

-----------------------------------------------------------------------------
(* The chart of accounts                                                   *)

\* Service.CreateAccount touches no row a posting could hold.
CreateAccount(a) == InsertAccount(a) /\ UNCHANGED <<lockVars, workerVars>>

\* ledger_shard_account takes the parent's row lock first.
ShardAccount(p) == /\ rowLock[p] = None
                   /\ InsertShards(p)
                   /\ UNCHANGED <<lockVars, workerVars>>

\* MUTANT: LockAccounts without FOR NO KEY UPDATE OF a, so nothing to wait for.
SetStatusAnyTime(a, s) == UpdateStatus(a, s) /\ UNCHANGED <<lockVars, workerVars>>

\* An UPDATE of accounts.status waits for the row's lock.
SetStatus(a, s) == /\ rowLock[a] = None
                   /\ UpdateStatus(a, s)
                   /\ UNCHANGED <<lockVars, workerVars>>

-----------------------------------------------------------------------------
Step(w) == \/ LoadTransactionForUpdate(w)
           \/ RefuseReversal(w)
           \/ RouteToShards(w)
           \/ \E a \in Account : LockRow(w, a)
           \/ WriteRows(w)
           \/ Refuse(w)
           \/ Commit(w)

Next == \/ \E w \in Worker : \/ PostTransaction(w)
                             \/ ReverseTransaction(w)
                             \/ Step(w)
                             \/ Crash(w)
                             \/ Retry(w)
        \/ \E a \in Account : \/ CreateAccount(a)
                              \/ ShardAccount(a)
                              \/ \E s \in Status : SetStatus(a, s)

Spec == Init /\ [][Next]_vars

\* PostgreSQL grants a row lock to its waiters in turn, and the goroutine that
\* holds one keeps issuing statements.  Nothing is assumed of crashes, of
\* retries, of operators, or of new requests.
Fairness == \A w \in Worker : SF_vars(Step(w))

FairSpec == Spec /\ Fairness

-----------------------------------------------------------------------------
(* Properties                                                              *)

LockedRow == [available : Int, version : Nat, status : Status \cup {"NONE"}]

\* Every variable has the shape the tables and the goroutines' locals have.
TypeOK ==
  /\ DbTypeOK
  /\ rowLock \in [Account -> Worker \cup {None}]
  /\ headerLock \in [TxId -> Worker \cup {None}]
  /\ pc \in [Worker -> {"idle", "route", "load", "lock", "commit"}]
  /\ job \in [Worker -> [id : TxId \cup {None}, named : AnyLegs,
                         legs : AnyLegs, key : Key \cup {None},
                         reverses : TxId \cup {None}, attempt : 0..MaxAttempts]]
  /\ DOMAIN snap = Worker
  /\ DOMAIN rows = Worker
  /\ \A w \in Worker : /\ snap[w] \in [DOMAIN snap[w] -> LockedRow]
                       /\ DOMAIN snap[w] \subseteq Account
                       /\ rows[w] \in [DOMAIN rows[w] -> BalanceRow]
                       /\ DOMAIN rows[w] \subseteq Account

\* A row LockAccounts returned stays what it returned until the transaction
\* ends, so the checks made on it still hold at COMMIT and the version
\* predicate of ApplyBalanceDelta, a tripwire, never fires.
LockedRowsAreCurrent ==
  \A w \in Worker : \A a \in DOMAIN snap[w] :
    snap[w][a].status # "NONE" => rowLock[a] = w /\ snap[w][a] = Row(a)

\* The deferred trigger has nothing to refuse: validating the request is
\* enough, because routing to shards and mirroring a posted transaction both
\* keep debits equal to credits.
TriggerIsSilent == \A w \in Worker : pc[w] = "commit" => Balanced(job[w].legs)

\* A transaction that cannot take its next step because of another one.
WaitsFor(w, v) ==
  \/ pc[w] = "load" /\ headerLock[job[w].reverses] = v
  \/ pc[w] = "lock" /\ \E a \in Account : IsNextRow(w, a) /\ rowLock[a] = v
  \/ /\ Locked(w) /\ v # w
     /\ pc[v] = "commit" /\ job[v].key # None /\ job[v].key = job[w].key

\* No set of transactions waits only for its own members: taking the header
\* lock first, the account rows in id order and the unique index last leaves no
\* cycle for PostgreSQL to break with 40P01.
NoDeadlock == \A S \in (SUBSET Worker) \ {{}} :
                \E w \in S : \A v \in S : ~WaitsFor(w, v)

\* An account and its shards: one account to a client.
Family(p) == {p} \cup ShardsOf(p)
Logical(l, p) == MapThenSumSet(LAMBDA a : Delta(l, a), Family(p))

\* Routing moves money only between an account and its own shards, whenever
\* the account is split: the transaction that is locked and written changes
\* each logical balance by what the client asked for.
RoutingKeepsLogicalBalance ==
  \A w \in Worker : pc[w] \in {"lock", "commit"} /\ job[w].reverses = None =>
    \A p \in Account : ParentOf[p] = None =>
      Logical(job[w].legs, p) = Logical(job[w].named, p)

\* Every operation ends, without the deadline that bounds it having to pass.
EveryOperationEnds == \A w \in Worker : pc[w] # "idle" ~> pc[w] = "idle"

\* The message for ErrAccountNotPostable: an account that is frozen or closed
\* cannot be posted to.  Read for the account the client named, the code does
\* not keep it: only the rows of its shards are looked at.
FrozenAccountsAreNotPosted ==
  [][\A w \in Worker :
       (/\ pc[w] = "commit" /\ job[w].reverses = None
        /\ transactions[job[w].id].status # transactions'[job[w].id].status)
       => \A a \in Touched(job[w].named) : status[a] = "ACTIVE"]_vars
=============================================================================
