---------------------------- MODULE AtomicLedger ----------------------------
(***************************************************************************)
(* What the posting engine promises: every transaction and every reversal  *)
(* takes effect at one instant, on the balances as they are at that        *)
(* instant, or not at all.  There are no locks, no workers and nothing half*)
(* done.  Ledger.tla, the engine with its locks and interleavings,         *)
(* implements this specification.                                          *)
(***************************************************************************)
EXTENDS Chart

VARIABLES available,      \* account_balances.available_minor
          version,        \* account_balances.version
          status,         \* accounts.status, "NONE" when there is no row
          transactions,   \* transactions rows, by id
          journal,        \* journal_entries, by transaction id
          outbox          \* the outbox table

dbVars == <<available, version, status, transactions, journal, outbox>>

AtomicInit ==
  /\ available = [a \in Account |-> 0]
  /\ version = [a \in Account |-> 0]
  /\ status = [a \in Account |-> IF a \in Seeded THEN "ACTIVE" ELSE "NONE"]
  /\ transactions = [x \in TxId |-> NoTransaction]
  /\ journal = [x \in TxId |-> NoLegs]
  /\ outbox = {}

\* The balance rows a transaction with legs l leaves behind.
NewRows(l) == [a \in Touched(l) |-> [available |-> available[a] + Delta(l, a),
                                     version |-> version[a] + 1]]

\* Transaction x with legs l takes effect: under a key no transaction has, on
\* accounts that are open and can afford it.
Apply(x, l, key, reverses) ==
  /\ transactions[x].status = "NONE"
  /\ key # None => \A y \in TxId : transactions[y].key # key
  /\ Balanced(l)
  /\ \A a \in Touched(l) : /\ status[a] = "ACTIVE"
                           /\ CurrencyOf[a] = l.currency
                           /\ Storable(a, available[a] + Delta(l, a))
  /\ available' = [a \in Account |-> available[a] + Delta(l, a)]
  /\ version' = [a \in Account |-> IF a \in Touched(l) THEN version[a] + 1
                                   ELSE version[a]]
  /\ transactions' =
       [y \in TxId |->
          IF y = x THEN [status |-> "POSTED", key |-> key, reverses |-> reverses]
          ELSE IF y = reverses THEN [transactions[y] EXCEPT !.status = "REVERSED"]
          ELSE transactions[y]]
  /\ journal' = [journal EXCEPT ![x] = l]
  /\ outbox' = outbox \cup TransactionEvents(x, reverses, NewRows(l))
  /\ UNCHANGED status

\* Each amount goes to the account the client named or to one of its shards.
Post(x, r) ==
  /\ Valid(r)
  /\ \E chosen \in Routings : Apply(x, RoutedLegs(r.legs, chosen), r.key, None)

Reverse(x, o, key) == /\ transactions[o].status = "POSTED"
                      /\ Apply(x, Mirror(journal[o]), key, o)

\* Service.CreateAccount: the account, the balance row its trigger inserts and
\* the AccountCreated event, in one transaction.
InsertAccount(a) ==
  /\ status[a] = "NONE"
  /\ ParentOf[a] = None
  /\ status' = [status EXCEPT ![a] = "ACTIVE"]
  /\ outbox' = outbox \cup {[type |-> "AccountCreated", account |-> a]}
  /\ UNCHANGED <<available, version, transactions, journal>>

\* ledger_shard_account, run by an operator: inserts the children, which copy
\* the parent's status.  A second call finds shard_count set and does nothing.
InsertShards(p) ==
  /\ status[p] # "NONE"
  /\ ParentOf[p] = None
  /\ Cardinality(ShardsOf(p)) >= 2
  /\ \A a \in ShardsOf(p) : status[a] = "NONE"
  /\ status' = [a \in Account |-> IF ParentOf[a] = p THEN status[p] ELSE status[a]]
  /\ UNCHANGED <<available, version, transactions, journal, outbox>>

\* An operator's UPDATE of accounts.status.
UpdateStatus(a, s) ==
  /\ status[a] # "NONE"
  /\ status' = [status EXCEPT ![a] = s]
  /\ UNCHANGED <<available, version, transactions, journal, outbox>>

AtomicNext ==
  \/ \E a \in Account : \/ InsertAccount(a)
                        \/ InsertShards(a)
                        \/ \E s \in Status : UpdateStatus(a, s)
  \/ \E x \in TxId : \/ \E r \in Request : Post(x, r)
                     \/ \E o \in TxId, k \in Key \cup {None} : Reverse(x, o, k)

\* The engine with its locks and interleavings does this: on the committed
\* tables every transaction and every reversal is one step, computed from the
\* balances of that instant.
AtomicSpec == AtomicInit /\ [][AtomicNext]_dbVars

-----------------------------------------------------------------------------
(* What follows from the promise                                           *)

AnyLegs == [debit : Side, credit : Side, currency : Currency \cup {None}]
BalanceRow == [available : Int, version : Nat]

\* The tables have their columns' types, and an event about a transaction
\* carries balance rows of accounts.
DbTypeOK ==
  /\ available \in [Account -> Int]
  /\ version \in [Account -> Nat]
  /\ status \in [Account -> Status \cup {"NONE"}]
  /\ transactions \in [TxId -> [status : {"NONE", "POSTED", "REVERSED"},
                               key : Key \cup {None}, reverses : TxId \cup {None}]]
  /\ journal \in [TxId -> AnyLegs]
  /\ \A e \in outbox : e.type # "AccountCreated" =>
       /\ e.tx \in TxId
       /\ DOMAIN e.balances \subseteq Account
       /\ e.balances \in [DOMAIN e.balances -> BalanceRow]

\* account_balances_no_overdraft_check and the width of available_minor: an
\* account that may not go negative never does, and no balance leaves int64,
\* however the transactions that spend it interleave.
NoOverdraft == \A a \in Account : Storable(a, available[a])

\* CheckDrift: the stored balance is the signed sum of the account's entries.
BalanceMatchesJournal ==
  \A a \in Account :
    available[a] = MapThenSumSet(LAMBDA x : Delta(journal[x], a), TxId)

\* A transaction is REVERSED exactly when one reversal of it has posted, there
\* is never a second one, and it takes back from each account, shard by shard,
\* what the original put there.
ReversedOnce ==
  /\ \A x \in TxId : transactions[x].status = "REVERSED" =>
       \E y \in TxId : transactions[y].reverses = x
  /\ \A y \in TxId : LET x == transactions[y].reverses IN x # None =>
       /\ transactions[x].status = "REVERSED"
       /\ journal[y] = Mirror(journal[x])
       /\ \A z \in TxId : transactions[z].reverses = x => z = y

\* At most one transaction commits under a (principal, idempotency key) pair.
OneTransactionPerKey ==
  \A x, y \in TxId :
    transactions[x].key # None /\ transactions[x].key = transactions[y].key => x = y

BalanceEvent == {e \in outbox : e.type # "AccountCreated"}
Reports(e, a, v) == a \in DOMAIN e.balances /\ e.balances[a].version = v

\* What the projector relies on.  The outbox tells each account's history with
\* no version missing and none told twice: every version up to the row's own is
\* reported, events that report the same one agree and are of one transaction,
\* each balance is its predecessor's plus that transaction's effect, and the
\* newest is the row's.
EventsTellHistory ==
  \A a \in Account :
    /\ \A v \in 1..version[a] : \E e \in BalanceEvent : Reports(e, a, v)
    /\ version[a] = 0 => available[a] = 0
    /\ \A e \in BalanceEvent : a \in DOMAIN e.balances =>
         LET v == e.balances[a].version IN
         /\ v \in 1..version[a]
         /\ v = version[a] => e.balances[a].available = available[a]
         /\ v = 1 => e.balances[a].available = Delta(journal[e.tx], a)
         /\ \A f \in BalanceEvent :
              /\ Reports(f, a, v) => /\ f.tx = e.tx
                                     /\ f.balances[a].available = e.balances[a].available
              /\ Reports(f, a, v + 1) =>
                   f.balances[a].available
                     = e.balances[a].available + Delta(journal[f.tx], a)

\* A balance moves only while its account is ACTIVE: a status change waits for
\* the transactions that have already checked the status.
OnlyActiveRowsMove ==
  [][\A a \in Account : version'[a] # version[a] => status[a] = "ACTIVE"]_dbVars

\* The journal is append-only and a header only ever goes from POSTED to
\* REVERSED, whatever is rolled back or retried in between.
HistoryIsFinal ==
  [][\A x \in TxId : transactions[x].status # "NONE" =>
       /\ journal'[x] = journal[x]
       /\ transactions'[x].key = transactions[x].key
       /\ transactions'[x].reverses = transactions[x].reverses
       /\ transactions'[x].status \in {transactions[x].status, "REVERSED"}]_dbVars
=============================================================================
