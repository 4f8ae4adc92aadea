------------------------------ MODULE History ------------------------------
(***************************************************************************)
(* The committed history of the ledger as those who only read it see it.   *)
(* Three things that AtomicLedger leaves out matter to them: rows are      *)
(* stamped with the time at which their database transaction began, not    *)
(* the one at which it committed; ids are drawn by the application, in no  *)
(* particular order; and statements, searches and temporal balances may    *)
(* come from a standby that replays commits later.                         *)
(***************************************************************************)
EXTENDS AtomicLedger, Sequences

CONSTANTS Instant     \* the times at which something happens

ASSUME HistoryAssumption == TxId \subseteq Nat \ {0} /\ Instant \subseteq Nat

VARIABLES now,        \* the database's clock
          began,      \* created_at and posted_at of a transaction, once it has begun
          commits,    \* what was committed, in that order
          replayed    \* how much of it the standby has

historyVars == <<available, version, status, transactions, journal, outbox,
                 now, began, commits, replayed>>

HistoryInit == /\ AtomicInit
               /\ now = Min(Instant)
               /\ began = [x \in TxId |-> None]
               /\ commits = <<>>
               /\ replayed = 0

\* Transactions and accounts among the first n commits.
TxsIn(n) == {c.tx : c \in {commits[i] : i \in {j \in 1..n : commits[j].kind = "tx"}}}
AccountsIn(n) ==
  Seeded \cup UNION {commits[i].accounts : i \in {j \in 1..n : commits[j].kind = "accounts"}}

\* The snapshots of the primary and of the standby.
Committed == TxsIn(Len(commits))
OnReplica == TxsIn(replayed)

\* transactions.status in a snapshot that has the transactions xs.
StatusIn(xs, x) == IF \E y \in xs : transactions[y].reverses = x
                   THEN "REVERSED" ELSE "POSTED"

\* MUTANT: rows carry the clock of an application host that runs behind.
BeginBackdated(x) ==
  /\ began[x] = None
  /\ \E at \in {t \in Instant : t <= now} : began' = [began EXCEPT ![x] = at]
  /\ UNCHANGED <<dbVars, now, commits, replayed>>

\* BEGIN: from here on now() stands still for the transaction.
Begin(x) ==
  /\ began[x] = None
  /\ began' = [began EXCEPT ![x] = now]
  /\ UNCHANGED <<dbVars, now, commits, replayed>>

\* The transaction is rolled back; a retry begins again under the same id.
Rollback(x) ==
  /\ began[x] # None
  /\ x \notin Committed
  /\ began' = [began EXCEPT ![x] = None]
  /\ UNCHANGED <<dbVars, now, commits, replayed>>

\* COMMIT of a transaction or of a reversal.
CommitTx(x) ==
  /\ began[x] # None
  /\ x \notin Committed
  /\ \/ \E r \in Request : Post(x, r)
     \/ \E o \in Committed : Reverse(x, o, None)
  /\ commits' = Append(commits, [kind |-> "tx", tx |-> x])
  /\ UNCHANGED <<now, began, replayed>>

CommitAccount(a) ==
  /\ InsertAccount(a)
  /\ commits' = Append(commits, [kind |-> "accounts", accounts |-> {a}])
  /\ UNCHANGED <<now, began, replayed>>

CommitShards(a) ==
  /\ InsertShards(a)
  /\ commits' = Append(commits, [kind |-> "accounts", accounts |-> ShardsOf(a)])
  /\ UNCHANGED <<now, began, replayed>>

\* The standby replays one more commit.
Replay ==
  /\ replayed < Len(commits)
  /\ replayed' = replayed + 1
  /\ UNCHANGED <<dbVars, now, began, commits>>

Tick == /\ \E t \in Instant : t > now
        /\ now' = Min({t \in Instant : t > now})
        /\ UNCHANGED <<dbVars, began, commits, replayed>>

-----------------------------------------------------------------------------
\* Nothing stamped t or earlier can still appear on the standby.
Settled(t) ==
  /\ t < now
  /\ \A x \in TxId : began[x] # None /\ began[x] <= t => x \in OnReplica
=============================================================================
