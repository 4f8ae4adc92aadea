# Verification of ledger-core

TLA+ specifications of `ledger-core`, a double-entry ledger in Go on PostgreSQL:
what its concurrent transactions, idempotency keys, payouts, event pipeline,
reads and background checks do, model checked with TLC on small instances and,
for the properties that matter most, proved with TLAPS for instances of any size.

- [The system](#the-system): its parts, their state, what is hard about them
- [The modules](#the-modules): how they correspond to the code
- [The runs](#the-runs): what is checked, on which instances, and why these
- [The proofs](#the-proofs): what is proved, from what, along which argument
- [What the checks found](#what-the-checks-found)
- [What is not modelled](#what-is-not-modelled)
- [Plan](#plan)

`PROJECT.json` holds the same in machine-readable form: every definition with the
lines it models, every run, every mutant, every hazard, every theorem.

## The system

| Part | Code | State it owns | Operations that change it |
|---|---|---|---|
| Posting engine | `internal/ledger`, `pgledger` | `accounts`, `account_balances`, `transactions`, `journal_entries` | `PostTransaction`, `ReverseTransaction`, `CreateAccount`, `ApplyPendingDelta`, `CommitSagaStep` |
| Account sharding | `routeToShards`, `ledger_shard_account` | child accounts of a hot account | an operator's `ledger_shard_account`, routing in every post |
| Retrier | `internal/db/retry.go` | attempt count | reruns a callback after 40001 or 40P01 |
| Idempotency keys | `internal/idempotency`, `pgidem`, `internal/http` | `idempotency_keys` | `Reserve`, `Lookup`, `Reclaim`, `Complete`, `Fail`, `Release`, `Sweep` |
| Outbox and polling publisher | `internal/outbox` | `outbox`, the topics | `Append` in the ledger's transaction; claim, produce, mark |
| Debezium connector and its monitor | `internal/outbox/publish/debezium`, `deploy/debezium` | a replication slot, outside the repository | none: the monitor only asks for the connector's health |
| Projector | `internal/projector` | `balance_projections`, `processed_events`, offsets, dead letters | `Apply`, `deadLetter`, `CommitRecords` |
| Payout saga | `internal/saga` | `saga_instances`, `saga_steps`, leases | claim, reserve, call the gateway, settle, compensate, escalate |
| Gateway | `internal/gateway` | payments by key | `Pay`, `Probe` |
| Read API | `internal/ledger`, `internal/http` | none | balances, statements, searches, lookups |
| Reconciliation | `internal/reconciliation` | runs, exceptions | `CreateRun`, `Match`, classify, `SaveExceptions`, `FinishRun` |
| Consistency checks | `internal/consistency`, `cmd/reconciler` | gauges | three read-only queries in a loop |
| HTTP, auth, config, commands, web | the rest | none of the above | wiring |

How they interact: the HTTP handlers reserve a key, run one ledger transaction
that also completes the key and appends the events, and reject or release the key
when nothing committed. A publisher takes the events to Kafka, from where the
projector builds the read side; `LEDGER_OUTBOX_PUBLISHER` says whether it is the
repository's polling loop or, by default, Debezium. The saga moves money with ledger transactions
before and after a call to a gateway. The read API, reconciliation and the
consistency checks read what the others left, part of it from a standby.

What is hard about it, and hard to test:

- Transactions run at READ COMMITTED. Everything rests on the order in which rows
  are locked and on checks being made on rows that are locked by then.
- Sharding, freezing and closing change the chart of accounts under requests that
  are already running.
- A rollback, a crash or a retry may come at any statement.
- A key's owner may lose its lease and carry on; the record may be taken over,
  released, swept and reserved again before the owner notices.
- Two clocks judge leases and lifetimes, PostgreSQL's and the API's.
- A payout's gateway call may be lost, late or answered twice, and an orchestrator
  may outlive its lease while another one drives the same saga.
- Events are published at least once, by several publishers, and consumed by
  processes that crash, are rebalanced and fail in the middle of a batch.
- Rows are stamped when their transaction begins and appear when it commits, and
  later still on the standby, so a reader who pages through them reads a moving
  history.

## The modules

| Module | What it is |
|---|---|
| `Chart` | accounts, the legs of a transaction, signs, routing: operators only |
| `AtomicLedger` | what the engine promises: each transaction in one step |
| `Ledger` | the engine: locks, statements, rollbacks, retries, sharding |
| `Idempotency` | the keys of the write endpoints, their leases and the sweeper |
| `Payout` | what a payout promises: phases, and the money that moves with them |
| `PayoutSaga` | the orchestrators, the saga tables and the gateway, on `AtomicLedger` |
| `Projection` | what the read side promises: the newest of what it has seen |
| `EventPipeline` | outbox, publishers, topics and projectors, on `AtomicLedger` |
| `History` | the committed history with its time stamps, and a standby, on `AtomicLedger` |
| `Reads`, `Consistency`, `Reconciliation` | the read API, the consistency loop and the reconciliation engine, each on `History` |
| `Observers` | the three of them composed with a ledger at work |
| `MCLedger`, `MCIdempotency`, `MCPayoutSaga`, `MCEventPipeline`, `MCObservers` | the small instances for TLC |
| `AtomicLedgerProofs` | theorems about the atomic ledger |
| `LedgerInvariant`, `LedgerSteps`, `LedgerInductive`, `LedgerProofs` | the engine's inductive invariant and refinement, its preservation step by step, and the theorems; each extends the one before |
| `IdempotencyProofs`, `PipelineProofs` | theorems about the keys and about the pipeline |

Operators whose comment starts with MUTANT are plausible bugs. Nothing uses them;
`PROJECT.json` pairs each with the definition it would replace and the property
that must then fail.

### Chart and AtomicLedger

The tables are functions: `available` and `version` are the columns of
`account_balances`, `status` that of `accounts` (`"NONE"` when there is no row;
`"FROZEN"` stands for CLOSED too, since the code only asks whether it is ACTIVE),
`transactions` and `journal` the headers and entries by transaction id, `outbox`
the set of events. A transaction's entries are kept as the total debited and
credited per account, which is all that the balances and the trigger see.

`AtomicLedger` has no locks and no workers. `Post` and `Reverse` take effect at
one instant, on the balances of that instant, under a key no transaction has, on
accounts that are ACTIVE and can afford it. It is the meaning of the engine, and
since `Ledger` is proved to implement it, the modules above it are built on it.

### Ledger

One worker is one goroutine with a transaction open. Its statements are actions:

| Action | Code |
|---|---|
| `PostTransaction`, `ReverseTransaction` | the service methods up to `InTx`: validation, id and key |
| `LoadTransactionForUpdate`, `RefuseReversal` | `doReverse`: lock the header, check its status, mirror the entries |
| `RouteToShards` | `routeToShards`: reads the ACTIVE shards without a lock, picks one per account |
| `LockRow` | `LockAccounts`, one row at a time in id order: wait, lock, read the row as it is now |
| `WriteRows` | header, entries, balances with their version predicate, `MarkReversed`, events: written, not visible |
| `Refuse` | every error between the locks and COMMIT |
| `Commit` | the deferred balance trigger, then everything visible at once |
| `Crash` | process death, deadline, lost connection |
| `Retry` | `Retrier.Do` after 40001 or 40P01, with the id generated outside the callback |
| `CreateAccount`, `ShardAccount`, `SetStatus` | the service method, `ledger_shard_account`, an operator's update |

Choices worth knowing:

- `LockAccounts` is one `SELECT … ORDER BY id FOR …`. PostgreSQL locks the rows it
  returns one by one and re-reads a row it had to wait for, so each `LockRow` reads
  the current row.
- The writes of one transaction are one step because nobody can see them or wait
  in between, with one exception that the model keeps: the unique index on
  `(principal_id, idempotency_key)`, whose insert waits for an uncommitted row of
  the same key (`KeyInFlight`).
- A serialization failure may strike at any statement, whether or not PostgreSQL
  would raise it there.
- `MaxMinor` stands for `math.MaxInt64`. It is small so that overflow is reached.

### Idempotency

A handler is a goroutine serving one HTTP request: reserve the key (`Reserve`);
when it exists, look at it (`Lookup`, a statement of its own), decide
(`ResolveExisting`, in the order of the code's checks) and perhaps take it over
(`Reclaim`); execute (`Commit`, or `Refuse`); and then answer, or `Fail` or
`Release` the key. The ledger's transaction is one step here: it commits the
transaction and completes the key together, and the row lock of `Complete` and the
unique index keep others out until it does. `Ledger` is where that step is opened
up. Time is two facts per record, `leased` and `expired`, which
`LeaseLapses` and `TtlPasses` change; with `ClockSkew` the API may judge either of
them wrongly. The sweeper picks any batch of expired rows.

The cache in front of the records is left out: the only implementation wired is
`NoopCache`. A reversal's fingerprint does not contain its target, as in the code.

### Payout and PayoutSaga

An orchestrator is one goroutine in `driveOne`. `pc` is its next statement and
`job` the `Instance` it claimed with what it has read since, which may be stale:

| Action | Code |
|---|---|
| `Start` | `handleStartPayout`, `Start`, `Create` |
| `ClaimRunnable`, `ClaimExpired` | the claim loop and the sweeper: one UPDATE with a lease |
| `NextAttempt`, `RecordAttempt` | the numbers and the audit rows of `saga_steps` |
| `PostStep`, `PostRefused`, `FailForwardStep` | `reserve` and `settle`: one ledger transaction whose Record hook moves `pending`, the row, the status and the event |
| `BeginStep`, `Pay`, `PayUnknown`, `FinishAttempt`, `SettleGatewayOutcome` | `callGateway`: the intent, the call, and two statements after it |
| `LookupAttempt`, `Probe`, `DeferAmbiguity` | `resolveGateway` |
| `BeginCompensation`, `ReverseReserve`, `ReversalLost`, `ReversalRefused`, `FailCompensation`, `ConfirmCompensated`, `EscalateReversedOutside` | `compensate` and `confirmCompensated` |
| `GatewayPay` | the gateway: replays what it has under a key, or records an outcome; the caller hears of it or not |
| `LeaseLapses`, `DeadlinePasses`, `Crash` | time, and a process or statement that fails, also after its COMMIT took effect |
| `Fund`, `Freeze`, `ReverseOutside` | the world: deposits, an operator, a reversal through the API |

`Advance` is both `Store.Advance` and `Store.Escalate`: an UPDATE whose WHERE names
the status the orchestrator believes in. Attempts, probes and compensations are
bounded by the code's own limits. `Payout` knows phases, the total on hold and
the ledger transactions made; the map from statuses to phases is `PhaseOf`.

### Projection and EventPipeline

`Commit` is the ledger's transaction with the outbox rows it appends. A publisher
(the polling one; what Debezium does is not in the repository) claims unpublished rows in id order, skipping locked ones (`Claim`), produces
them (`Produce`, one record at a time, in order only within one partition) and
marks them (`MarkPublished`), or loses its transaction anywhere on the way
(`PublishFails`). A consumer polls (`Poll`), handles one record of one partition
after the other (`Handle`: apply, or dead-letter what it does not know), and
commits its offsets (`CommitRecords`, for some, all or none of the partitions).
`Break` is a transient error: the rest of the batch is dropped, and the
client's position is not rewound. `Crash` starts again from the committed
offsets. `Rebalance` gives a partition away while the old owner may still have a
batch in hand. `Rebuild` is the operator `Mismatches`. Kafka and its client are
modelled from how the code uses them.

`Projection` only says that the row of an account is the newest among the facts
seen, and that a fact is seen once.

### History, Reads, Consistency, Reconciliation and Observers

`History` adds what readers can tell apart: `Begin` stamps a transaction, `CommitTx`
commits it in any order, `Replay` brings the standby one commit further, `Tick`
moves the clock. A snapshot is a prefix of `commits`.

- `Reads`: `GetStatement`, a request for a first page, and `GetStatementAfter`, one
  that brings the cursor of the page before; `Search` and `SearchAfter` in the same
  way; `GetTransaction` in its two queries, `GetBalance` on the primary and
  `GetBalanceAsOf` on the standby. Each request reads its own snapshot, and anything
  may be committed and replayed between two of them.
- `Consistency`: the three checks in turn, each of which may fail, the gauges they
  set, and `Tamper`, SQL run by hand past the service, which is what the checks
  exist for.
- `Reconciliation`: parsing (by what it accepts), `Match`, `Classify` in the order of
  its switch, and the statements of `Engine.Run`, each of which may fail, or
  succeed and be reported as failed; `GET` of a run in its three queries. What a run
  should say is defined apart from the code, from the docs' table of categories:
  `Due` is the category a row has earned, and `Verdict` what is due for a reference.
- `Observers`: a behaviour has one kind of observer, since none writes what
  another one reads; `LedgerStep` leaves out what that observer cannot see.

## The runs

| Run | Instance | What it shows |
|---|---|---|
| `wallets` | 2 workers, 3 transactions, a bank account and two wallets that pay each other, one retry each | the safety properties of the engine, no deadlock, and `AtomicSpec` |
| `shards` | 2 workers, 2 transactions, a fee account with two shards, a key two requests share | routing keeps entries balanced and logical balances right while accounts are split, created and frozen under running requests; every operation ends |
| `idem_ttl` | 2 handlers, two principals with one key, lapses, expiry, sweeping, clock skew | a key executes once, answers are committed, a terminal record never becomes another one |
| `idem_live` | 2 handlers, one reversal, leases that lapse | a record tells the outcome, no key is held for ever |
| `payout_race` | 2 orchestrators, 1 payout, a late gateway, 1 fault, 1 reversal from outside | status, audit rows, events and money agree; the saga implements `Payout` |
| `payout_live` | 1 orchestrator, 2 payouts of which the wallet affords one, 1 fault | every payout ends, the hold is the sum of what sagas hold, and with timely answers the recorded verdict is the gateway's |
| `payout_refund` | 1 orchestrator, 1 payout | a finding, see below |
| `pipeline` | 2 publishers, 2 consumers, 2 partitions, 1 fault, 1 transient error | marked means produced, the projection is the newest and equals the journal once caught up; the pipeline implements `Projection` |
| `pipeline_live` | 1 publisher, 2 consumers, 1 partition, 1 fault, an unknown event | offsets follow what was handled, every transaction is shown |
| `pipeline_gap` | 1 publisher, 1 consumer, 1 transient error | a finding, see below |
| `observers` | 3 transactions for who reads pages and 2 for the others, an account that is sharded, one that is created, two instants, eight settlement files, two runs | pages skip nothing and add up, balances agree, gauges tell the truth, reconciliation runs put each reference under the category that is due, and reports of them add up |
| `recon_since` | the same | a finding, see below |

Every property of a passing run has a mutant in `PROJECT.json`: a plausible bug in
one definition, under which TLC finds the property violated by the same run.

**Bounds.** Two workers make every pairwise race; three transactions make a
reversal of a reversal, and two reversals racing for one original. Amounts and
`MaxMinor` are chosen so that a balance can be exactly spent, overdrawn and
overflowed. Two shards are the least `ledger_shard_account` accepts. `Batch = 1`
is the hardest case for the key sweeper, which then deletes rows it did not pick.
Two orchestrators are the old and the new holder of a lease; `MaxStepAttempts`,
`MaxProbes` and `MaxCompensationAttempts` are 2, so that the first failure retries
and the second gives up. A publisher's batch of three is one transaction's events.
Two transactions of one reference with one stamp or two make every case of the
match. Pages need three: two to fill a page and leave something for the next one,
and one that is committed and replayed in between with an older or a newer stamp;
paging by OFFSET, which would show an entry twice or pass over one, is the mutant
of `StatementSkipsNothing`. `MaxTx`, `MaxTxFor`, `MaxCommits` and `TxId` bound the
length of the history, `MaxTxFor` by what the observer can tell apart; `MaxAttempts`, `MaxFaults`,
`MaxTransient`, `MaxOutside`, `MaxTampering`, `MaxCheckErrors` and `MaxRunFaults`
how often the named thing goes wrong.

**Symmetry.** Workers, handlers, orchestrators, publishers, consumers and (in
`Ledger` and `Idempotency`) transaction ids are interchangeable; accounts are not,
since they are locked in order. The liveness runs use none.

**Fairness.**

- `shards`: strong fairness of a worker's next statement. PostgreSQL queues the
  waiters of a row lock, so none is overtaken for ever, and the goroutine that
  holds one goes on to its next statement.
- `idem_live`: clients retry, leases run out with time, and a statement that is
  tried again and again does not fail every time. The two clocks agree: an API
  whose clock stays behind for ever would never call a lease lapsed.
- `payout_live`: a goroutine that claimed a saga goes on, leases and deadlines run
  out, a request reaches the gateway or is lost; strong fairness of claiming a
  given saga, because both claim queries order by age.
- `pipeline_live`: the publisher's ticker and the consumers' loops go on.
- `observers`: the ticker of the consistency loop goes on.

Nothing is assumed of crashes, faults, operators, new requests or what the gateway
answers.

**Deadlock** is checked in the runs of `Ledger` and `Idempotency`. The others may
stop, when every payout has ended, every event is shown or every page is read.

## The proofs

`tlapm` checks them to the last leaf. The assumptions are those on the constants in
`Chart`, `Ledger`, `Idempotency` and `EventPipeline`: accounts are a finite set of
numbers, `None` is none of the other values, the functions that describe the chart
and the partitions have their types. TLC evaluates them in every run.

### The engine

`LedgerProofs` proves, for any accounts, any requests and any number of workers and
transactions:

| Theorem | Statement |
|---|---|
| `TypeCorrect` | `Spec => []TypeOK` |
| `RowsStayCurrent` | `Spec => []LockedRowsAreCurrent` |
| `Refinement` | `Spec => AtomicSpec` |
| `NeverOverdrawn` | `Spec => []NoOverdraft` |
| `NeverReversedTwice` | `Spec => []ReversedOnce` |
| `KeyPostsOnce` | `Spec => []OneTransactionPerKey` |
| `OutboxTellsHistory` | `Spec => []EventsTellHistory` |
| `FrozenRowsDoNotMove` | `Spec => OnlyActiveRowsMove` |
| `HistoryNeverChanges` | `Spec => HistoryIsFinal` |
| `DeadlockFree` | `Spec => []NoDeadlock` |

The argument has two halves. `AtomicLedgerProofs` shows that the atomic
specification keeps `AtomicInv`, which puts next to the properties what they need
to be inductive. The other four modules show that the engine implements the atomic
specification. Its invariant `IInv` (`LedgerInvariant`) says, for each worker and each statement it is
at, which rows and headers it holds, that what it read of them is still what they
are, that its transaction id is nobody else's, and that a worker about to commit
has passed every check the atomic step makes and has its key to itself. It is needed
because `Commit` itself checks almost nothing: it is right only because of what was
checked on rows that nobody could change since. The engine's own properties then
follow from the refinement. `TypeOK`, `ReversedOnce`, `OneTransactionPerKey`,
`OnlyActiveRowsMove` and `HistoryIsFinal` are in no run: the theorems cover
every instance.

`DeadlockFree` argues on the order of acquisition: the header first, then rows by
id, the unique index last. In any set of workers, one that is about to commit waits
for nobody; one that has all its rows waits only for those; and of the others the
one that wants the highest row does not wait for a member of the set, because the
holder of that row would want a still higher one.

### The keys

`IdempotencyProofs` proves `TypeCorrect`, `ExecutesOnce` (`KeyExecutesOnce`) and
`AnswersCommitted` (`AnswersAreCommitted`) with no restriction: whatever lapses,
expires, is swept or judged by the wrong clock. So does `TerminalStays`
(`TerminalIsFinal`): a COMPLETED or FAILED record keeps its status and its transaction until
it goes in a sweep, and a sweep takes it only when some record of its key has
expired. That record may be another principal's (principals do share keys,
`idempotency/record.go:62`): the narrower claim, that a sweep takes expired records
only, is `SweepTakesOnlyExpired`, which the code does not keep (see below).

`OutcomeIsTold` proves `RecordTellsOutcome` when no record outlives its TTL, and
fails without that condition.

### The pipeline

`PipelineProofs` proves, for any number of publishers, consumers, partitions and
transactions, and any number of faults:

| Theorem | Statement |
|---|---|
| `PipelineInvariant` | `Spec => []BaseInv`, the types and what the read side rests on |
| `ShowsNewest` | `Spec => []ProjectionIsNewest` |
| `NeverGoesBack` | `Spec => ProjectionNeverGoesBack` |
| `ImplementsProjection` | `Spec => PipelineKeepsPromise` |
| `MarkedIsProduced` | `Spec => []PublishedMeansProduced` |
| `CommittedIsHandled` | `Spec => []CommittedMeansHandled` if `MaxTransient = 0` |

`BaseInv` takes over the atomic ledger's invariant, because the read side is right
only if two events of one account never carry one version with two balances. For
the publishers, `PublishInv` adds that a claimed row is unsent or in its topic, and
that logs only grow. For the offsets, `OffsetInv` says that whatever is in front of
a batch in hand was handled, and that what is in front of a partition's position
was handled or is in its owner's hand: `CommitRecords` looks at its batch only, and
is right only because the batch started behind handled records. A crash or a
rebalance keeps that, since both fall back to the committed offset. A transient
error does not, and `pipeline_gap` shows what becomes of it; the theorem's condition is
exactly its absence.

### Only model-checked

- Liveness (`EveryOperationEnds`, `NoKeyIsHeldForever`, `EverySagaEnds`,
  `EveryTransactionIsShown`, `AlarmsFollowTheTables`): the prover has no rules for
  fairness and `ENABLED`.
- What sums over accounts, transactions or sagas (`BalanceMatchesJournal`,
  `TriggerIsSilent`, `RoutingKeepsLogicalBalance`, `PendingMatchesSagas`,
  `CaughtUpMeansEqual`, most of `Observers`): they need induction over the set that
  is summed. `Refinement` is not affected: its invariant carries no sum, since
  `Commit` evaluates the trigger's condition itself.
- The saga's other properties and `SagaKeepsPromise`: in reach of the prover, not
  yet proved.

## What the checks found

### With a run

| Run | What the code does | What is said of it |
|---|---|---|
| `payout_refund` | A settlement that cannot be posted (the merchant is FROZEN, or the attempts are used up) is compensated, although the gateway has confirmed the payment: the customer gets back money that was paid out | "compensating would refund a customer whose money really left" (`docs/DECISIONS.md:1598`), "settle, don't refund" (`docs/ARCHITECTURE.md:911`) |
| `pipeline_gap` | After a transient error the consumer polls on from its in-memory position and commits an offset past the event it did not apply | "The unprocessed remainder of this batch is simply re-fetched …, so nothing is lost" (`internal/projector/consumer.go:107`) |
| `recon_since` | `Match` applies `since` to every transaction of the ledger, also to those the statement names: a reference whose transaction is older and agrees is reported MISSING_IN_LEDGER, and OPEN | "It does not bound the PSP side -- every row the caller hands in is matched" (`internal/reconciliation/store.go:25`), MISSING_IN_LEDGER is "a reference no transaction carries" (`docs/ARCHITECTURE.md:653`) |

### Stated in a module, without a run

The properties are defined in their modules. Each fails when it is added to the
configuration named, with the constants named: the first two as a PROPERTY, without
SYMMETRY, the others as an INVARIANT.

| Property | Instance | What the code does | What is said of it |
|---|---|---|---|
| `FrozenAccountsAreNotPosted` | `LedgerShards.cfg` | A frozen or closed account whose shards are ACTIVE is posted to: only the shards' status is checked (`service.go:913`) | "The account is frozen or closed and cannot be posted to" (`internal/http/problem.go:134`) |
| `SweepTakesOnlyExpired` | `IdempotencyTtl.cfg`, `Request <- TwoClients`, `ClockSkew = FALSE` | `Sweep` deletes by key alone, so an expired record takes other principals' live records of that key with it (`pgidem/store.go:224`) | "Sweep deletes up to batch expired records" (`internal/idempotency/store.go:67`) |
| `AnswersFitTheRequest` | `IdempotencyTtl.cfg`, `Request <- OneClient`, 3 handlers, `TxId = {x1, x2}`, `TtlCanPass = FALSE` | `Complete` and `Release` do not ask whose reservation they change; after a lapse, a reclaim, a release and a new reservation, a client is told of the transaction of another body | "must never be answered with somebody else's response" (`internal/idempotency/store.go:152`) |
| `FailedDidNotHappen` | `IdempotencyTtl.cfg`, `Request <- OneReversal`, `TxId = {x1, x2}` | After the sweep the retry of a committed reversal reserves the key again, IN_PROGRESS over a committed transaction, and is then stored as FAILED | FAILED "describes work that deliberately did not happen" (`internal/idempotency/pgidem/store.go:169`) |
| `ExpiredKeyCreatedATransaction` | `IdempotencyTtl.cfg`, `Request <- OneRequest`, `TxId = {x1, x2}` | Expiry is decided before the status | "This idempotency key already created a transaction" (`internal/http/problem.go:97`) |
| `VerdictIsTrue` | `PayoutRace.cfg` | With `Timely = FALSE`, a Pay that arrives after a probe has found nothing is recorded as refused | "Confirmed, not inferred" (`internal/saga/status.go:39`) |

`AnswersFitTheRequest` holds on that instance with `LeaseCanLapse = FALSE`. None of
them makes a key execute twice: `KeyExecutesOnce` is proved, and rests on the
unique index on `transactions`.

### Noticed on the way

Places where the code and a comment part, met while modelling. The models follow
the code; the properties that are checked claim no more than it does.

- A statement's page opens with the closing balance of the page before it
  (`internal/ledger/ports.go:275`) only in a period with nothing in flight: a transaction
  stamped earlier may be committed or replayed between two pages.
  `StatementAddsUp` is about settled periods.
- `SearchTransactions` by account ignores its shards, while the comment at
  `GetBalance` calls sharding invisible to every read.
- `RunTellsTruth` is about references whose transactions are within the lookback;
  `recon_since` is about the others.
- An error of `FinishRun(COMPLETED)`, or a crash, leaves a run RUNNING, although
  `engine.go:179` says that a run "never lingers in RUNNING forever". An ambiguous
  failure of `SaveExceptions` leaves a FAILED run with exceptions.
- Of two transactions of one reference with the same `created_at`, `Match` may take
  either.
- Two changes made by hand that cancel in one account are seen by no check;
  `ImbalanceIsSeen` is about one change.
- Two publishers may bring the balances of one account to the account topic out of
  order, while `outbox/writer.go:71` counts on their order. Nothing in the
  repository consumes that topic; the projector goes by version.
- The hold on suspense is not exactly the sum over non-terminal sagas
  (`docs/DECISIONS.md:1343`): a saga in NEEDS_MANUAL_REVIEW still holds its money, and
  `PendingMatchesSagas` counts it. `confirmCompensated` may escalate such a saga a
  second time, which `EventsTellOutcome` allows.

## What is not modelled

- Debezium, the default publisher (`config.go:198`): a connector in Kafka Connect that
  reads the WAL. The repository holds its registration and
  `internal/outbox/publish/debezium/monitor.go`, which polls its status and changes
  nothing. `EventPipeline` is about the polling publisher, which the production
  compose file and the Helm chart choose; of the projector's properties, those that
  only need events to arrive at least once do not depend on which of the two runs.
- The advisory locks by hash, which are off by default (`repository.go:763`). With a
  collision of two hashes the order of these locks is not the order of the ids, so
  two transactions could wait for each other until PostgreSQL's detector aborts
  one. Whether two ids collide is not something the code decides; `NoDeadlock` is
  about the row locks.
- `Money`'s parsing and formatting and `Canonicalize`: pure conversions of strings with
  no state, covered by the repository's tests.
- `ListRuns`, `GetAccount`, the dashboard's and the metrics' queries of sagas: one
  statement each, which change nothing.
- Authentication: a lookup of a key's hash, whose result, the principal, is part of
  every request of `Idempotency`.
- Configuration, logging, metrics, tracing, the Kafka client's set-up, the load and
  chaos harnesses, the web front end and deployment: wiring around the parts above,
  with no protocol of their own.
- Metadata, descriptions and display names: no property tells them apart.

## Plan

1. Proofs about the saga: an inductive invariant for `StatusTellsMoney`,
   `IntentBeforePayment` and `SettledMeansPaid`, and `SagaKeepsPromise` from it. The
   hold needs no sum for the refinement, only the difference each step makes.
2. `AnswersFitTheRequest` for instances without a lapse.
3. `AdvisoryLocks`, with the hash as a constant, if they are ever switched on.
