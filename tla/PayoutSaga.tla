----------------------------- MODULE PayoutSaga -----------------------------
(***************************************************************************)
(* The payout saga: money goes from a customer's wallet to a suspense      *)
(* account, a gateway is asked to pay, and the money goes on to the        *)
(* merchant or back to the wallet.  Several orchestrators drive the sagas, *)
(* one step per claim, and any of them may stall, outlive its lease or     *)
(* die between two statements.                                             *)
(*                                                                         *)
(* The ledger is AtomicLedger, so that what a step may post is decided by  *)
(* balances, account statuses and idempotency keys and not by fiat.  The   *)
(* gateway is modelled from its client and from the mock server.           *)
(***************************************************************************)
EXTENDS AtomicLedger, Sequences

CONSTANTS Saga,           \* saga ids
          Orchestrator,   \* goroutines running driveOne
          Wallet, Suspense, Merchant, FeeRevenue,
          Amount, Fee,    \* the payloads: Saga -> Nat
          Deposit,        \* requests that put money in the wallet
          Freezable,      \* accounts an operator freezes and unfreezes
          MaxStepAttempts, MaxCompensationAttempts, MaxProbes,
          MaxFaults,      \* crashes and failed statements
          MaxOutside,     \* reversals sent to the API by somebody else
          Timely          \* no step deadline passes on an outstanding Pay

\* Payload.validate.
ASSUME PayloadAssumption ==
  /\ {Wallet, Suspense, Merchant, FeeRevenue} \subseteq Account
  /\ \A s \in Saga : /\ Amount[s] \in Nat \ {0}
                     /\ Fee[s] \in Nat
                     /\ Fee[s] < Amount[s]

VARIABLES inst,           \* saga_instances
          steps,          \* saga_steps, per saga
          pending,        \* account_balances.pending_minor of Suspense
          told,           \* outbox rows of each saga, by the status they tell
          payments,       \* the gateway's record, by key: one key per saga
          wire,           \* Pay requests the gateway has not seen yet
          pc,             \* the next statement of each orchestrator
          job,            \* the Instance it claimed and what it has read since
          faults,         \* how many of MaxFaults have happened
          outside         \* transactions reversed through the API

sagaVars == <<inst, steps, pending, told>>
gatewayVars == <<payments, wire>>
localVars == <<pc, job>>
envVars == <<faults, outside>>
vars == <<available, version, status, transactions, journal, outbox,
          inst, steps, pending, told, payments, wire, pc, job, faults, outside>>

Terminal == {"COMPLETED", "COMPENSATED", "FAILED", "NEEDS_MANUAL_REVIEW"}
Runnable == {"PENDING", "RESERVED", "GATEWAY_SUCCEEDED", "GATEWAY_FAILED", "COMPENSATING"}
SagaStatus == Runnable \cup Terminal \cup {"GATEWAY_PENDING"}

NoInstance == [status |-> "NONE", retries |-> 0, leased |-> FALSE, due |-> FALSE]
NoJob == [saga |-> None, status |-> "NONE", retries |-> 0, number |-> 0, answer |-> "none"]

Init == /\ AtomicInit
        /\ inst = [s \in Saga |-> NoInstance]
        /\ steps = [s \in Saga |-> {}]
        /\ pending = 0
        /\ told = [s \in Saga |-> <<>>]
        /\ payments = [s \in Saga |-> "NONE"]
        /\ wire = {}
        /\ pc = [w \in Orchestrator |-> "idle"]
        /\ job = [w \in Orchestrator |-> NoJob]
        /\ faults = 0
        /\ outside = {}

-----------------------------------------------------------------------------
(* The ledger transactions of a payout                                     *)

StepKey(s, step) == <<s, step>>

ReserveRequest(s) ==
  [legs |-> [debit |-> [Nothing EXCEPT ![Wallet] = Amount[s]],
             credit |-> [Nothing EXCEPT ![Suspense] = Amount[s]],
             currency |-> CurrencyOf[Suspense]],
   key |-> StepKey(s, "RESERVE")]

SettleRequest(s) ==
  [legs |-> [debit |-> [Nothing EXCEPT ![Suspense] = Amount[s]],
             credit |-> [Nothing EXCEPT ![Merchant] = Amount[s] - Fee[s],
                                        ![FeeRevenue] = Fee[s]],
             currency |-> CurrencyOf[Suspense]],
   key |-> StepKey(s, "SETTLE")]

\* What PostTransaction or a reversal accepts, apart from the header.
Acceptable(l, key) ==
  /\ key # None => \A x \in TxId : transactions[x].key # key
  /\ \A a \in Touched(l) : /\ status[a] = "ACTIVE"
                           /\ CurrencyOf[a] = l.currency
                           /\ Storable(a, available[a] + Delta(l, a))

\* uuid.NewV7; which of the unused ids it is makes no difference.
FreshId == CHOOSE x \in TxId : transactions[x].status = "NONE"

-----------------------------------------------------------------------------
(* saga_steps                                                              *)

\* The step and the direction driveOne takes from a status.
StepOf == [PENDING |-> "RESERVE", RESERVED |-> "GATEWAY",
           GATEWAY_SUCCEEDED |-> "SETTLE", COMPENSATING |-> "RESERVE"]
DirectionOf(st) == IF st = "COMPENSATING" THEN "COMPENSATION" ELSE "FORWARD"

Attempts(s, step, direction) ==
  {r \in steps[s] : r.step = step /\ r.direction = direction}

NextAttemptNumber(s, step, direction) ==
  Max({0} \cup {r.number : r \in Attempts(s, step, direction)}) + 1

\* The row an orchestrator is about to write for its attempt.
RowFor(w, st, tx) == [step |-> StepOf[job[w].status],
                      direction |-> DirectionOf(job[w].status),
                      number |-> job[w].number, status |-> st, tx |-> tx]

\* saga_steps_attempt_key: another orchestrator has used the number.
Collides(w) == \E r \in Attempts(job[w].saga, StepOf[job[w].status],
                                 DirectionOf(job[w].status)) : r.number = job[w].number

\* reserveTransactionID: the transaction the reserve step posted.
ReserveTx(s) ==
  LET rows == {r \in Attempts(s, "RESERVE", "FORWARD") : r.status = "SUCCEEDED"}
  IN IF rows = {} THEN None ELSE (CHOOSE r \in rows : TRUE).tx

\* UnresolvedAttempt: the newest ATTEMPTED row, 0 when there is none.
UnresolvedAttempt(s) ==
  Max({0} \cup {r.number : r \in {q \in Attempts(s, "GATEWAY", "FORWARD") :
                                    q.status = "ATTEMPTED"}})

-----------------------------------------------------------------------------
(* saga_instances                                                          *)

\* What advance leaves in the row.
Moved(s, to, retries, release) ==
  [inst EXCEPT ![s] = [status |-> to, retries |-> retries,
                       leased |-> inst[s].leased /\ ~release, due |-> FALSE]]

Idle(w) == /\ pc' = [pc EXCEPT ![w] = "idle"]
           /\ job' = [job EXCEPT ![w] = NoJob]

Goto(w, label, j) == /\ pc' = [pc EXCEPT ![w] = label]
                     /\ job' = [job EXCEPT ![w] = j]

\* MUTANT: escalation appends the alert and then finds that the saga has moved.
AdvanceAlertsFirst(w, from, to, retries) ==
  LET s == job[w].saga IN
  /\ Idle(w)
  /\ inst' = IF inst[s].status = from THEN Moved(s, to, retries, TRUE) ELSE inst
  /\ told' = IF to = "NEEDS_MANUAL_REVIEW"
             THEN [told EXCEPT ![s] = Append(@, to)] ELSE told
  /\ UNCHANGED <<dbVars, steps, pending, gatewayVars, envVars>>

\* Store.Advance and Store.Escalate, the last thing driveOne does: a status
\* that is no longer from matches no row, and the orchestrator logs it.
Advance(w, from, to, retries) ==
  LET s == job[w].saga IN
  /\ Idle(w)
  /\ IF inst[s].status = from
     THEN /\ inst' = Moved(s, to, retries, TRUE)
          /\ told' = IF to = "NEEDS_MANUAL_REVIEW"
                     THEN [told EXCEPT ![s] = Append(@, to)] ELSE told
     ELSE UNCHANGED <<inst, told>>
  /\ UNCHANGED <<dbVars, steps, pending, gatewayVars, envVars>>

\* A statement that fails, or the process that dies.
Fault == faults < MaxFaults /\ faults' = faults + 1

\* handleStartPayout, Start and Create.  A key that is known returns its saga
\* and changes nothing.
Start(s) ==
  /\ inst[s].status = "NONE"
  /\ inst' = [inst EXCEPT ![s].status = "PENDING"]
  /\ UNCHANGED <<dbVars, steps, pending, told, gatewayVars, localVars, envVars>>

\* What driveOne does first with a saga in each status.
Entry(st) == CASE st = "GATEWAY_PENDING" -> "lookup"
               [] st = "GATEWAY_FAILED" -> "turn"
               [] OTHER -> "number"

Claim(w, s) ==
  /\ pc[w] = "idle"
  /\ ~inst[s].leased
  /\ inst' = [inst EXCEPT ![s].leased = TRUE]
  /\ Goto(w, Entry(inst[s].status),
          [NoJob EXCEPT !.saga = s, !.status = inst[s].status,
                        !.retries = inst[s].retries])
  /\ UNCHANGED <<dbVars, steps, pending, told, gatewayVars, envVars>>

ClaimRunnable(w, s) == inst[s].status \in Runnable /\ Claim(w, s)

\* The sweeper's claim, the only way back to GATEWAY_PENDING.
ClaimExpired(w, s) == /\ inst[s].status \in SagaStatus \ Terminal
                      /\ inst[s].due
                      /\ Claim(w, s)

\* nextAttempt, and in compensate reserveTransactionID before it.
NextAttempt(w) ==
  LET st == job[w].status IN
  /\ pc[w] = "number"
  /\ Goto(w, CASE st = "RESERVED" -> "begin"
               [] st = "COMPENSATING" -> "reverse"
               [] OTHER -> "post",
          [job[w] EXCEPT !.number =
             NextAttemptNumber(job[w].saga, StepOf[st], DirectionOf(st))])
  /\ UNCHANGED <<dbVars, sagaVars, gatewayVars, envVars>>

-----------------------------------------------------------------------------
(* reserve and settle                                                      *)

RequestOf(w) == IF job[w].status = "PENDING" THEN ReserveRequest(job[w].saga)
                ELSE SettleRequest(job[w].saga)
\* MUTANT: only the reserve calls ApplyPendingDelta.
HeldByReserveOnly(w) == IF job[w].status = "PENDING" THEN Amount[job[w].saga] ELSE 0

Held(w) == IF job[w].status = "PENDING" THEN Amount[job[w].saga]
           ELSE -Amount[job[w].saga]
After == [PENDING |-> "RESERVED", GATEWAY_SUCCEEDED |-> "COMPLETED",
          COMPENSATING |-> "COMPENSATED"]

\* account_balances_pending_check and saga_steps_attempt_key accept the rows.
Insertable(w, delta) == pending + delta >= 0 /\ ~Collides(w)

\* The guard of advance: nobody has moved the saga since it was claimed.
Current(w) == inst[job[w].saga].status = job[w].status

\* The Record hook: the hold, the audit row, the transition and the event, in
\* the transaction that moves the money.
Record(w, x, delta) ==
  LET s == job[w].saga
      to == After[job[w].status]
  IN /\ Insertable(w, delta)
     /\ Current(w)
     /\ pending' = pending + delta
     /\ steps' = [steps EXCEPT ![s] = @ \cup {RowFor(w, "SUCCEEDED", x)}]
     /\ inst' = Moved(s, to, 0, TRUE)
     /\ told' = [told EXCEPT ![s] = Append(@, to)]

\* The commit is reported, or it is reported as failed.
CommitReported(w) ==
  \/ Idle(w) /\ UNCHANGED faults
  \/ Fault /\ Goto(w, "record", [job[w] EXCEPT !.answer = "transient"])

\* PostTransaction commits.
PostStep(w) ==
  /\ pc[w] = "post"
  /\ Apply(FreshId, RequestOf(w).legs, RequestOf(w).key, None)
  /\ Record(w, FreshId, Held(w))
  /\ CommitReported(w)
  /\ UNCHANGED <<gatewayVars, outside>>

\* PostTransaction fails: terminalLedgerError of what the ledger refuses, and
\* not of what the Record hook or the database does.
PostRefused(w) ==
  /\ pc[w] = "post"
  /\ LET r == RequestOf(w) IN
     \/ /\ ~Acceptable(r.legs, r.key)
        /\ Goto(w, "record", [job[w] EXCEPT !.answer = "terminal"])
        /\ UNCHANGED faults
     \/ /\ Acceptable(r.legs, r.key)
        /\ ~(Insertable(w, Held(w)) /\ Current(w))
        /\ Goto(w, "record", [job[w] EXCEPT !.answer = "transient"])
        /\ UNCHANGED faults
     \/ /\ Fault
        /\ Goto(w, "record", [job[w] EXCEPT !.answer = "transient"])
  /\ UNCHANGED <<dbVars, sagaVars, gatewayVars, outside>>

\* RecordAttempt, whose own failure is only logged.
RecordAttempt(w) ==
  /\ pc[w] = "record"
  /\ Goto(w, "fail", job[w])
  /\ \/ /\ steps' = IF Collides(w) THEN steps
                    ELSE [steps EXCEPT ![job[w].saga] = @ \cup {RowFor(w, "FAILED", None)}]
        /\ UNCHANGED faults
     \/ Fault /\ UNCHANGED steps
  /\ UNCHANGED <<dbVars, inst, pending, told, gatewayVars, outside>>

\* MUTANT: giving up means FAILED, whichever step gives up.
FailForwardStepAlways(w) ==
  LET attempts == job[w].retries + 1
      terminal == job[w].answer = "terminal" \/ attempts >= MaxStepAttempts
      from == job[w].status
  IN /\ pc[w] = "fail"
     /\ from # "COMPENSATING"
     /\ \/ ~terminal /\ Advance(w, from, from, attempts)
        \/ terminal /\ Advance(w, from, "FAILED", attempts)

\* MUTANT: a settle that gives up starts again at the gateway.
FailForwardStepRestarts(w) ==
  LET attempts == job[w].retries + 1
      terminal == job[w].answer = "terminal" \/ attempts >= MaxStepAttempts
      from == job[w].status
  IN /\ pc[w] = "fail"
     /\ from # "COMPENSATING"
     /\ \/ ~terminal /\ Advance(w, from, from, attempts)
        \/ terminal /\ from = "PENDING" /\ Advance(w, from, "FAILED", attempts)
        \/ terminal /\ from # "PENDING" /\ Advance(w, from, "RESERVED", 0)

\* failForwardStep: a reserve that gives up has moved nothing, a settle that
\* gives up is compensated.
FailForwardStep(w) ==
  LET attempts == job[w].retries + 1
      terminal == job[w].answer = "terminal" \/ attempts >= MaxStepAttempts
      from == job[w].status
  IN /\ pc[w] = "fail"
     /\ from # "COMPENSATING"
     /\ \/ ~terminal /\ Advance(w, from, from, attempts)
        \/ terminal /\ from = "PENDING" /\ Advance(w, from, "FAILED", attempts)
        \/ terminal /\ from # "PENDING" /\ Advance(w, from, "COMPENSATING", 0)

-----------------------------------------------------------------------------
(* callGateway and resolveGateway                                          *)

\* MUTANT: the transition without the row.
BeginStepWithoutRow(w) ==
  /\ pc[w] = "begin"
  /\ inst[job[w].saga].status = "RESERVED"
  /\ inst' = Moved(job[w].saga, "GATEWAY_PENDING", job[w].retries, FALSE)
  /\ Goto(w, "pay", job[w])
  /\ UNCHANGED <<dbVars, steps, pending, told, gatewayVars, envVars>>

\* BeginStep commits the intent before the call it is about.
BeginStep(w) ==
  LET s == job[w].saga IN
  /\ pc[w] = "begin"
  /\ inst[s].status = "RESERVED"
  /\ ~Collides(w)
  /\ steps' = [steps EXCEPT ![s] = @ \cup {RowFor(w, "ATTEMPTED", None)}]
  /\ inst' = Moved(s, "GATEWAY_PENDING", job[w].retries, FALSE)
  /\ Goto(w, "pay", job[w])
  /\ UNCHANGED <<dbVars, pending, told, gatewayVars, envVars>>

BeginStepStale(w) ==
  /\ pc[w] = "begin"
  /\ inst[job[w].saga].status # "RESERVED" \/ Collides(w)
  /\ Idle(w)
  /\ UNCHANGED <<dbVars, sagaVars, gatewayVars, envVars>>

\* HTTPClient.Pay sends the request under gatewayKey, which names the saga.
Pay(w) ==
  /\ pc[w] = "pay"
  /\ wire' = wire \cup {job[w].saga}
  /\ Goto(w, "paying", job[w])
  /\ UNCHANGED <<dbVars, sagaVars, payments, envVars>>

\* MUTANT: a timeout counts as a refusal.
PayUnknownIsRefusal(w) ==
  /\ pc[w] = "paying"
  /\ Goto(w, "finish", [job[w] EXCEPT !.answer = "declined"])
  /\ UNCHANGED <<dbVars, sagaVars, gatewayVars, envVars>>

\* The client's deadline passes, or the answer is a 5xx, a 429 or unreadable.
PayUnknown(w) ==
  /\ pc[w] = "paying"
  /\ Goto(w, "defer", [job[w] EXCEPT !.answer = "unknown"])
  /\ UNCHANGED <<dbVars, sagaVars, gatewayVars, envVars>>

\* What the client makes of the gateway's record of a payment.
Answer == [SUCCEEDED |-> "succeeded", FAILED |-> "declined", NONE |-> "invalid"]

\* The gateway takes a request: it replays what it has under the key, or
\* records an outcome, or refuses the request and records nothing.  The caller
\* hears of it, or does not.
GatewayPay(s) ==
  LET waiting == {w \in Orchestrator : pc[w] = "paying" /\ job[w].saga = s} IN
  /\ s \in wire
  /\ wire' = wire \ {s}
  /\ \E p \in IF payments[s] = "NONE" THEN {"NONE", "SUCCEEDED", "FAILED"}
              ELSE {payments[s]} :
       /\ payments' = [payments EXCEPT ![s] = p]
       /\ \E heard \in SUBSET waiting :
            /\ pc' = [w \in Orchestrator |-> IF w \in heard THEN "finish" ELSE pc[w]]
            /\ job' = [w \in Orchestrator |->
                         IF w \in heard THEN [job[w] EXCEPT !.answer = Answer[p]]
                         ELSE job[w]]
  /\ UNCHANGED <<dbVars, sagaVars, envVars>>

LookupAttempt(w) ==
  /\ pc[w] = "lookup"
  /\ Goto(w, "probe", [job[w] EXCEPT !.number = UnresolvedAttempt(job[w].saga)])
  /\ UNCHANGED <<dbVars, sagaVars, gatewayVars, envVars>>

\* HTTPClient.Probe: the record, or that there is none, or no answer.
Probe(w) ==
  LET p == payments[job[w].saga] IN
  /\ pc[w] = "probe"
  /\ \/ Goto(w, "finish", [job[w] EXCEPT !.answer =
                             IF p = "NONE" THEN "not_found" ELSE Answer[p]])
     \/ Goto(w, "defer", [job[w] EXCEPT !.answer = "unknown"])
  /\ UNCHANGED <<dbVars, sagaVars, gatewayVars, envVars>>

\* MUTANT: everything the gateway did not decline has succeeded.
ConfirmedUnlessDeclined(w) == job[w].answer # "declined"

Confirmed(w) == job[w].answer = "succeeded"

\* FinishAttempt, which only closes a row that is ATTEMPTED.
FinishAttempt(w) ==
  LET s == job[w].saga
      open(r) == /\ r.step = "GATEWAY" /\ r.status = "ATTEMPTED"
                 /\ r.number = job[w].number
      outcome == IF Confirmed(w) THEN "SUCCEEDED" ELSE "FAILED"
  IN /\ pc[w] = "finish"
     /\ steps' = [steps EXCEPT ![s] =
                    {IF open(r) THEN [r EXCEPT !.status = outcome] ELSE r : r \in @}]
     /\ Goto(w, "outcome", job[w])
     /\ UNCHANGED <<dbVars, inst, pending, told, gatewayVars, envVars>>

\* settleGatewayOutcome after finish: a second statement of its own.
SettleGatewayOutcome(w) ==
  /\ pc[w] = "outcome"
  /\ Advance(w, "GATEWAY_PENDING",
             IF Confirmed(w) THEN "GATEWAY_SUCCEEDED" ELSE "GATEWAY_FAILED", 0)

\* MUTANT: the retry count is not written back.
DeferAmbiguityUncounted(w) ==
  LET attempts == job[w].retries + 1 IN
  /\ pc[w] = "defer"
  /\ Advance(w, "GATEWAY_PENDING",
             IF attempts >= MaxProbes THEN "NEEDS_MANUAL_REVIEW" ELSE "GATEWAY_PENDING",
             job[w].retries)

DeferAmbiguity(w) ==
  LET attempts == job[w].retries + 1 IN
  /\ pc[w] = "defer"
  /\ Advance(w, "GATEWAY_PENDING",
             IF attempts >= MaxProbes THEN "NEEDS_MANUAL_REVIEW" ELSE "GATEWAY_PENDING",
             attempts)

-----------------------------------------------------------------------------
(* compensate.  Its branch for a saga without a reserve transaction is not *)
(* modelled: StatusTellsMoney shows that there always is one.              *)

BeginCompensation(w) == /\ pc[w] = "turn"
                        /\ Advance(w, "GATEWAY_FAILED", "COMPENSATING", 0)

Reserved(w) == ReserveTx(job[w].saga)

\* ReverseTransactionRecorded commits.
ReverseReserve(w) ==
  /\ pc[w] = "reverse"
  /\ Reverse(FreshId, Reserved(w), None)
  /\ Record(w, FreshId, -Amount[job[w].saga])
  /\ CommitReported(w)
  /\ UNCHANGED <<gatewayVars, outside>>

\* ErrAlreadyReversed, or ErrStaleTransition from the Record hook.
ReversalLost(w) ==
  LET l == Mirror(journal[Reserved(w)]) IN
  /\ pc[w] = "reverse"
  /\ \/ transactions[Reserved(w)].status = "REVERSED"
     \/ /\ Acceptable(l, None)
        /\ Insertable(w, -Amount[job[w].saga])
        /\ ~Current(w)
  /\ Goto(w, "confirm", job[w])
  /\ UNCHANGED <<dbVars, sagaVars, gatewayVars, envVars>>

\* Any other error of the reversal.
ReversalRefused(w) ==
  LET l == Mirror(journal[Reserved(w)]) IN
  /\ pc[w] = "reverse"
  /\ transactions[Reserved(w)].status = "POSTED"
  /\ Goto(w, "record", [job[w] EXCEPT !.answer = "transient"])
  /\ \/ /\ ~Acceptable(l, None) \/ ~Insertable(w, -Amount[job[w].saga])
        /\ UNCHANGED faults
     \/ Fault
  /\ UNCHANGED <<dbVars, sagaVars, gatewayVars, outside>>

FailCompensation(w) ==
  LET attempts == job[w].retries + 1 IN
  /\ pc[w] = "fail"
  /\ job[w].status = "COMPENSATING"
  /\ Advance(w, "COMPENSATING",
             IF attempts >= MaxCompensationAttempts THEN "NEEDS_MANUAL_REVIEW"
             ELSE "COMPENSATING",
             attempts)

\* confirmCompensated reads the saga again.
ConfirmCompensated(w) ==
  LET now == inst[job[w].saga].status IN
  /\ pc[w] = "confirm"
  /\ \/ now = "COMPENSATED" /\ Idle(w)
     \/ now # "COMPENSATED" /\ Goto(w, "escalate", [job[w] EXCEPT !.status = now])
  /\ UNCHANGED <<dbVars, sagaVars, gatewayVars, envVars>>

\* and escalates from whatever status it read.
EscalateReversedOutside(w) ==
  /\ pc[w] = "escalate"
  /\ Advance(w, job[w].status, "NEEDS_MANUAL_REVIEW", job[w].retries)

-----------------------------------------------------------------------------
(* Everybody else                                                          *)

\* The process dies, or a statement's error is logged and the saga left to its
\* lease.
Crash(w) == /\ pc[w] # "idle"
            /\ Fault
            /\ Idle(w)
            /\ UNCHANGED <<dbVars, sagaVars, gatewayVars, outside>>

\* lease_expires_at < now().
LeaseLapses(s) ==
  /\ inst[s].leased
  /\ inst' = [inst EXCEPT ![s].leased = FALSE]
  /\ UNCHANGED <<dbVars, steps, pending, told, gatewayVars, localVars, envVars>>

\* A Pay that has been decided on and has neither been answered nor got lost.
PayOutstanding(s) == \/ s \in wire
                     \/ \E w \in Orchestrator : /\ job[w].saga = s
                                                /\ pc[w] \in {"pay", "paying"}

\* step_deadline_at < now().
DeadlinePasses(s) ==
  /\ inst[s].status \in SagaStatus \ Terminal
  /\ ~inst[s].due
  /\ Timely => ~PayOutstanding(s)
  /\ inst' = [inst EXCEPT ![s].due = TRUE]
  /\ UNCHANGED <<dbVars, steps, pending, told, gatewayVars, localVars, envVars>>

\* Money arrives in the wallet.
Fund(r) == /\ Apply(FreshId, r.legs, r.key, None)
           /\ UNCHANGED <<sagaVars, gatewayVars, localVars, envVars>>

Freeze(a) == /\ \E st \in {"ACTIVE", "FROZEN"} : st # status[a] /\ UpdateStatus(a, st)
             /\ UNCHANGED <<sagaVars, gatewayVars, localVars, envVars>>

\* POST /v1/transactions/{id}/reverse by somebody who is not the saga.
ReverseOutside(x) ==
  /\ Cardinality(outside) < MaxOutside
  /\ transactions[x].reverses = None
  /\ Reverse(FreshId, x, None)
  /\ outside' = outside \cup {x}
  /\ UNCHANGED <<sagaVars, gatewayVars, localVars, faults>>

-----------------------------------------------------------------------------
ClaimSaga(s) == \E w \in Orchestrator : ClaimRunnable(w, s) \/ ClaimExpired(w, s)

Drive(w) == \/ NextAttempt(w) \/ PostStep(w) \/ PostRefused(w) \/ RecordAttempt(w)
            \/ FailForwardStep(w) \/ BeginStep(w) \/ BeginStepStale(w) \/ Pay(w)
            \/ PayUnknown(w) \/ LookupAttempt(w) \/ Probe(w) \/ FinishAttempt(w)
            \/ SettleGatewayOutcome(w) \/ DeferAmbiguity(w) \/ BeginCompensation(w)
            \/ ReverseReserve(w) \/ ReversalLost(w) \/ ReversalRefused(w)
            \/ FailCompensation(w) \/ ConfirmCompensated(w) \/ EscalateReversedOutside(w)

Next == \/ \E w \in Orchestrator : Drive(w) \/ Crash(w)
        \/ \E s \in Saga : \/ Start(s) \/ ClaimSaga(s) \/ GatewayPay(s)
                           \/ LeaseLapses(s) \/ DeadlinePasses(s)
        \/ \E r \in Deposit : Fund(r)
        \/ \E a \in Freezable : Freeze(a)
        \/ \E x \in TxId : ReverseOutside(x)

Spec == Init /\ [][Next]_vars

\* A goroutine that claimed a saga goes on; time passes; the claim loop and the
\* sweeper take what they find, oldest first; the gateway sees a request or it
\* is lost.  Nothing is assumed of faults, operators, clients or answers.
Fairness == /\ \A w \in Orchestrator : WF_vars(Drive(w))
            /\ \A s \in Saga : /\ WF_vars(LeaseLapses(s))
                               /\ WF_vars(DeadlinePasses(s))
                               /\ WF_vars(GatewayPay(s))
                               /\ SF_vars(ClaimSaga(s))

FairSpec == Spec /\ Fairness

-----------------------------------------------------------------------------
(* Properties                                                              *)

\* The statuses in which the customer's money is in suspense for the saga.
Holding == {"RESERVED", "GATEWAY_PENDING", "GATEWAY_SUCCEEDED", "GATEWAY_FAILED",
            "COMPENSATING", "NEEDS_MANUAL_REVIEW"}

PostedUnder(s, step) == {x \in TxId : transactions[x].key = StepKey(s, step)}

\* The status of a saga says what the ledger did for it, at every instant and
\* whatever crashed: the reserve has posted from RESERVED on and never for a
\* saga that FAILED, the settlement has posted exactly when it is COMPLETED, and
\* the saga's own reversal exactly when it is COMPENSATED.
StatusTellsMoney ==
  \A s \in Saga : LET st == inst[s].status IN
    /\ PostedUnder(s, "RESERVE") # {} <=> st \in Holding \cup {"COMPLETED", "COMPENSATED"}
    /\ PostedUnder(s, "SETTLE") # {} <=> st = "COMPLETED"
    /\ st = "COMPENSATED" <=>
         \E x \in PostedUnder(s, "RESERVE") : /\ transactions[x].status = "REVERSED"
                                             /\ x \notin outside

\* pending_minor of the suspense account is the sum of what its sagas hold: two
\* numbers kept by different statements, across crashes and lost races.  The
\* account has that money, unless somebody reversed a payout's transaction
\* behind the saga's back.
PendingMatchesSagas ==
  /\ pending = MapThenSumSet(LAMBDA s : Amount[s], {s \in Saga : inst[s].status \in Holding})
  /\ outside = {} => available[Suspense] = pending

\* A merchant is only ever paid for a payment that the gateway has made.
SettledMeansPaid ==
  \A s \in Saga : inst[s].status \in {"GATEWAY_SUCCEEDED", "COMPLETED"} =>
    payments[s] = "SUCCEEDED"

GatewayRows(s) == {r \in steps[s] : r.step = "GATEWAY"}

\* "Confirmed, not inferred": a saga whose gateway step is recorded as failed
\* has no payment at the gateway, and one recorded as succeeded has one.
VerdictIsTrue ==
  \A s \in Saga :
    /\ \A r \in GatewayRows(s) :
         /\ r.status = "FAILED" => payments[s] # "SUCCEEDED"
         /\ r.status = "SUCCEEDED" => payments[s] = "SUCCEEDED"
    /\ inst[s].status = "GATEWAY_FAILED" => payments[s] # "SUCCEEDED"

\* Nobody can have a payment without the row that names it: the intent is
\* durable before the request leaves, there is one, and the saga has not yet
\* forgotten that it asked.
IntentBeforePayment ==
  \A s \in Saga : s \in wire \/ payments[s] # "NONE" =>
    /\ Cardinality(GatewayRows(s)) = 1
    /\ inst[s].status \notin {"NONE", "PENDING", "RESERVED", "FAILED"}

\* The outbox tells each saga's story: nothing of a saga that moved no money,
\* RESERVED first and the outcome last, told once unless it is an alert.
EventsTellOutcome ==
  \A s \in Saga : LET st == inst[s].status IN
    told[s] \in CASE st \in {"COMPLETED", "COMPENSATED"} -> {<<"RESERVED", st>>}
                  [] st = "NEEDS_MANUAL_REVIEW" ->
                       {<<"RESERVED">> \o [i \in 1..n |-> st] : n \in 1..Cardinality(Orchestrator) + 1}
                  [] st \in Holding \ {"NEEDS_MANUAL_REVIEW"} -> {<<"RESERVED">>}
                  [] OTHER -> {<<>>}

\* Every payout ends: completed, compensated, failed or in front of a person.
EverySagaEnds == \A s \in Saga : inst[s].status # "NONE" ~> inst[s].status \in Terminal

\* "settle, don't refund": the gateway has not made the payment of a saga that
\* gave the customer the money back.
RefundedMeansUnpaid ==
  \A s \in Saga : inst[s].status = "COMPENSATED" => payments[s] # "SUCCEEDED"

-----------------------------------------------------------------------------
(* The saga implements Payout                                              *)

PhaseOf(st) == CASE st = "NONE" -> "none"
                 [] st = "PENDING" -> "started"
                 [] st \in {"RESERVED", "GATEWAY_PENDING"} -> "held"
                 [] st = "GATEWAY_SUCCEEDED" -> "confirmed"
                 [] st \in {"GATEWAY_FAILED", "COMPENSATING"} -> "refused"
                 [] st = "COMPLETED" -> "settled"
                 [] st = "COMPENSATED" -> "returned"
                 [] st = "FAILED" -> "rejected"
                 [] OTHER -> "parked"

StepKeys == Saga \X {"RESERVE", "SETTLE"}

Promise == INSTANCE Payout
             WITH phase <- [s \in Saga |-> PhaseOf(inst[s].status)],
                  hold <- pending,
                  moves <- StepKeys \cap {transactions[x].key : x \in TxId}

\* Each saga goes through its phases once, never backwards, and money moves
\* exactly in the steps that change the phase.
SagaKeepsPromise == Promise!PayoutSpec
=============================================================================
