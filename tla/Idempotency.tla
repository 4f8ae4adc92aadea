---------------------------- MODULE Idempotency ----------------------------
(***************************************************************************)
(* The idempotency keys of the write endpoints: requireIdempotency and the *)
(* handlers behind it, the rows of idempotency_keys, the ledger            *)
(* transaction that completes a key, and the sweeper.                      *)
(*                                                                         *)
(* A handler is a goroutine serving one HTTP request.  It reserves the key *)
(* in a transaction of its own, executes the request in the ledger's       *)
(* transaction, which is one step here (Ledger.tla opens it up), and fails *)
(* or releases the key in a third one when nothing committed.              *)
(***************************************************************************)
EXTENDS Naturals, FiniteSets

CONSTANTS Handler,        \* goroutines serving requests
          Request,        \* what clients send: principal, key, route, target, body
          BadBody,        \* bodies the ledger refuses whatever the world is like
          TxId,           \* transaction ids
          None,           \* no transaction, request, answer or fingerprint
          LeaseCanLapse,  \* whether a request may take longer than its lease
          TtlCanPass,     \* whether requests may be more than expires_at apart
          ClockSkew,      \* whether the API's clock may differ from PostgreSQL's
          Batch           \* the sweeper's batch size

ASSUME NoneAssumption == None \notin TxId /\ None \notin Request
ASSUME HorizonAssumption == {LeaseCanLapse, TtlCanPass, ClockSkew} \subseteq BOOLEAN
ASSUME BatchAssumption == Batch \in Nat \ {0}

\* The primary key of idempotency_keys and the unique index on transactions.
Slot(r) == <<r.principal, r.key>>
Slots == {Slot(r) : r \in Request}

\* MUTANT: the body is left out of the hash.
FingerprintOfRoute(r) == r.route

\* FingerprintOf hashes the route's pattern and the body: the id in the path
\* of a reversal, its target, is in neither.
FingerprintOf(r) == <<r.route, r.body>>

VARIABLES record,         \* idempotency_keys, by slot
          transactions,   \* the request each committed transaction executed
          pc,             \* the next step of each handler
          request,        \* the request each handler serves, or served last
          seen,           \* the row Lookup returned to each handler, or the
                          \* transaction it posted
          answer          \* what each handler has told its client

vars == <<record, transactions, pc, request, seen, answer>>

Absent == [status |-> "ABSENT", fingerprint |-> None, tx |-> None,
           leased |-> FALSE, expired |-> FALSE]
NoAnswer == [kind |-> "none", tx |-> None]

Init == /\ record = [s \in Slots |-> Absent]
        /\ transactions = [x \in TxId |-> None]
        /\ pc = [h \in Handler |-> "idle"]
        /\ request = [h \in Handler |-> None]
        /\ seen = [h \in Handler |-> Absent]
        /\ answer = [h \in Handler |-> NoAnswer]

My(h) == Slot(request[h])
Goto(h, label) == pc' = [pc EXCEPT ![h] = label]
Done(h) == Goto(h, "idle") /\ seen' = [seen EXCEPT ![h] = Absent]
Tell(h, kind, x) == answer' = [answer EXCEPT ![h] = [kind |-> kind, tx |-> x]]

-----------------------------------------------------------------------------
(* Acquire                                                                 *)

\* requireIdempotency: the key and the body have been read.
Begin(h) == /\ pc[h] = "idle"
            /\ \E r \in Request : request' = [request EXCEPT ![h] = r]
            /\ answer' = [answer EXCEPT ![h] = NoAnswer]
            /\ Goto(h, "reserve")
            /\ UNCHANGED <<record, transactions, seen>>

\* Reserve: INSERT ... ON CONFLICT DO NOTHING, committed on its own.
Reserve(h) ==
  /\ pc[h] = "reserve"
  /\ IF record[My(h)].status = "ABSENT"
     THEN /\ record' = [record EXCEPT ![My(h)] =
                          [status |-> "IN_PROGRESS", tx |-> None,
                           fingerprint |-> FingerprintOf(request[h]),
                           leased |-> TRUE, expired |-> FALSE]]
          /\ Goto(h, "execute")
     ELSE Goto(h, "lookup") /\ UNCHANGED record
  /\ UNCHANGED <<transactions, request, seen, answer>>

\* MUTANT: WHERE key = $2, without the principal.
LookupAnyPrincipal(h) ==
  /\ pc[h] = "lookup"
  /\ \E s \in Slots : /\ s[2] = request[h].key
                      /\ seen' = [seen EXCEPT ![h] = record[s]]
  /\ Goto(h, "resolve")
  /\ UNCHANGED <<record, transactions, request, answer>>

\* Lookup: a second statement, which may find the row changed or gone.
Lookup(h) == /\ pc[h] = "lookup"
             /\ seen' = [seen EXCEPT ![h] = record[My(h)]]
             /\ Goto(h, "resolve")
             /\ UNCHANGED <<record, transactions, request, answer>>

\* What the API's clock makes of a deadline PostgreSQL's clock has set.
Judged(passed) == IF ClockSkew THEN BOOLEAN ELSE {passed}

Terminal(rec) == rec.status \in {"COMPLETED", "FAILED"}

\* MUTANT: a lease that has run out is treated as a live one.
VerdictNeverReclaiming(r, rec, expired, lapsed) ==
  CASE rec.status = "ABSENT"                -> "in_progress"
    [] rec.fingerprint # FingerprintOf(r)   -> "conflict"
    [] expired                              -> "expired"
    [] Terminal(rec)                        -> "replay"
    [] OTHER                                -> "in_progress"

\* resolveExisting, and the missing row before it, in the order of its checks.
Verdict(r, rec, expired, lapsed) ==
  CASE rec.status = "ABSENT"                -> "in_progress"
    [] rec.fingerprint # FingerprintOf(r)   -> "conflict"
    [] expired                              -> "expired"
    [] Terminal(rec)                        -> "replay"
    [] ~lapsed                              -> "in_progress"
    [] OTHER                                -> "reclaim"

\* resolveExisting: answer, or go on to take the lease over.
ResolveExisting(h) ==
  /\ pc[h] = "resolve"
  /\ \E expired \in Judged(seen[h].expired), lapsed \in Judged(~seen[h].leased) :
       LET verdict == Verdict(request[h], seen[h], expired, lapsed) IN
       IF verdict = "reclaim"
       THEN Goto(h, "reclaim") /\ UNCHANGED <<answer, seen>>
       ELSE /\ Tell(h, verdict, IF verdict = "replay" THEN seen[h].tx ELSE None)
            /\ Done(h)
  /\ UNCHANGED <<record, transactions, request>>

\* Reclaim: guarded on the row as it is now, by PostgreSQL's clock; the new
\* lease does not outlive the record.
Reclaim(h) ==
  LET rec == record[My(h)] IN
  /\ pc[h] = "reclaim"
  /\ IF rec.status = "IN_PROGRESS" /\ ~rec.leased
     THEN /\ record' = [record EXCEPT ![My(h)].leased = ~rec.expired]
          /\ Goto(h, "execute")
          /\ seen' = [seen EXCEPT ![h] = Absent]
          /\ UNCHANGED answer
     ELSE /\ Tell(h, "in_progress", None)
          /\ Done(h)
          /\ UNCHANGED record
  /\ UNCHANGED <<transactions, request>>

-----------------------------------------------------------------------------
(* Executing the request                                                   *)

\* ErrAlreadyReversed: the target has a reversal, under this key or another.
AlreadyReversed(r) ==
  /\ r.route = "reverse"
  /\ \E x \in TxId : /\ transactions[x] # None
                     /\ transactions[x].route = "reverse"
                     /\ transactions[x].target = r.target

\* MUTANT: no unique index on (principal_id, idempotency_key).
KeyUnchecked(r) == FALSE

\* ErrDuplicateIdempotencyKey.
KeyTaken(r) == \E x \in TxId : /\ transactions[x] # None
                               /\ Slot(transactions[x]) = Slot(r)

\* isDeterministic: the errors that are cached.
Deterministic(r) == r.body \in BadBody \/ AlreadyReversed(r)

\* Complete: inside the ledger's transaction, guarded on IN_PROGRESS.
Complete(s, x) ==
  /\ record[s].status = "IN_PROGRESS"
  /\ record' = [record EXCEPT ![s].status = "COMPLETED", ![s].tx = x]

\* PostTransaction or ReverseTransactionIdempotent commits: the transaction
\* and the completed key become visible together.
Commit(h) ==
  /\ pc[h] = "execute"
  /\ ~Deterministic(request[h])
  /\ ~KeyTaken(request[h])
  /\ \E x \in TxId :
       /\ transactions[x] = None
       /\ transactions' = [transactions EXCEPT ![x] = request[h]]
       /\ Complete(My(h), x)
       /\ seen' = [seen EXCEPT ![h] = [Absent EXCEPT !.tx = x]]
  /\ Goto(h, "respond")
  /\ UNCHANGED <<request, answer>>

\* settle, then writeStored.
Respond(h) == /\ pc[h] = "respond"
              /\ Tell(h, "created", seen[h].tx)
              /\ Done(h)
              /\ UNCHANGED <<record, transactions, request>>

\* The ledger's transaction rolled back.  An error of the request is cached,
\* one of the world, which can strike at any time, gives the key back; so do
\* ErrDuplicateIdempotencyKey and ErrLeaseLost.  The client is told first.
Refuse(h) ==
  /\ pc[h] = "execute"
  /\ \/ Deterministic(request[h]) /\ Goto(h, "fail")
     \/ Goto(h, "release")
  /\ Tell(h, "refused", None)
  /\ UNCHANGED <<record, transactions, request, seen>>

\* MUTANT: the guard on IN_PROGRESS is left out.
FailUnguarded(h) ==
  /\ pc[h] = "fail"
  /\ record' = [record EXCEPT ![My(h)].status = "FAILED"]
  /\ Done(h)
  /\ UNCHANGED <<transactions, request, answer>>

\* reject, for an error that isDeterministic; ErrLeaseLost is logged.
Fail(h) ==
  /\ pc[h] = "fail"
  /\ record' = IF record[My(h)].status = "IN_PROGRESS"
               THEN [record EXCEPT ![My(h)].status = "FAILED"] ELSE record
  /\ Done(h)
  /\ UNCHANGED <<transactions, request, answer>>

\* MUTANT: the guard on IN_PROGRESS is left out.
ReleaseUnguarded(h) ==
  /\ pc[h] = "release"
  /\ record' = [record EXCEPT ![My(h)] = Absent]
  /\ Done(h)
  /\ UNCHANGED <<transactions, request, answer>>

\* reject, for any other error.  The row deleted is whoever's it is by now.
Release(h) ==
  /\ pc[h] = "release"
  /\ record' = IF record[My(h)].status = "IN_PROGRESS"
               THEN [record EXCEPT ![My(h)] = Absent] ELSE record
  /\ Done(h)
  /\ UNCHANGED <<transactions, request, answer>>

\* The process dies, or PostgreSQL cannot be reached: the rest is not done.
Crash(h) == /\ pc[h] # "idle"
            /\ Done(h)
            /\ UNCHANGED <<record, transactions, request, answer>>

-----------------------------------------------------------------------------
(* Time and the sweeper                                                    *)

LeaseLapses(s) ==
  /\ LeaseCanLapse
  /\ record[s].leased
  /\ record' = [record EXCEPT ![s].leased = FALSE]
  /\ UNCHANGED <<transactions, pc, request, seen, answer>>

\* lease_expires_at <= expires_at, so the lease is over as well.
TtlPasses(s) ==
  /\ TtlCanPass
  /\ record[s].status # "ABSENT"
  /\ ~record[s].expired
  /\ record' = [record EXCEPT ![s].expired = TRUE, ![s].leased = FALSE]
  /\ UNCHANGED <<transactions, pc, request, seen, answer>>

\* Sweep: picks up to a batch of expired rows, and deletes the rows with their
\* keys, whoever's they are.
Sweep(picked) ==
  /\ picked # {} /\ Cardinality(picked) <= Batch
  /\ \A s \in picked : record[s].expired
  /\ record' = [s \in Slots |-> IF \E t \in picked : t[2] = s[2]
                                THEN Absent ELSE record[s]]
  /\ UNCHANGED <<transactions, pc, request, seen, answer>>

\* sweepOnce deletes batch after batch; a batch is one statement.
SweepOnce == \E picked \in SUBSET Slots : Sweep(picked)

-----------------------------------------------------------------------------
Acquire(h) == Reserve(h) \/ Lookup(h) \/ ResolveExisting(h) \/ Reclaim(h)
Execute(h) == Commit(h) \/ Refuse(h)
Reject(h) == Fail(h) \/ Release(h)

Next == \/ \E h \in Handler : \/ Begin(h) \/ Acquire(h) \/ Execute(h)
                              \/ Respond(h) \/ Reject(h) \/ Crash(h)
        \/ \E s \in Slots : LeaseLapses(s) \/ TtlPasses(s)
        \/ SweepOnce

Spec == Init /\ [][Next]_vars

\* Clients retry and leases run out.  A process may crash at any time, but a
\* statement that is tried again and again does not die every time.
Fairness ==
  /\ \A h \in Handler :
       /\ WF_vars(Begin(h))
       /\ SF_vars(Reserve(h)) /\ SF_vars(Lookup(h)) /\ SF_vars(ResolveExisting(h))
       /\ SF_vars(Reclaim(h)) /\ SF_vars(Execute(h)) /\ SF_vars(Reject(h))
  /\ \A s \in Slots : WF_vars(LeaseLapses(s))

FairSpec == Spec /\ Fairness

-----------------------------------------------------------------------------
(* Properties                                                              *)

Row == [status : {"ABSENT", "IN_PROGRESS", "COMPLETED", "FAILED"},
        fingerprint : {FingerprintOf(r) : r \in Request} \cup {None},
        tx : TxId \cup {None}, leased : BOOLEAN, expired : BOOLEAN]

Answer == [kind : {"none", "created", "replay", "refused", "conflict", "expired",
                   "in_progress"},
           tx : TxId \cup {None}]

\* Rows, handlers and answers have their types, and a lease ends with its row.
TypeOK ==
  /\ record \in [Slots -> Row]
  /\ seen \in [Handler -> Row]
  /\ \A s \in Slots : record[s].expired => ~record[s].leased
  /\ transactions \in [TxId -> Request \cup {None}]
  /\ pc \in [Handler -> {"idle", "reserve", "lookup", "resolve", "reclaim",
                         "execute", "respond", "fail", "release"}]
  /\ request \in [Handler -> Request \cup {None}]
  /\ answer \in [Handler -> Answer]

\* Invariant 5 of the ledger: a (principal, key) pair executes at most once,
\* however leases lapse, keys are taken over, released and swept.
KeyExecutesOnce ==
  \A x, y \in TxId : /\ transactions[x] # None /\ transactions[y] # None
                     /\ Slot(transactions[x]) = Slot(transactions[y])
                     => x = y

\* A client told of a transaction, at once or by a replay, is told of one that
\* committed under its own principal and key.
AnswersAreCommitted ==
  \A h \in Handler : LET x == answer[h].tx IN x # None =>
    transactions[x] # None /\ Slot(transactions[x]) = Slot(request[h])

\* The proposition of D20, while no record is older than its TTL: the record
\* says COMPLETED exactly when a transaction committed under the key, and it
\* is that one.  So what Reclaim and Release take for abandoned is.
RecordTellsOutcome ==
  \A s \in Slots : \A x \in TxId :
    (transactions[x] # None /\ Slot(transactions[x]) = s)
    <=> (record[s].status = "COMPLETED" /\ record[s].tx = x)

\* A terminal record is the answer to every retry: it never becomes another one
\* or goes back to IN_PROGRESS, whatever owners that lost their lease or were
\* swept still do, and it goes away only in a sweep that has found a record of
\* its key expired.
TerminalIsFinal ==
  [][\A s \in Slots : Terminal(record[s]) =>
       \/ record'[s].status = record[s].status /\ record'[s].tx = record[s].tx
       \/ record'[s] = Absent /\ \E t \in Slots : t[2] = s[2] /\ record[t].expired]_vars

\* "Sweep deletes up to batch expired records": a record that has settled stays
\* until its own TTL has passed.  The code does not keep it: Sweep deletes by key,
\* and two principals may hold the same one.
SweepTakesOnlyExpired ==
  [][\A s \in Slots : Terminal(record[s]) /\ ~record[s].expired =>
       record'[s].status # "ABSENT"]_vars

\* A client is told only of a transaction that executed the body it sent to the
\* route it sent it to, whatever else its key was used for.  Complete and
\* Release do not ask whose reservation they change, and the code keeps this
\* only while no lease lapses.
AnswersFitTheRequest ==
  \A h \in Handler : LET x == answer[h].tx IN x # None =>
    /\ transactions[x].route = request[h].route
    /\ transactions[x].body = request[h].body

\* A key whose handler died is not held for ever: its lease runs out, and a
\* retry takes it over and settles it.
NoKeyIsHeldForever ==
  \A s \in Slots : record[s].status = "IN_PROGRESS" ~> record[s].status # "IN_PROGRESS"

\* FAILED describes work that did not happen.  The code does not keep it: the
\* retry of a swept reversal is stored as FAILED.
FailedDidNotHappen ==
  \A x \in TxId : transactions[x] # None =>
    record[Slot(transactions[x])].status # "FAILED"

\* A client told that its key has expired is told that the key created a
\* transaction.  The code does not keep it: Verdict looks at the expiry first.
ExpiredKeyCreatedATransaction ==
  \A h \in Handler : answer[h].kind = "expired" =>
    \E x \in TxId : /\ transactions[x] # None
                    /\ Slot(transactions[x]) = Slot(request[h])
=============================================================================
