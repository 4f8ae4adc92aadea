----------------------------- MODULE Observers -----------------------------
(***************************************************************************)
(* The ledger at work and those who look at it: clients of the read API,   *)
(* the consistency loop and the reconciliation engine.  None of them       *)
(* writes what another one reads, so a behaviour has one of them.          *)
(***************************************************************************)
EXTENDS Reads, Consistency, Reconciliation

CONSTANTS MaxTxFor,      \* how many transactions there are, by observer
          MaxCommits     \* of transactions, accounts and sharded accounts

VARIABLE observer

vars == <<historyVars, readVars, auditVars, reconVars, observer>>

Client == {"statement", "transactions", "accounts", "lookup"}
Observer == Client \cup {"auditor", "reconciler", "report"}

Init == /\ HistoryInit
        /\ ReadsInit
        /\ AuditInit
        /\ ReconInit
        /\ observer \in Observer

\* What makes no difference to the observer is left out: only clients read the
\* standby and see shards, only account searches and checks see new accounts, what is
\* rolled back only delays what is settled, the checks do not look at the time,
\* nothing changes what was read, no run sees what is posted after the last
\* match, and a report shows what runs have written, from whatever they have
\* read.
Watching ==
  /\ observer # "report"
  /\ "read" \notin {statement.phase, search.phase, lookup.phase}
  /\ observer = "reconciler" => engine.at = "created" \/ \E r \in Run : runs[r] = NoRun

CommitStep ==
  /\ Len(commits) < MaxCommits
  /\ \/ \E x \in TxId : CommitTx(x)
     \/ observer \in {"accounts", "auditor"} /\ \E a \in Account : CommitAccount(a)
     \/ observer \in Client /\ \E a \in Account : CommitShards(a)

LedgerStep ==
  /\ Watching
  /\ \/ \E x \in 1..MaxTxFor[observer] : Begin(x)
     \/ observer = "statement" /\ \E x \in TxId : Rollback(x)
     \/ CommitStep
     \/ observer \in Client /\ Replay
     \/ observer # "auditor" /\ Tick
  /\ UNCHANGED <<readVars, auditVars, reconVars, observer>>

ClientStep == \/ observer = "statement" /\ ReadStatement
              \/ observer \in {"transactions", "accounts"} /\ ReadSearch(observer)
              \/ observer = "lookup" /\ GetTransaction

ReconStep == \/ observer \in {"reconciler", "report"} /\ EngineStep
             \/ observer = "report" /\ ReportStep

Next ==
  \/ LedgerStep
  \/ ClientStep /\ UNCHANGED <<auditVars, reconVars, observer>>
  \/ observer = "auditor" /\ (AuditStep \/ Tamper) /\ UNCHANGED <<readVars, reconVars, observer>>
  \/ ReconStep /\ UNCHANGED <<readVars, auditVars, observer>>

Spec == Init /\ [][Next]_vars

\* The ticker of the consistency loop goes on.
FairSpec == Spec /\ WF_vars(observer = "auditor" /\ AuditStep /\ UNCHANGED <<readVars, reconVars, observer>>)

-----------------------------------------------------------------------------
\* The balance the posting path maintains is the one the journal gives, also of
\* an account that was sharded in the middle of its history.
BalancesAgree ==
  OnReplica = Committed /\ tampered = 0 =>
    \A a \in Account : GetBalance(a).available = GetBalanceAsOf(a, Max(Instant))

\* One check that fails does not silence the others: in the end the gauges show
\* what the tables hold, an alarm for what is wrong and none for what was put
\* right again.
AlarmsFollowTheTables == <>[](observer = "auditor" => gauge = Truth)
=============================================================================
