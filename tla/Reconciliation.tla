--------------------------- MODULE Reconciliation ---------------------------
(***************************************************************************)
(* The reconciliation engine: it reads the settlement file of the payment  *)
(* service provider (PSP), matches it with the ledger, classifies every    *)
(* reference, and records a run and its exceptions in statements of their  *)
(* own, any of which may fail, or succeed and be reported as failed.       *)
(* Reports are read while that happens.                                    *)
(***************************************************************************)
EXTENDS History

CONSTANTS Ref,            \* external references
          RefOf,          \* the reference a client gives a transaction: TxId -> Ref
          File,           \* the settlement files: sequences of rows
          Run,            \* ids of reconciliation runs
          TimingWindow, Lookback,
          MaxRunFaults    \* failed statements and crashes

VARIABLES runs,           \* reconciliation_runs
          exceptions,     \* reconciliation_exceptions
          engine,         \* Engine.Run between two statements
          report,         \* a report between its queries
          runFaults,
          verdicts        \* what a run's match should say, for the properties

reconVars == <<runs, exceptions, engine, report, runFaults, verdicts>>

NoRun == [status |-> "NONE", matched |-> 0, autoResolved |-> 0, exceptionCount |-> 0]
Resting == [at |-> "idle"]
Missing == [present |-> FALSE]
NoVerdict == [ref \in Ref |-> [due |-> {{}}, named |-> FALSE, old |-> FALSE]]

ReconInit == /\ runs = [r \in Run |-> NoRun]
             /\ exceptions = {}
             /\ engine = Resting
             /\ report = Resting
             /\ runFaults = 0
             /\ verdicts = [r \in Run |-> NoVerdict]

-----------------------------------------------------------------------------
(* The settlement file                                                     *)

\* parsePSPRow: the status is upper-cased before it is looked up.
ValidStatus == {"SETTLED", "FAILED", "REFUNDED", "PENDING"}
ValidRow(row) == /\ row.ref \in Ref
                 /\ row.status \in ValidStatus
                 /\ row.amount > 0
                 /\ row.currency \in Currency

\* ParsePSPStatement: one bad row fails the file, and so does having none.
Parsed(file) == file # <<>> /\ \A i \in DOMAIN file : ValidRow(file[i])

-----------------------------------------------------------------------------
(* Match                                                                   *)

\* psp_agg: the most recently settled row of a reference, and how many it has.
PspSide(file, ref) ==
  LET rows == {i \in DOMAIN file : file[i].ref = ref}
  IN IF rows = {} THEN Missing
     ELSE LET i == CHOOSE i \in rows : \A j \in rows : file[j].settled <= file[i].settled
          IN [present |-> TRUE, amount |-> file[i].amount, currency |-> file[i].currency,
              status |-> file[i].status, settled |-> file[i].settled,
              rowCount |-> Cardinality(rows)]

\* A reversal's header has no reference.
Carriers(ref) == {x \in Committed : transactions[x].reverses = None /\ RefOf[x] = ref}

\* ledger_latest: of the reference's transactions created since then, one of
\* the newest.
LedgerSides(ref, since) ==
  LET xs == {x \in Carriers(ref) : began[x] >= since}
  IN IF xs = {} THEN {Missing}
     ELSE {[present |-> TRUE, tx |-> x, amount |-> Total(journal[x].debit),
            currency |-> journal[x].currency, status |-> transactions[x].status,
            posted |-> began[x]] : x \in {y \in xs : \A z \in xs : began[z] <= began[y]}}

\* One record per reference that either side has.
Matches(file, since) ==
  LET sides == [ref \in Ref |-> LedgerSides(ref, since)]
  IN {[ref \in Ref |-> [ledger |-> l[ref], psp |-> PspSide(file, ref)]] :
        l \in {f \in [Ref -> UNION {sides[ref] : ref \in Ref}] : \A ref \in Ref : f[ref] \in sides[ref]}}

Named(m) == {ref \in Ref : m[ref].ledger.present \/ m[ref].psp.present}

-----------------------------------------------------------------------------
(* classify                                                                *)

StatusesAgree(ledger, psp) ==
  CASE ledger = "POSTED" -> psp = "SETTLED"
    [] ledger = "REVERSED" -> psp \in {"REFUNDED", "FAILED"}
    [] ledger = "PENDING" -> psp = "PENDING"
    [] OTHER -> FALSE

Gap(l, p) == IF l.posted > p.settled THEN l.posted - p.settled ELSE p.settled - l.posted

\* MUTANT: the amount is compared before the rows are counted.
ClassifyAmountFirst(l, p) ==
  IF l.present /\ p.present /\ (l.amount # p.amount \/ l.currency # p.currency)
  THEN "AMOUNT_MISMATCH"
  ELSE IF p.present /\ p.rowCount > 1 THEN "DUPLICATE"
  ELSE IF ~p.present THEN "MISSING_IN_PSP"
  ELSE IF ~l.present THEN "MISSING_IN_LEDGER"
  ELSE IF ~StatusesAgree(l.status, p.status) THEN "STATUS_MISMATCH"
  ELSE IF Gap(l, p) = 0 THEN "CLEAN"
  ELSE "TIMING_DIFFERENCE"

\* The switch, in its order.  A PENDING transaction, which has no posted_at,
\* would be clean here; nothing writes one.
Classify(l, p) ==
  IF p.present /\ p.rowCount > 1 THEN "DUPLICATE"
  ELSE IF ~p.present THEN "MISSING_IN_PSP"
  ELSE IF ~l.present THEN "MISSING_IN_LEDGER"
  ELSE IF l.amount # p.amount \/ l.currency # p.currency THEN "AMOUNT_MISMATCH"
  ELSE IF ~StatusesAgree(l.status, p.status) THEN "STATUS_MISMATCH"
  ELSE IF Gap(l, p) = 0 THEN "CLEAN"
  ELSE "TIMING_DIFFERENCE"

\* The exceptions a run raises; one is closed on the spot.
Raised(r, m) ==
  {[run |-> r, ref |-> ref, category |-> Classify(m[ref].ledger, m[ref].psp),
    status |-> IF /\ Classify(m[ref].ledger, m[ref].psp) = "TIMING_DIFFERENCE"
                  /\ Gap(m[ref].ledger, m[ref].psp) <= TimingWindow
               THEN "AUTO_RESOLVED" ELSE "OPEN"] :
     ref \in {s \in Named(m) : Classify(m[s].ledger, m[s].psp) # "CLEAN"}}

-----------------------------------------------------------------------------
(* Engine.Run                                                              *)

RunFault == runFaults < MaxRunFaults /\ runFaults' = runFaults + 1

\* The loop opens and parses the file, and CreateRun inserts the run.  A file
\* that is not parsed, or an INSERT that fails, leaves nothing behind; one that
\* takes effect and is reported as failed leaves what EngineCrash would.
StartRun(r, file) ==
  /\ engine.at = "idle"
  /\ runs[r].status = "NONE" /\ \A s \in Run : s < r => runs[s].status # "NONE"
  /\ Parsed(file)
  /\ runs' = [runs EXCEPT ![r].status = "RUNNING"]
  /\ engine' = [at |-> "created", run |-> r, file |-> file, since |-> now - Lookback]
  /\ UNCHANGED <<historyVars, exceptions, report, runFaults, verdicts>>

(* The properties' own reading of the books at the match, from what the     *)
(* documentation says of the categories: the rows of the file and the      *)
(* latest transactions of a reference, however old (of two with the same   *)
(* created_at, either), and the first category that describes them.        *)
RowsOf(file, ref) == SelectSeq(file, LAMBDA row : row.ref = ref)
LatestOf(ref) == {x \in Carriers(ref) : \A y \in Carriers(ref) : began[y] <= began[x]}

Priority == <<"DUPLICATE", "MISSING_IN_PSP", "MISSING_IN_LEDGER", "AMOUNT_MISMATCH",
              "STATUS_MISMATCH", "TIMING_DIFFERENCE">>

SameFact == {<<"POSTED", "SETTLED">>, <<"REVERSED", "REFUNDED">>, <<"REVERSED", "FAILED">>}

Describes(category, rows, x) ==
  CASE category = "DUPLICATE" -> Len(rows) > 1
    [] category = "MISSING_IN_PSP" -> rows = <<>>
    [] category = "MISSING_IN_LEDGER" -> x = None
    [] category = "AMOUNT_MISMATCH" -> x # None /\ \E i \in DOMAIN rows :
         <<rows[i].amount, rows[i].currency>> # <<Total(journal[x].debit), journal[x].currency>>
    [] category = "STATUS_MISMATCH" -> x # None /\ \E i \in DOMAIN rows :
         <<transactions[x].status, rows[i].status>> \notin SameFact
    [] category = "TIMING_DIFFERENCE" -> x # None /\ \E i \in DOMAIN rows :
         rows[i].settled # began[x]

\* What should be raised: nothing, or one exception.
Due(rows, x) ==
  LET fitting == {i \in DOMAIN Priority : Describes(Priority[i], rows, x)}
      within == \A i \in DOMAIN rows : rows[i].settled - began[x] \in -TimingWindow..TimingWindow
      category == Priority[Min(fitting)]
  IN IF fitting = {} THEN {}
     ELSE {[category |-> category,
            status |-> IF category = "TIMING_DIFFERENCE" /\ within
                       THEN "AUTO_RESOLVED" ELSE "OPEN"]}

\* Only a reference that the file never mentions is looked for since then.
Verdict(file, since, ref) ==
  LET rows == RowsOf(file, ref)
      latest == LatestOf(ref)
      recent == \E x \in latest : began[x] >= since
      named == rows # <<>> \/ recent
  IN [due |-> IF named THEN {Due(rows, x) : x \in IF latest = {} THEN {None} ELSE latest}
              ELSE {{}},
      named |-> named,
      old |-> rows # <<>> /\ latest # {} /\ ~recent]

Match ==
  /\ engine.at = "created"
  /\ \E m \in Matches(engine.file, engine.since) :
       engine' = [at |-> "matched", run |-> engine.run, raised |-> Raised(engine.run, m),
                  matched |-> Cardinality(Named(m)) - Cardinality(Raised(engine.run, m))]
  /\ verdicts' = [verdicts EXCEPT ![engine.run] =
                    [ref \in Ref |-> Verdict(engine.file, engine.since, ref)]]
  /\ UNCHANGED <<historyVars, runs, exceptions, report, runFaults>>

MatchFails ==
  /\ engine.at = "created"
  /\ RunFault
  /\ engine' = [at |-> "failing", run |-> engine.run]
  /\ UNCHANGED <<historyVars, runs, exceptions, report, verdicts>>

\* SaveExceptions: one batch, which is one transaction.
SaveExceptions ==
  /\ engine.at = "matched"
  /\ exceptions' = exceptions \cup engine.raised
  /\ engine' = [engine EXCEPT !.at = "saved"]
  /\ UNCHANGED <<historyVars, runs, report, runFaults, verdicts>>

\* It fails, before or after it has taken effect.
SaveExceptionsFails ==
  /\ engine.at = "matched"
  /\ engine.raised # {}
  /\ RunFault
  /\ exceptions' \in {exceptions, exceptions \cup engine.raised}
  /\ engine' = [at |-> "failing", run |-> engine.run]
  /\ UNCHANGED <<historyVars, runs, report, verdicts>>

\* What FinishRun writes at the end and in fail.
Completed == [runs EXCEPT ![engine.run] =
                [status |-> "COMPLETED", matched |-> engine.matched,
                 autoResolved |-> Cardinality({e \in engine.raised : e.status = "AUTO_RESOLVED"}),
                 exceptionCount |-> Cardinality(engine.raised)]]
Failed == [runs EXCEPT ![engine.run] = [NoRun EXCEPT !.status = "FAILED"]]

\* FinishRun(COMPLETED).
FinishRun ==
  /\ engine.at = "saved"
  /\ runs' = Completed
  /\ engine' = Resting
  /\ UNCHANGED <<historyVars, exceptions, report, runFaults, verdicts>>

\* MUTANT: an early return like the others, through fail.
FinishRunFailsIsFailure ==
  /\ engine.at = "saved"
  /\ RunFault
  /\ runs' \in {runs, Completed}
  /\ engine' = [at |-> "failing", run |-> engine.run]
  /\ UNCHANGED <<historyVars, exceptions, report, verdicts>>

\* It fails, before or after it has taken effect, and Run returns: the one early
\* return that does not go through fail.
FinishRunFails ==
  /\ engine.at = "saved"
  /\ RunFault
  /\ runs' \in {runs, Completed}
  /\ engine' = Resting
  /\ UNCHANGED <<historyVars, exceptions, report, verdicts>>

\* fail: FinishRun(FAILED), whose own error is only logged.
Fail ==
  /\ engine.at = "failing"
  /\ \/ runs' = Failed /\ UNCHANGED runFaults
     \/ RunFault /\ runs' \in {runs, Failed}
  /\ engine' = Resting
  /\ UNCHANGED <<historyVars, exceptions, report, verdicts>>

\* The process dies and is started again.
EngineCrash ==
  /\ engine.at # "idle"
  /\ RunFault
  /\ engine' = Resting
  /\ UNCHANGED <<historyVars, runs, exceptions, report, verdicts>>

-----------------------------------------------------------------------------
(* GET /v1/reconciliation/runs/{id}                                        *)

ExceptionsOf(r) == {e \in exceptions : e.run = r}

\* The first query of GetRun.
ReadRun(r) ==
  /\ report.at = "idle"
  /\ runs[r].status # "NONE"
  /\ report' = [at |-> "run", run |-> r, row |-> runs[r]]
  /\ UNCHANGED <<historyVars, runs, exceptions, engine, runFaults, verdicts>>

\* MUTANT: the breakdown of every run.
ReadBreakdownAllRuns ==
  /\ report.at = "run"
  /\ report' = [at |-> "breakdown", run |-> report.run, row |-> report.row,
                byCategory |-> [c \in {e.category : e \in exceptions} |->
                                  Cardinality({e \in exceptions : e.category = c})]]
  /\ UNCHANGED <<historyVars, runs, exceptions, engine, runFaults, verdicts>>

\* categoryBreakdown.
ReadBreakdown ==
  /\ report.at = "run"
  /\ report' = [at |-> "breakdown", run |-> report.run, row |-> report.row,
                byCategory |-> [c \in {e.category : e \in ExceptionsOf(report.run)} |->
                                  Cardinality({e \in ExceptionsOf(report.run) : e.category = c})]]
  /\ UNCHANGED <<historyVars, runs, exceptions, engine, runFaults, verdicts>>

\* ListExceptions.
ReadExceptions ==
  /\ report.at = "breakdown"
  /\ report' = [at |-> "read", run |-> report.row,
                byCategory |-> MapThenSumSet(LAMBDA c : report.byCategory[c],
                                             DOMAIN report.byCategory),
                listed |-> Cardinality(ExceptionsOf(report.run))]
  /\ UNCHANGED <<historyVars, runs, exceptions, engine, runFaults, verdicts>>

-----------------------------------------------------------------------------
EngineStep ==
  \/ \E r \in Run, file \in File : StartRun(r, file)
  \/ Match \/ SaveExceptions \/ FinishRun \/ Fail
  \/ MatchFails \/ SaveExceptionsFails \/ FinishRunFails \/ EngineCrash

ReportStep == ReadBreakdown \/ ReadExceptions \/ \E r \in Run : ReadRun(r)

-----------------------------------------------------------------------------
(* Properties                                                              *)

Ended(row) == row.status \in {"COMPLETED", "FAILED"}

\* "Called exactly once per run": the UPDATE has no guard, and still no run that
\* has ended is written again, although an error may hide that it had succeeded.
RunEndsOnce == [][\A r \in Run : Ended(runs[r]) => runs'[r] = runs[r]]_reconVars

RaisedFor(r, ref) ==
  {[category |-> e.category, status |-> e.status] : e \in {f \in ExceptionsOf(r) : f.ref = ref}}

\* A completed run has raised for every reference the one category that its
\* documented priority gives, closed if it is a small timing difference and open
\* otherwise, and nothing for one on which the two sides agree: on the books as
\* they were when the match read them, whatever was posted, failed or restarted
\* since.  Its counts are those of the exceptions that were saved for it, and
\* every reference that the match named is in them.  References of the file that
\* only older transactions carry are left to EveryRowIsMatched.
RunTellsTruth ==
  \A r \in Run : runs[r].status = "COMPLETED" =>
    /\ \A ref \in Ref : ~verdicts[r][ref].old => RaisedFor(r, ref) \in verdicts[r][ref].due
    /\ runs[r].exceptionCount = Cardinality(ExceptionsOf(r))
    /\ runs[r].autoResolved = Cardinality({e \in ExceptionsOf(r) : e.status = "AUTO_RESOLVED"})
    /\ runs[r].matched + runs[r].exceptionCount
         = Cardinality({ref \in Ref : verdicts[r][ref].named})

\* "since bounds how far back ledger transactions are considered when looking for
\* a reference the PSP statement never mentions", and "every row the caller hands
\* in is matched": what a completed run says of a reference that the file does
\* mention does not depend on how old its transaction is.  The code breaks it:
\* ledger_latest has its lower bound on created_at for all references.
EveryRowIsMatched ==
  \A r \in Run, ref \in Ref :
    runs[r].status = "COMPLETED" /\ verdicts[r][ref].old =>
      RaisedFor(r, ref) \in verdicts[r][ref].due

\* A report of a completed run is whole: its breakdown and its list are those of
\* the counts, although they are read in statements of their own.
ReportAddsUp ==
  report.at = "read" /\ report.run.status = "COMPLETED" =>
    /\ report.listed = report.run.exceptionCount
    /\ report.byCategory = report.run.exceptionCount
=============================================================================
