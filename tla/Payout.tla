------------------------------- MODULE Payout -------------------------------
(***************************************************************************)
(* What a payout saga promises, with no orchestrators, leases, retries or  *)
(* audit rows: each payout goes through its phases once, never backwards,  *)
(* and the money moves in the same step as the phase.  PayoutSaga          *)
(* implements this specification.                                          *)
(***************************************************************************)
EXTENDS Integers

CONSTANTS Saga, Amount

VARIABLES phase,      \* where each payout is
          hold,       \* the total reserved for payouts that are not finished
          moves       \* the ledger transactions made for payouts: <<saga, step>>

payoutVars == <<phase, hold, moves>>

PayoutInit == /\ phase = [s \in Saga |-> "none"]
              /\ hold = 0
              /\ moves = {}

Go(s, from, to) == /\ phase[s] \in from
                   /\ phase' = [phase EXCEPT ![s] = to]

Begin(s) == Go(s, {"none"}, "started") /\ UNCHANGED <<hold, moves>>

\* Nothing has moved and nothing will.
Reject(s) == Go(s, {"started"}, "rejected") /\ UNCHANGED <<hold, moves>>

Hold(s) == /\ Go(s, {"started"}, "held")
           /\ hold' = hold + Amount[s]
           /\ moves' = moves \cup {<<s, "RESERVE">>}

\* The gateway's verdict, which for a settlement that cannot be posted is
\* overturned.
Confirm(s) == Go(s, {"held"}, "confirmed") /\ UNCHANGED <<hold, moves>>
Refuse(s) == Go(s, {"held", "confirmed"}, "refused") /\ UNCHANGED <<hold, moves>>

Settle(s) == /\ Go(s, {"confirmed"}, "settled")
             /\ hold' = hold - Amount[s]
             /\ moves' = moves \cup {<<s, "SETTLE">>}

Return(s) == /\ Go(s, {"refused"}, "returned")
             /\ hold' = hold - Amount[s]
             /\ UNCHANGED moves

\* A person decides, with the money still held.
Park(s) == Go(s, {"held", "refused"}, "parked") /\ UNCHANGED <<hold, moves>>

PayoutNext == \E s \in Saga : \/ Begin(s) \/ Reject(s) \/ Hold(s) \/ Confirm(s)
                              \/ Refuse(s) \/ Settle(s) \/ Return(s) \/ Park(s)

PayoutSpec == PayoutInit /\ [][PayoutNext]_payoutVars
=============================================================================
