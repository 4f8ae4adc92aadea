----------------------------- MODULE Projection -----------------------------
(***************************************************************************)
(* What the read side promises, with no outbox, topics, offsets or         *)
(* redelivery: the balance it shows for an account is the newest one among *)
(* the facts it has seen, in whatever order it saw them.  EventPipeline    *)
(* implements this specification.                                          *)
(***************************************************************************)
EXTENDS Integers

CONSTANT Account

VARIABLES facts,      \* what the write side has committed
          seen,       \* the facts the read side has applied
          view        \* the balance row it shows for each account

projectionVars == <<facts, seen, view>>

Unseen == [available |-> 0, version |-> 0]

\* v shows, for every account, the newest balance that the facts of S report.
IsNewest(v, S) ==
  \A a \in Account :
    /\ \A e \in S : a \in DOMAIN e.balances => e.balances[a].version <= v[a].version
    /\ \/ v[a] = Unseen
       \/ \E e \in S : a \in DOMAIN e.balances /\ v[a] = e.balances[a]

ProjectionInit == /\ facts = {}
                  /\ seen = {}
                  /\ view = [a \in Account |-> Unseen]

Happen == /\ facts \subseteq facts'
          /\ UNCHANGED <<seen, view>>

Show == /\ \E e \in facts \ seen : seen' = seen \cup {e}
        /\ IsNewest(view', seen')
        /\ UNCHANGED facts

ProjectionNext == Happen \/ Show

ProjectionSpec == ProjectionInit /\ [][ProjectionNext]_projectionVars
=============================================================================
