---------------------------- MODULE MCIdempotency ----------------------------
(***************************************************************************)
(* Instances of Idempotency for TLC.                                       *)
(***************************************************************************)
EXTENDS Idempotency, TLC

CONSTANTS p1, p2, k1, b1, b2, bad

Req(p, route, target, body) ==
  [principal |-> p, key |-> k1, route |-> route, target |-> target, body |-> body]

\* One client that uses its key for two different bodies, one of them refused.
OneClient == {Req(p1, "post", None, b1), Req(p1, "post", None, b2),
              Req(p1, "post", None, bad)}

\* One client that uses its key for a post and for a reversal.
PostAndReversal == {Req(p1, "post", None, b1), Req(p1, "reverse", "t1", b2)}

\* One client that reverses a transaction.
OneReversal == {Req(p1, "reverse", "t1", b1)}

\* Two clients and one key, for a post and for two reversals.
TtlRequests == {Req(p1, "post", None, b1), Req(p1, "reverse", "t1", b1),
                Req(p2, "reverse", "t1", b1)}

\* Two clients that happen to use the same key.
TwoClients == {Req(p1, "post", None, b1), Req(p2, "post", None, b1)}

OneRequest == {Req(p1, "post", None, b1)}

BadBodies == {bad}

Symmetry == Permutations(Handler) \cup Permutations(TxId)
=============================================================================
