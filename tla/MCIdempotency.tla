---------------------------- MODULE MCIdempotency ----------------------------
(* Small instances of Idempotency for TLC. *)
EXTENDS Idempotency, TLC

CONSTANTS k1, ada, bob, fund, trade

\* A first request, its retry, the same key with another body, the same key
\* chosen by another user, and a request without a key.
MCWork ==
  {[key |-> k1, user |-> ada, body |-> fund],
   [key |-> k1, user |-> ada, body |-> trade],
   [key |-> k1, user |-> bob, body |-> fund],
   [key |-> None, user |-> ada, body |-> fund]}

Symmetry == Permutations(Requests)
=============================================================================
