-------------------------- MODULE IdempotencyClaims --------------------------
(***************************************************************************)
(* What the documents say of the Idempotency-Key and the code does not do. *)
(***************************************************************************)
EXTENDS MCIdempotency

\* SYSTEM_DESIGN.md, "Request Integrity": a key reused with a different payload
\* is detected and the cached response is not returned.
ConflictsAreDetected ==
  \A r \in Requests :
    pc[r] = "replayed" => content[answer[r]].body = content[r].body

\* SYSTEM_DESIGN.md, the flow chart: on a failure the record is deleted, and the
\* client may retry.
FailureAllowsRetry ==
  \A r \in Requests :
    pc[r] \in {"declined", "failed"} /\ r \notin settled ~> (Key(r) \in Keys => records[Key(r)] = None)
=============================================================================
