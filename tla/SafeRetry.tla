------------------------------ MODULE SafeRetry ------------------------------
(***************************************************************************)
(* What a client that repeats requests under an idempotency key may rely   *)
(* on, told in terms of effects and answers alone.  A key takes effect     *)
(* once.  A response tells of an effect under the same key, of the same    *)
(* user.  A request that was declined had no effect, and whatever a        *)
(* request was answered, it takes no effect afterwards: the only answer    *)
(* that leaves its effect open is a 500, or none.                          *)
(***************************************************************************)
CONSTANTS Requests, Users, Keys, None

VARIABLES
  key,       \* [Requests -> Keys \cup {None}], never changed
  user,      \* [Requests -> Users], never changed
  settled,   \* the requests that took effect
  told       \* the answer each request was given

vars == <<key, user, settled, told>>

Nothing     == [kind |-> "nothing", from |-> None]
Declined    == [kind |-> "declined", from |-> None]
Doubt       == [kind |-> "doubt", from |-> None]
Response(s) == [kind |-> "response", from |-> s]

SameKey(r, q) == key[r] # None /\ key[q] = key[r]

Init ==
  /\ key \in [Requests -> Keys \cup {None}]
  /\ user \in [Requests -> Users]
  /\ settled = {}
  /\ told = [r \in Requests |-> Nothing]

\* r takes effect; its answer may be lost in the same moment.
Settle(r) ==
  /\ told[r] = Nothing
  /\ r \notin settled
  /\ \A q \in settled : ~SameKey(r, q)
  /\ settled' = settled \cup {r}
  /\ told' \in {told, [told EXCEPT ![r] = Doubt]}
  /\ UNCHANGED <<key, user>>

Respond(r, s) ==
  /\ told[r] = Nothing
  /\ s \in settled
  /\ s = r \/ (SameKey(r, s) /\ user[s] = user[r])
  /\ told' = [told EXCEPT ![r] = Response(s)]
  /\ UNCHANGED <<key, user, settled>>

Decline(r) ==
  /\ told[r] = Nothing
  /\ r \notin settled
  /\ told' = [told EXCEPT ![r] = Declined]
  /\ UNCHANGED <<key, user, settled>>

\* An internal error, or the end of the process under the requests R.
LeaveInDoubt(R) ==
  /\ \A r \in R : told[r] = Nothing
  /\ told' = [r \in Requests |-> IF r \in R THEN Doubt ELSE told[r]]
  /\ UNCHANGED <<key, user, settled>>

Next ==
  \/ \E r \in Requests : Settle(r) \/ Decline(r) \/ \E s \in Requests : Respond(r, s)
  \/ \E R \in SUBSET Requests : LeaveInDoubt(R)

Spec == Init /\ [][Next]_vars
=============================================================================
