-------------------------- MODULE Idempotency_proofs --------------------------
(***************************************************************************)
(* For every number of requests, keys and users: the handler is called     *)
(* once for a key, and a replay gives the user the response of a request   *)
(* of theirs that took effect.  The argument: a record is inserted only    *)
(* where there is none and never removed, so the first request handled     *)
(* under a key keeps every other one out; and only that request, once      *)
(* settled, writes its response into the record.                           *)
(***************************************************************************)
EXTENDS Idempotency, TLAPS

\* A request of the key whose record is rec that took effect.
Response(k, rec, q) == q \in settled /\ Key(q) = k /\ User(q) = rec.user

\* What keeps HandledOncePerKey and ReplaysAreGenuine.
RecordInv ==
  /\ \A r \in Requests : pc[r] \in {"handle", "reply"} => r \in handled
  /\ \A r \in Requests : pc[r] = "insert" => Key(r) # None
  /\ \A r \in Requests : pc[r] = "reply" => r \in settled
  /\ \A r \in handled : Key(r) # None => records[Key(r)] # None
  /\ \A r \in updating : Key(r) # None
  /\ \A k \in Keys : records[k] # None /\ records[k].status = "COMPLETED" =>
       Response(k, records[k], records[k].response)

IInv == TypeOK /\ RecordInv /\ HandledOncePerKey /\ ReplaysAreGenuine

LEMMA ContentOf ==
  ASSUME TypeOK, NEW r \in Requests
  PROVE  /\ Key(r) \in Keys \cup {None}
         /\ User(r) \in Users
         /\ content[r].body \in Bodies
  BY IdempotencyAssumption DEF TypeOK, Content, Key, User

LEMMA CompletedRecord ==
  ASSUME NEW rec \in RecordType, NEW r \in Requests
  PROVE  /\ Completed(rec, r) \in RecordType
         /\ Completed(rec, r).user = rec.user
         /\ Completed(rec, r).response = r
         /\ rec.status = "COMPLETED" /\ rec.response = r => Completed(rec, r) = rec
  BY DEF RecordType, Completed

LEMMA InitInv == Init => IInv
  BY IdempotencyAssumption
  DEF Init, IInv, TypeOK, Active, RecordInv, HandledOncePerKey, ReplaysAreGenuine

\* Every variable keeps its type; what settles was handled, and what is being
\* completed has settled.
LEMMA TypeStep ==
  ASSUME IInv, [Next]_vars
  PROVE  TypeOK'
PROOF
<1> USE IdempotencyAssumption DEF IInv, TypeOK, Active, Ended, Goto
<1>1. ASSUME NEW r \in Requests, PassThrough(r) PROVE TypeOK'
  BY <1>1 DEF PassThrough
<1>2. ASSUME NEW r \in Requests, Replay(r) PROVE TypeOK'
  <2>1. records[Key(r)] \in RecordType
    BY <1>2, ContentOf DEF Replay, Found
  <2>2. records[Key(r)].response \in Requests \cup {None}
    BY <2>1 DEF RecordType
  <2> QED BY <1>2, <2>2 DEF Replay
<1>3. ASSUME NEW r \in Requests, Conflict(r) PROVE TypeOK'
  BY <1>3 DEF Conflict
<1>4. ASSUME NEW r \in Requests, Miss(r) PROVE TypeOK'
  BY <1>4 DEF Miss
<1>5. ASSUME NEW r \in Requests, Insert(r) PROVE TypeOK'
  <2>1. Record(r, "PROCESSING", None) \in RecordType
    BY ContentOf DEF Record, RecordType
  <2>2. records' \in [Keys -> RecordType \cup {None}]
    BY <1>5, <2>1 DEF Insert
  <2> QED BY <1>5, <2>2 DEF Insert
<1>6. ASSUME NEW r \in Requests, Duplicate(r) PROVE TypeOK'
  BY <1>6 DEF Duplicate
<1>7. ASSUME NEW r \in Requests, Settle(r) PROVE TypeOK'
  BY <1>7 DEF Settle, RecordInv
<1>8. ASSUME NEW r \in Requests, Decline(r) \/ Fail(r) \/ FailAndLeak(r) PROVE TypeOK'
  BY <1>8 DEF Decline, Fail, FailAndLeak, RecordInv
<1>9. ASSUME NEW r \in Requests, Answer(r) PROVE TypeOK'
  BY <1>9 DEF Answer, RecordInv
<1>10. ASSUME NEW r \in Requests, Complete(r) PROVE TypeOK'
  <2>1. CASE Found(r)
    <3>1. Key(r) \in Keys /\ records[Key(r)] \in RecordType
      BY <2>1, ContentOf DEF Found
    <3>2. Completed(records[Key(r)], r) \in RecordType
      BY <3>1, CompletedRecord
    <3>3. records' \in [Keys -> RecordType \cup {None}]
      BY <1>10, <2>1, <3>1, <3>2 DEF Complete
    <3> QED BY <1>10, <3>3 DEF Complete
  <2>2. CASE ~Found(r)
    BY <1>10, <2>2 DEF Complete
  <2> QED BY <2>1, <2>2
<1>11. ASSUME NEW r \in Requests, Fault(r) PROVE TypeOK'
  BY <1>11 DEF Fault
<1>12. CASE Crash
  BY <1>12 DEF Crash
<1>13. CASE UNCHANGED vars
  BY <1>13 DEF vars
<1> QED
  BY <1>1, <1>2, <1>3, <1>4, <1>5, <1>6, <1>7, <1>8, <1>9, <1>10, <1>11, <1>12, <1>13
  DEF Next, Intercept, Handle, Terminating

\* Only an insert and a completion change a record.
LEMMA RecordStep ==
  ASSUME IInv, [Next]_vars, TypeOK'
  PROVE  RecordInv'
PROOF
<1> USE IdempotencyAssumption DEF IInv, TypeOK, Active, Ended, Goto, Key, User, RecordInv, Response
<1>1. ASSUME NEW r \in Requests, PassThrough(r) PROVE RecordInv'
  BY <1>1 DEF PassThrough
<1>2. ASSUME NEW r \in Requests, Replay(r) PROVE RecordInv'
  BY <1>2 DEF Replay
<1>3. ASSUME NEW r \in Requests, Conflict(r) PROVE RecordInv'
  BY <1>3 DEF Conflict
<1>4. ASSUME NEW r \in Requests, Miss(r) PROVE RecordInv'
  BY <1>4 DEF Miss
<1>5. ASSUME NEW r \in Requests, Insert(r) PROVE RecordInv'
  <2>1. Key(r) \in Keys
    BY <1>5, ContentOf DEF Insert
  <2>2. records'[Key(r)] = Record(r, "PROCESSING", None)
    BY <1>5, <2>1 DEF Insert
  <2>3. records'[Key(r)] \in RecordType /\ records'[Key(r)].status = "PROCESSING"
    BY <2>2, ContentOf DEF Record, RecordType
  <2>4. \A k \in Keys : k # Key(r) => records'[k] = records[k]
    BY <1>5 DEF Insert
  <2>5. records'[Key(r)] # None
    BY <2>3
  <2>6. \A q \in handled' : Key(q)' # None => records'[Key(q)'] # None
    BY <1>5, <2>4, <2>5, ContentOf DEF Insert
  <2>7. \A k \in Keys : (records[k] # None /\ records[k].status = "COMPLETED")' =>
          Response(k, records[k], records[k].response)'
    BY <1>5, <2>3, <2>4 DEF Insert
  <2> QED BY <1>5, <2>6, <2>7 DEF Insert
<1>6. ASSUME NEW r \in Requests, Duplicate(r) PROVE RecordInv'
  BY <1>6 DEF Duplicate
<1>7. ASSUME NEW r \in Requests, Settle(r) PROVE RecordInv'
  BY <1>7 DEF Settle
<1>8. ASSUME NEW r \in Requests, Decline(r) \/ Fail(r) \/ FailAndLeak(r) PROVE RecordInv'
  BY <1>8 DEF Decline, Fail, FailAndLeak
<1>9. ASSUME NEW r \in Requests, Answer(r) PROVE RecordInv'
  BY <1>9 DEF Answer
<1>10. ASSUME NEW r \in Requests, Complete(r) PROVE RecordInv'
  <2>1. CASE Found(r)
    <3>1. Key(r) \in Keys /\ records[Key(r)] \in RecordType
      BY <2>1, ContentOf DEF Found
    <3>2. records'[Key(r)] = Completed(records[Key(r)], r)
      BY <1>10, <2>1, <3>1 DEF Complete
    <3>3. /\ records'[Key(r)] \in RecordType
           /\ records'[Key(r)].user = User(r)
           /\ records'[Key(r)].response = r
      BY <2>1, <3>1, <3>2, CompletedRecord DEF Found
    <3>4. \A k \in Keys : k # Key(r) => records'[k] = records[k]
      BY <1>10, <2>1 DEF Complete
    <3>5. \A q \in handled' : Key(q)' # None => records'[Key(q)'] # None
      BY <1>10, <3>3, <3>4, ContentOf DEF Complete
    <3>6. \A k \in Keys : (records[k] # None /\ records[k].status = "COMPLETED")' =>
            Response(k, records[k], records[k].response)'
      BY <1>10, <3>3, <3>4 DEF Complete
    <3> QED BY <1>10, <3>5, <3>6 DEF Complete
  <2>2. CASE ~Found(r)
    BY <1>10, <2>2 DEF Complete
  <2> QED BY <2>1, <2>2
<1>11. ASSUME NEW r \in Requests, Fault(r) PROVE RecordInv'
  BY <1>11 DEF Fault
<1>12. CASE Crash
  BY <1>12 DEF Crash
<1>13. CASE UNCHANGED vars
  BY <1>13 DEF vars
<1> QED
  BY <1>1, <1>2, <1>3, <1>4, <1>5, <1>6, <1>7, <1>8, <1>9, <1>10, <1>11, <1>12, <1>13
  DEF Next, Intercept, Handle, Terminating

\* A handler is called without a key, or where no record shut the others out.
LEMMA HandledStep ==
  ASSUME IInv, [Next]_vars
  PROVE  HandledOncePerKey'
PROOF
<1> USE DEF IInv, RecordInv, HandledOncePerKey, SameKey, Key
<1>1. content' = content
  BY DEF Next, vars, Intercept, Handle, Terminating, PassThrough, Replay, Conflict, Miss,
         Insert, Duplicate, Settle, Decline, Fail, FailAndLeak, Answer, Complete, Fault, Crash
<1>2. ASSUME NEW r \in Requests, PassThrough(r) PROVE HandledOncePerKey'
  BY <1>1, <1>2 DEF PassThrough
<1>3. ASSUME NEW r \in Requests, Insert(r) PROVE HandledOncePerKey'
  BY <1>1, <1>3 DEF Insert
<1>4. CASE handled' = handled
  BY <1>1, <1>4
<1> QED
  BY <1>2, <1>3, <1>4
  DEF Next, vars, Intercept, Handle, Terminating, Replay, Conflict, Miss,
      Duplicate, Settle, Decline, Fail, FailAndLeak, Answer, Complete, Fault, Crash

\* A replay takes the response that RecordInv describes.
LEMMA ReplayStep ==
  ASSUME IInv, [Next]_vars
  PROVE  ReplaysAreGenuine'
PROOF
<1> USE DEF IInv, ReplaysAreGenuine, SameKey, Key, User
<1>1. ASSUME NEW r \in Requests, Replay(r) PROVE ReplaysAreGenuine'
  <2>1. Response(Key(r), records[Key(r)], records[Key(r)].response)
    BY <1>1, ContentOf DEF Replay, Found, RecordInv
  <2> QED BY <1>1, <2>1 DEF Replay, Found, Response, TypeOK, Goto
<1>2. CASE /\ settled \subseteq settled'
           /\ UNCHANGED <<content, answer>>
           /\ \A r \in Requests : pc'[r] = "replayed" => pc[r] = "replayed"
  BY <1>2
<1> QED
  BY <1>1, <1>2
  DEF Next, vars, TypeOK, Goto, Intercept, Handle, Terminating, PassThrough, Conflict, Miss,
      Insert, Duplicate, Settle, Decline, Fail, FailAndLeak, Answer, Complete, Fault, Crash

\* A record is written again only by the request whose response it holds.
LEMMA FinalStep ==
  ASSUME IInv, [Next]_vars, NEW k \in Keys, records[k] # None, records[k].status = "COMPLETED"
  PROVE  records'[k] = records[k]
PROOF
<1> USE DEF IInv, Key
<1>1. ASSUME NEW r \in Requests, Insert(r) PROVE records'[k] = records[k]
  BY <1>1 DEF Insert, TypeOK
<1>2. ASSUME NEW r \in Requests, Complete(r) PROVE records'[k] = records[k]
  <2>1. CASE Found(r) /\ Key(r) = k
    <3>1. records[k] \in RecordType
      BY DEF TypeOK
    <3>2. Response(k, records[k], records[k].response)
      BY DEF RecordInv
    <3>3. r \in handled /\ records[k].response \in handled
      BY <1>2, <3>2 DEF Complete, TypeOK, Response
    <3>4. SameKey(r, records[k].response)
      BY <2>1, <3>2 DEF Response, SameKey, Found
    <3>5. records[k].response = r
      BY <3>3, <3>4 DEF HandledOncePerKey
    <3>6. Completed(records[k], r) = records[k]
      BY <3>1, <3>5, CompletedRecord
    <3>7. records'[k] = Completed(records[k], r)
      BY <1>2, <2>1 DEF Complete, TypeOK
    <3> QED BY <3>6, <3>7
  <2>2. CASE ~(Found(r) /\ Key(r) = k)
    BY <1>2, <2>2 DEF Complete, TypeOK
  <2> QED BY <2>1, <2>2
<1>3. CASE records' = records
  BY <1>3
<1> QED
  BY <1>1, <1>2, <1>3
  DEF Next, vars, Intercept, Handle, Terminating, PassThrough, Replay, Conflict, Miss,
      Duplicate, Settle, Decline, Fail, FailAndLeak, Answer, Fault, Crash

LEMMA Inductive == IInv /\ [Next]_vars => IInv'
  BY TypeStep, RecordStep, HandledStep, ReplayStep DEF IInv

LEMMA Invariance == Spec => []IInv
  BY InitInv, Inductive, PTL DEF Spec

\* Whatever the requests of a key do, its handler is called at most once.
THEOREM HandledOnce == Spec => []HandledOncePerKey
<1>1. IInv => HandledOncePerKey
  BY DEF IInv
<1> QED BY <1>1, Invariance, PTL

\* A replay never shows the response of another user, of another key or of a
\* request without effect.
THEOREM GenuineReplays == Spec => []ReplaysAreGenuine
<1>1. IInv => ReplaysAreGenuine
  BY DEF IInv
<1> QED BY <1>1, Invariance, PTL

\* Once a key replays a response, it replays that response forever.
THEOREM FinalResponses == Spec => CompletedIsFinal
<1>1. IInv /\ [Next]_vars =>
        [\A k \in Keys :
           records[k] # None /\ records[k].status = "COMPLETED" => records'[k] = records[k]]_vars
  BY FinalStep
<1> QED BY <1>1, Invariance, PTL DEF Spec, CompletedIsFinal

\* Every variable keeps its type.
THEOREM RecordsTyped == Spec => []TypeOK
<1>1. IInv => TypeOK
  BY DEF IInv
<1> QED BY <1>1, Invariance, PTL
-----------------------------------------------------------------------------
(* Refinement *)

\* What was replayed, and who has taken effect: a settled request is on its way
\* to its answer, was answered, or is in doubt.
AnswerInv ==
  /\ \A r \in settled : pc[r] \in {"reply", "answered", "failed", "crashed"}
  /\ \A r \in Requests : pc[r] = "answered" => r \in settled

LEMMA AnswerStep ==
  ASSUME IInv, AnswerInv, [Next]_vars
  PROVE  AnswerInv'
<1> USE DEF IInv, TypeOK, RecordInv, AnswerInv, Goto, Active
<1>1. ASSUME NEW r \in Requests, Intercept(r) \/ Handle(r) \/ Answer(r) PROVE AnswerInv'
  BY <1>1 DEF Intercept, Handle, PassThrough, Replay, Conflict, Miss, Insert, Duplicate,
     Settle, Decline, Fail, FailAndLeak, Answer
<1>2. ASSUME NEW r \in Requests, Complete(r) \/ Fault(r) PROVE AnswerInv'
  BY <1>2 DEF Complete, Fault
<1>3. CASE Crash \/ UNCHANGED vars
  BY <1>3 DEF Crash, vars
<1> QED
  BY <1>1, <1>2, <1>3 DEF Next, Terminating

LEMMA AnswerInvariant == Spec => []AnswerInv
<1>1. Init => AnswerInv
  BY DEF Init, AnswerInv
<1> QED
  BY <1>1, AnswerStep, Invariance, PTL DEF Spec

LEMMA StepRefines ==
  ASSUME IInv, AnswerInv, [Next]_vars
  PROVE  [Retry!Next]_(Retry!vars)
<1> DEFINE told == [r \in Requests |-> Told(r)]
<1> USE DEF IInv, TypeOK, Goto, Active, Retry!vars, Told
<1>1. content' = content
  BY DEF Next, vars, Intercept, Handle, Terminating, PassThrough, Replay, Conflict, Miss,
         Insert, Duplicate, Settle, Decline, Fail, FailAndLeak, Answer, Complete, Fault, Crash
<1>2. UNCHANGED <<[r \in Requests |-> Key(r)], [r \in Requests |-> User(r)]>>
  BY <1>1 DEF Key, User
<1>3. ASSUME NEW r \in Requests, PassThrough(r) \/ Miss(r) \/ Insert(r)
      PROVE  [Retry!Next]_(Retry!vars)
  <2>1. settled' = settled /\ answer' = answer
    BY <1>3 DEF PassThrough, Miss, Insert
  <2>2. told' = told
    BY <1>3, <2>1 DEF PassThrough, Miss, Insert
  <2> QED BY <1>2, <2>1, <2>2
<1>4. ASSUME NEW r \in Requests, Complete(r)
      PROVE  [Retry!Next]_(Retry!vars)
  BY <1>2, <1>4 DEF Complete
<1>5. ASSUME NEW r \in Requests, Settle(r)
      PROVE  Retry!Settle(r)
  <2>1. told[r] = Retry!Nothing /\ r \notin settled
    BY <1>5 DEF Settle, AnswerInv, Retry!Nothing
  <2>2. told' \in {told, [told EXCEPT ![r] = Retry!Doubt]}
    BY <1>5 DEF Settle, Retry!Doubt
  <2> QED BY <1>2, <1>5, <2>1, <2>2 DEF Settle, Retry!Settle, Retry!SameKey, SameKey
<1>6. ASSUME NEW r \in Requests, Answer(r)
      PROVE  Retry!Respond(r, r)
  <2>1. told[r] = Retry!Nothing /\ r \in settled
    BY <1>6 DEF Answer, RecordInv, Retry!Nothing
  <2>2. told' = [told EXCEPT ![r] = Retry!Response(r)]
    BY <1>6 DEF Answer, Retry!Response
  <2> QED BY <1>2, <1>6, <2>1, <2>2 DEF Answer, Retry!Respond
<1>7. ASSUME NEW r \in Requests, Replay(r)
      PROVE  \E s \in Requests : Retry!Respond(r, s)
  <2>1. Key(r) \in Keys /\ records[Key(r)].user = User(r)
        /\ Response(Key(r), records[Key(r)], records[Key(r)].response)
    BY <1>7, ContentOf DEF Replay, Found, RecordInv
  <2>2. PICK s \in Requests : s = records[Key(r)].response
                          /\ s \in settled /\ Key(s) = Key(r) /\ User(s) = User(r)
    BY <2>1 DEF Response
  <2>3. told[r] = Retry!Nothing
    BY <1>7 DEF Replay, Retry!Nothing
  <2>4. answer'[r] = s
    BY <1>7, <2>2 DEF Replay
  <2>5. told' = [told EXCEPT ![r] = Retry!Response(s)]
    BY <1>7, <2>4 DEF Replay, Retry!Response
  <2>6. Key(r) # None
    BY <1>7 DEF Replay, Found
  <2>7. Retry!Respond(r, s)
    BY <1>2, <1>7, <2>2, <2>3, <2>5, <2>6 DEF Replay, Retry!Respond, Retry!SameKey
  <2> QED BY <2>7
<1>8. ASSUME NEW r \in Requests, Conflict(r) \/ Decline(r)
      PROVE  Retry!Decline(r)
  <2>1. told[r] = Retry!Nothing /\ r \notin settled
    BY <1>8 DEF Conflict, Decline, AnswerInv, Retry!Nothing
  <2>2. told' = [told EXCEPT ![r] = Retry!Declined]
    BY <1>8 DEF Conflict, Decline, Retry!Declined
  <2> QED BY <1>2, <1>8, <2>1, <2>2 DEF Conflict, Decline, Retry!Decline
<1>9. ASSUME NEW r \in Requests, Duplicate(r) \/ Fail(r) \/ FailAndLeak(r) \/ Fault(r)
      PROVE  Retry!LeaveInDoubt({r})
  <2>1. told[r] = Retry!Nothing
    BY <1>9 DEF Duplicate, Fail, FailAndLeak, Fault, Retry!Nothing
  <2>2. told' = [q \in Requests |-> IF q \in {r} THEN Retry!Doubt ELSE told[q]]
    BY <1>9 DEF Duplicate, Fail, FailAndLeak, Fault, Retry!Doubt
  <2> QED BY <1>2, <1>9, <2>1, <2>2 DEF Duplicate, Fail, FailAndLeak, Fault, Retry!LeaveInDoubt
<1>10. CASE Crash
  <2>1. PICK R \in SUBSET Requests : R = {r \in Requests : pc[r] \in Active \ {"start"}}
    OBVIOUS
  <2>2. \A r \in R : told[r] = Retry!Nothing
    BY <2>1 DEF Retry!Nothing
  <2>3. told' = [r \in Requests |-> IF r \in R THEN Retry!Doubt ELSE told[r]]
    BY <1>10, <2>1 DEF Crash, Retry!Doubt
  <2>4. Retry!LeaveInDoubt(R)
    BY <1>2, <1>10, <2>2, <2>3 DEF Crash, Retry!LeaveInDoubt
  <2> QED BY <2>4 DEF Retry!Next
<1>11. CASE UNCHANGED vars
  BY <1>11 DEF vars, Key, User
<1> QED
  BY <1>3, <1>4, <1>5, <1>6, <1>7, <1>8, <1>9, <1>10, <1>11
  DEF Next, Intercept, Handle, Terminating, Retry!Next

\* For every number of requests, keys and users: the interceptor with the handlers
\* implements SafeRetry.
THEOREM RetriesAreSafe == Spec => ImplementsSafeRetry
<1>1. Init => Retry!Init
  BY IdempotencyAssumption
  DEF Init, Retry!Init, Retry!Nothing, Told, Active, Key, User, Content
<1> QED
  BY <1>1, StepRefines, Invariance, AnswerInvariant, PTL
  DEF Spec, ImplementsSafeRetry, Retry!Spec
=============================================================================
