----------------------------- MODULE Idempotency -----------------------------
(***************************************************************************)
(* IdempotencyInterceptor.intercept around the handlers of /wallet/fund,   *)
(* /wallet/trade and /wallet/convert: it looks up the Idempotency-Key of   *)
(* the user, replays or refuses a duplicate, inserts a PROCESSING record,  *)
(* runs the handler and marks the record COMPLETED with the response.      *)
(*                                                                         *)
(* The lookup and the insert are separate statements, the update runs      *)
(* beside the answer (tap with an async callback), nothing removes a       *)
(* record, and nothing reads its endpoint, requestHash or expiresAt.  A    *)
(* handler is abstracted to its effect, the committed transaction row,     *)
(* which carries the key too; WalletLedger has the detail.  Of the pool    *)
(* it has the connections that are lost for good: findOne, save and update *)
(* take theirs from the pool that the handlers leak.                       *)
(***************************************************************************)
EXTENDS FiniteSets, Naturals

CONSTANTS
  Requests,   \* the HTTP requests; a retry is a request of its own
  Keys,       \* the values of the Idempotency-Key header
  Users,      \* request.user.sub
  Bodies,     \* the endpoints and bodies: what requestHash is taken of
  Work,       \* the requests' contents
  PoolSize,   \* connections in TypeORM's pool
  None

Content == [key: Keys \cup {None}, user: Users, body: Bodies]

\* The row of idempotency_keys of a key, with the request whose response it holds.
RecordType ==
  [user: Users, requestHash: Bodies, status: {"PROCESSING", "COMPLETED"},
   response: Requests \cup {None}]

ASSUME IdempotencyAssumption ==
  /\ Work \subseteq Content
  /\ None \notin Keys \cup Requests \cup RecordType
  /\ PoolSize \in Nat \ {0}

VARIABLES
  content,    \* [Requests -> Work]: what each request asks, never changed
  pc,         \* where each request is, or what it was answered
  records,    \* idempotency_keys: the record of each key, or None
  handled,    \* the requests whose handler was called
  settled,    \* transactions: the requests that took effect
  updating,   \* the answered requests whose update to COMPLETED is under way
  answer,     \* the request whose response a replay gave
  leaked      \* the requests whose handler never returned its connection

vars == <<content, pc, records, handled, settled, updating, answer, leaked>>

Key(r)  == content[r].key
User(r) == content[r].user

Record(r, status, response) ==
  [user |-> User(r), requestHash |-> content[r].body, status |-> status, response |-> response]

\* "declined" is a domain error or a 4xx of the handler; "failed" any other error
\* of it, whatever it committed, and "refused" one of the interceptor's own
\* statements: GlobalHttpExceptionFilter makes them a 500.
Active == {"start", "insert", "handle", "reply"}
Ended  == {"answered", "declined", "failed", "replayed", "conflict", "refused", "crashed"}

Init ==
  /\ content \in [Requests -> Work]
  /\ pc = [r \in Requests |-> "start"]
  /\ records = [k \in Keys |-> None]
  /\ handled = {}
  /\ settled = {}
  /\ updating = {}
  /\ answer = [r \in Requests |-> None]
  /\ leaked = {}

\* Every statement waits for a connection, and none comes back.
PoolLost == Cardinality(leaked) = PoolSize

Goto(r, stage) == pc' = [pc EXCEPT ![r] = stage]

-----------------------------------------------------------------------------
(* Before the handler *)

\* No header: the interceptor returns next.handle().
PassThrough(r) ==
  /\ pc[r] = "start"
  /\ Key(r) = None
  /\ Goto(r, "handle")
  /\ handled' = handled \cup {r}
  /\ UNCHANGED <<content, records, settled, updating, answer, leaked>>

\* Mutant: the lookup is by key alone.
FoundOfAnyUser(r) == Key(r) # None /\ records[Key(r)] # None

\* findOne({ key, userId })
Found(r) ==
  /\ Key(r) # None
  /\ records[Key(r)] # None
  /\ records[Key(r)].user = User(r)

Replay(r) ==
  /\ pc[r] = "start"
  /\ ~PoolLost
  /\ Found(r)
  /\ records[Key(r)].status = "COMPLETED"
  /\ answer' = [answer EXCEPT ![r] = records[Key(r)].response]
  /\ Goto(r, "replayed")
  /\ UNCHANGED <<content, records, handled, settled, updating, leaked>>

\* Mutant: a duplicate waits for the response of the first.
ConflictNever(r) == FALSE /\ UNCHANGED vars

Conflict(r) ==
  /\ pc[r] = "start"
  /\ ~PoolLost
  /\ Found(r)
  /\ records[Key(r)].status = "PROCESSING"
  /\ Goto(r, "conflict")
  /\ UNCHANGED <<content, records, handled, settled, updating, answer, leaked>>

Miss(r) ==
  /\ pc[r] = "start"
  /\ ~PoolLost
  /\ Key(r) # None
  /\ ~Found(r)
  /\ Goto(r, "insert")
  /\ UNCHANGED <<content, records, handled, settled, updating, answer, leaked>>

\* Mutant: save() of an entity whose primary key is the header: an upsert.
InsertOrOverwrite(r) ==
  /\ pc[r] = "insert"
  /\ ~PoolLost
  /\ records' = [records EXCEPT ![Key(r)] = Record(r, "PROCESSING", None)]
  /\ handled' = handled \cup {r}
  /\ Goto(r, "handle")
  /\ UNCHANGED <<content, settled, updating, answer, leaked>>

\* save(record), and the call of next.handle() that follows it.
Insert(r) ==
  /\ pc[r] = "insert"
  /\ ~PoolLost
  /\ records[Key(r)] = None
  /\ records' = [records EXCEPT ![Key(r)] = Record(r, "PROCESSING", None)]
  /\ handled' = handled \cup {r}
  /\ Goto(r, "handle")
  /\ UNCHANGED <<content, settled, updating, answer, leaked>>

\* The unique index on key: another request, of any user, was faster.
Duplicate(r) ==
  /\ pc[r] = "insert"
  /\ ~PoolLost
  /\ records[Key(r)] # None
  /\ Goto(r, "refused")
  /\ UNCHANGED <<content, records, handled, settled, updating, answer, leaked>>

-----------------------------------------------------------------------------
(* The handler, and the answer *)

SameKey(r, q) == Key(r) # None /\ Key(q) = Key(r)

\* Mutant: the filter answers 400 to every error.
SettleOrBadRequest(r) ==
  /\ pc[r] = "handle"
  /\ ~PoolLost
  /\ \A q \in settled : ~SameKey(r, q)
  /\ settled' = settled \cup {r}
  /\ \E stage \in {"reply", "declined"} : Goto(r, stage)
  /\ UNCHANGED <<content, records, handled, updating, answer, leaked>>

\* The handler commits; the reply to its COMMIT may be lost, and then it throws.
Settle(r) ==
  /\ pc[r] = "handle"
  /\ ~PoolLost
  /\ \A q \in settled : ~SameKey(r, q)
  /\ settled' = settled \cup {r}
  /\ \E stage \in {"reply", "failed"} : Goto(r, stage)
  /\ UNCHANGED <<content, records, handled, updating, answer, leaked>>

\* Mutant: the record is deleted on a failure, as if the handler had no effect.
FailAndForget(r) ==
  /\ pc[r] = "handle"
  /\ Goto(r, "failed")
  /\ records' = IF Key(r) = None THEN records ELSE [records EXCEPT ![Key(r)] = None]
  /\ UNCHANGED <<content, handled, settled, updating, answer, leaked>>

\* Mutant: the record is completed when the handler throws, too (finalize).
FailAndComplete(r) ==
  /\ pc[r] = "handle"
  /\ Goto(r, "failed")
  /\ updating' = IF Key(r) = None THEN updating ELSE updating \cup {r}
  /\ UNCHANGED <<content, records, handled, settled, answer, leaked>>

\* A DomainException, or an HttpException of the validation pipe, with the status
\* that it carries: the handlers throw them before anything is committed.
Decline(r) ==
  /\ pc[r] = "handle"
  /\ Goto(r, "declined")
  /\ UNCHANGED <<content, records, handled, settled, updating, answer, leaked>>

\* Any other error of the handler: nothing touches the record.
Fail(r) ==
  /\ pc[r] = "handle"
  /\ Goto(r, "failed")
  /\ UNCHANGED <<content, records, handled, settled, updating, answer, leaked>>

\* startTransaction rejects before the try block: the handler throws, and its
\* connection never returns to the pool (WalletLedger: BeginFails).
FailAndLeak(r) ==
  /\ pc[r] = "handle"
  /\ ~PoolLost
  /\ Goto(r, "failed")
  /\ leaked' = leaked \cup {r}
  /\ UNCHANGED <<content, records, handled, settled, updating, answer>>

\* tap calls its callback, which sends the update, and passes the response on.
Answer(r) ==
  /\ pc[r] = "reply"
  /\ Goto(r, "answered")
  /\ updating' = IF Key(r) = None THEN updating ELSE updating \cup {r}
  /\ UNCHANGED <<content, records, handled, settled, answer, leaked>>

Completed(record, r) == [record EXCEPT !.status = "COMPLETED", !.response = r]

\* update({ key, userId }, { status: COMPLETED, responseStatus, responseBody })
Complete(r) ==
  /\ r \in updating
  /\ ~PoolLost
  /\ updating' = updating \ {r}
  /\ records' =
       IF Found(r)
       THEN [records EXCEPT ![Key(r)] = Completed(@, r)]
       ELSE records
  /\ UNCHANGED <<content, pc, handled, settled, answer, leaked>>

-----------------------------------------------------------------------------
(* Failures *)

\* The findOne or the INSERT rejects.
Fault(r) ==
  /\ pc[r] = "insert" \/ (pc[r] = "start" /\ Key(r) # None)
  /\ ~PoolLost
  /\ Goto(r, "refused")
  /\ UNCHANGED <<content, records, handled, settled, updating, answer, leaked>>

\* The server process dies; a rejected update, which nobody awaits, is one of
\* the reasons.  What PostgreSQL has committed stays.
Crash ==
  /\ updating # {} \/ \E r \in Requests : pc[r] \in Active \ {"start"}
  /\ pc' = [r \in Requests |-> IF pc[r] \in Active \ {"start"} THEN "crashed" ELSE pc[r]]
  /\ updating' = {}
  /\ leaked' = {}
  /\ UNCHANGED <<content, records, handled, settled, answer>>

-----------------------------------------------------------------------------
Intercept(r) ==
  \/ PassThrough(r) \/ Replay(r) \/ Conflict(r) \/ Miss(r)
  \/ Insert(r) \/ Duplicate(r)

Handle(r) == Settle(r) \/ Decline(r) \/ Fail(r) \/ FailAndLeak(r)

\* Whoever has not ended waits for a connection that never comes.
Terminating ==
  /\ \A r \in Requests : pc[r] \in Ended \/ (PoolLost /\ pc[r] # "reply")
  /\ updating = {} \/ PoolLost
  /\ UNCHANGED vars

Next ==
  \/ \E r \in Requests :
       Intercept(r) \/ Handle(r) \/ Answer(r) \/ Complete(r) \/ Fault(r)
  \/ Crash
  \/ Terminating

Spec == Init /\ [][Next]_vars

\* Node runs every callback whose statement was answered, and a handler ends as
\* long as there are connections (WalletLedger: EveryRequestEnds).  Nothing is
\* assumed of a handler behind a pool that has leaked.
FairSpec ==
  /\ Spec
  /\ \A r \in Requests :
       /\ WF_vars(Intercept(r))
       /\ WF_vars(~PoolLost /\ Handle(r))
       /\ WF_vars(Answer(r))
       /\ WF_vars(Complete(r))

-----------------------------------------------------------------------------
TypeOK ==
  /\ content \in [Requests -> Work]
  /\ pc \in [Requests -> Active \cup Ended]
  /\ records \in [Keys -> RecordType \cup {None}]
  /\ handled \subseteq Requests
  /\ settled \subseteq handled
  /\ updating \subseteq settled
  /\ answer \in [Requests -> Requests \cup {None}]
  /\ leaked \subseteq handled

\* However lookups and inserts of duplicates interleave, and whatever crashes
\* or fails between them, the handler is called at most once for a key, so
\* that the unique index on transactions never has to decide.
HandledOncePerKey ==
  \A r, q \in handled : SameKey(r, q) => r = q

\* A replayed response is one that the same user's request with this key was
\* given after it took effect.
ReplaysAreGenuine ==
  \A r \in Requests : pc[r] = "replayed" =>
    /\ answer[r] \in settled
    /\ SameKey(r, answer[r])
    /\ User(answer[r]) = User(r)

\* What a key replays never changes: neither a late update nor the insert of a
\* duplicate touches a COMPLETED record.
CompletedIsFinal ==
  [][\A k \in Keys :
       records[k] # None /\ records[k].status = "COMPLETED" => records'[k] = records[k]]_vars

\* What the interceptor, the handlers and the filters together promise a client.
Told(r) ==
  CASE pc[r] \in Active                           -> [kind |-> "nothing", from |-> None]
    [] pc[r] = "answered"                         -> [kind |-> "response", from |-> r]
    [] pc[r] = "replayed"                         -> [kind |-> "response", from |-> answer[r]]
    [] pc[r] \in {"declined", "conflict"}         -> [kind |-> "declined", from |-> None]
    [] OTHER                                      -> [kind |-> "doubt", from |-> None]

Retry == INSTANCE SafeRetry WITH
  key  <- [r \in Requests |-> Key(r)],
  user <- [r \in Requests |-> User(r)],
  told <- [r \in Requests |-> Told(r)]

\* However retries, duplicates, late updates, errors and crashes fall together,
\* a client may repeat a request until it is answered otherwise than by a 500.
ImplementsSafeRetry == Retry!Spec

\* Every request is answered, unless the process dies under it or the whole pool
\* has leaked: a duplicate never waits for the first.
EveryRequestIsAnswered ==
  \A r \in Requests : pc[r] \in Active ~> (pc[r] \in Ended \/ PoolLost)
=============================================================================
