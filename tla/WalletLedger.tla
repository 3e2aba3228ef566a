---------------------------- MODULE WalletLedger ----------------------------
(***************************************************************************)
(* The money path of the service: concurrent POST /wallet/fund, /trade and *)
(* /convert requests (WalletService.fundWallet, TradeCurrencyUseCase and   *)
(* ConvertCurrencyUseCase) over the PostgreSQL tables they share.  Every   *)
(* request runs one SERIALIZABLE transaction on a pooled connection,       *)
(* SELECTs its balance rows FOR UPDATE, source before target, creates the  *)
(* target row when it sees none, and writes balances, the transaction row  *)
(* and the ledger entries, then commits.                                   *)
(*                                                                         *)
(* The database is modelled by the rules the code relies on: a snapshot    *)
(* fixed by the first statement, row locks held to the end, an error       *)
(* (40001) on locking a row that another transaction changed since the     *)
(* snapshot, unique indexes that wait for an insert in progress, and a     *)
(* detector that kills one member of a deadlock.                           *)
(***************************************************************************)
EXTENDS Quote, Sequences, FiniteSets

CONSTANTS
  Requests,     \* the requests in flight
  Work,         \* the operations they may carry
  Opening,      \* the balances at the start, for the rows that exist
  PoolSize,     \* connections of the TypeORM pool
  MaxBalance    \* the largest decimal(18,4)

ASSUME WalletLedgerAssumption ==
  /\ IsFiniteSet(Requests)
  /\ None \notin Requests \cup Nat
  /\ Work \subseteq Operation
  /\ DOMAIN Opening \subseteq Rows
  /\ \A row \in DOMAIN Opening : Opening[row] \in Nat /\ Opening[row] % Tick = 0
  /\ PoolSize \in Nat \ {0}
  /\ MaxBalance \in Nat

VARIABLES
  op,           \* [Requests -> Work]: the request bodies, never changed
  pc,           \* where each request is, or how it ended
  quote,        \* the debit and credit computed before the transaction
  rows,         \* wallet_balances: the rows that exist
  balance,      \* wallet_balances.available_balance
  ledger,       \* ledger_entries of each row, oldest first
  transactions, \* transactions: the requests whose row is committed
  lock,         \* who holds each row's lock (or inserts the row), or None
  conn,         \* the requests holding a connection of the pool
  snapshot,     \* the rows each transaction sees, with their balances
  missed,       \* the rows others committed since that snapshot
  read          \* the balances each request read under its locks

tables == <<rows, balance, ledger, transactions>>
tx     == <<snapshot, missed, read>>
vars   == <<op, pc, quote, tables, lock, conn, tx>>

\* The steps inside the database transaction, in the order they are taken.
InTransaction == {"lockSource", "lockTarget", "insertTarget", "write", "commit"}
Active        == {"start", "connect", "begin"} \cup InTransaction

\* How a request ends.  Only "done" answers 200; "unknown" committed, but the
\* caller was answered 500 or not at all.
Refused == {"rejected", "insufficient"}
Aborted == {"conflict", "duplicate", "victim", "overflow", "fault", "leaked", "crashed"}
Ended   == {"done", "unknown"} \cup Refused \cup Aborted

Entry == [type: {"DEBIT", "CREDIT"}, amount: Nat, balanceAfter: Nat, transaction: Requests]

\* What a statement sees of the table: None where there is no row.
Snapshot   == [Rows -> Nat \cup {None}]
NoSnapshot == [row \in Rows |-> None]

Unread == [source |-> 0, target |-> 0]

Source(r) == SourceRow(op[r])
Target(r) == TargetRow(op[r])

OpeningBalance == [row \in Rows |-> IF row \in DOMAIN Opening THEN Opening[row] ELSE 0]

-----------------------------------------------------------------------------
Init ==
  /\ op \in [Requests -> Work]
  /\ pc = [r \in Requests |-> "start"]
  /\ quote = [r \in Requests |-> Quoted(0, 0)]
  /\ rows = DOMAIN Opening
  /\ balance = OpeningBalance
  /\ ledger = [row \in Rows |-> <<>>]
  /\ transactions = {}
  /\ lock = [row \in Rows |-> None]
  /\ conn = {}
  /\ snapshot = [r \in Requests |-> NoSnapshot]
  /\ missed = [r \in Requests |-> {}]
  /\ read = [r \in Requests |-> Unread]

Goto(r, stage) == pc' = [pc EXCEPT ![r] = stage]

\* Mutant: no finally block.
LeaveKeepingConnection(r, outcome) ==
  /\ Goto(r, outcome)
  /\ lock' = [row \in Rows |-> IF lock[row] = r THEN None ELSE lock[row]]
  /\ conn' = conn
  /\ snapshot' = [snapshot EXCEPT ![r] = NoSnapshot]
  /\ read' = [read EXCEPT ![r] = Unread]

\* Mutant: the connection goes back to the pool with its transaction open.
LeaveKeepingLocks(r, outcome) ==
  /\ Goto(r, outcome)
  /\ conn' = conn \ {r}
  /\ snapshot' = [snapshot EXCEPT ![r] = NoSnapshot]
  /\ read' = [read EXCEPT ![r] = Unread]
  /\ UNCHANGED lock

\* The end of the transaction frees the rows it locked; the finally block
\* returns the connection.
Leave(r, outcome) ==
  /\ Goto(r, outcome)
  /\ lock' = [row \in Rows |-> IF lock[row] = r THEN None ELSE lock[row]]
  /\ conn' = conn \ {r}
  /\ snapshot' = [snapshot EXCEPT ![r] = NoSnapshot]
  /\ read' = [read EXCEPT ![r] = Unread]

\* The catch block: rollbackTransaction, rethrow.
RollBack(r, outcome) ==
  /\ Leave(r, outcome)
  /\ missed' = [missed EXCEPT ![r] = {}]
  /\ UNCHANGED <<op, quote, tables>>

-----------------------------------------------------------------------------
(* Before the transaction *)

\* Money.create, findByUserId, getRate and the amounts.
Price(r) ==
  /\ pc[r] = "start"
  /\ \E q \in Quotes(op[r]) : quote' = [quote EXCEPT ![r] = q]
  /\ Goto(r, "connect")
  /\ UNCHANGED <<op, tables, lock, conn, tx>>

\* A domain error before the transaction: the request is invalid or, for a
\* trade or a conversion, the rate is stale or not to be had.
Reject(r) ==
  /\ pc[r] = "start"
  /\ IsMove(op[r]) \/ Quotes(op[r]) = {}
  /\ Goto(r, "rejected")
  /\ UNCHANGED <<op, quote, tables, lock, conn, tx>>

\* queryRunner.connect() waits for a free connection.
Connect(r) ==
  /\ pc[r] = "connect"
  /\ Cardinality(conn) < PoolSize
  /\ conn' = conn \cup {r}
  /\ Goto(r, "begin")
  /\ UNCHANGED <<op, quote, tables, lock, tx>>

\* START TRANSACTION, and the snapshot that its first statement takes.
Begin(r) ==
  /\ pc[r] = "begin"
  /\ Goto(r, IF IsMove(op[r]) THEN "lockSource" ELSE "lockTarget")
  /\ snapshot' = [snapshot EXCEPT ![r] = 
                    [row \in Rows |-> IF row \in rows THEN balance[row] ELSE None]]
  /\ missed' = [missed EXCEPT ![r] = {}]
  /\ UNCHANGED <<op, quote, tables, lock, conn, read>>

\* startTransaction stands before the try: when it rejects, neither the
\* rollback nor release() runs.
BeginFails(r) ==
  /\ pc[r] = "begin"
  /\ Goto(r, "leaked")
  /\ UNCHANGED <<op, quote, tables, lock, conn, tx>>

-----------------------------------------------------------------------------
(* findAndLockForUpdate *)

Sees(r, row) == snapshot[r][row] # None

\* The row r is about to lock: none unless the snapshot shows it.
Wanted(r) ==
  CASE pc[r] = "lockSource" /\ Sees(r, Source(r)) -> {Source(r)}
    [] pc[r] = "lockTarget" /\ Sees(r, Target(r)) -> {Target(r)}
    [] OTHER                                      -> {}

\* Mutant: no FOR UPDATE.
LockableUnlocked(r, row) == Sees(r, row) /\ row \notin missed[r]

\* Mutant: the balance read is used although others changed it meanwhile.
LockableStale(r, row) == Sees(r, row) /\ lock[row] = None

\* A row others changed since the snapshot cannot be locked, however free.
Lockable(r, row) == Sees(r, row) /\ row \notin missed[r] /\ lock[row] = None

\* Mutant: the balance is not compared with the debit.
LockSourceUnchecked(r) ==
  /\ pc[r] = "lockSource"
  /\ Lockable(r, Source(r))
  /\ lock' = [lock EXCEPT ![Source(r)] = r]
  /\ read' = [read EXCEPT ![r].source = snapshot[r][Source(r)]]
  /\ Goto(r, "lockTarget")
  /\ UNCHANGED <<op, quote, tables, conn, snapshot, missed>>

LockSource(r) ==
  /\ pc[r] = "lockSource"
  /\ Lockable(r, Source(r))
  /\ IsGreaterThanOrEqual(snapshot[r][Source(r)], quote[r].debit)
  /\ lock' = [lock EXCEPT ![Source(r)] = r]
  /\ read' = [read EXCEPT ![r].source = snapshot[r][Source(r)]]
  /\ Goto(r, "lockTarget")
  /\ UNCHANGED <<op, quote, tables, conn, snapshot, missed>>

\* InsufficientBalanceError, with no row or with too small a balance.
Insufficient(r) ==
  /\ pc[r] = "lockSource"
  /\ \/ ~Sees(r, Source(r))
     \/ /\ Lockable(r, Source(r))
        /\ ~IsGreaterThanOrEqual(snapshot[r][Source(r)], quote[r].debit)
  /\ RollBack(r, "insufficient")

LockTarget(r) ==
  /\ pc[r] = "lockTarget"
  /\ Lockable(r, Target(r))
  /\ lock' = [lock EXCEPT ![Target(r)] = r]
  /\ read' = [read EXCEPT ![r].target = snapshot[r][Target(r)]]
  /\ Goto(r, "write")
  /\ UNCHANGED <<op, quote, tables, conn, snapshot, missed>>

NoTarget(r) ==
  /\ pc[r] = "lockTarget"
  /\ ~Sees(r, Target(r))
  /\ Goto(r, "insertTarget")
  /\ UNCHANGED <<op, quote, tables, lock, conn, tx>>

\* "could not serialize access due to concurrent update"
SerializationFailure(r) ==
  /\ Wanted(r) \cap missed[r] # {}
  /\ RollBack(r, "conflict")

-----------------------------------------------------------------------------
(* createWithQueryRunner, and the writes up to the COMMIT *)

InsertTarget(r) ==
  /\ pc[r] = "insertTarget"
  /\ Target(r) \notin rows
  /\ lock[Target(r)] = None
  /\ lock' = [lock EXCEPT ![Target(r)] = r]
  /\ read' = [read EXCEPT ![r].target = 0]
  /\ Goto(r, "write")
  /\ UNCHANGED <<op, quote, tables, conn, snapshot, missed>>

NewSource(r) == Subtract(read[r].source, quote[r].debit)
NewTarget(r) == Add(read[r].target, quote[r].credit)

Fits(r) == NewTarget(r) <= MaxBalance

SameKey(r, q) == op[r].key # None /\ op[q].key = op[r].key

KeyCommitted(r) == \E q \in transactions : SameKey(r, q)

\* Mutant: only committed keys count.
KeyHoldersCommitted(r) == {}

\* Another transaction has inserted r's key and not ended yet.
KeyHolders(r) == {q \in Requests \ {r} : pc[q] = "commit" /\ SameKey(r, q)}

\* updateBalance of the rows, then the INSERTs into transactions and
\* ledger_entries.  The values are in NewSource, NewTarget and quote; they
\* become visible at the commit.
Write(r) ==
  /\ pc[r] = "write"
  /\ Fits(r)
  /\ ~KeyCommitted(r)
  /\ KeyHolders(r) = {}
  /\ Goto(r, "commit")
  /\ UNCHANGED <<op, quote, tables, lock, conn, tx>>

\* A value beyond decimal(18,4): "numeric field overflow".
NumericOverflow(r) ==
  /\ pc[r] = "write"
  /\ ~Fits(r)
  /\ RollBack(r, "overflow")

\* The unique index on (wallet_id, currency), or on idempotency_key.
UniqueViolation(r) ==
  /\ \/ pc[r] = "insertTarget" /\ Target(r) \in rows
     \/ pc[r] = "write" /\ Fits(r) /\ KeyCommitted(r)
  /\ RollBack(r, "duplicate")

-----------------------------------------------------------------------------
(* COMMIT *)

\* Mutant: the entry shows the balance before the debit.
DebitEntryBefore(r) ==
  [type |-> "DEBIT", amount |-> ToFixed(quote[r].debit),
   balanceAfter |-> read[r].source, transaction |-> r]

\* The columns round the amounts to four decimals; balanceAfter has been.
DebitEntry(r) ==
  [type |-> "DEBIT", amount |-> ToFixed(quote[r].debit),
   balanceAfter |-> NewSource(r), transaction |-> r]

CreditEntry(r) ==
  [type |-> "CREDIT", amount |-> ToFixed(quote[r].credit),
   balanceAfter |-> NewTarget(r), transaction |-> r]

IsSource(r, row) == IsMove(op[r]) /\ row = Source(r)

\* Mutant: the second ledger entry of a move is forgotten.
LedgerAfterCreditOnly(r) ==
  [row \in Rows |->
     IF row = Target(r) THEN Append(ledger[row], CreditEntry(r)) ELSE ledger[row]]

LedgerAfter(r) ==
  [row \in Rows |->
     CASE row = Target(r)  -> Append(ledger[row], CreditEntry(r))
       [] IsSource(r, row) -> Append(ledger[row], DebitEntry(r))
       [] OTHER            -> ledger[row]]

BalanceAfter(r) ==
  [row \in Rows |->
     CASE row = Target(r)  -> NewTarget(r)
       [] IsSource(r, row) -> NewSource(r)
       [] OTHER            -> balance[row]]

Persist(r) ==
  /\ rows' = rows \cup Touched(op[r])
  /\ balance' = BalanceAfter(r)
  /\ ledger' = LedgerAfter(r)
  /\ transactions' = transactions \cup {r}
  /\ missed' = [q \in Requests |->
       IF q # r /\ pc[q] \in InTransaction THEN missed[q] \cup Touched(op[r])
       ELSE {}]

\* Either the caller learns of the commit or the reply to it is lost: then
\* the catch block throws and the answer is 500.
Commit(r) ==
  /\ pc[r] = "commit"
  /\ Persist(r)
  /\ \E outcome \in {"done", "unknown"} : Leave(r, outcome)
  /\ UNCHANGED <<op, quote>>

-----------------------------------------------------------------------------
(* Failures *)

\* Any statement may fail: lost connection, timeout, a serialization failure
\* at the COMMIT.
Fault(r) ==
  /\ pc[r] \in InTransaction
  /\ RollBack(r, "fault")

\* r waits for what q holds.
WaitsFor(r, q) ==
  \/ \E row \in Wanted(r) \ missed[r] : lock[row] = q /\ q # r
  \/ pc[r] = "insertTarget" /\ Target(r) \notin rows /\ lock[Target(r)] = q
  \/ pc[r] = "write" /\ Fits(r) /\ ~KeyCommitted(r) /\ q \in KeyHolders(r)

\* Requests that wait for each other, all of them and nobody else.
Cycle(S) ==
  /\ S # {}
  /\ \A r \in S : \E q \in S : WaitsFor(r, q)
  /\ \A q \in S : \E r \in S : WaitsFor(r, q)

\* The deadlock detector picks a victim; nothing retries it.
DeadlockVictim(r) ==
  /\ \E S \in SUBSET Requests : r \in S /\ Cycle(S)
  /\ RollBack(r, "victim")

\* The server process dies: every connection drops, and PostgreSQL rolls
\* back what was not committed.
Crash ==
  /\ \E r \in Requests : pc[r] \in Active \ {"start"}
  /\ pc' = [r \in Requests |-> IF pc[r] \in Active \ {"start"} THEN "crashed" ELSE pc[r]]
  /\ lock' = [row \in Rows |-> None]
  /\ conn' = {}
  /\ snapshot' = [r \in Requests |-> NoSnapshot]
  /\ missed' = [r \in Requests |-> {}]
  /\ read' = [r \in Requests |-> Unread]
  /\ UNCHANGED <<op, quote, tables>>

-----------------------------------------------------------------------------
\* Mutant: a move locks its target row before its source row.
ProgressTargetFirst(r) ==
  \/ Price(r) \/ Reject(r) \/ Connect(r) \/ NoTarget(r) \/ InsertTarget(r)
  \/ /\ Begin(r) /\ ~IsMove(op[r])
  \/ /\ pc[r] = "begin" /\ IsMove(op[r])
     /\ snapshot' = [snapshot EXCEPT ![r] =
                       [row \in Rows |-> IF row \in rows THEN balance[row] ELSE None]]
     /\ Goto(r, "lockTarget")
     /\ UNCHANGED <<op, quote, tables, lock, conn, missed, read>>
  \/ /\ pc[r] = "lockTarget" /\ Lockable(r, Target(r))
     /\ lock' = [lock EXCEPT ![Target(r)] = r]
     /\ Goto(r, IF IsMove(op[r]) THEN "lockSource" ELSE "write")
     /\ UNCHANGED <<op, quote, tables, conn, tx>>
  \/ /\ pc[r] = "lockSource" /\ Lockable(r, Source(r))
     /\ lock' = [lock EXCEPT ![Source(r)] = r]
     /\ Goto(r, "write")
     /\ UNCHANGED <<op, quote, tables, conn, tx>>
  \/ Insufficient(r) \/ SerializationFailure(r) \/ DeadlockVictim(r)
  \/ Write(r) \/ NumericOverflow(r) \/ UniqueViolation(r) \/ Commit(r)

\* What the program does without a failure of its environment.
Progress(r) ==
  \/ Price(r) \/ Reject(r) \/ Connect(r) \/ Begin(r)
  \/ LockSource(r) \/ Insufficient(r) \/ LockTarget(r) \/ NoTarget(r)
  \/ SerializationFailure(r) \/ InsertTarget(r)
  \/ Write(r) \/ NumericOverflow(r) \/ UniqueViolation(r)
  \/ Commit(r)
  \/ DeadlockVictim(r)

\* All requests have ended, or wait for connections that never come back.
Terminating ==
  /\ \A r \in Requests : pc[r] \in Ended \/ (pc[r] = "connect" /\ Cardinality(conn) = PoolSize)
  /\ \A r \in conn : pc[r] = "leaked"
  /\ UNCHANGED vars

Next ==
  \/ \E r \in Requests : Progress(r) \/ BeginFails(r) \/ Fault(r)
  \/ Crash
  \/ Terminating

Spec == Init /\ [][Next]_vars

\* Node runs every handler whose statement has been answered; PostgreSQL
\* answers every statement whose lock is free and breaks every deadlock.
FairSpec == Spec /\ \A r \in Requests : WF_vars(Progress(r))
=============================================================================
