-------------------------- MODULE WalletProperties --------------------------
(***************************************************************************)
(* What must hold of WalletLedger, and the inductive invariants its proofs *)
(* rest on.                                                                *)
(***************************************************************************)
EXTENDS WalletLedger

TypeOK ==
  /\ op \in [Requests -> Operation]
  /\ pc \in [Requests -> Active \cup Ended]
  /\ quote \in [Requests -> [debit: Nat, credit: Nat]]
  /\ rows \subseteq Rows
  /\ balance \in [Rows -> Nat]
  /\ ledger \in [Rows -> Seq(Entry)]
  /\ transactions \subseteq Requests
  /\ lock \in [Rows -> Requests \cup {None}]
  /\ conn \subseteq Requests
  /\ snapshot \in [Requests -> Snapshot]
  /\ missed \in [Requests -> SUBSET Rows]
  /\ read \in [Requests -> [source: Nat, target: Nat]]

HoldsSource(r) ==
  IsMove(op[r]) /\ pc[r] \in {"lockTarget", "insertTarget", "write", "commit"}
HoldsTarget(r) == pc[r] \in {"write", "commit"}

\* No lost update.  The balances a request writes are computed from what it
\* read under its row locks, possibly long before the UPDATE: until it has
\* committed, nobody else changes those rows.
ReadsAreCurrent ==
  \A r \in Requests :
    /\ HoldsSource(r) => balance[Source(r)] = read[r].source
    /\ HoldsTarget(r) => balance[Target(r)] = read[r].target

\* No double spending.  The balance check runs once, before the wait for the
\* target row: the money that passed it is still there when the debit commits.
FundsStayReserved ==
  \A r \in Requests : HoldsSource(r) => balance[Source(r)] >= quote[r].debit

\* How far a debit leaves the balance above what the ledger entry says: an
\* amount half way between two ticks rounds up in the entry, and so does the
\* balance it is taken from.
Drift(e) ==
  IF e.type = "DEBIT" /\ quote[e.transaction].debit % Tick = Tick \div 2
  THEN Tick ELSE 0

Before(row, i) ==
  IF i = 1 THEN OpeningBalance[row] ELSE ledger[row][i - 1].balanceAfter

EntryFollows(row, i) ==
  LET e == ledger[row][i] IN
    e.balanceAfter =
      IF e.type = "CREDIT" THEN Before(row, i) + e.amount
      ELSE Before(row, i) - e.amount + Drift(e)

\* The ledger of a row is an unbroken chain: every entry starts from the
\* balance the previous one left, whatever requests ran concurrently, and the
\* last one left the balance that wallet_balances shows now.  A credit is
\* recorded exactly; a debit up to Drift.
LedgerReconciles ==
  \A row \in Rows :
    /\ \A i \in 1 .. Len(ledger[row]) : EntryFollows(row, i)
    /\ balance[row] = Before(row, Len(ledger[row]) + 1)

EntriesOf(r, row, type) ==
  {i \in 1 .. Len(ledger[row]) : ledger[row][i].transaction = r /\ ledger[row][i].type = type}

\* All or nothing.  A request that was answered 200, or whose commit was not
\* acknowledged, has its transaction row, one CREDIT on its target and, if it
\* is a move, one DEBIT on its source; every other request has left nothing.
SettledCompletely ==
  \A r \in Requests :
    /\ r \in transactions <=> pc[r] \in {"done", "unknown"}
    /\ \A row \in Rows :
         /\ Cardinality(EntriesOf(r, row, "CREDIT")) =
              IF r \in transactions /\ row = Target(r) THEN 1 ELSE 0
         /\ Cardinality(EntriesOf(r, row, "DEBIT")) =
              IF r \in transactions /\ IsSource(r, row) THEN 1 ELSE 0

\* The unique index on transactions.idempotency_key: one effect per key even
\* when two requests with the key are in flight together.
OncePerKey ==
  \A r, q \in transactions : SameKey(r, q) => r = q

\* Every way out of a handler returns its connection, except a refused START
\* TRANSACTION; the pool is never overdrawn.
ConnectionsAccounted ==
  /\ Cardinality(conn) <= PoolSize
  /\ \A r \in Requests :
       /\ pc[r] \in InTransaction \cup {"begin"} => r \in conn
       /\ r \in conn => pc[r] \in InTransaction \cup {"begin", "leaked"}

\* The only deadlocks are between moves inside one wallet, each holding the
\* row that another one credits.  A funding request, a shared key or another
\* user's requests never take part.
DeadlocksAreOpposedMoves ==
  \A S \in SUBSET Requests : Cycle(S) =>
    \A r, q \in S : WaitsFor(r, q) =>
      /\ IsMove(op[q]) /\ lock[Source(q)] = q
      /\ IsMove(op[r]) /\ Target(r) = Source(q)
      /\ op[r].user = op[q].user

\* Requests of different wallets wait for each other only over a shared key.
WaitsStayInTheWallet ==
  \A r, q \in Requests : WaitsFor(r, q) => op[r].user = op[q].user \/ SameKey(r, q)

\* The whole path is one atomic settlement, as AtomicWallet has it.
Atomic == INSTANCE AtomicWallet WITH Opening <- OpeningBalance, settled <- transactions
ImplementsAtomicWallet == Atomic!Spec

\* Connections that no request will return while the process lives.
PoolLost == Cardinality({r \in conn : pc[r] = "leaked"}) = PoolSize

\* The next statement of r can be answered, or the detector may end r's wait.
Able(r) ==
  \/ pc[r] \in {"start", "begin", "commit"}
  \/ pc[r] = "connect" /\ Cardinality(conn) < PoolSize
  \/ pc[r] \in {"lockSource", "lockTarget"} /\ \A row \in Wanted(r) \ missed[r] : lock[row] = None
  \/ pc[r] = "insertTarget" /\ (Target(r) \in rows \/ lock[Target(r)] = None)
  \/ pc[r] = "write" /\ (~Fits(r) \/ KeyCommitted(r) \/ KeyHolders(r) = {})
  \/ \E S \in SUBSET Requests : r \in S /\ Cycle(S)

\* Nobody waits for a request that is over.  Whatever failed or died, a row lock, a
\* key and a connection are held by requests that go on, so as long as one has not
\* ended some request can go on, unless the whole pool has leaked.
NobodyIsStuck ==
  \/ \A r \in Requests : pc[r] \in Ended
  \/ PoolLost
  \/ \E r \in Requests : Able(r)

\* Every request is answered: no wait for a row, a key or a connection lasts
\* forever, unless the whole pool has leaked.
EveryRequestEnds ==
  \A r \in Requests : pc[r] \in Active ~> (pc[r] \in Ended \/ PoolLost)
-----------------------------------------------------------------------------
(* The inductive invariant behind the safety properties *)

\* A request past its quote holds one that its operation can be given, so its
\* wallet exists and its two rows differ.
Priced ==
  \A r \in Requests :
    pc[r] \in Active \ {"start"} => quote[r] \in Quotes(op[r])

\* Row locks are held from the read to the end of the transaction.
LocksHeld ==
  \A r \in Requests :
    /\ HoldsSource(r) => lock[Source(r)] = r
    /\ HoldsTarget(r) => lock[Target(r)] = r

\* What a snapshot shows is current until the row is missed.
SnapshotsAge ==
  \A r \in Requests, row \in Rows :
    pc[r] \in InTransaction /\ snapshot[r][row] # None /\ row \notin missed[r]
      => snapshot[r][row] = balance[row]

\* The balance check, remembered.
Affordable ==
  \A r \in Requests : HoldsSource(r) => read[r].source >= quote[r].debit

\* A row that does not exist has no money.
AbsentRowsEmpty == \A row \in Rows \ rows : balance[row] = 0

MoneyInv ==
  /\ TypeOK
  /\ Priced
  /\ LocksHeld
  /\ SnapshotsAge
  /\ ReadsAreCurrent
  /\ Affordable
  /\ AbsentRowsEmpty

\* The transactions table holds the requests that committed, and a key in it,
\* or inserted by a transaction still open, is nobody else's.
EffectsAnswered ==
  \A r \in Requests : r \in transactions <=> pc[r] \in {"done", "unknown"}

KeysReserved ==
  \A r, q \in transactions \cup {x \in Requests : pc[x] = "commit"} : SameKey(r, q) => r = q

KeyInv == EffectsAnswered /\ KeysReserved

\* A lock belongs to a transaction that has got as far as taking it, and only a
\* move has a source to lock.
LocksOwned ==
  \A row \in Rows, r \in Requests : lock[row] = r =>
    \/ HoldsSource(r) /\ row = Source(r)
    \/ HoldsTarget(r) /\ row = Target(r)

SourcesLockedByMoves == \A r \in Requests : pc[r] = "lockSource" => IsMove(op[r])

LockInv == LocksOwned /\ SourcesLockedByMoves

\* Stored balances are whole ticks, and no entry outlives its transaction row.
BalancesTicked == \A row \in Rows : balance[row] % Tick = 0

EntriesSettled ==
  \A row \in Rows : \A i \in 1 .. Len(ledger[row]) : ledger[row][i].transaction \in transactions

LedgerInv == EffectsAnswered /\ BalancesTicked /\ EntriesSettled /\ LedgerReconciles

Inv == MoneyInv /\ KeyInv /\ LockInv /\ LedgerInv
=============================================================================
