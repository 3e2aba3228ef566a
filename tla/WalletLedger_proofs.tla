------------------------ MODULE WalletLedger_proofs ------------------------
(***************************************************************************)
(* Proofs about WalletLedger, for every number of requests, wallets,       *)
(* currencies, rates, connections and opening balances.                    *)
(***************************************************************************)
EXTENDS WalletProperties, Money_proofs, Finite_proofs

-----------------------------------------------------------------------------
(* Operations *)

\* What the invariant says of one request past its quote.
LEMMA RowsOfRequest ==
  ASSUME TypeOK, Priced, NEW r \in Requests, pc[r] \in Active \ {"start"}
  PROVE  /\ quote[r] \in Quotes(op[r])
         /\ Source(r) \in Rows
         /\ Target(r) \in Rows
         /\ IsMove(op[r]) => Source(r) # Target(r)
  BY QuoteFacts DEF TypeOK, Priced, Source, Target
-----------------------------------------------------------------------------
(* The inductive invariant *)

USE DEF Active, InTransaction, Ended, Refused, Aborted

LEMMA OpeningType == OpeningBalance \in [Rows -> Nat]
  BY WalletLedgerAssumption DEF OpeningBalance

LEMMA InitMoneyInv == Init => MoneyInv
<1> SUFFICES ASSUME Init PROVE MoneyInv
  OBVIOUS
<1> USE DEF Init
<1>1. TypeOK
  <2>1. \A r \in Requests : op[r] \in Operation
    BY WalletLedgerAssumption
  <2>2. ledger \in [Rows -> Seq(Entry)]
    OBVIOUS
  <2>3. lock \in [Rows -> Requests \cup {None}] /\ rows \subseteq Rows
    BY WalletLedgerAssumption
  <2>4. snapshot \in [Requests -> Snapshot] /\ read \in [Requests -> [source: Nat, target: Nat]]
    BY DEF NoSnapshot, Snapshot, Unread
  <2> QED
    BY <2>1, <2>2, <2>3, <2>4, OpeningType, WalletLedgerAssumption DEF TypeOK, Quoted
<1>2. AbsentRowsEmpty
  BY DEF AbsentRowsEmpty, OpeningBalance
<1> QED
  BY <1>1, <1>2
  DEF MoneyInv, Priced, LocksHeld, SnapshotsAge, ReadsAreCurrent, Affordable, HoldsSource, HoldsTarget

\* Steps that touch neither the tables nor the locks.
LEMMA PriceStep == ASSUME MoneyInv, NEW r \in Requests, Price(r) PROVE MoneyInv'
<1> USE DEF MoneyInv, Price, Goto, tables, tx
<1>1. PICK q \in Quotes(op[r]) : quote' = [quote EXCEPT ![r] = q]
  OBVIOUS
<1>2. q \in [debit: Nat, credit: Nat]
  BY QuoteFacts DEF TypeOK
<1>3. TypeOK'
  BY <1>1, <1>2 DEF TypeOK
<1>4. Priced'
  BY <1>1 DEF Priced, TypeOK
<1> QED
  BY <1>1, <1>3, <1>4
  DEF TypeOK, LocksHeld, SnapshotsAge, ReadsAreCurrent, Affordable, AbsentRowsEmpty,
      HoldsSource, HoldsTarget, Source, Target

LEMMA RejectStep == ASSUME MoneyInv, NEW r \in Requests, Reject(r) PROVE MoneyInv'
  BY DEF MoneyInv, Reject, Goto, tables, tx, TypeOK, Priced, LocksHeld, SnapshotsAge,
     ReadsAreCurrent, Affordable, AbsentRowsEmpty, HoldsSource, HoldsTarget, Source, Target

LEMMA ConnectStep == ASSUME MoneyInv, NEW r \in Requests, Connect(r) PROVE MoneyInv'
  BY DEF MoneyInv, Connect, Goto, tables, tx, TypeOK, Priced, LocksHeld, SnapshotsAge,
     ReadsAreCurrent, Affordable, AbsentRowsEmpty, HoldsSource, HoldsTarget, Source, Target

LEMMA BeginFailsStep == ASSUME MoneyInv, NEW r \in Requests, BeginFails(r) PROVE MoneyInv'
  BY DEF MoneyInv, BeginFails, Goto, tables, tx, TypeOK, Priced, LocksHeld, SnapshotsAge,
     ReadsAreCurrent, Affordable, AbsentRowsEmpty, HoldsSource, HoldsTarget, Source, Target

LEMMA NoTargetStep == ASSUME MoneyInv, NEW r \in Requests, NoTarget(r) PROVE MoneyInv'
  BY DEF MoneyInv, NoTarget, Goto, tables, tx, TypeOK, Priced, LocksHeld, SnapshotsAge,
     ReadsAreCurrent, Affordable, AbsentRowsEmpty, HoldsSource, HoldsTarget, Source, Target

LEMMA WriteStep == ASSUME MoneyInv, NEW r \in Requests, Write(r) PROVE MoneyInv'
  BY DEF MoneyInv, Write, Goto, tables, tx, TypeOK, Priced, LocksHeld, SnapshotsAge,
     ReadsAreCurrent, Affordable, AbsentRowsEmpty, HoldsSource, HoldsTarget, Source, Target

LEMMA BeginStep == ASSUME MoneyInv, NEW r \in Requests, Begin(r) PROVE MoneyInv'
<1> USE DEF MoneyInv, Begin, Goto, tables
<1>1. [row \in Rows |-> IF row \in rows THEN balance[row] ELSE None] \in Snapshot
  BY DEF TypeOK, Snapshot
<1>2. TypeOK'
  BY <1>1 DEF TypeOK
<1>3. SnapshotsAge'
  BY DEF SnapshotsAge, TypeOK
<1> QED
  BY <1>2, <1>3
  DEF TypeOK, Priced, LocksHeld, ReadsAreCurrent, Affordable, AbsentRowsEmpty,
      HoldsSource, HoldsTarget, Source, Target

-----------------------------------------------------------------------------
(* Steps that lock a row *)

LEMMA LockSourceStep == ASSUME MoneyInv, NEW r \in Requests, LockSource(r) PROVE MoneyInv'
<1> USE DEF MoneyInv, LockSource, Goto, tables, Lockable, Sees
<1>1. Source(r) \in Rows /\ Target(r) \in Rows
  BY RowsOfRequest
<1>2. snapshot[r][Source(r)] \in Nat
  BY <1>1 DEF TypeOK, Snapshot
<1>3. snapshot[r][Source(r)] = balance[Source(r)]
  BY <1>1 DEF SnapshotsAge
<1>4. TypeOK'
  BY <1>1, <1>2 DEF TypeOK
<1>5. Priced' /\ SnapshotsAge' /\ AbsentRowsEmpty'
  BY DEF Priced, SnapshotsAge, AbsentRowsEmpty, TypeOK
<1>6. LocksHeld'
  BY <1>1, WalletLedgerAssumption DEF LocksHeld, TypeOK, HoldsSource, HoldsTarget, Source, Target
<1>7. ReadsAreCurrent'
  BY <1>1, <1>2, <1>3 DEF ReadsAreCurrent, TypeOK, HoldsSource, HoldsTarget, Source, Target
<1>8. Affordable'
  BY <1>2 DEF Affordable, TypeOK, HoldsSource, HoldsTarget, IsGreaterThanOrEqual
<1> QED
  BY <1>4, <1>5, <1>6, <1>7, <1>8

LEMMA LockTargetStep == ASSUME MoneyInv, NEW r \in Requests, LockTarget(r) PROVE MoneyInv'
<1> USE DEF MoneyInv, LockTarget, Goto, tables, Lockable, Sees
<1>1. Source(r) \in Rows /\ Target(r) \in Rows
  BY RowsOfRequest
<1>2. snapshot[r][Target(r)] \in Nat
  BY <1>1 DEF TypeOK, Snapshot
<1>3. snapshot[r][Target(r)] = balance[Target(r)]
  BY <1>1 DEF SnapshotsAge
<1>4. TypeOK'
  BY <1>1, <1>2 DEF TypeOK
<1>5. Priced' /\ SnapshotsAge' /\ AbsentRowsEmpty'
  BY DEF Priced, SnapshotsAge, AbsentRowsEmpty, TypeOK
<1>6. LocksHeld'
  BY <1>1, WalletLedgerAssumption DEF LocksHeld, TypeOK, HoldsSource, HoldsTarget, Source, Target
<1>7. ReadsAreCurrent'
  BY <1>1, <1>2, <1>3 DEF ReadsAreCurrent, TypeOK, HoldsSource, HoldsTarget, Source, Target
<1>8. Affordable'
  BY DEF Affordable, TypeOK, HoldsSource, HoldsTarget
<1> QED
  BY <1>4, <1>5, <1>6, <1>7, <1>8

LEMMA InsertTargetStep == ASSUME MoneyInv, NEW r \in Requests, InsertTarget(r) PROVE MoneyInv'
<1> USE DEF MoneyInv, InsertTarget, Goto, tables
<1>1. Source(r) \in Rows /\ Target(r) \in Rows
  BY RowsOfRequest
<1>2. balance[Target(r)] = 0
  BY <1>1 DEF AbsentRowsEmpty
<1>4. TypeOK'
  BY <1>1 DEF TypeOK
<1>5. Priced' /\ SnapshotsAge' /\ AbsentRowsEmpty'
  BY DEF Priced, SnapshotsAge, AbsentRowsEmpty, TypeOK
<1>6. LocksHeld'
  BY <1>1, WalletLedgerAssumption DEF LocksHeld, TypeOK, HoldsSource, HoldsTarget, Source, Target
<1>7. ReadsAreCurrent'
  BY <1>1, <1>2 DEF ReadsAreCurrent, TypeOK, HoldsSource, HoldsTarget, Source, Target
<1>8. Affordable'
  BY DEF Affordable, TypeOK, HoldsSource, HoldsTarget
<1> QED
  BY <1>4, <1>5, <1>6, <1>7, <1>8
-----------------------------------------------------------------------------
(* The ends of a request *)

\* Freeing r's locks frees nobody else's.
LEMMA LeaveLocks ==
  ASSUME TypeOK, Priced, LocksHeld, NEW r \in Requests, NEW outcome \in Ended,
         Leave(r, outcome), UNCHANGED op
  PROVE  LocksHeld' /\ lock' \in [Rows -> Requests \cup {None}]
<1>1. lock' \in [Rows -> Requests \cup {None}]
  BY DEF Leave, TypeOK
<1>2. ASSUME NEW q \in Requests, HoldsSource(q)' PROVE lock'[Source(q)'] = q
  <2>1. q # r /\ HoldsSource(q) /\ Source(q)' = Source(q)
    BY <1>2 DEF Leave, Goto, TypeOK, HoldsSource, Source
  <2>2. lock[Source(q)] = q
    BY <2>1 DEF LocksHeld
  <2>3. Source(q) \in Rows
    BY <2>1, RowsOfRequest DEF HoldsSource
  <2> QED
    BY <2>1, <2>2, <2>3 DEF Leave
<1>3. ASSUME NEW q \in Requests, HoldsTarget(q)' PROVE lock'[Target(q)'] = q
  <2>1. q # r /\ HoldsTarget(q) /\ Target(q)' = Target(q)
    BY <1>3 DEF Leave, Goto, TypeOK, HoldsTarget, Target
  <2>2. lock[Target(q)] = q
    BY <2>1 DEF LocksHeld
  <2>3. Target(q) \in Rows
    BY <2>1, RowsOfRequest DEF HoldsTarget
  <2> QED
    BY <2>1, <2>2, <2>3 DEF Leave
<1> QED
  BY <1>1, <1>2, <1>3 DEF LocksHeld
LEMMA RollBackStep ==
  ASSUME MoneyInv, NEW r \in Requests, NEW outcome \in Ended, RollBack(r, outcome)
  PROVE  MoneyInv'
<1> USE DEF MoneyInv, RollBack, tables
<1>1. LocksHeld' /\ lock' \in [Rows -> Requests \cup {None}]
  BY LeaveLocks
<1>2. NoSnapshot \in Snapshot /\ Unread \in [source: Nat, target: Nat]
  BY DEF NoSnapshot, Snapshot, Unread
<1>3. TypeOK'
  BY <1>1, <1>2 DEF TypeOK, Leave, Goto
<1>4. \A q \in Requests : pc'[q] \in Active =>
        /\ pc'[q] = pc[q] /\ snapshot'[q] = snapshot[q]
        /\ missed'[q] = missed[q] /\ read'[q] = read[q]
  BY DEF TypeOK, Leave, Goto
<1>5. Priced' /\ SnapshotsAge' /\ AbsentRowsEmpty'
  BY <1>4 DEF Priced, SnapshotsAge, AbsentRowsEmpty
<1>6. ReadsAreCurrent' /\ Affordable'
  BY <1>4 DEF ReadsAreCurrent, Affordable, HoldsSource, HoldsTarget, Source, Target
<1> QED
  BY <1>1, <1>3, <1>5, <1>6

\* What a commit does to one row: only the two rows under r's locks change.
LEMMA PersistRows ==
  ASSUME MoneyInv, NEW r \in Requests, pc[r] = "commit", Persist(r)
  PROVE  /\ balance' \in [Rows -> Nat]
         /\ ledger' \in [Rows -> Seq(Entry)]
         /\ Touched(op[r]) \subseteq Rows
         /\ \A row \in Touched(op[r]) : lock[row] = r
         /\ \A row \in Rows \ Touched(op[r]) : balance'[row] = balance[row]
<1> USE DEF MoneyInv
<1>1. /\ quote[r] \in [debit: Nat, credit: Nat]
      /\ read[r] \in [source: Nat, target: Nat]
      /\ Source(r) \in Rows /\ Target(r) \in Rows
  BY RowsOfRequest DEF TypeOK
<1>2. NewTarget(r) \in Nat
  BY <1>1, AddType DEF NewTarget
<1>3. IsMove(op[r]) => NewSource(r) \in Nat
  BY <1>1, SubtractType DEF NewSource, Affordable, HoldsSource
<1>4. balance' \in [Rows -> Nat]
  BY <1>2, <1>3 DEF Persist, BalanceAfter, IsSource, TypeOK
<1>5. CreditEntry(r) \in Entry
  BY <1>1, <1>2, ToFixedType DEF CreditEntry, Entry
<1>6. IsMove(op[r]) => DebitEntry(r) \in Entry
  BY <1>1, <1>3, ToFixedType DEF DebitEntry, Entry
<1>7. ledger' \in [Rows -> Seq(Entry)]
  <2>1. \A row \in Rows : LedgerAfter(r)[row] \in Seq(Entry)
    <3> TAKE row \in Rows
    <3>1. ledger[row] \in Seq(Entry)
      BY DEF TypeOK
    <3>2. \A e \in Entry : Append(ledger[row], e) \in Seq(Entry)
      BY <3>1
    <3> QED
      BY <1>5, <1>6, <3>1, <3>2 DEF LedgerAfter, IsSource
  <2> QED
    BY <2>1 DEF Persist, LedgerAfter
<1>8. Touched(op[r]) \subseteq Rows
  BY <1>1 DEF Touched, Source, Target
<1>9. \A row \in Touched(op[r]) : lock[row] = r
  BY DEF Touched, Source, Target, LocksHeld, HoldsSource, HoldsTarget
<1>10. \A row \in Rows \ Touched(op[r]) : balance'[row] = balance[row]
  BY DEF Persist, BalanceAfter, IsSource, Touched, Source, Target
<1> QED
  BY <1>4, <1>7, <1>8, <1>9, <1>10

LEMMA CommitStep == ASSUME MoneyInv, NEW r \in Requests, Commit(r) PROVE MoneyInv'
<1> USE DEF MoneyInv
<1>1. PICK outcome \in {"done", "unknown"} : Leave(r, outcome)
  BY DEF Commit
<1>2. pc[r] = "commit" /\ Persist(r) /\ UNCHANGED <<op, quote>>
  BY DEF Commit
<1>3. LocksHeld' /\ lock' \in [Rows -> Requests \cup {None}]
  BY <1>1, <1>2, LeaveLocks
<1>4. NoSnapshot \in Snapshot /\ Unread \in [source: Nat, target: Nat]
  BY DEF NoSnapshot, Snapshot, Unread
<1>5. TypeOK'
  BY <1>1, <1>2, <1>3, <1>4, PersistRows DEF TypeOK, Leave, Goto, Persist
<1>6. \A q \in Requests : pc'[q] \in Active =>
        /\ q # r /\ pc'[q] = pc[q] /\ snapshot'[q] = snapshot[q] /\ read'[q] = read[q]
  BY <1>1 DEF TypeOK, Leave, Goto
<1>7. Priced' /\ Affordable'
  BY <1>2, <1>6 DEF Priced, Affordable, HoldsSource, Source
<1>8. SnapshotsAge'
  <2> SUFFICES ASSUME NEW q \in Requests, NEW row \in Rows, pc'[q] \in InTransaction,
                      snapshot'[q][row] # None, row \notin missed'[q]
               PROVE  snapshot'[q][row] = balance'[row]
    BY DEF SnapshotsAge
  <2>1. row \notin missed[q] /\ row \notin Touched(op[r])
    BY <1>2, <1>6 DEF Persist
  <2> QED
    BY <1>2, <1>6, <2>1, PersistRows DEF SnapshotsAge
<1>9. ReadsAreCurrent'
  <2>1. ASSUME NEW q \in Requests, HoldsSource(q)'
        PROVE  balance'[Source(q)'] = read'[q].source
    <3>1. q # r /\ HoldsSource(q) /\ Source(q)' = Source(q) /\ read'[q] = read[q]
      BY <1>2, <1>6, <2>1 DEF HoldsSource, Source
    <3>2. Source(q) \in Rows /\ lock[Source(q)] = q
      BY <3>1, RowsOfRequest DEF LocksHeld, HoldsSource
    <3>3. balance'[Source(q)] = balance[Source(q)]
      BY <1>2, <3>1, <3>2, PersistRows
    <3> QED
      BY <3>1, <3>3 DEF ReadsAreCurrent
  <2>2. ASSUME NEW q \in Requests, HoldsTarget(q)'
        PROVE  balance'[Target(q)'] = read'[q].target
    <3>1. q # r /\ HoldsTarget(q) /\ Target(q)' = Target(q) /\ read'[q] = read[q]
      BY <1>2, <1>6, <2>2 DEF HoldsTarget, Target
    <3>2. Target(q) \in Rows /\ lock[Target(q)] = q
      BY <3>1, RowsOfRequest DEF LocksHeld, HoldsTarget
    <3>3. balance'[Target(q)] = balance[Target(q)]
      BY <1>2, <3>1, <3>2, PersistRows
    <3> QED
      BY <3>1, <3>3 DEF ReadsAreCurrent
  <2> QED
    BY <2>1, <2>2 DEF ReadsAreCurrent
<1>10. AbsentRowsEmpty'
  BY <1>2, PersistRows DEF AbsentRowsEmpty, Persist
<1> QED
  BY <1>3, <1>5, <1>7, <1>8, <1>9, <1>10

LEMMA CrashStep == ASSUME MoneyInv, Crash PROVE MoneyInv'
<1> USE DEF MoneyInv, Crash, tables
<1>1. TypeOK'
  BY DEF TypeOK, NoSnapshot, Snapshot, Unread
<1>2. \A r \in Requests : pc'[r] \notin Active \ {"start"}
  BY DEF TypeOK
<1> QED
  BY <1>1, <1>2 DEF Priced, LocksHeld, SnapshotsAge, ReadsAreCurrent, Affordable,
                    AbsentRowsEmpty, HoldsSource, HoldsTarget

\* The steps that end a request without effect.
LEMMA AbortSteps ==
  ASSUME NEW r \in Requests,
         \/ Insufficient(r) \/ SerializationFailure(r) \/ NumericOverflow(r)
         \/ UniqueViolation(r) \/ DeadlockVictim(r) \/ Fault(r)
  PROVE  \E outcome \in Refused \cup Aborted : RollBack(r, outcome)
  BY DEF Insufficient, SerializationFailure, NumericOverflow, UniqueViolation,
         DeadlockVictim, Fault

LEMMA NextMoneyInv == MoneyInv /\ [Next]_vars => MoneyInv'
<1> SUFFICES ASSUME MoneyInv, [Next]_vars PROVE MoneyInv'
  OBVIOUS
<1>1. CASE UNCHANGED vars
  BY <1>1 DEF vars, tables, tx, MoneyInv, TypeOK, Priced, LocksHeld, SnapshotsAge,
     ReadsAreCurrent, Affordable, AbsentRowsEmpty, HoldsSource, HoldsTarget, Source, Target
<1>2. CASE Crash
  BY <1>2, CrashStep
<1>3. CASE Terminating
  BY <1>1, <1>3 DEF Terminating
<1>4. ASSUME NEW r \in Requests, Progress(r) \/ BeginFails(r) \/ Fault(r) PROVE MoneyInv'
  <2>1. CASE Price(r) \/ Reject(r) \/ Connect(r) \/ Begin(r) \/ BeginFails(r)
    BY <2>1, PriceStep, RejectStep, ConnectStep, BeginStep, BeginFailsStep
  <2>2. CASE LockSource(r) \/ LockTarget(r) \/ NoTarget(r) \/ InsertTarget(r)
    BY <2>2, LockSourceStep, LockTargetStep, NoTargetStep, InsertTargetStep
  <2>3. CASE Write(r) \/ Commit(r)
    BY <2>3, WriteStep, CommitStep
  <2>4. CASE \/ Insufficient(r) \/ SerializationFailure(r) \/ NumericOverflow(r)
             \/ UniqueViolation(r) \/ DeadlockVictim(r) \/ Fault(r)
    BY <2>4, AbortSteps, RollBackStep
  <2> QED
    BY <1>4, <2>1, <2>2, <2>3, <2>4 DEF Progress
<1> QED
  BY <1>1, <1>2, <1>3, <1>4 DEF Next

THEOREM MoneyInvariant == Spec => []MoneyInv
  BY InitMoneyInv, NextMoneyInv, PTL DEF Spec

\* Every variable keeps its type: in particular no balance goes below zero.
THEOREM TypeCorrect == Spec => []TypeOK
<1>1. MoneyInv => TypeOK
  BY DEF MoneyInv
<1> QED
  BY <1>1, MoneyInvariant, PTL

\* Nobody changes a balance between the read under its lock and the commit of
\* the value computed from it: no update is lost.
THEOREM NoLostUpdate == Spec => []ReadsAreCurrent
<1>1. MoneyInv => ReadsAreCurrent
  BY DEF MoneyInv
<1> QED
  BY <1>1, MoneyInvariant, PTL

\* The money that passed the balance check stays until the debit commits: no
\* double spending.
THEOREM NoDoubleSpending == Spec => []FundsStayReserved
<1>1. MoneyInv => FundsStayReserved
  BY DEF MoneyInv, ReadsAreCurrent, Affordable, FundsStayReserved
<1> QED
  BY <1>1, MoneyInvariant, PTL
-----------------------------------------------------------------------------
(* Idempotency keys *)

LEMMA InitKeyInv == Init => KeyInv
  BY DEF Init, KeyInv, EffectsAnswered, KeysReserved

\* Steps that leave the key's two registers, the table and the transactions
\* about to commit, as they are or smaller.
LEMMA KeyInvKept ==
  ASSUME MoneyInv, KeyInv, UNCHANGED <<op, transactions>>,
         \A r \in Requests : pc'[r] = "commit" => pc[r] = "commit",
         \A r \in Requests : pc'[r] \in {"done", "unknown"} <=> pc[r] \in {"done", "unknown"}
  PROVE  KeyInv'
  BY DEF KeyInv, EffectsAnswered, KeysReserved, SameKey

LEMMA NextKeyInv == MoneyInv /\ KeyInv /\ [Next]_vars => KeyInv'
<1> SUFFICES ASSUME MoneyInv, KeyInv, [Next]_vars PROVE KeyInv'
  OBVIOUS
<1> pc \in [Requests -> Active \cup Ended]
  BY DEF MoneyInv, TypeOK
<1>1. CASE UNCHANGED vars
  BY <1>1, KeyInvKept DEF vars, tables
<1>2. CASE Crash
  BY <1>2, KeyInvKept DEF Crash, tables
<1>3. CASE Terminating
  BY <1>1, <1>3 DEF Terminating
<1>4. ASSUME NEW r \in Requests, Progress(r) \/ BeginFails(r) \/ Fault(r) PROVE KeyInv'
  <2>1. CASE Price(r) \/ Reject(r) \/ Connect(r) \/ Begin(r) \/ BeginFails(r)
    BY <2>1, KeyInvKept
    DEF Price, Reject, Connect, Begin, BeginFails, Goto, tables
  <2>2. CASE LockSource(r) \/ LockTarget(r) \/ NoTarget(r) \/ InsertTarget(r)
    BY <2>2, KeyInvKept DEF LockSource, LockTarget, NoTarget, InsertTarget, Goto, tables
  <2>3. CASE Write(r)
    BY <2>3 DEF Write, Goto, tables, KeyInv, EffectsAnswered, KeysReserved, KeyCommitted,
                KeyHolders, SameKey
  <2>4. CASE Commit(r)
    BY <2>4 DEF Commit, Leave, Goto, Persist, KeyInv, EffectsAnswered, KeysReserved, SameKey
  <2>5. CASE \/ Insufficient(r) \/ SerializationFailure(r) \/ NumericOverflow(r)
             \/ UniqueViolation(r) \/ DeadlockVictim(r) \/ Fault(r)
    <3>1. PICK outcome \in Refused \cup Aborted : RollBack(r, outcome)
      BY <2>5, AbortSteps
    <3>2. pc[r] \in InTransaction
      BY <2>5 DEF Insufficient, SerializationFailure, NumericOverflow, UniqueViolation,
                  DeadlockVictim, Fault, Wanted, Cycle, WaitsFor
    <3> QED
      BY <3>1, <3>2, KeyInvKept DEF RollBack, Leave, Goto, tables
  <2> QED
    BY <1>4, <2>1, <2>2, <2>3, <2>4, <2>5 DEF Progress
<1> QED
  BY <1>1, <1>2, <1>3, <1>4 DEF Next

THEOREM KeyInvariant == Spec => []KeyInv
  BY InitMoneyInv, InitKeyInv, NextMoneyInv, NextKeyInv, PTL DEF Spec

\* An idempotency key takes effect at most once, however many requests with it
\* run at the same time.
THEOREM KeyTakesEffectOnce == Spec => []OncePerKey
<1>1. KeyInv => OncePerKey
  BY DEF KeyInv, KeysReserved, OncePerKey
<1> QED
  BY <1>1, KeyInvariant, PTL

-----------------------------------------------------------------------------
(* Refinement *)

\* AtomicWallet prices and rounds with the same operators.
LEMMA SameOperators ==
  /\ Atomic!Operation = Operation
  /\ Atomic!Rows = Rows
  /\ \A a, b : Atomic!Add(a, b) = Add(a, b) /\ Atomic!Subtract(a, b) = Subtract(a, b)
  /\ \A o : /\ Atomic!IsMove(o) = IsMove(o)
            /\ Atomic!SourceRow(o) = SourceRow(o)
            /\ Atomic!TargetRow(o) = TargetRow(o)
  BY DEF Atomic!Operation, Operation, Atomic!Rows, Rows, Atomic!Add, Add, Atomic!Subtract,
     Subtract, Atomic!ToFixed, ToFixed, Atomic!Tick, Tick, Atomic!IsMove, IsMove,
     Atomic!SourceRow, SourceRow, Atomic!TargetRow, TargetRow

LEMMA SameQuotes == \A o : Atomic!Quotes(o) = Quotes(o)
  BY DEF Atomic!Quotes, Quotes, Atomic!IsPositive, IsPositive, Atomic!FundQuotes, FundQuotes,
     Atomic!BuyQuotes, BuyQuotes, Atomic!SellQuotes, SellQuotes, Atomic!ConvertQuotes,
     ConvertQuotes, Atomic!Quoted, Quoted, Atomic!Multiply, Multiply, Atomic!Tick, Tick

\* The commit of a request is its atomic settlement: what it read is still
\* there, so it pays from the money of this instant.
LEMMA CommitSettles ==
  ASSUME MoneyInv, KeyInv, NEW r \in Requests, Commit(r)
  PROVE  Atomic!Settle(r)
<1> USE DEF MoneyInv
<1>1. pc[r] = "commit" /\ Persist(r) /\ UNCHANGED op
  BY DEF Commit
<1>2. r \notin transactions
  BY <1>1 DEF KeyInv, EffectsAnswered
<1>3. ~Atomic!KeySpent(op[r].key)
  BY <1>1, <1>2 DEF Atomic!KeySpent, KeyInv, KeysReserved, SameKey, TypeOK
<1>4. quote[r] \in Quotes(op[r])
  BY <1>1 DEF Priced
<1>5. IsMove(op[r]) => balance[Source(r)] >= quote[r].debit /\ balance[Source(r)] = read[r].source
  BY <1>1 DEF ReadsAreCurrent, Affordable, HoldsSource
<1>6. balance[Target(r)] = read[r].target
  BY <1>1 DEF ReadsAreCurrent, HoldsTarget
<1>7. balance' = [row \in Rows |->
        CASE row = TargetRow(op[r]) -> Add(balance[row], quote[r].credit)
          [] IsMove(op[r]) /\ row = SourceRow(op[r]) -> Subtract(balance[row], quote[r].debit)
          [] OTHER -> balance[row]]
  BY <1>1, <1>5, <1>6
  DEF Persist, BalanceAfter, NewTarget, NewSource, IsSource, Source, Target
<1>8. transactions' = transactions \cup {r}
  BY <1>1 DEF Persist
<1> QED
  BY <1>1, <1>2, <1>3, <1>4, <1>5, <1>7, <1>8, SameOperators, SameQuotes
  DEF Atomic!Settle, Atomic!SettleAt, Source

LEMMA StepRefines == MoneyInv /\ KeyInv /\ [Next]_vars => [Atomic!Next]_(Atomic!vars)
<1> SUFFICES ASSUME MoneyInv, KeyInv, [Next]_vars PROVE [Atomic!Next]_(Atomic!vars)
  OBVIOUS
<1> USE DEF Atomic!vars
<1>1. CASE UNCHANGED vars \/ Crash \/ Terminating
  BY <1>1 DEF vars, tables, Crash, Terminating
<1>2. ASSUME NEW r \in Requests, Progress(r) \/ BeginFails(r) \/ Fault(r)
      PROVE  [Atomic!Next]_(Atomic!vars)
  <2>1. CASE Commit(r)
    BY <2>1, CommitSettles DEF Atomic!Next
  <2>2. CASE \/ Insufficient(r) \/ SerializationFailure(r) \/ NumericOverflow(r)
             \/ UniqueViolation(r) \/ DeadlockVictim(r) \/ Fault(r)
    BY <2>2, AbortSteps DEF RollBack, tables
  <2>3. CASE Price(r) \/ Reject(r) \/ Connect(r) \/ Begin(r) \/ BeginFails(r)
    BY <2>3 DEF Price, Reject, Connect, Begin, BeginFails, tables
  <2>4. CASE LockSource(r) \/ LockTarget(r) \/ NoTarget(r) \/ InsertTarget(r) \/ Write(r)
    BY <2>4 DEF LockSource, LockTarget, NoTarget, InsertTarget, Write, tables
  <2> QED
    BY <1>2, <2>1, <2>2, <2>3, <2>4 DEF Progress
<1> QED
  BY <1>1, <1>2 DEF Next

\* Concurrent requests, waits, aborts and crashes add up to a sequence of
\* atomic settlements.
THEOREM Refinement == Spec => ImplementsAtomicWallet
<1>1. Init => Atomic!Init
  BY WalletLedgerAssumption, SameOperators DEF Init, Atomic!Init
<1> QED
  BY <1>1, StepRefines, MoneyInvariant, KeyInvariant, PTL
  DEF Spec, ImplementsAtomicWallet, Atomic!Spec
-----------------------------------------------------------------------------
(* Waiting *)

LEMMA InitLockInv == Init => LockInv
  BY WalletLedgerAssumption DEF Init, LockInv, LocksOwned, SourcesLockedByMoves

\* Steps of one request that take no lock and drop none they still need.
LEMMA LockInvKept ==
  ASSUME MoneyInv, LockInv, UNCHANGED <<op, lock>>,
         \A r \in Requests : HoldsSource(r) => HoldsSource(r)',
         \A r \in Requests : HoldsTarget(r) => HoldsTarget(r)',
         \A r \in Requests : pc'[r] = "lockSource" => IsMove(op[r])
  PROVE  LockInv'
  BY DEF LockInv, LocksOwned, SourcesLockedByMoves, Source, Target

LEMMA LockInvLeave ==
  ASSUME MoneyInv, LockInv, NEW r \in Requests, NEW outcome \in Ended,
         Leave(r, outcome), UNCHANGED op
  PROVE  LockInv'
<1>1. \A q \in Requests : q # r => pc'[q] = pc[q]
  BY DEF Leave, Goto, MoneyInv, TypeOK
<1>2. pc'[r] = outcome
  BY DEF Leave, Goto, MoneyInv, TypeOK
<1>3. \A row \in Rows, q \in Requests : lock'[row] = q => q # r /\ lock[row] = q
  BY WalletLedgerAssumption DEF Leave
<1> QED
  BY <1>1, <1>2, <1>3
  DEF LockInv, LocksOwned, SourcesLockedByMoves, HoldsSource, HoldsTarget, Source, Target

LEMMA NextLockInv == MoneyInv /\ LockInv /\ [Next]_vars => LockInv'
<1> SUFFICES ASSUME MoneyInv, LockInv, [Next]_vars PROVE LockInv'
  OBVIOUS
<1> pc \in [Requests -> Active \cup Ended] /\ lock \in [Rows -> Requests \cup {None}]
  BY DEF MoneyInv, TypeOK
<1>1. CASE UNCHANGED vars
  BY <1>1, LockInvKept DEF vars, LockInv, SourcesLockedByMoves, HoldsSource, HoldsTarget
<1>2. CASE Crash
  BY <1>2, WalletLedgerAssumption DEF Crash, LockInv, LocksOwned, SourcesLockedByMoves
<1>3. CASE Terminating
  BY <1>1, <1>3 DEF Terminating
<1>4. ASSUME NEW r \in Requests, Progress(r) \/ BeginFails(r) \/ Fault(r) PROVE LockInv'
  <2>1. CASE Price(r) \/ Reject(r) \/ Connect(r) \/ Begin(r) \/ BeginFails(r)
             \/ NoTarget(r) \/ Write(r)
    BY <2>1, LockInvKept
    DEF Price, Reject, Connect, Begin, BeginFails, NoTarget, Write, Goto, LockInv,
        SourcesLockedByMoves, HoldsSource, HoldsTarget
  <2>2. CASE LockSource(r)
    BY <2>2, WalletLedgerAssumption
    DEF LockSource, Lockable, Goto, LockInv, LocksOwned, SourcesLockedByMoves, HoldsSource,
        HoldsTarget, Source, Target
  <2>3. CASE LockTarget(r)
    BY <2>3, WalletLedgerAssumption
    DEF LockTarget, Lockable, Goto, LockInv, LocksOwned, SourcesLockedByMoves, HoldsSource,
        HoldsTarget, Source, Target
  <2>4. CASE InsertTarget(r)
    BY <2>4, WalletLedgerAssumption
    DEF InsertTarget, Goto, LockInv, LocksOwned, SourcesLockedByMoves, HoldsSource,
        HoldsTarget, Source, Target
  <2>5. CASE Commit(r)
    BY <2>5, LockInvLeave DEF Commit
  <2>6. CASE \/ Insufficient(r) \/ SerializationFailure(r) \/ NumericOverflow(r)
             \/ UniqueViolation(r) \/ DeadlockVictim(r) \/ Fault(r)
    BY <2>6, AbortSteps, LockInvLeave DEF RollBack
  <2> QED
    BY <1>4, <2>1, <2>2, <2>3, <2>4, <2>5, <2>6 DEF Progress
<1> QED
  BY <1>1, <1>2, <1>3, <1>4 DEF Next

THEOREM LockInvariant == Spec => [](MoneyInv /\ LockInv)
  BY InitMoneyInv, InitLockInv, NextMoneyInv, NextLockInv, PTL DEF Spec

LEMMA RowsNameTheUser ==
  \A r \in Requests : Source(r)[1] = op[r].user /\ Target(r)[1] = op[r].user
  BY DEF Source, Target, SourceRow, TargetRow

\* Whoever waits for a row waits for a holder in the same wallet.
LEMMA RowWait ==
  ASSUME MoneyInv, LockInv, NEW r \in Requests, NEW q \in Requests, NEW row \in Rows,
         row \in {Source(r), Target(r)}, lock[row] = q
  PROVE  op[r].user = op[q].user
<1>1. row = Source(q) \/ row = Target(q)
  BY DEF LockInv, LocksOwned
<1> QED
  BY <1>1, RowsNameTheUser

\* The two kinds of wait: for a row somebody holds, or for a key.
LEMMA WaitKinds ==
  ASSUME MoneyInv, NEW r \in Requests, NEW q \in Requests, WaitsFor(r, q)
  PROVE  \/ pc[r] = "lockSource" /\ Source(r) \in Rows /\ lock[Source(r)] = q
         \/ /\ pc[r] \in {"lockTarget", "insertTarget"}
            /\ Target(r) \in Rows /\ lock[Target(r)] = q
         \/ pc[r] = "write" /\ pc[q] = "commit" /\ SameKey(r, q)
<1>1. pc[r] \in {"lockSource", "lockTarget", "insertTarget"} => Source(r) \in Rows /\ Target(r) \in Rows
  BY RowsOfRequest DEF MoneyInv
<1> QED
  BY <1>1 DEF WaitsFor, Wanted, KeyHolders

\* Users who share no key never wait for each other.
THEOREM Isolation == Spec => []WaitsStayInTheWallet
<1>1. MoneyInv /\ LockInv => WaitsStayInTheWallet
  <2> SUFFICES ASSUME MoneyInv, LockInv, NEW r \in Requests, NEW q \in Requests, WaitsFor(r, q)
               PROVE  op[r].user = op[q].user \/ SameKey(r, q)
    BY DEF WaitsStayInTheWallet
  <2> QED
    BY WaitKinds, RowWait
<1> QED
  BY <1>1, LockInvariant, PTL

\* However many requests run, a deadlock consists of moves of one wallet, each
\* waiting to credit the row the next one debits.
THEOREM DeadlockShape == Spec => []DeadlocksAreOpposedMoves
<1>1. ASSUME MoneyInv, LockInv, NEW S \in SUBSET Requests, Cycle(S),
             NEW r \in S, NEW q \in S, WaitsFor(r, q)
      PROVE  /\ IsMove(op[q]) /\ lock[Source(q)] = q
             /\ IsMove(op[r]) /\ Target(r) = Source(q)
             /\ op[r].user = op[q].user
  <2>1. \A x \in S : pc[x] \in {"lockSource", "lockTarget", "insertTarget"}
    <3> SUFFICES ASSUME NEW x \in S PROVE pc[x] \in {"lockSource", "lockTarget", "insertTarget"}
      OBVIOUS
    <3>1. PICK y \in S : WaitsFor(x, y)
      BY <1>1 DEF Cycle
    <3>2. PICK z \in S : WaitsFor(y, z)
      BY <1>1 DEF Cycle
    <3>3. pc[y] # "commit"
      BY <1>1, <3>2, WaitKinds
    <3> QED
      BY <1>1, <3>1, <3>3, WaitKinds
  <2>2. \A x, y \in S : WaitsFor(x, y) => HoldsSource(y) /\ lock[Source(y)] = y
                        /\ (lock[Target(x)] = y => Target(x) = Source(y))
    <3> SUFFICES ASSUME NEW x \in S, NEW y \in S, WaitsFor(x, y)
                 PROVE  /\ HoldsSource(y) /\ lock[Source(y)] = y
                        /\ lock[Target(x)] = y => Target(x) = Source(y)
      OBVIOUS
    <3>1. ~HoldsTarget(y)
      BY <2>1 DEF HoldsTarget
    <3>2. \E row \in Rows : lock[row] = y
      BY <1>1, <2>1, WaitKinds
    <3>3. Target(x) \in Rows
      BY <1>1, <2>1, RowsOfRequest DEF MoneyInv
    <3> QED
      BY <1>1, <3>1, <3>2, <3>3 DEF LockInv, LocksOwned
  <2>3. PICK p \in S : WaitsFor(p, r)
    BY <1>1 DEF Cycle
  <2>4. HoldsSource(r) /\ HoldsSource(q)
    BY <1>1, <2>2, <2>3
  <2>5. lock[Target(r)] = q /\ Target(r) \in Rows
    BY <1>1, <2>1, <2>4, WaitKinds DEF HoldsSource
  <2>6. op[r].user = op[q].user
    BY <1>1, <2>5, RowWait
  <2> QED
    BY <1>1, <2>2, <2>4, <2>5, <2>6 DEF HoldsSource
<1>2. MoneyInv /\ LockInv => DeadlocksAreOpposedMoves
  BY <1>1 DEF DeadlocksAreOpposedMoves
<1> QED
  BY <1>2, LockInvariant, PTL
-----------------------------------------------------------------------------
(* The ledger *)

LEMMA InitLedgerInv == Init => LedgerInv
<1> SUFFICES ASSUME Init PROVE LedgerInv
  OBVIOUS
<1>1. \A row \in Rows : Len(ledger[row]) = 0
  BY DEF Init
<1>2. BalancesTicked
  BY WalletLedgerAssumption, SMT DEF Init, BalancesTicked, OpeningBalance, Tick
<1> QED
  BY <1>1, <1>2
  DEF Init, LedgerInv, EffectsAnswered, EntriesSettled, LedgerReconciles, Before

\* Everything but a commit leaves the ledger, and the quotes of the
\* transactions in it, alone.
LEMMA LedgerKept ==
  ASSUME MoneyInv, LedgerInv, EffectsAnswered', UNCHANGED <<balance, ledger, transactions>>,
         \A r \in transactions : quote'[r] = quote[r]
  PROVE  LedgerInv'
<1>1. BalancesTicked' /\ EntriesSettled'
  BY DEF LedgerInv, BalancesTicked, EntriesSettled
<1>2. \A row \in Rows, i \in Nat : Before(row, i)' = Before(row, i)
  BY DEF Before
<1>3. ASSUME NEW row \in Rows, NEW i \in 1 .. Len(ledger[row]) PROVE EntryFollows(row, i)'
  <2>1. ledger[row][i].transaction \in transactions
    BY <1>3 DEF LedgerInv, EntriesSettled
  <2>2. Drift(ledger[row][i])' = Drift(ledger[row][i])
    BY <2>1 DEF Drift
  <2>3. Before(row, i)' = Before(row, i)
    BY <1>2
  <2>4. EntryFollows(row, i)
    BY <1>3 DEF LedgerInv, LedgerReconciles
  <2> QED
    BY <2>2, <2>3, <2>4 DEF EntryFollows
<1>4. LedgerReconciles'
  <2>1. ASSUME NEW row \in Rows PROVE (balance[row] = Before(row, Len(ledger[row]) + 1))'
    <3>1. Len(ledger[row]) + 1 \in Nat
      BY DEF MoneyInv, TypeOK
    <3>2. Before(row, Len(ledger[row]) + 1)' = Before(row, Len(ledger[row]) + 1)
      BY <1>2, <3>1 DEF Before
    <3> QED
      BY <3>2 DEF LedgerInv, LedgerReconciles
  <2> QED
    BY <1>3, <2>1 DEF LedgerReconciles
<1> QED
  BY <1>1, <1>4 DEF LedgerInv

\* Appending to a sequence moves nothing that was there.
LEMMA AppendFacts ==
  ASSUME NEW s \in Seq(Entry), NEW e \in Entry
  PROVE  /\ Len(Append(s, e)) = Len(s) + 1
         /\ Append(s, e)[Len(s) + 1] = e
         /\ \A i \in 1 .. Len(s) : Append(s, e)[i] = s[i]
  OBVIOUS

\* A row whose new entry starts from its balance and leaves its new balance
\* still reconciles.
LEMMA ChainGrows ==
  ASSUME MoneyInv, LedgerInv, NEW row \in Rows, NEW e \in Entry, UNCHANGED quote,
         ledger'[row] = Append(ledger[row], e),
         balance'[row] = e.balanceAfter,
         e.balanceAfter = IF e.type = "CREDIT" THEN balance[row] + e.amount
                          ELSE balance[row] - e.amount + Drift(e)
  PROVE  /\ \A i \in 1 .. Len(ledger'[row]) : EntryFollows(row, i)'
         /\ balance'[row] = Before(row, Len(ledger[row]) + 1)'
<1> DEFINE n == Len(ledger[row])
<1>1. ledger[row] \in Seq(Entry) /\ n \in Nat
  BY DEF MoneyInv, TypeOK
<1>2. /\ Len(ledger'[row]) = n + 1 /\ ledger'[row][n + 1] = e
      /\ \A i \in 1 .. n : ledger'[row][i] = ledger[row][i]
  BY <1>1, AppendFacts
<1>3. \A i \in 1 .. n + 1 : Before(row, i)' = Before(row, i)
  BY <1>1, <1>2 DEF Before
<1>4. balance[row] = Before(row, n + 1)
  BY DEF LedgerInv, LedgerReconciles
<1>5. \A x : Drift(x)' = Drift(x)
  BY DEF Drift
<1>6. ASSUME NEW i \in 1 .. n PROVE EntryFollows(row, i)'
  <2>1. ledger'[row][i] = ledger[row][i] /\ Before(row, i)' = Before(row, i)
    BY <1>1, <1>2, <1>3
  <2>2. EntryFollows(row, i)
    BY DEF LedgerInv, LedgerReconciles
  <2> QED
    BY <1>5, <2>1, <2>2 DEF EntryFollows
<1>7. ASSUME NEW i \in Nat, i = n + 1 PROVE EntryFollows(row, i)'
  <2>1. Before(row, i)' = balance[row]
    BY <1>1, <1>3, <1>4, <1>7
  <2> QED
    BY <1>2, <1>5, <1>7, <2>1 DEF EntryFollows
<1>8. balance'[row] = Before(row, Len(ledger[row]) + 1)'
  BY <1>1, <1>2 DEF Before
<1>9. \A i \in 1 .. Len(ledger'[row]) : i \in 1 .. n \/ (i \in Nat /\ i = n + 1)
  BY <1>1, <1>2
<1> QED
  BY <1>6, <1>7, <1>8, <1>9

LEMMA CommitLedger ==
  ASSUME MoneyInv, KeyInv, LedgerInv, EffectsAnswered', NEW r \in Requests, Commit(r)
  PROVE  LedgerInv'
<1> USE DEF MoneyInv
<1>1. pc[r] = "commit" /\ Persist(r) /\ UNCHANGED <<op, quote>>
  BY DEF Commit
<1>2. /\ quote[r] \in [debit: Nat, credit: Nat]
      /\ read[r] \in [source: Nat, target: Nat]
      /\ Source(r) \in Rows /\ Target(r) \in Rows
      /\ IsMove(op[r]) => Source(r) # Target(r)
  BY <1>1, RowsOfRequest DEF TypeOK
<1>3. /\ balance' \in [Rows -> Nat] /\ ledger' \in [Rows -> Seq(Entry)]
  BY <1>1, PersistRows
<1>4. balance[Target(r)] = read[r].target
  BY <1>1 DEF ReadsAreCurrent, HoldsTarget
<1>5. IsMove(op[r]) => balance[Source(r)] = read[r].source /\ read[r].source >= quote[r].debit
  BY <1>1 DEF ReadsAreCurrent, Affordable, HoldsSource
<1>6. \A row \in Rows : balance[row] \in Nat /\ balance[row] % Tick = 0 /\ ledger[row] \in Seq(Entry)
  BY DEF TypeOK, LedgerInv, BalancesTicked
<1>7. /\ ledger'[Target(r)] = Append(ledger[Target(r)], CreditEntry(r))
      /\ balance'[Target(r)] = CreditEntry(r).balanceAfter
      /\ CreditEntry(r) \in Entry /\ CreditEntry(r).type = "CREDIT"
      /\ CreditEntry(r).balanceAfter = balance[Target(r)] + CreditEntry(r).amount
      /\ CreditEntry(r).balanceAfter % Tick = 0
      /\ CreditEntry(r).transaction = r
  <2>1. NewTarget(r) = balance[Target(r)] + ToFixed(quote[r].credit)
    BY <1>2, <1>4, <1>6, AddExact DEF NewTarget
  <2>2. NewTarget(r) % Tick = 0 /\ NewTarget(r) \in Nat
    BY <1>2, <1>4, <1>6, ToFixedTicks, AddType DEF NewTarget, Add
  <2>3. CreditEntry(r) \in Entry
    BY <1>2, <2>2, ToFixedType DEF CreditEntry, Entry
  <2>4. ledger'[Target(r)] = Append(ledger[Target(r)], CreditEntry(r)) /\ balance'[Target(r)] = NewTarget(r)
    BY <1>1, <1>2 DEF Persist, LedgerAfter, BalanceAfter, IsSource
  <2> QED
    BY <2>1, <2>2, <2>3, <2>4 DEF CreditEntry
<1>8. ASSUME IsMove(op[r])
      PROVE  /\ ledger'[Source(r)] = Append(ledger[Source(r)], DebitEntry(r))
             /\ balance'[Source(r)] = DebitEntry(r).balanceAfter
             /\ DebitEntry(r) \in Entry /\ DebitEntry(r).type = "DEBIT"
             /\ DebitEntry(r).balanceAfter =
                  balance[Source(r)] - DebitEntry(r).amount + Drift(DebitEntry(r))
             /\ DebitEntry(r).balanceAfter % Tick = 0
             /\ DebitEntry(r).transaction = r
  <2>1. NewSource(r) = balance[Source(r)] - ToFixed(quote[r].debit)
          + (IF quote[r].debit % Tick = Tick \div 2 THEN Tick ELSE 0)
    BY <1>2, <1>5, <1>6, <1>8, SubtractDrift DEF NewSource
  <2>2. NewSource(r) % Tick = 0 /\ NewSource(r) \in Nat
    <3>1. read[r].source - quote[r].debit \in Nat
      BY <1>2, <1>5, <1>8
    <3> QED
      BY <3>1, ToFixedTicks, ToFixedType DEF NewSource, Subtract
  <2>3. DebitEntry(r) \in Entry
    BY <1>2, <2>2, ToFixedType DEF DebitEntry, Entry
  <2>4. Drift(DebitEntry(r)) = IF quote[r].debit % Tick = Tick \div 2 THEN Tick ELSE 0
    BY DEF Drift, DebitEntry
  <2> QED
    BY <1>1, <1>2, <1>8, <2>1, <2>2, <2>3, <2>4
    DEF Persist, LedgerAfter, BalanceAfter, DebitEntry, IsSource
<1>9. \A row \in Rows \ Touched(op[r]) : ledger'[row] = ledger[row] /\ balance'[row] = balance[row]
  BY <1>1 DEF Persist, LedgerAfter, BalanceAfter, IsSource, Touched, Source, Target
<1>10. Touched(op[r]) = {Target(r)} \cup (IF IsMove(op[r]) THEN {Source(r)} ELSE {})
  BY DEF Touched, Source, Target
<1>11. BalancesTicked'
  BY <1>6, <1>7, <1>8, <1>9, <1>10 DEF BalancesTicked
<1>12. EntriesSettled'
  <2> SUFFICES ASSUME NEW row \in Rows, NEW i \in 1 .. Len(ledger'[row])
               PROVE  ledger'[row][i].transaction \in transactions \cup {r}
    BY <1>1 DEF EntriesSettled, Persist
  <2>1. \A j \in 1 .. Len(ledger[row]) : ledger[row][j].transaction \in transactions
    BY DEF LedgerInv, EntriesSettled
  <2>2. CASE row = Target(r)
    BY <1>6, <1>7, <2>1, <2>2, AppendFacts
  <2>3. CASE IsMove(op[r]) /\ row = Source(r)
    BY <1>6, <1>8, <2>1, <2>3, AppendFacts
  <2>4. CASE row \notin Touched(op[r])
    BY <1>9, <2>1, <2>4
  <2> QED
    BY <1>10, <2>2, <2>3, <2>4
<1>13. LedgerReconciles'
  <2> SUFFICES ASSUME NEW row \in Rows
               PROVE  /\ \A i \in 1 .. Len(ledger'[row]) : EntryFollows(row, i)'
                      /\ balance'[row] = Before(row, Len(ledger[row]) + 1)'
    BY DEF LedgerReconciles
  <2>1. CASE row = Target(r)
    BY <1>1, <1>7, <2>1, ChainGrows
  <2>2. CASE IsMove(op[r]) /\ row = Source(r)
    BY <1>1, <1>8, <2>2, ChainGrows
  <2>3. CASE row \notin Touched(op[r])
    <3>1. ledger'[row] = ledger[row] /\ balance'[row] = balance[row]
      BY <1>9, <2>3
    <3>2. \A i \in Nat : Before(row, i)' = Before(row, i)
      BY <3>1 DEF Before
    <3>3. \A x : Drift(x)' = Drift(x)
      BY <1>1 DEF Drift
    <3>4. /\ \A i \in 1 .. Len(ledger[row]) : EntryFollows(row, i)
          /\ balance[row] = Before(row, Len(ledger[row]) + 1)
      BY DEF LedgerInv, LedgerReconciles
    <3>5. ASSUME NEW i \in 1 .. Len(ledger[row]) PROVE EntryFollows(row, i)'
      <4>1. EntryFollows(row, i) /\ Before(row, i)' = Before(row, i)
        BY <3>2, <3>4
      <4> QED
        BY <3>1, <3>3, <4>1 DEF EntryFollows
    <3>6. Before(row, Len(ledger[row]) + 1)' = Before(row, Len(ledger[row]) + 1)
      BY <3>1 DEF Before
    <3> QED
      BY <3>1, <3>4, <3>5, <3>6
  <2> QED
    BY <1>10, <2>1, <2>2, <2>3
<1> QED
  BY <1>11, <1>12, <1>13 DEF LedgerInv

LEMMA NextLedgerInv == MoneyInv /\ KeyInv /\ LedgerInv /\ [Next]_vars => LedgerInv'
<1> SUFFICES ASSUME MoneyInv, KeyInv, LedgerInv, [Next]_vars PROVE LedgerInv'
  OBVIOUS
<1>0. EffectsAnswered'
  BY NextKeyInv DEF KeyInv
<1>1. CASE UNCHANGED vars
  BY <1>0, <1>1, LedgerKept DEF vars, tables
<1>2. CASE Crash
  BY <1>0, <1>2, LedgerKept DEF Crash, tables
<1>3. CASE Terminating
  BY <1>1, <1>3 DEF Terminating
<1>4. ASSUME NEW r \in Requests, Progress(r) \/ BeginFails(r) \/ Fault(r) PROVE LedgerInv'
  <2>1. CASE Price(r)
    <3>1. r \notin transactions /\ quote \in [Requests -> [debit: Nat, credit: Nat]]
      BY <2>1 DEF Price, KeyInv, EffectsAnswered, MoneyInv, TypeOK
    <3>2. \A q \in transactions : quote'[q] = quote[q]
      BY <2>1, <3>1 DEF Price, MoneyInv, TypeOK
    <3> QED
      BY <1>0, <2>1, <3>2, LedgerKept DEF Price, tables
  <2>2. CASE Reject(r) \/ Connect(r) \/ Begin(r) \/ BeginFails(r)
    BY <1>0, <2>2, LedgerKept DEF Reject, Connect, Begin, BeginFails, tables
  <2>3. CASE LockSource(r) \/ LockTarget(r) \/ NoTarget(r) \/ InsertTarget(r) \/ Write(r)
    BY <1>0, <2>3, LedgerKept DEF LockSource, LockTarget, NoTarget, InsertTarget, Write, tables
  <2>4. CASE Commit(r)
    BY <1>0, <2>4, CommitLedger
  <2>5. CASE \/ Insufficient(r) \/ SerializationFailure(r) \/ NumericOverflow(r)
             \/ UniqueViolation(r) \/ DeadlockVictim(r) \/ Fault(r)
    BY <1>0, <2>5, AbortSteps, LedgerKept DEF RollBack, tables
  <2> QED
    BY <1>4, <2>1, <2>2, <2>3, <2>4, <2>5 DEF Progress
<1> QED
  BY <1>1, <1>2, <1>3, <1>4 DEF Next

\* Whatever runs concurrently, each row's ledger is an unbroken chain from the
\* opening balance to the balance now, up to the rounding of half-tick debits.
THEOREM LedgerIsUnbroken == Spec => []LedgerReconciles
<1>1. Spec => [](MoneyInv /\ KeyInv /\ LedgerInv)
  BY InitMoneyInv, InitKeyInv, InitLedgerInv, NextMoneyInv, NextKeyInv, NextLedgerInv, PTL DEF Spec
<1>2. LedgerInv => LedgerReconciles
  BY DEF LedgerInv
<1> QED
  BY <1>1, <1>2, PTL

-----------------------------------------------------------------------------
(* The pool *)

LEMMA ConnIsFinite == TypeOK => IsFiniteSet(conn) /\ Cardinality(conn) \in Nat
  BY WalletLedgerAssumption, FS_Subset, FS_CardinalityType DEF TypeOK

LEMMA InitConnections == Init => ConnectionsAccounted
<1> SUFFICES ASSUME Init PROVE ConnectionsAccounted
  OBVIOUS
<1>1. Cardinality(conn) = 0
  BY FS_EmptySet DEF Init
<1> QED
  BY <1>1, WalletLedgerAssumption DEF Init, ConnectionsAccounted, InTransaction

\* A step that moves requests without taking a connection keeps the count, and
\* keeps the rest if the connection goes exactly when the transaction ends.
LEMMA ConnectionsKept ==
  ASSUME TypeOK, ConnectionsAccounted, conn' \subseteq conn,
         \A r \in Requests :
           /\ pc'[r] \in InTransaction \cup {"begin"} => r \in conn'
           /\ r \in conn' => pc'[r] \in InTransaction \cup {"begin", "leaked"}
  PROVE  ConnectionsAccounted'
<1>1. Cardinality(conn') <= Cardinality(conn) /\ Cardinality(conn') \in Nat
  BY ConnIsFinite, FS_Subset, FS_CardinalityType
<1>2. Cardinality(conn') <= PoolSize
  BY <1>1, ConnIsFinite, WalletLedgerAssumption DEF ConnectionsAccounted
<1> QED
  BY <1>2 DEF ConnectionsAccounted

LEMMA ConnectionsLeave ==
  ASSUME TypeOK, ConnectionsAccounted, NEW r \in Requests,
         NEW outcome \in Ended, Leave(r, outcome)
  PROVE  ConnectionsAccounted'
<1>1. \A q \in Requests : pc'[q] = IF q = r THEN outcome ELSE pc[q]
  BY DEF Leave, Goto, TypeOK
<1>2. conn' = conn \ {r}
  BY DEF Leave
<1> QED
  BY <1>1, <1>2, ConnectionsKept
  DEF ConnectionsAccounted, InTransaction, Ended, Refused, Aborted

LEMMA NextConnections == TypeOK /\ ConnectionsAccounted /\ [Next]_vars => ConnectionsAccounted'
<1> SUFFICES ASSUME TypeOK, ConnectionsAccounted, [Next]_vars PROVE ConnectionsAccounted'
  OBVIOUS
<1>0. pc \in [Requests -> Active \cup Ended] /\ conn \subseteq Requests
  BY DEF TypeOK
<1>1. CASE UNCHANGED vars
  BY <1>1 DEF vars, ConnectionsAccounted
<1>2. CASE Crash
  <2>1. \A r \in Requests : pc'[r] \notin InTransaction \cup {"begin"}
    BY <1>2 DEF Crash, Active, InTransaction
  <2>2. conn' = {}
    BY <1>2 DEF Crash
  <2> QED
    BY <2>1, <2>2, ConnectionsKept
<1>3. CASE Terminating
  BY <1>1, <1>3 DEF Terminating
<1>4. ASSUME NEW r \in Requests, Progress(r) \/ BeginFails(r) \/ Fault(r)
      PROVE  ConnectionsAccounted'
  <2>1. CASE Price(r) \/ Reject(r)
    <3>1. conn' = conn /\ r \notin conn
      BY <2>1 DEF Price, Reject, ConnectionsAccounted, InTransaction
    <3>2. \A q \in Requests : pc'[q] = pc[q] \/ (q = r /\ pc'[q] \in {"connect", "rejected"})
      BY <1>0, <2>1 DEF Price, Reject, Goto
    <3> QED
      BY <3>1, <3>2, ConnectionsKept DEF ConnectionsAccounted, InTransaction
  <2>2. CASE Connect(r)
    <3>1. conn' = conn \cup {r} /\ Cardinality(conn) < PoolSize
      BY <2>2 DEF Connect
    <3>2. Cardinality(conn') <= PoolSize
      <4>1. Cardinality(conn \cup {r}) \in {Cardinality(conn), Cardinality(conn) + 1}
        BY ConnIsFinite, FS_AddElement
      <4> QED
        BY <3>1, <4>1, ConnIsFinite, WalletLedgerAssumption
    <3>3. \A q \in Requests : pc'[q] = IF q = r THEN "begin" ELSE pc[q]
      BY <1>0, <2>2 DEF Connect, Goto
    <3> QED
      BY <3>1, <3>2, <3>3 DEF ConnectionsAccounted
  <2>3. CASE \/ Begin(r) \/ BeginFails(r) \/ LockSource(r) \/ LockTarget(r)
             \/ NoTarget(r) \/ InsertTarget(r) \/ Write(r)
    <3>1. conn' = conn /\ r \in conn
      BY <2>3
      DEF Begin, BeginFails, LockSource, LockTarget, NoTarget, InsertTarget, Write,
          ConnectionsAccounted, InTransaction
    <3>2. \A q \in Requests :
            pc'[q] = pc[q] \/ (q = r /\ pc'[q] \in InTransaction \cup {"leaked"})
      BY <1>0, <2>3
      DEF Begin, BeginFails, LockSource, LockTarget, NoTarget, InsertTarget, Write, Goto,
          InTransaction
    <3> QED
      BY <3>1, <3>2, ConnectionsKept DEF ConnectionsAccounted, InTransaction
  <2>4. CASE Commit(r)
    BY <2>4, ConnectionsLeave DEF Commit, Ended
  <2>5. CASE \/ Insufficient(r) \/ SerializationFailure(r) \/ NumericOverflow(r)
             \/ UniqueViolation(r) \/ DeadlockVictim(r) \/ Fault(r)
    BY <2>5, AbortSteps, ConnectionsLeave DEF RollBack, Ended
  <2> QED
    BY <1>4, <2>1, <2>2, <2>3, <2>4, <2>5 DEF Progress
<1> QED
  BY <1>1, <1>2, <1>3, <1>4 DEF Next

\* The pool is never overdrawn, every transaction has its connection, and only
\* a refused START TRANSACTION keeps one that nobody will return.
THEOREM ConnectionsReturn == Spec => []ConnectionsAccounted
<1>1. MoneyInv => TypeOK
  BY DEF MoneyInv
<1> QED
  BY <1>1, InitMoneyInv, InitConnections, NextMoneyInv, NextConnections, PTL DEF Spec

-----------------------------------------------------------------------------
(* Progress *)

\* Whoever holds a lock has not ended.
LEMMA HoldersGoOn ==
  ASSUME LockInv, NEW row \in Rows, NEW q \in Requests, lock[row] = q
  PROVE  pc[q] \in InTransaction
  BY DEF LockInv, LocksOwned, HoldsSource, HoldsTarget

\* A request in its transaction that cannot go on waits for another one in its
\* own.
LEMMA WaitsForSomebody ==
  ASSUME MoneyInv, LockInv, NEW r \in Requests, pc[r] \in InTransaction, ~Able(r)
  PROVE  \E q \in Requests : q # r /\ pc[q] \in InTransaction /\ WaitsFor(r, q)
<1>1. /\ Source(r) \in Rows /\ Target(r) \in Rows
      /\ IsMove(op[r]) => Source(r) # Target(r)
  BY RowsOfRequest DEF MoneyInv
<1>2. lock \in [Rows -> Requests \cup {None}]
  BY DEF MoneyInv, TypeOK
<1>3. /\ pc[r] = "lockSource" => lock[Source(r)] # r
      /\ pc[r] \in {"lockTarget", "insertTarget"} => lock[Target(r)] # r
  BY <1>1 DEF LockInv, LocksOwned, HoldsSource, HoldsTarget
<1>4. CASE pc[r] \in {"lockSource", "lockTarget"}
  <2>1. PICK row \in Wanted(r) \ missed[r] : lock[row] # None
    BY <1>4 DEF Able
  <2>2. row \in {Source(r), Target(r)} /\ row \in Rows /\ lock[row] # r
    BY <1>1, <1>3, <1>4, <2>1 DEF Wanted
  <2>3. lock[row] \in Requests
    BY <1>2, <2>1, <2>2
  <2> QED
    BY <2>1, <2>2, <2>3, HoldersGoOn DEF WaitsFor
<1>5. CASE pc[r] = "insertTarget"
  <2>1. Target(r) \notin rows /\ lock[Target(r)] # None
    BY <1>5 DEF Able
  <2>2. lock[Target(r)] \in Requests /\ lock[Target(r)] # r
    BY <1>1, <1>2, <1>3, <1>5, <2>1
  <2> QED
    BY <1>1, <1>5, <2>1, <2>2, HoldersGoOn DEF WaitsFor
<1>6. CASE pc[r] = "write"
  <2>1. Fits(r) /\ ~KeyCommitted(r) /\ KeyHolders(r) # {}
    BY <1>6 DEF Able
  <2>2. PICK q \in KeyHolders(r) : q \in Requests /\ q # r /\ pc[q] = "commit"
    BY <2>1 DEF KeyHolders
  <2> QED
    BY <1>6, <2>1, <2>2 DEF WaitsFor
<1>7. pc[r] # "commit"
  BY DEF Able
<1> QED
  BY <1>4, <1>5, <1>6, <1>7

\* Where everybody waits for somebody, there is a ring of waits.
LEMMA RingOfWaits ==
  ASSUME NEW W \in SUBSET Requests, W # {},
         \A r \in W : \E q \in W : q # r /\ WaitsFor(r, q)
  PROVE  \E S \in SUBSET W : Cycle(S)
<1> DEFINE Closed(S) == S # {} /\ \A r \in S : \E q \in S : q # r /\ WaitsFor(r, q)
           B == {S \in SUBSET W : Closed(S)}
<1>1. IsFiniteSet(W)
  BY WalletLedgerAssumption, FS_Subset
<1>2. PICK S \in B : \A T \in SUBSET W : Cardinality(T) < Cardinality(S) => T \notin B
  <2>1. B \in SUBSET (SUBSET W) /\ B # {}
    OBVIOUS
  <2> HIDE DEF B
  <2> QED
    BY <1>1, <2>1, SmallestSet
<1>3. S \in SUBSET W /\ Closed(S)
  OBVIOUS
<1>4. ASSUME NEW q \in S, \A r \in S : ~WaitsFor(r, q)
      PROVE  FALSE
  <2> DEFINE T == S \ {q}
  <2>1. T \in SUBSET W /\ Closed(T)
    BY <1>3, <1>4
  <2>2. Cardinality(T) < Cardinality(S)
    BY <1>1, <1>3, PickOne
  <2> QED
    BY <1>2, <2>1, <2>2
<1> QED
  BY <1>3, <1>4 DEF Cycle

\* When nobody is in a transaction and nobody can go on, the pool is lost.
LEMMA PoolOrProgress ==
  ASSUME TypeOK, ConnectionsAccounted, \A r \in Requests : ~Able(r),
         \A r \in Requests : pc[r] \notin InTransaction,
         NEW r \in Requests, pc[r] \notin Ended
  PROVE  PoolLost
<1>1. \A q \in Requests : pc[q] \in Ended \cup {"connect"}
  BY DEF TypeOK, Able
<1>2. Cardinality(conn) = PoolSize
  <2>1. ~(Cardinality(conn) < PoolSize)
    BY <1>1 DEF Able
  <2> QED
    BY <2>1, ConnIsFinite, WalletLedgerAssumption DEF ConnectionsAccounted
<1>3. {q \in conn : pc[q] = "leaked"} = conn
  BY <1>1 DEF TypeOK, ConnectionsAccounted
<1> QED
  BY <1>2, <1>3 DEF PoolLost

\* For every number of requests and connections: as long as somebody has not ended,
\* somebody can go on, or the whole pool has leaked.
THEOREM Unstuck == Spec => []NobodyIsStuck
<1>1. ASSUME MoneyInv, LockInv, ConnectionsAccounted
      PROVE  NobodyIsStuck
  <2> SUFFICES ASSUME \A r \in Requests : ~Able(r), NEW r \in Requests, pc[r] \notin Ended
               PROVE  PoolLost
    BY DEF NobodyIsStuck
  <2> DEFINE W == {q \in Requests : pc[q] \in InTransaction}
  <2>1. W = {}
    <3> SUFFICES ASSUME W # {} PROVE FALSE
      OBVIOUS
    <3>1. \A q \in W : \E p \in W : p # q /\ WaitsFor(q, p)
      BY <1>1, WaitsForSomebody
    <3>2. PICK S \in SUBSET W : Cycle(S)
      <4> HIDE DEF W
      <4>1. W \in SUBSET Requests
        BY DEF W
      <4> QED
        BY <3>1, <4>1, RingOfWaits
    <3>3. PICK q \in S : q \in Requests
      BY <3>2 DEF Cycle
    <3>4. S \in SUBSET Requests
      OBVIOUS
    <3> QED
      BY <3>2, <3>3, <3>4 DEF Able
  <2> QED
    BY <1>1, <2>1, PoolOrProgress DEF MoneyInv
<1>2. Spec => [](MoneyInv /\ LockInv)
  BY LockInvariant
<1> QED
  BY <1>1, <1>2, ConnectionsReturn, PTL

\* How many steps a request at this stage is from its end, at most.
Rank(stage) ==
  CASE stage = "start"        -> 8
    [] stage = "connect"      -> 7
    [] stage = "begin"        -> 6
    [] stage = "lockSource"   -> 5
    [] stage = "lockTarget"   -> 4
    [] stage = "insertTarget" -> 3
    [] stage = "write"        -> 2
    [] stage = "commit"       -> 1
    [] stage \in Ended        -> 0

LEMMA Ranks ==
  /\ Rank("start") = 8 /\ Rank("connect") = 7 /\ Rank("begin") = 6
  /\ Rank("lockSource") = 5 /\ Rank("lockTarget") = 4 /\ Rank("insertTarget") = 3
  /\ Rank("write") = 2 /\ Rank("commit") = 1
  /\ \A stage \in Ended : Rank(stage) = 0
  BY DEF Rank

GoesForward ==
  /\ \A r \in Requests : pc'[r] = pc[r] \/ Rank(pc'[r]) < Rank(pc[r])
  /\ \E r \in Requests : pc'[r] # pc[r]

\* Every step of the system brings some request closer to its end and takes none
\* away from it: no error is retried, and no request is sent back by another.
THEOREM RequestsGoForward == Spec => [][GoesForward]_vars
<1>1. ASSUME TypeOK, [Next]_vars, vars' # vars
      PROVE  GoesForward
  <2> USE DEF Goto
  <2>0. pc \in [Requests -> Active \cup Ended]
    BY <1>1 DEF TypeOK
  <2>1. CASE Crash
    BY <2>0, <2>1, Ranks DEF Crash, GoesForward
  <2>2. ASSUME NEW r \in Requests, NEW stage, pc' = [pc EXCEPT ![r] = stage],
               stage # pc[r], Rank(stage) < Rank(pc[r])
        PROVE  GoesForward
    BY <2>0, <2>2 DEF GoesForward
  <2>3. ASSUME NEW r \in Requests, Progress(r) \/ BeginFails(r) \/ Fault(r)
        PROVE  GoesForward
    <3>0. \A stage \in Ended : Rank(stage) = 0
      BY Ranks
    <3>1. CASE \/ Price(r) \/ Reject(r) \/ Connect(r) \/ Begin(r) \/ BeginFails(r)
               \/ LockSource(r) \/ LockTarget(r) \/ NoTarget(r) \/ InsertTarget(r) \/ Write(r)
      <4>1. CASE Price(r) \/ Connect(r)
        BY <2>2, <4>1, Ranks DEF Price, Connect
      <4>2. CASE Reject(r) \/ BeginFails(r)
        <5>1. PICK stage \in {"rejected", "leaked"} : pc' = [pc EXCEPT ![r] = stage]
          BY <4>2 DEF Reject, BeginFails
        <5>2. pc[r] \in {"start", "begin"} /\ Rank(pc[r]) > 0
          BY <4>2, Ranks DEF Reject, BeginFails
        <5>3. Rank(stage) = 0 /\ stage # pc[r]
          BY <3>0, <5>2
        <5> QED
          BY <2>2, <5>1, <5>2, <5>3
      <4>3. CASE Begin(r) \/ LockSource(r) \/ LockTarget(r)
        BY <2>2, <4>3, Ranks DEF Begin, LockSource, LockTarget
      <4>4. CASE NoTarget(r) \/ InsertTarget(r) \/ Write(r)
        BY <2>2, <4>4, Ranks DEF NoTarget, InsertTarget, Write
      <4> QED
        BY <3>1, <4>1, <4>2, <4>3, <4>4
    <3>2. CASE Commit(r)
      <4>1. PICK outcome \in {"done", "unknown"} : pc' = [pc EXCEPT ![r] = outcome]
        BY <3>2 DEF Commit, Leave
      <4>2. pc[r] = "commit" /\ Rank(pc[r]) > 0
        BY <3>2, Ranks DEF Commit
      <4>3. Rank(outcome) = 0 /\ outcome # pc[r]
        BY <3>0, <4>2
      <4> QED
        BY <2>2, <4>1, <4>2, <4>3
    <3>3. CASE \/ Insufficient(r) \/ SerializationFailure(r) \/ NumericOverflow(r)
               \/ UniqueViolation(r) \/ DeadlockVictim(r) \/ Fault(r)
      <4>1. PICK outcome \in Refused \cup Aborted : pc' = [pc EXCEPT ![r] = outcome]
        BY <3>3, AbortSteps DEF RollBack, Leave
      <4>2. pc[r] \in Active
        BY <3>3 DEF Insufficient, SerializationFailure, Wanted, NumericOverflow, UniqueViolation,
                    DeadlockVictim, Cycle, WaitsFor, Fault
      <4>3. outcome # pc[r] /\ Rank(outcome) = 0
        BY <3>0, <4>2
      <4>4. Rank(pc[r]) > 0
        BY <4>2, Ranks
      <4> QED
        BY <2>2, <4>1, <4>3, <4>4
    <3> QED
      BY <2>3, <3>1, <3>2, <3>3 DEF Progress
  <2> QED
    BY <1>1, <2>1, <2>3 DEF Next, Terminating
<1>2. MoneyInv => TypeOK
  BY DEF MoneyInv
<1>3. TypeOK /\ [Next]_vars => [GoesForward]_vars
  BY <1>1
<1> QED
  BY <1>2, <1>3, InitMoneyInv, NextMoneyInv, PTL DEF Spec

-----------------------------------------------------------------------------
(* The entries of a request *)

LEMMA InitSettled == Init => SettledCompletely
<1> SUFFICES ASSUME Init PROVE SettledCompletely
  OBVIOUS
<1>1. \A r, type : \A row \in Rows : EntriesOf(r, row, type) = {}
  BY DEF Init, EntriesOf
<1>2. \A r \in Requests : r \notin transactions /\ pc[r] = "start"
  BY DEF Init
<1> QED
  BY <1>1, <1>2, FS_EmptySet DEF SettledCompletely

\* A step that writes neither table settles nothing.
LEMMA SettledKept ==
  ASSUME SettledCompletely, EffectsAnswered', UNCHANGED <<op, ledger, transactions>>
  PROVE  SettledCompletely'
<1>1. \A r, row, type : EntriesOf(r, row, type)' = EntriesOf(r, row, type)
  BY DEF EntriesOf
<1>2. \A r \in Requests : Target(r)' = Target(r) /\ \A row : IsSource(r, row)' = IsSource(r, row)
  BY DEF Target, IsSource, Source
<1> QED
  BY <1>1, <1>2 DEF SettledCompletely, EffectsAnswered

\* A row that gets one entry of r, whose first it is, has exactly that one of
\* r's, and as many of everybody else's as before.
LEMMA OneMoreEntry ==
  ASSUME MoneyInv, NEW r \in Requests, NEW row \in Rows, NEW e \in Entry,
         e.transaction = r, ledger'[row] = Append(ledger[row], e),
         \A i \in 1 .. Len(ledger[row]) : ledger[row][i].transaction # r
  PROVE  /\ \A q, type : q # r => EntriesOf(q, row, type)' = EntriesOf(q, row, type)
         /\ \A type : Cardinality(EntriesOf(r, row, type)') = IF type = e.type THEN 1 ELSE 0
<1> DEFINE n == Len(ledger[row])
<1>1. ledger[row] \in Seq(Entry) /\ n \in Nat
  BY DEF MoneyInv, TypeOK
<1>2. /\ Len(ledger'[row]) = n + 1 /\ ledger'[row][n + 1] = e
      /\ \A i \in 1 .. n : ledger'[row][i] = ledger[row][i]
  BY <1>1, AppendFacts
<1>3. ASSUME NEW q, NEW type, q # r
      PROVE  EntriesOf(q, row, type)' = EntriesOf(q, row, type)
  <2>1. \A i \in 1 .. n + 1 :
          ledger'[row][i].transaction = q => i \in 1 .. n
    BY <1>1, <1>2, <1>3
  <2> QED
    BY <1>1, <1>2, <2>1 DEF EntriesOf
<1>4. ASSUME NEW type PROVE EntriesOf(r, row, type)' = IF type = e.type THEN {n + 1} ELSE {}
  <2>1. \A i \in 1 .. n + 1 : ledger'[row][i].transaction = r <=> i = n + 1
    BY <1>1, <1>2
  <2> QED
    BY <1>1, <1>2, <2>1 DEF EntriesOf
<1>5. Cardinality({n + 1}) = 1 /\ Cardinality({}) = 0
  BY FS_EmptySet, FS_Singleton
<1> QED
  BY <1>3, <1>4, <1>5

LEMMA CommitSettlesOnce ==
  ASSUME MoneyInv, LedgerInv, SettledCompletely, EffectsAnswered',
         NEW r \in Requests, Commit(r)
  PROVE  SettledCompletely'
<1>1. pc[r] = "commit" /\ Persist(r) /\ UNCHANGED <<op, quote>>
  BY DEF Commit
<1>2. r \notin transactions /\ transactions' = transactions \cup {r}
  BY <1>1 DEF LedgerInv, EffectsAnswered, Persist
<1>3. /\ quote[r] \in [debit: Nat, credit: Nat] /\ read[r] \in [source: Nat, target: Nat]
      /\ Source(r) \in Rows /\ Target(r) \in Rows
      /\ IsMove(op[r]) => Source(r) # Target(r)
  <2>1. TypeOK /\ Priced
    BY DEF MoneyInv
  <2>2. quote[r] \in [debit: Nat, credit: Nat] /\ read[r] \in [source: Nat, target: Nat]
    BY <2>1 DEF TypeOK
  <2> QED
    BY <1>1, <2>1, <2>2, RowsOfRequest DEF Active, InTransaction
<1>4. \A row \in Rows : \A i \in 1 .. Len(ledger[row]) : ledger[row][i].transaction # r
  BY <1>2 DEF LedgerInv, EntriesSettled
<1>5. \A q \in Requests : Target(q)' = Target(q) /\ \A row : IsSource(q, row)' = IsSource(q, row)
  BY <1>1 DEF Target, IsSource, Source
<1>6. CreditEntry(r) \in Entry /\ CreditEntry(r).transaction = r /\ CreditEntry(r).type = "CREDIT"
  BY <1>3, ToFixedType, AddType DEF CreditEntry, Entry, NewTarget
<1>7. ASSUME IsMove(op[r])
      PROVE  DebitEntry(r) \in Entry /\ DebitEntry(r).transaction = r /\ DebitEntry(r).type = "DEBIT"
  <2>1. read[r].source >= quote[r].debit
    BY <1>1, <1>7 DEF MoneyInv, Affordable, HoldsSource
  <2> QED
    BY <1>3, <2>1, ToFixedType, SubtractType DEF DebitEntry, Entry, NewSource
<1>8. ASSUME NEW row \in Rows
      PROVE  /\ \A q, type :
                  q # r => EntriesOf(q, row, type)' = EntriesOf(q, row, type)
             /\ Cardinality(EntriesOf(r, row, "CREDIT")') = IF row = Target(r) THEN 1 ELSE 0
             /\ Cardinality(EntriesOf(r, row, "DEBIT")') = IF IsSource(r, row) THEN 1 ELSE 0
  <2>1. CASE row = Target(r)
    <3>1. ledger'[row] = Append(ledger[row], CreditEntry(r)) /\ ~IsSource(r, row)
      BY <1>1, <1>3, <2>1 DEF Persist, LedgerAfter, IsSource
    <3> QED
      BY <1>4, <1>6, <2>1, <3>1, OneMoreEntry
  <2>2. CASE IsSource(r, row)
    <3>1. IsMove(op[r]) /\ row # Target(r) /\ ledger'[row] = Append(ledger[row], DebitEntry(r))
      BY <1>1, <1>3, <2>2 DEF Persist, LedgerAfter, IsSource
    <3> QED
      BY <1>4, <1>7, <2>2, <3>1, OneMoreEntry
  <2>3. CASE row # Target(r) /\ ~IsSource(r, row)
    <3>1. ledger'[row] = ledger[row]
      BY <1>1, <2>3 DEF Persist, LedgerAfter
    <3>2. \A q, type : EntriesOf(q, row, type)' = EntriesOf(q, row, type)
      BY <3>1 DEF EntriesOf
    <3>3. \A type : EntriesOf(r, row, type) = {}
      BY <1>4 DEF EntriesOf
    <3> QED
      BY <2>3, <3>2, <3>3, FS_EmptySet
  <2> QED
    BY <2>1, <2>2, <2>3
<1> QED
  BY <1>2, <1>5, <1>8 DEF SettledCompletely, EffectsAnswered

LEMMA NextSettled ==
  MoneyInv /\ KeyInv /\ LedgerInv /\ SettledCompletely /\ [Next]_vars => SettledCompletely'
<1> SUFFICES ASSUME MoneyInv, KeyInv, LedgerInv, SettledCompletely, [Next]_vars
             PROVE  SettledCompletely'
  OBVIOUS
<1>0. EffectsAnswered'
  BY NextKeyInv DEF KeyInv
<1>1. CASE UNCHANGED vars
  BY <1>0, <1>1, SettledKept DEF vars, tables
<1>2. CASE Crash
  BY <1>0, <1>2, SettledKept DEF Crash, tables
<1>3. CASE Terminating
  BY <1>1, <1>3 DEF Terminating
<1>4. ASSUME NEW r \in Requests, Progress(r) \/ BeginFails(r) \/ Fault(r)
      PROVE  SettledCompletely'
  <2>1. CASE Price(r) \/ Reject(r) \/ Connect(r) \/ Begin(r) \/ BeginFails(r)
    BY <1>0, <2>1, SettledKept DEF Price, Reject, Connect, Begin, BeginFails, tables
  <2>2. CASE LockSource(r) \/ LockTarget(r) \/ NoTarget(r) \/ InsertTarget(r) \/ Write(r)
    BY <1>0, <2>2, SettledKept
    DEF LockSource, LockTarget, NoTarget, InsertTarget, Write, tables
  <2>3. CASE Commit(r)
    BY <1>0, <2>3, CommitSettlesOnce
  <2>4. CASE \/ Insufficient(r) \/ SerializationFailure(r) \/ NumericOverflow(r)
             \/ UniqueViolation(r) \/ DeadlockVictim(r) \/ Fault(r)
    BY <1>0, <2>4, AbortSteps, SettledKept DEF RollBack, tables
  <2> QED
    BY <1>4, <2>1, <2>2, <2>3, <2>4 DEF Progress
<1> QED
  BY <1>1, <1>2, <1>3, <1>4 DEF Next

\* A request that took effect has its transaction row and exactly one entry on
\* each of its rows; one that did not has left no trace.
THEOREM SettledWhole == Spec => []SettledCompletely
  BY InitMoneyInv, InitKeyInv, InitLedgerInv, InitSettled, NextMoneyInv, NextKeyInv,
     NextLedgerInv, NextSettled, PTL DEF Spec
=============================================================================
