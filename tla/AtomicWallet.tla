---------------------------- MODULE AtomicWallet ----------------------------
(***************************************************************************)
(* What the wallet promises its callers: a request either settles in one   *)
(* indivisible step or changes nothing.  A settlement is paid from the     *)
(* money that is in the wallet at that instant, and a request, or an       *)
(* idempotency key, settles at most once.                                  *)
(***************************************************************************)
EXTENDS Quote

CONSTANTS Requests, Opening

VARIABLES
  op,        \* what each request asks for
  balance,   \* the money in each row
  settled    \* the requests that took effect

vars == <<op, balance, settled>>

Init ==
  /\ op \in [Requests -> Operation]
  /\ balance = Opening
  /\ settled = {}

KeySpent(key) == key # None /\ \E r \in settled : op[r].key = key

\* r takes effect, for the quote q.
SettleAt(r, q) ==
  /\ r \notin settled
  /\ ~KeySpent(op[r].key)
  /\ IsMove(op[r]) => balance[SourceRow(op[r])] >= q.debit
  /\ balance' = [row \in Rows |->
       CASE row = TargetRow(op[r]) -> Add(balance[row], q.credit)
         [] IsMove(op[r]) /\ row = SourceRow(op[r]) -> Subtract(balance[row], q.debit)
         [] OTHER -> balance[row]]
  /\ settled' = settled \cup {r}
  /\ UNCHANGED op

Settle(r) == \E q \in Quotes(op[r]) : SettleAt(r, q)

Next == \E r \in Requests : Settle(r)

Spec == Init /\ [][Next]_vars
=============================================================================
