-------------------------- MODULE TransactionHistory --------------------------
(***************************************************************************)
(* GET /wallet and GET /transactions beside the money requests: a client   *)
(* looks at its balances and pages through its transactions while others   *)
(* settle.                                                                 *)
(*                                                                         *)
(* A money request is AtomicWallet's Settle, which WalletLedger implements *)
(* (theorem Refinement), preceded by the start of its transaction:         *)
(* created_at defaults to now(), which is the time the transaction         *)
(* STARTED, so that a row may appear in the middle of the list.  A page is *)
(* counted and fetched by two statements.  Nothing is locked by a reader.  *)
(*                                                                         *)
(* created_at counts the transactions started so far, so that no two of    *)
(* them have the same one (its unit is the microsecond).  Pages are sets:  *)
(* the order decides which rows are on one, how they stand on it is        *)
(* layout.  Every row has the status COMPLETED; the filter by status is    *)
(* left out, as are fee and exchangeRate.                                  *)
(***************************************************************************)
EXTENDS AtomicWallet, FiniteSets, Functions

CONSTANTS
  Work,        \* the operations the requests may carry
  Reader,      \* the user who reads
  Clients      \* what the reader asks for, in which order, and when it stops

\* TransactionFilter: `type` is None for every type; `until` is how many starts
\* of transactions lie before dateTo, and dateFrom is left out, being its mirror.
\* A client stops at the last of totalPages, or at the first page with fewer
\* than `limit` rows.
Client ==
  [first: {"balances", "history"}, stopsAt: {"totalPages", "shortPage"},
   type: {"FUNDING", "TRADE", "CONVERSION", None}, until: Nat, limit: Nat \ {0}]

\* A row of transactions, as far as the reader is concerned.
Row == [type: {"FUNDING", "TRADE", "CONVERSION"}, user: Users,
        source: Currencies, sourceAmount: Nat,
        target: Currencies \cup {None}, targetAmount: Nat]

ASSUME HistoryAssumption ==
  /\ IsFiniteSet(Requests)
  /\ None \notin Row
  /\ Work \subseteq Operation
  /\ Opening = [row \in Rows |-> 0]
  /\ Reader \in Wallets
  /\ Clients \subseteq Client

VARIABLES
  now,        \* the database's clock
  created,    \* the created_at of each request whose transaction has started, or 0
  posted,     \* transactions: the row of each settled request, or None
  client,     \* the reader, never changed
  stage,      \* where the reader is
  shown,      \* the balances GET /wallet returned
  page,       \* the page it asks for next
  total,      \* the count that goes with this page
  list,       \* the transactions on all pages so far
  length,     \* the number of rows these pages had
  before,     \* those that had settled when the first page was asked for
  arrivals,   \* how many have settled since
  raced       \* how many have settled between the last count and its page

reader == <<client, stage, shown, page, total, list, length, before, arrivals, raced>>
hvars  == <<vars, now, created, posted, reader>>

HInit ==
  /\ op \in [Requests -> Work]
  /\ balance = Opening
  /\ settled = {}
  /\ now = 1
  /\ created = [r \in Requests |-> 0]
  /\ posted = [r \in Requests |-> None]
  /\ client \in Clients
  /\ stage = client.first
  /\ shown = [c \in {} |-> 0]
  /\ page = 1
  /\ total = 0
  /\ list = {}
  /\ length = 0
  /\ before = {}
  /\ arrivals = 0
  /\ raced = 0

-----------------------------------------------------------------------------
(* The writers *)

Type(o) ==
  CASE o.kind = "FUND"    -> "FUNDING"
    [] o.kind = "CONVERT" -> "CONVERSION"
    [] OTHER              -> "TRADE"

\* The row: of a funding, the amount credited stands in the source columns.
TransactionRow(o, q) ==
  IF IsMove(o)
  THEN [type |-> Type(o), user |-> o.user,
        source |-> SourceRow(o)[2], sourceAmount |-> ToFixed(q.debit),
        target |-> TargetRow(o)[2], targetAmount |-> ToFixed(q.credit)]
  ELSE [type |-> Type(o), user |-> o.user,
        source |-> NGN, sourceAmount |-> ToFixed(q.credit),
        target |-> None, targetAmount |-> 0]

Paging == stage = "fetch" \/ (stage = "history" /\ page > 1)

\* A bound: what settles after the reader has stopped is of no interest.
Observed == stage # "done"

\* START TRANSACTION: now() is fixed.
StartTransaction(r) ==
  /\ Observed
  /\ created[r] = 0
  /\ created' = [created EXCEPT ![r] = now]
  /\ now' = now + 1
  /\ UNCHANGED <<vars, posted, reader>>

\* A transaction that never commits is never seen.
CommitTransaction(r) ==
  /\ Observed
  /\ created[r] # 0
  /\ \E q \in Quotes(op[r]) :
       /\ SettleAt(r, q)
       /\ posted' = [posted EXCEPT ![r] = TransactionRow(op[r], q)]
  /\ arrivals' = IF Paging THEN arrivals + 1 ELSE arrivals
  /\ raced' = IF stage = "fetch" THEN raced + 1 ELSE raced
  /\ UNCHANGED <<now, created, client, stage, shown, page, total, list, length, before>>

-----------------------------------------------------------------------------
(* getBalances *)

\* A wallet begins without rows; the ones that requests create stay.
BalanceRows == UNION {Touched(op[r]) : r \in settled}

OwnCurrencies == {c \in Currencies : <<Reader, c>> \in BalanceRows}

\* What the reader does after one of the two.
After(part) ==
  IF client.first # part THEN "done"
  ELSE CHOOSE other \in {"balances", "history"} : other # part

\* Mutant: one query per currency.
GetBalancesOneByOne ==
  /\ stage = "balances"
  /\ \E c \in Currencies \ DOMAIN shown :
       shown' = [x \in DOMAIN shown \cup {c} |-> IF x = c THEN balance[<<Reader, c>>] ELSE shown[x]]
  /\ stage' = IF DOMAIN shown' = Currencies THEN After("balances") ELSE "balances"
  /\ UNCHANGED <<vars, now, created, posted, client, page, total, list, length, before, arrivals, raced>>

\* findByWalletId, and zeros when the wallet has no rows yet.
GetBalances ==
  /\ stage = "balances"
  /\ shown' = IF OwnCurrencies = {} THEN [c \in Currencies |-> 0]
              ELSE [c \in OwnCurrencies |-> balance[<<Reader, c>>]]
  /\ stage' = After("balances")
  /\ UNCHANGED <<vars, now, created, posted, client, page, total, list, length, before, arrivals, raced>>

-----------------------------------------------------------------------------
(* findWithFilters *)

\* Mutant: the query does not name the user.
MatchesOfAnyUser(r) ==
  /\ posted[r] # None
  /\ client.type \in {None, posted[r].type}
  /\ created[r] <= client.until

Matches(r) ==
  /\ posted[r] # None
  /\ posted[r].user = Reader
  /\ client.type \in {None, posted[r].type}
  /\ created[r] <= client.until

Listing == {r \in Requests : Matches(r)}

\* ORDER BY created_at DESC: the newest stands first.
Place(r) == Cardinality({q \in Listing : created[q] >= created[r]})

\* Mutant: pages are counted from zero.
SkipFromZero(p) == p * client.limit

\* Mutant: rows are counted from one.
SkipFromOne(p) == IF p = 1 THEN 0 ELSE (p - 1) * client.limit - 1

Skip(p) == (p - 1) * client.limit

Page(p) == {r \in Listing : Place(r) \in Skip(p) + 1 .. Skip(p) + client.limit}

\* Math.ceil(total / limit)
TotalPages == (total + client.limit - 1) \div client.limit

\* getCount
Count ==
  /\ stage = "history"
  /\ total' = Cardinality(Listing)
  /\ before' = IF page = 1 THEN Listing ELSE before
  /\ raced' = 0
  /\ stage' = "fetch"
  /\ UNCHANGED <<vars, now, created, posted, client, shown, page, list, length, arrivals>>

IsLast(rows) ==
  IF client.stopsAt = "totalPages" THEN page >= TotalPages ELSE Cardinality(rows) < client.limit

\* getMany, and what the client makes of the answer.
FetchPage ==
  /\ stage = "fetch"
  /\ list' = list \cup Page(page)
  /\ length' = length + Cardinality(Page(page))
  /\ page' = page + 1
  /\ stage' = IF IsLast(Page(page)) THEN After("history") ELSE "history"
  /\ UNCHANGED <<vars, now, created, posted, client, shown, total, before, arrivals, raced>>

-----------------------------------------------------------------------------
Terminating ==
  /\ stage = "done"
  /\ UNCHANGED hvars

HNext ==
  \/ \E r \in Requests : StartTransaction(r) \/ CommitTransaction(r)
  \/ GetBalances
  \/ Count
  \/ FetchPage
  \/ Terminating

HSpec == HInit /\ [][HNext]_hvars

-----------------------------------------------------------------------------
\* Nobody is shown another user's transactions.
TypeOK ==
  /\ op \in [Requests -> Work]
  /\ balance \in [Rows -> Nat]
  /\ now \in Nat
  /\ created \in [Requests -> Nat]
  /\ settled \subseteq {r \in Requests : created[r] # 0}
  /\ posted \in [Requests -> Row \cup {None}]
  /\ client \in Clients
  /\ stage \in {"balances", "history", "fetch", "done"}
  /\ DOMAIN shown \subseteq Currencies /\ Range(shown) \subseteq Nat
  /\ {page, total, length, arrivals, raced} \subseteq Nat
  /\ list \subseteq {r \in settled : op[r].user = Reader}
  /\ before \subseteq settled

HistoryRead == stage \notin {"history", "fetch"} /\ page > 1

\* A client that stops at totalPages trusts a count that transactions committed
\* between it and its page have made too small.
Uncounted == IF client.stopsAt = "totalPages" THEN raced ELSE 0

\* No gaps.  However many transactions are committed between its pages, and
\* wherever in the list their created_at puts them, a client that has read to the
\* end has seen every transaction that was there when it began, but for one at
\* most for each of those that the last count it trusted came too early for.
HistoryIsComplete == HistoryRead => Cardinality(before \ list) <= Uncounted

\* A transaction appears twice only when a page was pushed down by a new one.
RepeatsAreBounded == length - Cardinality(list) <= arrivals

\* What the row t says of the balance in c.
Effect(t, c) ==
  IF t.source = c
  THEN IF t.type = "FUNDING" THEN t.sourceAmount ELSE -t.sourceAmount
  ELSE IF t.target = c THEN t.targetAmount ELSE 0

Replayed(S, c) == SumFunction([r \in S |-> Effect(posted[r], c)])

Debits(S, c) == Cardinality({r \in S : Effect(posted[r], c) < 0})

\* The balances shown are those that the transactions S leave, but for the tick
\* that each debit may fail to take (WalletProperties: Drift).
Explains(S) ==
  \A c \in DOMAIN shown :
    shown[c] \in Replayed(S, c) .. Replayed(S, c) + Tick * Debits(S, c)

Own == {r \in settled : op[r].user = Reader}

\* GET /wallet shows one instant, and the history tells the same story: the
\* balances of all currencies are those after one set of the user's
\* transactions.  A history read later shows all of these that it is asked for,
\* one read earlier shows no others.
HistoryExplainsBalances ==
  stage = "done" =>
    \E S \in SUBSET Own :
      /\ Explains(S)
      /\ client.first = "balances" /\ Uncounted = 0 =>
           {r \in S : Matches(r)} \subseteq list
      /\ client.first = "history" => list \subseteq S
=============================================================================
