---------------------- MODULE TransactionHistory_proofs ----------------------
(***************************************************************************)
(* Proofs about TransactionHistory, for every number of requests, rates,   *)
(* currencies and clients, and for pages of every size.                    *)
(***************************************************************************)
EXTENDS TransactionHistory, Money_proofs, Finite_proofs

-----------------------------------------------------------------------------
(* The inductive invariant *)

\* A row is posted by each settled request, and by no other, under its user's
\* name; the clock has passed every created_at.
RowsInv ==
  /\ \A r \in Requests : created[r] < now
  /\ \A r, q \in Requests : created[r] = created[q] /\ created[r] # 0 => r = q
  /\ \A r \in Requests : posted[r] # None <=> r \in settled
  /\ \A r \in settled : posted[r].user = op[r].user

Reading == stage \in {"history", "fetch"}

\* What was there when the first page was asked for has been shown, or stands
\* behind the pages read so far.
NothingSkipped == Reading => \A r \in before \ list : Place(r) > Skip(page)

PagingInv ==
  /\ page > 0
  /\ page = 1 => list = {} /\ length = 0
  /\ client.first = "balances" /\ stage = "balances" => page = 1
  /\ client.first = "balances" /\ stage = "done" => page > 1
  /\ list \subseteq Listing
  /\ before \subseteq Listing
  /\ NothingSkipped
  /\ stage = "fetch" => Cardinality(Listing) <= total + raced
  /\ HistoryIsComplete

\* Transactions that were shown and have been pushed back behind the pages read
\* so far: they will be shown again.
Behind == {r \in list : Place(r) > Skip(page)}

RepeatsInv ==
  /\ RepeatsAreBounded
  /\ Reading => length + Cardinality(Behind) <= Cardinality(list) + arrivals

\* The reader's balances are what its transactions leave.
LedgerInv ==
  \A c \in Currencies :
    /\ balance[<<Reader, c>>] % Tick = 0
    /\ balance[<<Reader, c>>] \in Replayed(Own, c) .. Replayed(Own, c) + Tick * Debits(Own, c)

\* The transactions that explain the balances shown still do, and those that the
\* reader asks for were there when it asked for the first page.
StoryInv ==
  /\ client.first = "balances" /\ stage # "balances" =>
       \E S \in SUBSET Own :
         /\ Explains(S)
         /\ page > 1 \/ stage = "fetch" => {r \in S : Matches(r)} \subseteq before
  /\ client.first = "history" /\ stage = "done" =>
       \E S \in SUBSET Own : Explains(S) /\ list \subseteq S

HInv == TypeOK /\ RowsInv /\ PagingInv /\ RepeatsInv /\ LedgerInv /\ StoryInv
-----------------------------------------------------------------------------
(* What a row says of a balance *)

LEMMA EffectType == \A t \in Row, c \in Currencies : Effect(t, c) \in Int
<1> TAKE t \in Row, c \in Currencies
<1>1. t.sourceAmount \in Nat /\ t.targetAmount \in Nat
  BY DEF Row
<1> QED
  BY <1>1 DEF Effect

LEMMA TransactionRowType ==
  ASSUME NEW o \in Operation, NEW q \in Quotes(o)
  PROVE  /\ TransactionRow(o, q) \in Row
         /\ TransactionRow(o, q).user = o.user
<1>1. q.debit \in Nat /\ q.credit \in Nat
  BY QuoteFacts
<1>2. ToFixed(q.debit) \in Nat /\ ToFixed(q.credit) \in Nat
  BY <1>1, ToFixedType
<1>3. SourceRow(o)[2] \in Currencies /\ TargetRow(o)[2] \in Currencies /\ NGN \in Currencies
  BY QuoteAssumption DEF Operation, SourceRow, TargetRow
<1>4. Type(o) \in {"FUNDING", "TRADE", "CONVERSION"} /\ o.user \in Users
  BY DEF Type, Operation
<1> QED
  BY <1>2, <1>3, <1>4 DEF TransactionRow, Row

\* The balance in c of the operation's user after it has settled.
Settlement(o, q, c, b) ==
  CASE <<o.user, c>> = TargetRow(o) -> Add(b, q.credit)
    [] IsMove(o) /\ <<o.user, c>> = SourceRow(o) -> Subtract(b, q.debit)
    [] OTHER -> b

\* The row says what the settlement does to the balance in any currency, but for
\* the tick that a debit may fail to take.
LEMMA RowEffect ==
  ASSUME NEW o \in Operation, NEW q \in Quotes(o), NEW c \in Currencies,
         NEW b \in Nat, b % Tick = 0,
         IsMove(o) /\ <<o.user, c>> = SourceRow(o) => b >= q.debit,
         NEW e, e = Effect(TransactionRow(o, q), c)
  PROVE  /\ e \in Int
         /\ Settlement(o, q, c, b) \in Nat
         /\ Settlement(o, q, c, b) % Tick = 0
         /\ \/ Settlement(o, q, c, b) = b + e
            \/ e < 0 /\ Settlement(o, q, c, b) = b + e + Tick
<1> DEFINE row == TransactionRow(o, q)
           after == Settlement(o, q, c, b)
<1>1. q.debit \in Nat /\ q.credit \in Nat /\ (IsMove(o) => SourceRow(o) # TargetRow(o))
  BY QuoteFacts
<1>2. ToFixed(q.debit) \in Nat /\ ToFixed(q.credit) \in Nat
  BY <1>1, ToFixedType
<1>3. /\ <<o.user, c>> = TargetRow(o) <=> c = TargetRow(o)[2]
      /\ <<o.user, c>> = SourceRow(o) <=> c = SourceRow(o)[2]
  BY DEF TargetRow, SourceRow
<1>4. e \in Int
  BY TransactionRowType, EffectType
<1>5. CASE <<o.user, c>> = TargetRow(o)
  <2>1. after = Add(b, q.credit)
    BY <1>1, <1>5 DEF Settlement
  <2>2. after = b + ToFixed(q.credit)
    BY <1>1, <2>1, AddExact
  <2>3. after \in Nat /\ after % Tick = 0
    BY <1>1, <2>1, AddType, ToFixedTicks DEF Add
  <2>4. e = ToFixed(q.credit)
    <3>1. CASE IsMove(o)
      <4>1. row.target = c /\ row.source # c /\ row.targetAmount = ToFixed(q.credit)
        BY <1>1, <1>3, <1>5, <3>1 DEF TransactionRow, TargetRow, SourceRow
      <4> QED
        BY <4>1 DEF Effect
    <3>2. CASE ~IsMove(o)
      <4>1. c = NGN
        BY <1>5, <3>2 DEF IsMove, TargetRow
      <4>2. row.type = "FUNDING" /\ row.source = c /\ row.sourceAmount = ToFixed(q.credit)
        BY <3>2, <4>1 DEF TransactionRow, Type, IsMove
      <4> QED
        BY <4>2 DEF Effect
    <3> QED
      BY <3>1, <3>2
  <2> QED
    BY <1>4, <2>2, <2>3, <2>4
<1>6. CASE <<o.user, c>> # TargetRow(o) /\ IsMove(o) /\ <<o.user, c>> = SourceRow(o)
  <2>1. after = Subtract(b, q.debit)
    BY <1>6 DEF Settlement
  <2>2. after = b - ToFixed(q.debit) + (IF q.debit % Tick = Tick \div 2 THEN Tick ELSE 0)
    BY <1>1, <1>6, <2>1, SubtractDrift
  <2>3. after \in Nat /\ after % Tick = 0
    <3>1. b - q.debit \in Nat
      BY <1>1, <1>6
    <3> QED
      BY <1>1, <1>6, <2>1, <3>1, SubtractType, ToFixedTicks DEF Subtract
  <2>4. e = -ToFixed(q.debit)
    <3>1. row.type # "FUNDING" /\ row.source = c /\ row.sourceAmount = ToFixed(q.debit)
      BY <1>3, <1>6 DEF TransactionRow, Type, IsMove, Operation
    <3> QED
      BY <3>1 DEF Effect
  <2>5. q.debit % Tick = Tick \div 2 => ToFixed(q.debit) > 0
    BY <1>1, SMT DEF ToFixed, Tick
  <2>6. CASE q.debit % Tick = Tick \div 2
    <3>1. e < 0
      BY <1>2, <2>4, <2>5, <2>6
    <3>2. after = b + e + Tick
      BY <1>2, <2>2, <2>4, <2>6 DEF Tick
    <3> QED
      BY <1>4, <2>3, <3>1, <3>2
  <2>7. CASE q.debit % Tick # Tick \div 2
    <3>1. after = b + e
      BY <1>2, <2>2, <2>4, <2>7
    <3> QED
      BY <1>4, <2>3, <3>1
  <2> QED
    BY <2>6, <2>7
<1>7. CASE <<o.user, c>> # TargetRow(o) /\ ~(IsMove(o) /\ <<o.user, c>> = SourceRow(o))
  <2>1. after = b
    BY <1>7 DEF Settlement
  <2>2. e = 0
    <3>1. CASE IsMove(o)
      <4>1. row.target # c /\ row.source # c
        BY <1>3, <1>7, <3>1 DEF TransactionRow
      <4> QED
        BY <4>1 DEF Effect
    <3>2. CASE ~IsMove(o)
      <4>1. c # NGN
        BY <1>7, <3>2 DEF IsMove, TargetRow
      <4>2. row.source # c /\ row.targetAmount = 0
        BY <3>2, <4>1 DEF TransactionRow
      <4> QED
        BY <4>2 DEF Effect
    <3> QED
      BY <3>1, <3>2
  <2> QED
    BY <1>4, <2>1, <2>2
<1> QED
  BY <1>5, <1>6, <1>7

\* What the rows po of the transactions S say together.
Sums(po, S, c) == SumFunction([r \in S |-> Effect(po[r], c)])

Losses(po, S, c) == Cardinality({r \in S : Effect(po[r], c) < 0})

LEMMA SumsType ==
  ASSUME NEW S, IsFiniteSet(S), NEW po, \A r \in S : po[r] \in Row, NEW c \in Currencies
  PROVE  Sums(po, S, c) \in Int /\ Losses(po, S, c) \in Nat
<1> DEFINE w == [r \in S |-> Effect(po[r], c)]
           D == {r \in S : Effect(po[r], c) < 0}
<1>1. \A r \in S : w[r] \in Int
  BY EffectType
<1>2. SumFunctionOnSet(w, S) \in Int
  <2> HIDE DEF w
  <2> QED
    BY <1>1, SumType
<1>3. IsFiniteSet(D)
  BY FS_Subset
<1>4. Cardinality(D) \in Nat
  <2> HIDE DEF D
  <2> QED
    BY <1>3, FS_CardinalityType
<1> QED
  BY <1>2, <1>4 DEF Sums, Losses, SumFunction

\* Rows that do not change say the same.
LEMMA SumsAgree ==
  ASSUME NEW S, NEW po, NEW pn, \A r \in S : pn[r] = po[r], NEW c
  PROVE  Sums(pn, S, c) = Sums(po, S, c) /\ Losses(pn, S, c) = Losses(po, S, c)
<1>1. [r \in S |-> Effect(pn[r], c)] = [r \in S |-> Effect(po[r], c)]
  OBVIOUS
<1>2. {r \in S : Effect(pn[r], c) < 0} = {r \in S : Effect(po[r], c) < 0}
  OBVIOUS
<1> QED
  BY <1>1, <1>2 DEF Sums, Losses

\* One more row.
LEMMA SumsGrow ==
  ASSUME NEW S, IsFiniteSet(S), NEW po, \A r \in S : po[r] \in Row, NEW c \in Currencies,
         NEW x, x \notin S, po[x] \in Row
  PROVE  /\ Sums(po, S \cup {x}, c) = Sums(po, S, c) + Effect(po[x], c)
         /\ Losses(po, S \cup {x}, c) = Losses(po, S, c) + (IF Effect(po[x], c) < 0 THEN 1 ELSE 0)
<1> DEFINE T == S \cup {x}
           v == [r \in S |-> Effect(po[r], c)]
           w == [r \in T |-> Effect(po[r], c)]
           D == {r \in S : Effect(po[r], c) < 0}
           E == {r \in T : Effect(po[r], c) < 0}
<1>1. /\ \A r \in T : w[r] \in Int
      /\ \A r \in S : w[r] \in Int /\ v[r] = w[r]
      /\ w[x] = Effect(po[x], c)
  BY EffectType
<1>2. IsFiniteSet(T)
  BY FS_AddElement
<1>3. S \in SUBSET T /\ x \in T \ S /\ T = S \cup {x}
  OBVIOUS
<1>4. SumFunctionOnSet(w, T) = SumFunctionOnSet(w, S) + w[x]
  <2> HIDE DEF w, T
  <2> QED
    BY <1>1, <1>2, <1>3, SumAdd
<1>5. SumFunctionOnSet(v, S) = SumFunctionOnSet(w, S)
  <2> HIDE DEF v, w, T
  <2> QED
    BY <1>1, SumAgree
<1>6. Sums(po, S, c) = SumFunctionOnSet(v, S) /\ Sums(po, S \cup {x}, c) = SumFunctionOnSet(w, T)
  BY DEF Sums, SumFunction
<1>7. Sums(po, S \cup {x}, c) = Sums(po, S, c) + Effect(po[x], c)
  <2> HIDE DEF v, w, T
  <2> QED
    BY <1>1, <1>4, <1>5, <1>6
<1>8. E = IF Effect(po[x], c) < 0 THEN D \cup {x} ELSE D
  OBVIOUS
<1>9. IsFiniteSet(D) /\ x \notin D
  BY FS_Subset
<1>10. Cardinality(E) = Cardinality(D) + (IF Effect(po[x], c) < 0 THEN 1 ELSE 0)
  <2> HIDE DEF D, E
  <2>1. Cardinality(D) \in Nat
    BY <1>9, FS_CardinalityType
  <2>2. Cardinality(D \cup {x}) = Cardinality(D) + 1
    BY <1>9, FS_AddElement
  <2> QED
    BY <1>8, <2>1, <2>2
<1> QED
  BY <1>7, <1>10 DEF Losses
-----------------------------------------------------------------------------
(* Types and rows *)

LEMMA ClientFacts ==
  ASSUME TypeOK
  PROVE  /\ client.first \in {"balances", "history"}
         /\ client.limit \in Nat \ {0}
         /\ client.until \in Nat
         /\ After("balances") = IF client.first = "balances" THEN "history" ELSE "done"
         /\ After("history") = IF client.first = "history" THEN "balances" ELSE "done"
<1>1. client \in Client
  BY HistoryAssumption DEF TypeOK
<1>2. client.first \in {"balances", "history"} /\ client.limit \in Nat \ {0} /\ client.until \in Nat
  BY <1>1 DEF Client
<1>3. \A part, other \in {"balances", "history"} : other # part =>
        (CHOOSE x \in {"balances", "history"} : x # part) = other
  OBVIOUS
<1> QED
  BY <1>2, <1>3 DEF After

LEMMA OpType == TypeOK => \A r \in Requests : op[r] \in Operation
  BY HistoryAssumption DEF TypeOK

LEMMA OpeningIsEmpty == Opening \in [Rows -> Nat] /\ \A row \in Rows : Opening[row] = 0
  BY HistoryAssumption

LEMMA InitTypes == HInit => TypeOK /\ RowsInv
<1> SUFFICES ASSUME HInit PROVE TypeOK /\ RowsInv
  OBVIOUS
<1> USE DEF HInit
<1>1. balance \in [Rows -> Nat]
  BY OpeningIsEmpty
<1>2. stage \in {"balances", "history", "fetch", "done"}
  BY HistoryAssumption DEF Client
<1>3. DOMAIN shown \subseteq Currencies /\ Range(shown) \subseteq Nat
  BY DEF Range
<1>4. /\ {page, total, length, arrivals} \subseteq Nat
      /\ posted \in [Requests -> Row \cup {None}]
      /\ created \in [Requests -> Nat]
      /\ settled \subseteq {r \in Requests : created[r] # 0}
      /\ list \subseteq {r \in settled : op[r].user = Reader}
      /\ before \subseteq settled
  OBVIOUS
<1>5. TypeOK
  BY <1>1, <1>2, <1>3, <1>4 DEF TypeOK
<1>6. RowsInv
  BY DEF RowsInv
<1> QED
  BY <1>5, <1>6

LEMMA StartTypes ==
  ASSUME TypeOK, RowsInv, NEW r \in Requests, StartTransaction(r)
  PROVE  TypeOK' /\ RowsInv'
<1> USE DEF StartTransaction, vars, reader
<1>1. now \in Nat /\ now' = now + 1 /\ now' \in Nat /\ now > 0
  BY DEF TypeOK, RowsInv
<1>2. created' \in [Requests -> Nat] /\ \A x \in Requests : created[x] # 0 => created'[x] # 0
  BY <1>1 DEF TypeOK
<1>3. TypeOK'
  BY <1>1, <1>2 DEF TypeOK
<1>4. \A x \in Requests : created'[x] < now'
  BY <1>1 DEF TypeOK, RowsInv
<1>5. \A x, y \in Requests : created'[x] = created'[y] /\ created'[x] # 0 => x = y
  BY <1>1 DEF TypeOK, RowsInv
<1>6. RowsInv'
  BY <1>4, <1>5 DEF RowsInv
<1> QED
  BY <1>3, <1>6

\* A settlement in the words of the row it posts.
LEMMA CommitFacts ==
  ASSUME TypeOK, RowsInv, NEW r \in Requests, CommitTransaction(r)
  PROVE  \E q \in Quotes(op[r]) :
           /\ op[r] \in Operation
           /\ r \notin settled
           /\ posted[r] = None
           /\ created[r] # 0
           /\ settled' = settled \cup {r}
           /\ posted' = [posted EXCEPT ![r] = TransactionRow(op[r], q)]
           /\ TransactionRow(op[r], q) \in Row
           /\ TransactionRow(op[r], q).user = op[r].user
           /\ TransactionRow(op[r], q) # None
           /\ IsMove(op[r]) => balance[SourceRow(op[r])] >= q.debit
           /\ balance' = [row \in Rows |->
                CASE row = TargetRow(op[r]) -> Add(balance[row], q.credit)
                  [] IsMove(op[r]) /\ row = SourceRow(op[r]) -> Subtract(balance[row], q.debit)
                  [] OTHER -> balance[row]]
           /\ UNCHANGED <<op, now, created, client, stage, shown, page, total, list, length, before>>
<1>1. PICK q \in Quotes(op[r]) :
        /\ SettleAt(r, q)
        /\ posted' = [posted EXCEPT ![r] = TransactionRow(op[r], q)]
  BY DEF CommitTransaction
<1>2. op[r] \in Operation
  BY OpType
<1>3. TransactionRow(op[r], q) \in Row /\ TransactionRow(op[r], q).user = op[r].user
  BY <1>2, TransactionRowType
<1>4. TransactionRow(op[r], q) # None
  BY <1>3, HistoryAssumption
<1>5. r \notin settled /\ posted[r] = None
  BY <1>1 DEF SettleAt, RowsInv
<1> QED
  BY <1>1, <1>2, <1>3, <1>4, <1>5 DEF SettleAt, CommitTransaction

LEMMA CommitTypes ==
  ASSUME TypeOK, RowsInv, NEW r \in Requests, CommitTransaction(r)
  PROVE  TypeOK' /\ RowsInv'
<1>1. PICK q \in Quotes(op[r]) :
        /\ op[r] \in Operation
        /\ r \notin settled
        /\ posted[r] = None
        /\ created[r] # 0
        /\ settled' = settled \cup {r}
        /\ posted' = [posted EXCEPT ![r] = TransactionRow(op[r], q)]
        /\ TransactionRow(op[r], q) \in Row
        /\ TransactionRow(op[r], q).user = op[r].user
        /\ TransactionRow(op[r], q) # None
        /\ IsMove(op[r]) => balance[SourceRow(op[r])] >= q.debit
        /\ balance' = [row \in Rows |->
             CASE row = TargetRow(op[r]) -> Add(balance[row], q.credit)
               [] IsMove(op[r]) /\ row = SourceRow(op[r]) -> Subtract(balance[row], q.debit)
               [] OTHER -> balance[row]]
        /\ UNCHANGED <<op, now, created, client, stage, shown, page, total, list, length, before>>
  BY CommitFacts
<1>2. q.debit \in Nat /\ q.credit \in Nat /\ (IsMove(op[r]) => SourceRow(op[r]) # TargetRow(op[r]))
  BY <1>1, QuoteFacts
<1>3. balance' \in [Rows -> Nat]
  <2>1. ASSUME NEW row \in Rows PROVE balance'[row] \in Nat
    <3>1. balance[row] \in Nat
      BY DEF TypeOK
    <3>2. Add(balance[row], q.credit) \in Nat
      BY <1>2, <3>1, AddType
    <3>3. balance[row] >= q.debit => Subtract(balance[row], q.debit) \in Nat
      BY <1>2, <3>1, SubtractType
    <3> QED
      BY <1>1, <1>2, <3>1, <3>2, <3>3
  <2> QED
    BY <1>1, <2>1
<1>4. posted' \in [Requests -> Row \cup {None}]
  BY <1>1 DEF TypeOK
<1>5. /\ arrivals' \in Nat
      /\ raced' \in Nat
  BY DEF CommitTransaction, TypeOK
<1>6. /\ settled' \subseteq {x \in Requests : created'[x] # 0}
      /\ list' \subseteq {x \in settled' : op'[x].user = Reader}
      /\ before' \subseteq settled'
  BY <1>1 DEF TypeOK
<1>7. /\ op' \in [Requests -> Work]
      /\ now' \in Nat
      /\ created' \in [Requests -> Nat]
      /\ client' \in Clients
      /\ stage' \in {"balances", "history", "fetch", "done"}
      /\ DOMAIN shown' \subseteq Currencies /\ Range(shown') \subseteq Nat
      /\ {page', total', length'} \subseteq Nat
  BY <1>1 DEF TypeOK
<1>8. TypeOK'
  BY <1>3, <1>4, <1>5, <1>6, <1>7 DEF TypeOK
<1>9. RowsInv'
  BY <1>1 DEF RowsInv, TypeOK
<1> QED
  BY <1>8, <1>9

LEMMA GetBalancesTypes ==
  ASSUME TypeOK, RowsInv, GetBalances
  PROVE  TypeOK' /\ RowsInv'
<1> USE DEF GetBalances, vars
<1>1. \A c \in Currencies : balance[<<Reader, c>>] \in Nat
  BY HistoryAssumption DEF TypeOK, Rows
<1>2. DOMAIN shown' \subseteq Currencies /\ Range(shown') \subseteq Nat
  <2>1. CASE OwnCurrencies = {}
    BY <2>1 DEF Range
  <2>2. CASE OwnCurrencies # {}
    <3>1. shown' = [c \in OwnCurrencies |-> balance[<<Reader, c>>]] /\ OwnCurrencies \subseteq Currencies
      BY <2>2 DEF OwnCurrencies
    <3>2. DOMAIN shown' = OwnCurrencies /\ \A c \in OwnCurrencies : shown'[c] \in Nat
      BY <1>1, <3>1
    <3>3. Range(shown') = {shown'[c] : c \in OwnCurrencies}
      BY <3>2 DEF Range
    <3> QED
      BY <3>1, <3>2, <3>3
  <2> QED
    BY <2>1, <2>2
<1>3. stage' \in {"balances", "history", "fetch", "done"}
  BY ClientFacts
<1> QED
  BY <1>2, <1>3 DEF TypeOK, RowsInv

LEMMA OrderedRequests ==
  ASSUME NEW L \in SUBSET Requests, NEW t \in [Requests -> Nat],
         \A r, q \in Requests : t[r] = t[q] /\ t[r] # 0 => r = q,
         \A r \in L : t[r] # 0
  PROVE  Ordered(L, t) /\ Cardinality(L) \in Nat
<1>1. IsFiniteSet(L) /\ Cardinality(L) \in Nat
  BY HistoryAssumption, FS_Subset, FS_CardinalityType
<1> QED
  BY <1>1 DEF Ordered

LEMMA ListingType ==
  ASSUME TypeOK, RowsInv
  PROVE  /\ Ordered(Listing, created)
         /\ IsFiniteSet(Listing)
         /\ Listing \subseteq {r \in settled : op[r].user = Reader}
         /\ Cardinality(Listing) \in Nat
         /\ \A r \in Listing :
              /\ Place(r) = PlaceIn(Listing, created, r)
              /\ Place(r) \in 1 .. Cardinality(Listing)
              /\ Place(r) \in Nat
<1>1. Listing \subseteq {r \in settled : op[r].user = Reader}
  BY DEF Listing, Matches, RowsInv
<1>2. Listing \in SUBSET Requests
  BY DEF Listing
<1>3. \A r \in Listing : created[r] # 0
  BY <1>1 DEF TypeOK
<1>4. Ordered(Listing, created) /\ IsFiniteSet(Listing) /\ Cardinality(Listing) \in Nat
  BY <1>2, <1>3, OrderedRequests DEF Ordered, TypeOK, RowsInv
<1>5. \A r \in Listing : Place(r) = PlaceIn(Listing, created, r)
  BY DEF Place, PlaceIn
<1> QED
  BY <1>1, <1>4, <1>5, PlaceType

LEMMA CountTypes ==
  ASSUME TypeOK, RowsInv, Count
  PROVE  TypeOK' /\ RowsInv'
<1> USE DEF Count, vars
<1>1. Cardinality(Listing) \in Nat /\ Listing \subseteq settled
  BY ListingType
<1> QED
  BY <1>1 DEF TypeOK, RowsInv

LEMMA PageType ==
  ASSUME TypeOK, RowsInv
  PROVE  /\ Page(page) \subseteq Listing
         /\ IsFiniteSet(Page(page))
         /\ Cardinality(Page(page)) \in Nat
<1>1. Page(page) \in SUBSET Listing
  BY DEF Page
<1> QED
  BY <1>1, ListingType, FS_Subset, FS_CardinalityType

LEMMA FetchTypes ==
  ASSUME TypeOK, RowsInv, FetchPage
  PROVE  TypeOK' /\ RowsInv'
<1> USE DEF FetchPage, vars
<1>1. Cardinality(Page(page)) \in Nat
  BY PageType
<1>2. Page(page) \subseteq {r \in settled : op[r].user = Reader}
  BY PageType, ListingType
<1>3. stage' \in {"balances", "history", "fetch", "done"}
  BY ClientFacts
<1> QED
  BY <1>1, <1>2, <1>3 DEF TypeOK, RowsInv
-----------------------------------------------------------------------------
(* Pages *)

\* Where a page begins.
LEMMA SkipArithmetic ==
  \A p \in Nat \ {0}, l \in Nat :
    /\ (p - 1) * l \in Nat
    /\ ((p + 1) - 1) * l = (p - 1) * l + l
    /\ p * l = (p - 1) * l + l
    /\ p = 1 => (p - 1) * l = 0
  BY SMT

LEMMA DivRemainder == \A n \in Nat, l \in Nat \ {0} : n \div l \in Nat /\ n < l * (n \div l) + l
  BY SMT

\* A client that has asked for all of totalPages has asked for every row.
LEMMA LastPage ==
  \A t, p \in Nat, l \in Nat \ {0} : p >= (t + l - 1) \div l => t <= p * l
<1> SUFFICES ASSUME NEW t \in Nat, NEW p \in Nat, NEW l \in Nat \ {0}, p >= (t + l - 1) \div l
             PROVE  t <= p * l
  OBVIOUS
<1> DEFINE n == t + l - 1
           d == n \div l
<1>1. n \in Nat
  OBVIOUS
<1>2. d \in Nat /\ n < l * d + l
  BY <1>1, DivRemainder
<1>3. p >= d
  OBVIOUS
<1> HIDE DEF d
<1>4. l * d <= p * l
  BY <1>2, <1>3, SMT
<1>5. l * d \in Nat /\ p * l \in Nat
  BY <1>2, SMT
<1> QED
  BY <1>2, <1>4, <1>5

LEMMA SkipFacts ==
  ASSUME TypeOK, page > 0
  PROVE  /\ Skip(page) \in Nat
         /\ Skip(page + 1) = Skip(page) + client.limit
         /\ page * client.limit = Skip(page) + client.limit
         /\ page = 1 => Skip(page) = 0
  BY ClientFacts, SkipArithmetic DEF Skip, TypeOK

\* The start of a transaction, and what the reader does, leave the list alone.
LEMMA SameListing ==
  ASSUME UNCHANGED <<posted, client>>,
         \A x \in Requests : posted[x] # None => created'[x] = created[x]
  PROVE  /\ Listing' = Listing
         /\ \A x \in Listing : Place(x)' = Place(x)
         /\ \A x \in Requests : Matches(x)' = Matches(x)
<1>1. \A x \in Requests : Matches(x)' = Matches(x)
  BY DEF Matches
<1>2. Listing' = Listing
  BY <1>1 DEF Listing
<1>3. \A x \in Listing : created'[x] = created[x]
  BY DEF Listing, Matches
<1>4. ASSUME NEW x \in Listing PROVE Place(x)' = Place(x)
  <2>1. {q \in Listing : created[q] >= created[x]}' = {q \in Listing : created[q] >= created[x]}
    BY <1>2, <1>3
  <2> QED
    BY <2>1 DEF Place
<1> QED
  BY <1>1, <1>2, <1>4

\* A commit may put one row anywhere in the list: what stands behind it moves
\* back by one place.
LEMMA CommitListing ==
  ASSUME TypeOK, RowsInv, NEW r \in Requests, CommitTransaction(r)
  PROVE  /\ Listing \subseteq Listing'
         /\ \A x \in Listing : /\ Place(x)' \in Nat
                               /\ Place(x)' >= Place(x)
                               /\ Place(x)' <= Place(x) + 1
         /\ \A x \in Requests \ {r} : Matches(x)' = Matches(x)
         /\ Cardinality(Listing') \in Nat /\ Cardinality(Listing') <= Cardinality(Listing) + 1
<1>1. /\ posted[r] = None /\ UNCHANGED <<created, client>>
      /\ posted' \in [Requests -> Row \cup {None}]
      /\ \A x \in Requests \ {r} : posted'[x] = posted[x]
  BY CommitFacts, CommitTypes DEF TypeOK
<1>2. \A x \in Requests \ {r} : Matches(x)' = Matches(x)
  BY <1>1 DEF Matches
<1>3. r \notin Listing
  BY <1>1 DEF Listing, Matches
<1>4. Listing' = Listing \/ Listing' = Listing \cup {r}
  BY <1>1, <1>2, <1>3 DEF Listing
<1>5. \A x \in Listing' : x \in Requests /\ created[x] # 0
  <2>1. \A x \in Listing : x \in Requests /\ created[x] # 0
    BY ListingType DEF TypeOK
  <2>2. created[r] # 0
    BY DEF CommitTransaction
  <2> QED
    BY <1>4, <2>1, <2>2
<1>6. Ordered(Listing', created) /\ created' = created
  BY <1>1, <1>5, OrderedRequests DEF TypeOK, RowsInv
<1>7. Ordered(Listing, created)
  BY ListingType
<1>8. \A x \in Listing' : Place(x)' = PlaceIn(Listing', created, x) /\ Place(x)' \in Nat
  BY <1>6, PlaceType DEF Place, PlaceIn
<1>9. \A x \in Listing : Place(x) = PlaceIn(Listing, created, x) /\ Place(x) \in Nat
  BY ListingType
<1>10. Cardinality(Listing') \in Nat /\ Cardinality(Listing') <= Cardinality(Listing) + 1
  <2>1. IsFiniteSet(Listing) /\ Cardinality(Listing) \in Nat
    BY ListingType
  <2>2. Cardinality(Listing \cup {r}) = Cardinality(Listing) + 1
    BY <1>3, <2>1, FS_AddElement
  <2>3. Cardinality(Listing') = Cardinality(Listing) \/ Cardinality(Listing') = Cardinality(Listing) + 1
    BY <1>4, <2>2, Zenon
  <2> QED
    BY <2>1, <2>3
<1>11. CASE Listing' = Listing
  BY <1>2, <1>8, <1>9, <1>10, <1>11
<1>12. CASE Listing' = Listing \cup {r}
  <2>1. \A x \in Listing : /\ PlaceIn(Listing \cup {r}, created, x) >= PlaceIn(Listing, created, x)
                           /\ PlaceIn(Listing \cup {r}, created, x) <= PlaceIn(Listing, created, x) + 1
    BY <1>6, <1>12, PlaceGrows
  <2> QED
    BY <1>2, <1>8, <1>9, <1>10, <1>12, <2>1
<1> QED
  BY <1>4, <1>11, <1>12
-----------------------------------------------------------------------------
(* Nothing is skipped *)

LEMMA InitPaging == HInit => PagingInv
<1> SUFFICES ASSUME HInit PROVE PagingInv
  OBVIOUS
<1>1. stage # "fetch" /\ stage = client.first /\ client.first \in {"balances", "history"}
  BY HistoryAssumption DEF HInit, Client
<1> QED
  BY <1>1 DEF HInit, PagingInv, NothingSkipped, HistoryIsComplete, HistoryRead

LEMMA StartPaging ==
  ASSUME TypeOK, RowsInv, PagingInv, NEW r \in Requests, StartTransaction(r)
  PROVE  PagingInv'
<1> USE DEF StartTransaction, vars, reader
<1>1. \A x \in Requests : posted[x] # None => created'[x] = created[x]
  BY DEF TypeOK, RowsInv
<1>2. Listing' = Listing /\ \A x \in Listing : Place(x)' = Place(x)
  BY <1>1, SameListing
<1>3. NothingSkipped'
  BY <1>2 DEF PagingInv, NothingSkipped, Reading, Skip
<1>4. HistoryIsComplete'
  BY DEF PagingInv, HistoryIsComplete, HistoryRead, Uncounted
<1> QED
  BY <1>2, <1>3, <1>4 DEF PagingInv

LEMMA CommitPaging ==
  ASSUME TypeOK, RowsInv, PagingInv, NEW r \in Requests, CommitTransaction(r)
  PROVE  PagingInv'
<1>1. UNCHANGED <<client, stage, page, list, length, before, total>>
  BY DEF CommitTransaction
<1>2. raced' = IF stage = "fetch" THEN raced + 1 ELSE raced
  BY DEF CommitTransaction
<1>3. /\ Listing \subseteq Listing'
      /\ Cardinality(Listing') \in Nat /\ Cardinality(Listing') <= Cardinality(Listing) + 1
      /\ \A x \in Listing : Place(x)' \in Nat /\ Place(x)' >= Place(x)
  BY CommitListing
<1>4. NothingSkipped'
  <2>1. SUFFICES ASSUME Reading', NEW x \in before' \ list' PROVE Place(x)' > Skip(page)'
    BY DEF NothingSkipped
  <2>2. x \in Listing /\ Place(x) > Skip(page)
    BY <1>1, <2>1 DEF PagingInv, NothingSkipped, Reading
  <2>3. Place(x) \in Nat /\ Place(x)' >= Place(x) /\ Place(x)' \in Nat
    BY <1>3, <2>2, ListingType
  <2>4. Skip(page) \in Nat /\ Skip(page)' = Skip(page)
    BY <1>1, SkipFacts DEF PagingInv, Skip
  <2> QED
    BY <2>2, <2>3, <2>4
<1>5. HistoryIsComplete'
  BY <1>1, <1>2 DEF PagingInv, HistoryIsComplete, HistoryRead, Uncounted
<1>6. stage' = "fetch" => Cardinality(Listing') <= total' + raced'
  <2>1. Cardinality(Listing) \in Nat /\ total \in Nat /\ raced \in Nat
    BY ListingType DEF TypeOK
  <2>2. stage = "fetch" => Cardinality(Listing) <= total + raced
    BY DEF PagingInv
  <2> QED
    BY <1>1, <1>2, <1>3, <2>1, <2>2
<1> QED
  BY <1>1, <1>3, <1>4, <1>5, <1>6 DEF PagingInv

LEMMA GetBalancesPaging ==
  ASSUME TypeOK, RowsInv, PagingInv, GetBalances
  PROVE  PagingInv'
<1> USE DEF GetBalances, vars
<1>1. Listing' = Listing /\ \A x \in Listing : Place(x)' = Place(x) /\ Place(x) > 0
  BY SameListing, ListingType
<1>2. stage' = IF client.first = "balances" THEN "history" ELSE "done"
  BY ClientFacts
<1>3. NothingSkipped'
  <2>1. SUFFICES ASSUME Reading' PROVE \A x \in before' \ list' : Place(x)' > Skip(page)'
    BY DEF NothingSkipped
  <2>2. page = 1
    BY <1>2, <2>1 DEF Reading, PagingInv
  <2>3. Skip(page)' = 0
    BY <2>2, SkipFacts DEF Skip
  <2> QED
    BY <1>1, <2>3 DEF PagingInv
<1>4. HistoryIsComplete'
  BY <1>2 DEF PagingInv, HistoryIsComplete, HistoryRead, Uncounted
<1>5. client.first \in {"balances", "history"}
  BY ClientFacts
<1> QED
  BY <1>1, <1>2, <1>3, <1>4, <1>5 DEF PagingInv

LEMMA CountPaging ==
  ASSUME TypeOK, RowsInv, PagingInv, Count
  PROVE  PagingInv'
<1> USE DEF Count, vars
<1>1. Listing' = Listing /\ \A x \in Listing : Place(x)' = Place(x) /\ Place(x) > 0
  BY SameListing, ListingType
<1>2. Skip(page)' = Skip(page) /\ (page = 1 => Skip(page) = 0)
  BY SkipFacts DEF Skip, PagingInv
<1>3. before' \subseteq Listing /\ list' = list
  BY DEF PagingInv
<1>4. NothingSkipped'
  <2>1. CASE page = 1
    BY <1>1, <1>2, <1>3, <2>1 DEF NothingSkipped
  <2>2. CASE page # 1
    BY <1>1, <1>2, <1>3, <2>2 DEF NothingSkipped, Reading, PagingInv
  <2> QED
    BY <2>1, <2>2
<1>5. HistoryIsComplete'
  BY DEF HistoryIsComplete, HistoryRead
<1>6. Cardinality(Listing') <= total' + raced'
  <2>1. Cardinality(Listing) \in Nat /\ Cardinality(Listing') = Cardinality(Listing)
    BY <1>1, ListingType, Zenon
  <2>2. total' = Cardinality(Listing) /\ raced' = 0
    OBVIOUS
  <2> QED
    BY <2>1, <2>2
<1> QED
  BY <1>1, <1>3, <1>4, <1>5, <1>6 DEF PagingInv

\* What is behind a page and has not been shown is behind the next page's start.
LEMMA PageShows ==
  ASSUME TypeOK, RowsInv, PagingInv, stage = "fetch",
         NEW x \in before, x \notin list, x \notin Page(page)
  PROVE  /\ x \in Listing
         /\ Place(x) > Skip(page + 1)
<1>1. x \in Listing /\ Place(x) > Skip(page) /\ Place(x) \in Nat
  BY ListingType DEF PagingInv, NothingSkipped, Reading
<1>2. /\ Skip(page) \in Nat /\ client.limit \in Nat \ {0}
      /\ Skip(page + 1) = Skip(page) + client.limit
  BY SkipFacts, ClientFacts DEF PagingInv
<1> QED
  BY <1>1, <1>2 DEF Page

\* Behind the last page there is nothing, or no more than the count came too
\* early for.
LEMMA LastPageShows ==
  ASSUME TypeOK, RowsInv, PagingInv, stage = "fetch", IsLast(Page(page))
  PROVE  Cardinality(before \ (list \cup Page(page))) <= Uncounted
<1> DEFINE unseen == before \ (list \cup Page(page))
<1>1. \A x \in unseen : x \in Listing /\ Place(x) > Skip(page + 1)
  BY PageShows
<1>2. /\ Skip(page) \in Nat /\ client.limit \in Nat \ {0}
      /\ Skip(page + 1) = Skip(page) + client.limit
      /\ page * client.limit = Skip(page) + client.limit
  BY SkipFacts, ClientFacts DEF PagingInv
<1>3. Ordered(Listing, created) /\ \A x \in Listing : Place(x) = PlaceIn(Listing, created, x)
  BY ListingType
<1>4. CASE client.stopsAt = "shortPage"
  <2>1. ASSUME NEW x \in unseen PROVE FALSE
    <3>1. x \in Listing /\ PlaceIn(Listing, created, x) > Skip(page) + client.limit
      BY <1>1, <1>2, <1>3, <2>1
    <3>2. Page(page) = {q \in Listing : PlaceIn(Listing, created, q) \in Skip(page) + 1 .. Skip(page) + client.limit}
      BY <1>3 DEF Page
    <3>3. Cardinality(Page(page)) >= client.limit
      BY <1>2, <1>3, <3>1, <3>2, PagesAreFull
    <3>4. Cardinality(Page(page)) \in Nat
      BY PageType
    <3> QED
      BY <1>2, <1>4, <3>3, <3>4 DEF IsLast
  <2>2. Cardinality(unseen) = 0
    BY <2>1, FS_EmptySet
  <2> QED
    BY <1>4, <2>2 DEF Uncounted
<1>5. CASE client.stopsAt = "totalPages"
  <2>1. total \in Nat /\ raced \in Nat /\ page \in Nat /\ Cardinality(Listing) \in Nat
    BY ListingType DEF TypeOK
  <2>2. total <= page * client.limit
    BY <1>2, <1>5, <2>1, LastPage DEF IsLast, TotalPages
  <2>3. Cardinality(Listing) <= total + raced
    BY DEF PagingInv
  <2>4. Skip(page + 1) \in Nat /\ Cardinality(Listing) <= Skip(page + 1) + raced
    BY <1>2, <2>1, <2>2, <2>3
  <2>5. unseen \in SUBSET Listing /\ \A x \in unseen : PlaceIn(Listing, created, x) > Skip(page + 1)
    BY <1>1, <1>3
  <2> HIDE DEF unseen
  <2>6. Cardinality(unseen) <= raced
    BY <1>3, <2>1, <2>4, <2>5, FewBehind
  <2> QED
    BY <1>5, <2>6 DEF Uncounted, unseen
<1>6. client.stopsAt \in {"totalPages", "shortPage"}
  BY HistoryAssumption DEF TypeOK, Client
<1> QED
  BY <1>4, <1>5, <1>6

LEMMA FetchPaging ==
  ASSUME TypeOK, RowsInv, PagingInv, FetchPage
  PROVE  PagingInv'
<1> USE DEF FetchPage, vars
<1>1. Listing' = Listing /\ \A x \in Listing : Place(x)' = Place(x)
  BY SameListing
<1>2. page \in Nat /\ page > 0 /\ page' = page + 1
  BY DEF PagingInv, TypeOK
<1>3. Skip(page)' = Skip(page + 1)
  BY DEF Skip
<1>4. stage' = IF IsLast(Page(page)) THEN (IF client.first = "history" THEN "balances" ELSE "done")
               ELSE "history"
  BY ClientFacts
<1>5. before' = before /\ list' = list \cup Page(page) /\ Page(page) \subseteq Listing
  BY PageType
<1>6. NothingSkipped'
  BY <1>1, <1>3, <1>5, PageShows DEF PagingInv, NothingSkipped
<1>7. HistoryIsComplete'
  <2>1. SUFFICES ASSUME HistoryRead' PROVE Cardinality(before' \ list') <= Uncounted'
    BY DEF HistoryIsComplete
  <2>2. IsLast(Page(page))
    BY <1>4, <2>1 DEF HistoryRead
  <2>3. Uncounted' = Uncounted
    BY DEF Uncounted
  <2> QED
    BY <1>5, <2>2, <2>3, LastPageShows
<1>8. stage' # "fetch" /\ ~(client'.first = "balances" /\ stage' = "balances")
  BY <1>4
<1> QED
  BY <1>1, <1>2, <1>5, <1>6, <1>7, <1>8 DEF PagingInv
-----------------------------------------------------------------------------
(* Repeats are counted *)

LEMMA ListFacts ==
  ASSUME TypeOK, RowsInv, PagingInv
  PROVE  /\ IsFiniteSet(list) /\ Cardinality(list) \in Nat
         /\ IsFiniteSet(Behind) /\ Cardinality(Behind) \in Nat
         /\ length \in Nat /\ arrivals \in Nat
         /\ page = 1 => Cardinality(list) = 0 /\ Cardinality(Behind) = 0 /\ length = 0
<1>1. list \in SUBSET Listing /\ Behind \in SUBSET list
  BY DEF PagingInv, Behind
<1>2. IsFiniteSet(list) /\ Cardinality(list) \in Nat
  BY <1>1, ListingType, FS_Subset, FS_CardinalityType
<1>3. IsFiniteSet(Behind) /\ Cardinality(Behind) \in Nat
  BY <1>1, <1>2, FS_Subset, FS_CardinalityType
<1>4. page = 1 => list = {} /\ Behind = {} /\ length = 0
  BY DEF PagingInv, Behind
<1> QED
  BY <1>2, <1>3, <1>4, FS_EmptySet DEF TypeOK

LEMMA InitRepeats == HInit => RepeatsInv
<1> SUFFICES ASSUME HInit PROVE RepeatsInv
  OBVIOUS
<1>1. list = {} /\ Behind = {} /\ length = 0 /\ arrivals = 0
  BY DEF HInit, Behind
<1> QED
  BY <1>1, FS_EmptySet DEF RepeatsInv, RepeatsAreBounded

\* Steps that leave list, places and arrivals alone and do not begin a history.
LEMMA SameRepeats ==
  ASSUME TypeOK, RowsInv, PagingInv, RepeatsInv,
         UNCHANGED <<list, length, arrivals, page, client>>,
         \A x \in Listing : Place(x)' = Place(x),
         Reading' => Reading \/ page = 1
  PROVE  RepeatsInv'
<1>1. list \subseteq Listing
  BY DEF PagingInv
<1>2. Behind' = Behind
  BY <1>1 DEF Behind, Skip
<1>3. RepeatsAreBounded'
  BY DEF RepeatsInv, RepeatsAreBounded
<1>4. Reading' => length + Cardinality(Behind) <= Cardinality(list) + arrivals
  BY ListFacts DEF RepeatsInv
<1> QED
  BY <1>2, <1>3, <1>4 DEF RepeatsInv

LEMMA StartRepeats ==
  ASSUME TypeOK, RowsInv, PagingInv, RepeatsInv, NEW r \in Requests, StartTransaction(r)
  PROVE  RepeatsInv'
<1> USE DEF StartTransaction, vars, reader
<1>1. \A x \in Requests : posted[x] # None => created'[x] = created[x]
  BY DEF TypeOK, RowsInv
<1>2. \A x \in Listing : Place(x)' = Place(x)
  BY <1>1, SameListing
<1>3. Reading' => Reading
  BY DEF Reading
<1> QED
  BY <1>2, <1>3, SameRepeats

LEMMA GetBalancesRepeats ==
  ASSUME TypeOK, RowsInv, PagingInv, RepeatsInv, GetBalances
  PROVE  RepeatsInv'
<1> USE DEF GetBalances, vars
<1>1. \A x \in Listing : Place(x)' = Place(x)
  BY SameListing
<1>2. Reading' => page = 1
  BY ClientFacts DEF Reading, PagingInv
<1> QED
  BY <1>1, <1>2, SameRepeats

LEMMA CountRepeats ==
  ASSUME TypeOK, RowsInv, PagingInv, RepeatsInv, Count
  PROVE  RepeatsInv'
<1> USE DEF Count, vars
<1>1. \A x \in Listing : Place(x)' = Place(x)
  BY SameListing
<1>2. Reading
  BY DEF Reading
<1> QED
  BY <1>1, <1>2, SameRepeats

\* Of the transactions shown, a commit pushes at most one behind the pages read.
LEMMA CommitBehind ==
  ASSUME TypeOK, RowsInv, PagingInv, NEW r \in Requests, CommitTransaction(r)
  PROVE  Cardinality(Behind') <= Cardinality(Behind) + 1 /\ Cardinality(Behind') \in Nat
<1>1. UNCHANGED <<client, page, list>> /\ list \subseteq Listing
  BY DEF CommitTransaction, PagingInv
<1>2. Skip(page)' = Skip(page) /\ Skip(page) \in Nat
  BY <1>1, SkipFacts DEF Skip, PagingInv
<1>3. \A x \in list : /\ Place(x) \in Nat /\ Place(x)' \in Nat
                      /\ Place(x)' <= Place(x) + 1
  BY <1>1, CommitListing, ListingType
<1>4. \A x \in Behind' : x \in Behind \/ (x \in list /\ Place(x) = Skip(page))
  BY <1>1, <1>2, <1>3 DEF Behind
<1>5. \A x, y \in list : Place(x) = Skip(page) /\ Place(y) = Skip(page) => x = y
  BY <1>1, ListingType, PlaceInjective
<1>6. PICK z : \A x \in Behind' : x \in Behind \cup {z}
  <2>1. CASE \E y \in list : Place(y) = Skip(page)
    BY <1>4, <1>5, <2>1
  <2>2. CASE ~ \E y \in list : Place(y) = Skip(page)
    BY <1>4, <2>2
  <2> QED
    BY <2>1, <2>2
<1>7. Behind' \in SUBSET (Behind \cup {z})
  BY <1>6
<1>8. /\ IsFiniteSet(Behind \cup {z}) /\ Cardinality(Behind \cup {z}) \in Nat
      /\ Cardinality(Behind \cup {z}) <= Cardinality(Behind) + 1
  <2>1. IsFiniteSet(Behind) /\ Cardinality(Behind) \in Nat
    BY ListFacts
  <2>2. /\ IsFiniteSet(Behind \cup {z})
        /\ Cardinality(Behind \cup {z}) = IF z \in Behind THEN Cardinality(Behind) ELSE Cardinality(Behind) + 1
    BY <2>1, FS_AddElement
  <2> QED
    BY <2>1, <2>2
<1>9. Cardinality(Behind') <= Cardinality(Behind \cup {z}) /\ Cardinality(Behind') \in Nat
  BY <1>7, <1>8, FS_Subset, FS_CardinalityType
<1> QED
  BY <1>8, <1>9, ListFacts

LEMMA CommitRepeats ==
  ASSUME TypeOK, RowsInv, PagingInv, RepeatsInv, NEW r \in Requests, CommitTransaction(r)
  PROVE  RepeatsInv'
<1>1. /\ UNCHANGED <<client, stage, page, list, length>>
      /\ arrivals' = IF Paging THEN arrivals + 1 ELSE arrivals
  BY DEF CommitTransaction
<1>2. Cardinality(Behind') <= Cardinality(Behind) + 1 /\ Cardinality(Behind') \in Nat
  BY CommitBehind
<1>3. RepeatsAreBounded'
  BY <1>1, ListFacts DEF RepeatsInv, RepeatsAreBounded
<1>4. CASE Paging
  <2>1. Reading' => Reading
    BY <1>1 DEF Reading
  <2>2. Reading' => length + Cardinality(Behind') <= Cardinality(list) + (arrivals + 1)
    BY <1>2, <2>1, ListFacts DEF RepeatsInv
  <2>3. arrivals' = arrivals + 1
    BY <1>1, <1>4
  <2> QED
    BY <1>1, <1>3, <2>2, <2>3 DEF RepeatsInv
<1>5. CASE ~Paging
  <2>1. Reading' => page = 1
    BY <1>1, <1>5 DEF Reading, Paging, PagingInv, TypeOK
  <2>2. ASSUME Reading' PROVE Cardinality(Behind') = 0 /\ Cardinality(list) = 0 /\ length = 0
    <3>1. list = {} /\ length = 0
      BY <2>1, <2>2 DEF PagingInv
    <3>2. Behind' = {}
      BY <1>1, <3>1 DEF Behind
    <3> QED
      BY <3>1, <3>2, FS_EmptySet
  <2>3. Reading' => length + Cardinality(Behind') <= Cardinality(list) + arrivals
    BY <2>2, ListFacts
  <2>4. arrivals' = arrivals
    BY <1>1, <1>5
  <2> QED
    BY <1>1, <1>3, <2>3, <2>4 DEF RepeatsInv
<1> QED
  BY <1>4, <1>5

\* The rows of a page that were shown before had been pushed back.
LEMMA FetchRepeats ==
  ASSUME TypeOK, RowsInv, PagingInv, RepeatsInv, FetchPage
  PROVE  RepeatsInv'
<1> DEFINE P == Page(page)
           R == list \cap P
<1>1. /\ list' = list \cup P /\ length' = length + Cardinality(P)
      /\ UNCHANGED <<client, arrivals>> /\ Reading
      /\ page' = page + 1
  BY DEF FetchPage, Reading
<1>2. Listing' = Listing /\ \A x \in Listing : Place(x)' = Place(x)
  BY SameListing DEF FetchPage, vars
<1>3. Skip(page)' = Skip(page + 1) /\ Skip(page + 1) = Skip(page) + client.limit
  BY <1>1, SkipFacts DEF Skip, PagingInv
<1>4. Skip(page) \in Nat /\ client.limit \in Nat
  BY SkipFacts, ClientFacts DEF PagingInv
<1>5. list \subseteq Listing /\ \A x \in Listing : Place(x) \in Nat
  BY ListingType DEF PagingInv
<1>6. \A x \in Listing : x \in P <=> Place(x) > Skip(page) /\ ~(Place(x) > Skip(page) + client.limit)
  BY <1>4, <1>5 DEF Page
<1>7. P \subseteq Listing /\ IsFiniteSet(P) /\ Cardinality(P) \in Nat
  BY PageType
<1>8. Behind' = Behind \ R /\ R = Behind \cap R
  <2>1. Behind' = {x \in list \cup P : Place(x) > Skip(page) + client.limit}
    BY <1>1, <1>2, <1>3, <1>5, <1>7 DEF Behind
  <2>2. \A x \in Listing : Place(x) > Skip(page) + client.limit => Place(x) > Skip(page)
    BY <1>4, <1>5
  <2> HIDE DEF P
  <2> QED
    BY <1>5, <1>6, <1>7, <2>1, <2>2 DEF Behind
<1> HIDE DEF P
<1>9. Cardinality(Behind') = Cardinality(Behind) - Cardinality(R)
  BY <1>8, ListFacts, FS_Difference
<1>10. Cardinality(list') = Cardinality(list) + Cardinality(P) - Cardinality(R)
  BY <1>1, <1>7, ListFacts, FS_Union
<1>11. Cardinality(R) \in Nat /\ Cardinality(R) <= Cardinality(Behind)
  <2>1. IsFiniteSet(R) /\ Cardinality(R) <= Cardinality(Behind)
    BY <1>8, ListFacts, FS_Subset
  <2> QED
    BY <2>1, FS_CardinalityType
<1>12. length + Cardinality(Behind) <= Cardinality(list) + arrivals
  BY <1>1 DEF RepeatsInv
<1>13. length' + Cardinality(Behind') <= Cardinality(list') + arrivals'
  <2> HIDE DEF R
  <2> QED
    BY <1>1, <1>7, <1>9, <1>10, <1>11, <1>12, ListFacts
<1>14. length' - Cardinality(list') <= arrivals'
  <2> HIDE DEF R
  <2> QED
    BY <1>1, <1>7, <1>9, <1>10, <1>11, <1>12, ListFacts
<1> QED
  BY <1>13, <1>14 DEF RepeatsInv, RepeatsAreBounded
-----------------------------------------------------------------------------
(* The balances and the history tell one story *)

LEMMA SumsEmpty == \A po, c : Sums(po, {}, c) = 0 /\ Losses(po, {}, c) = 0
<1> TAKE po, c
<1>1. DOMAIN [r \in {} |-> Effect(po[r], c)] = {}
  OBVIOUS
<1>2. {r \in {} : Effect(po[r], c) < 0} = {}
  OBVIOUS
<1> QED
  BY <1>1, <1>2, SumEmpty, FS_EmptySet DEF Sums, Losses, SumFunction

LEMMA OwnFacts ==
  ASSUME TypeOK, RowsInv
  PROVE  /\ IsFiniteSet(Own) /\ Own \subseteq Requests
         /\ \A r \in Own : r \in settled /\ posted[r] \in Row
         /\ \A c \in Currencies : /\ <<Reader, c>> \in Rows
                                  /\ balance[<<Reader, c>>] \in Nat
                                  /\ Sums(posted, Own, c) \in Int
                                  /\ Losses(posted, Own, c) \in Nat
<1>1. Own \in SUBSET Requests /\ \A r \in Own : r \in settled /\ posted[r] \in Row
  BY DEF Own, TypeOK, RowsInv
<1>2. IsFiniteSet(Own)
  BY <1>1, HistoryAssumption, FS_Subset
<1>3. \A c \in Currencies : <<Reader, c>> \in Rows /\ balance[<<Reader, c>>] \in Nat
  BY HistoryAssumption DEF Rows, TypeOK
<1>4. \A c \in Currencies : Sums(posted, Own, c) \in Int /\ Losses(posted, Own, c) \in Nat
  BY <1>1, <1>2, SumsType
<1> QED
  BY <1>1, <1>2, <1>3, <1>4

LEMMA InitLedger == HInit => LedgerInv
<1> SUFFICES ASSUME HInit, NEW c \in Currencies
             PROVE  /\ balance[<<Reader, c>>] % Tick = 0
                    /\ balance[<<Reader, c>>] \in Replayed(Own, c) .. Replayed(Own, c) + Tick * Debits(Own, c)
  BY DEF LedgerInv
<1>1. balance[<<Reader, c>>] = 0
  BY HistoryAssumption, OpeningIsEmpty DEF HInit, Rows
<1>2. Own = {}
  BY DEF HInit, Own
<1>3. Replayed(Own, c) = 0 /\ Debits(Own, c) = 0
  BY <1>2, SumsEmpty DEF Replayed, Debits, Sums, Losses
<1> QED
  BY <1>1, <1>3 DEF Tick

LEMMA SameLedger ==
  ASSUME LedgerInv, UNCHANGED <<op, balance, settled, posted>>
  PROVE  LedgerInv'
<1>1. Own' = Own
  BY DEF Own
<1>2. ASSUME NEW c \in Currencies
      PROVE  Replayed(Own, c)' = Replayed(Own, c) /\ Debits(Own, c)' = Debits(Own, c)
  BY <1>1 DEF Replayed, Debits
<1> QED
  BY <1>2 DEF LedgerInv

LEMMA CommitLedger ==
  ASSUME TypeOK, RowsInv, LedgerInv, NEW r \in Requests, CommitTransaction(r)
  PROVE  LedgerInv'
<1>1. PICK q \in Quotes(op[r]) :
        /\ op[r] \in Operation
        /\ r \notin settled
        /\ settled' = settled \cup {r}
        /\ posted' = [posted EXCEPT ![r] = TransactionRow(op[r], q)]
        /\ TransactionRow(op[r], q) \in Row
        /\ IsMove(op[r]) => balance[SourceRow(op[r])] >= q.debit
        /\ balance' = [row \in Rows |->
             CASE row = TargetRow(op[r]) -> Add(balance[row], q.credit)
               [] IsMove(op[r]) /\ row = SourceRow(op[r]) -> Subtract(balance[row], q.debit)
               [] OTHER -> balance[row]]
        /\ UNCHANGED op
  BY CommitFacts
<1>2. SUFFICES ASSUME NEW c \in Currencies
               PROVE  /\ balance'[<<Reader, c>>] % Tick = 0
                      /\ balance'[<<Reader, c>>] \in
                           Sums(posted', Own', c) .. Sums(posted', Own', c) + Tick * Losses(posted', Own', c)
  BY DEF LedgerInv, Replayed, Debits, Sums, Losses
<1> DEFINE b == balance[<<Reader, c>>]
           sum == Sums(posted, Own, c)
           losses == Losses(posted, Own, c)
<1>3. b \in Nat /\ sum \in Int /\ losses \in Nat /\ <<Reader, c>> \in Rows
  BY OwnFacts
<1>4. b % Tick = 0 /\ b >= sum /\ b <= sum + Tick * losses
  <2>1. Replayed(Own, c) = sum /\ Debits(Own, c) = losses
    BY DEF Replayed, Debits, Sums, Losses
  <2>2. b % Tick = 0 /\ b \in sum .. sum + Tick * losses
    BY <2>1 DEF LedgerInv
  <2> HIDE DEF b, sum, losses
  <2> QED
    BY <1>3, <2>2 DEF Tick
<1>5. r \notin Own /\ \A x \in Own : posted'[x] = posted[x] /\ posted'[x] \in Row
  BY <1>1, OwnFacts DEF Own, TypeOK
<1>6. Sums(posted', Own, c) = sum /\ Losses(posted', Own, c) = losses
  BY <1>5, SumsAgree
<1>7. CASE op[r].user = Reader
  <2> DEFINE e == Effect(TransactionRow(op[r], q), c)
             after == Settlement(op[r], q, c, b)
  <2>1. Own' = Own \cup {r}
    BY <1>1, <1>7 DEF Own, TypeOK
  <2>2. posted'[r] = TransactionRow(op[r], q)
    BY <1>1 DEF TypeOK
  <2>3. /\ Sums(posted', Own', c) = sum + e
        /\ Losses(posted', Own', c) = losses + (IF e < 0 THEN 1 ELSE 0)
    <3>1. IsFiniteSet(Own) /\ posted'[r] \in Row
      BY <1>1, <2>2, OwnFacts
    <3>2. /\ Sums(posted', Own \cup {r}, c) = Sums(posted', Own, c) + Effect(posted'[r], c)
          /\ Losses(posted', Own \cup {r}, c) =
               Losses(posted', Own, c) + (IF Effect(posted'[r], c) < 0 THEN 1 ELSE 0)
      BY <1>5, <3>1, SumsGrow
    <3> QED
      BY <1>6, <2>1, <2>2, <3>2
  <2>4. balance'[<<Reader, c>>] = after
    BY <1>1, <1>3, <1>7 DEF Settlement
  <2>5. IsMove(op[r]) /\ <<op[r].user, c>> = SourceRow(op[r]) => b >= q.debit
    BY <1>1, <1>7
  <2>6. /\ e \in Int /\ after \in Nat /\ after % Tick = 0
        /\ after = b + e \/ (e < 0 /\ after = b + e + Tick)
    BY <1>1, <1>3, <1>4, <2>5, RowEffect
  <2> HIDE DEF e, after, b, sum, losses
  <2>7. after >= sum + e /\ after <= (sum + e) + Tick * (losses + (IF e < 0 THEN 1 ELSE 0))
    BY <1>3, <1>4, <2>6 DEF Tick
  <2>8. (sum + e) + Tick * (losses + (IF e < 0 THEN 1 ELSE 0)) \in Int /\ sum + e \in Int
    BY <1>3, <2>6 DEF Tick
  <2> QED
    BY <2>3, <2>4, <2>6, <2>7, <2>8
<1>8. CASE op[r].user # Reader
  <2>1. Own' = Own
    BY <1>1, <1>8 DEF Own
  <2>2. balance'[<<Reader, c>>] = b
    BY <1>1, <1>3, <1>8 DEF SourceRow, TargetRow
  <2> HIDE DEF b, sum, losses
  <2> QED
    BY <1>3, <1>4, <1>6, <2>1, <2>2 DEF Tick
<1> QED
  BY <1>7, <1>8

\* What explains the balances shown keeps explaining them.
LEMMA StillExplains ==
  ASSUME NEW S, \A r \in S : posted'[r] = posted[r], UNCHANGED shown, Explains(S)
  PROVE  Explains(S)'
<1>1. ASSUME NEW c
      PROVE  /\ Sums(posted', S, c) = Sums(posted, S, c)
             /\ Losses(posted', S, c) = Losses(posted, S, c)
  BY SumsAgree
<1>2. ASSUME NEW c \in DOMAIN shown
      PROVE  shown'[c] \in Sums(posted', S, c) .. Sums(posted', S, c) + Tick * Losses(posted', S, c)
  BY <1>1 DEF Explains, Replayed, Debits, Sums, Losses
<1> QED
  BY <1>2 DEF Explains, Replayed, Debits, Sums, Losses

LEMMA InitStory == HInit => StoryInv
  BY HistoryAssumption DEF HInit, StoryInv, Client

LEMMA StartStory ==
  ASSUME TypeOK, RowsInv, StoryInv, NEW r \in Requests, StartTransaction(r)
  PROVE  StoryInv'
<1> USE DEF StartTransaction, vars, reader
<1>1. \A x \in Requests : posted[x] # None => created'[x] = created[x]
  BY DEF TypeOK, RowsInv
<1>2. \A x \in Requests : Matches(x)' = Matches(x)
  BY <1>1, SameListing
<1>3. Own' = Own /\ Own \subseteq Requests
  BY OwnFacts DEF Own
<1>4. \A S \in SUBSET Own : Explains(S) => Explains(S)'
  BY StillExplains
<1>5. \A S \in SUBSET Own : {x \in S : Matches(x)}' = {x \in S : Matches(x)}
  BY <1>2, <1>3
<1> QED
  BY <1>3, <1>4, <1>5 DEF StoryInv

LEMMA CommitStory ==
  ASSUME TypeOK, RowsInv, StoryInv, NEW r \in Requests, CommitTransaction(r)
  PROVE  StoryInv'
<1>1. /\ UNCHANGED <<op, client, stage, shown, page, list, before>>
      /\ r \notin settled /\ settled' = settled \cup {r}
      /\ \A x \in Requests \ {r} : posted'[x] = posted[x]
  BY CommitFacts DEF TypeOK
<1>2. \A x \in Own : x \in Requests \ {r}
  BY <1>1 DEF Own, TypeOK
<1>3. Own \subseteq Own'
  BY <1>1 DEF Own
<1>4. \A S \in SUBSET Own : Explains(S) => Explains(S)'
  <2> TAKE S \in SUBSET Own
  <2>1. \A x \in S : posted'[x] = posted[x]
    BY <1>1, <1>2
  <2> QED
    BY <1>1, <2>1, StillExplains
<1>5. \A S \in SUBSET Own : {x \in S : Matches(x)}' = {x \in S : Matches(x)}
  BY <1>2, CommitListing
<1> QED
  BY <1>1, <1>3, <1>4, <1>5 DEF StoryInv

LEMMA GetBalancesStory ==
  ASSUME TypeOK, RowsInv, PagingInv, LedgerInv, GetBalances
  PROVE  StoryInv'
<1> USE DEF GetBalances, vars
<1>1. stage' = IF client.first = "balances" THEN "history" ELSE "done"
  BY ClientFacts
<1>2. Own' = Own
  BY DEF Own
<1>3. ASSUME NEW c \in DOMAIN shown'
      PROVE  shown'[c] \in Replayed(Own, c) .. Replayed(Own, c) + Tick * Debits(Own, c)
  <2>1. CASE OwnCurrencies = {}
    <3>1. Own = {}
      <4>1. SUFFICES ASSUME NEW r \in Own PROVE FALSE
        OBVIOUS
      <4>2. r \in settled /\ op[r] \in Operation /\ op[r].user = Reader
        BY <4>1, OwnFacts, OpType DEF Own
      <4>3. TargetRow(op[r]) \in BalanceRows
        BY <4>2 DEF BalanceRows, Touched
      <4>4. \E x \in Currencies : TargetRow(op[r]) = <<Reader, x>>
        BY <4>2, QuoteAssumption DEF TargetRow, Operation
      <4> QED
        BY <2>1, <4>3, <4>4 DEF OwnCurrencies
    <3>2. Replayed(Own, c) = 0 /\ Debits(Own, c) = 0
      BY <3>1, SumsEmpty DEF Replayed, Debits, Sums, Losses
    <3>3. shown'[c] = 0
      BY <2>1
    <3> QED
      BY <3>2, <3>3 DEF Tick
  <2>2. CASE OwnCurrencies # {}
    <3>1. c \in Currencies /\ shown'[c] = balance[<<Reader, c>>]
      BY <2>2 DEF OwnCurrencies
    <3> QED
      BY <3>1 DEF LedgerInv
  <2> QED
    BY <2>1, <2>2
<1>4. Explains(Own)'
  <2>1. \A c \in DOMAIN shown' : Replayed(Own, c)' = Replayed(Own, c) /\ Debits(Own, c)' = Debits(Own, c)
    BY <1>2 DEF Replayed, Debits
  <2> QED
    BY <1>3, <2>1 DEF Explains
<1>5. client.first = "balances" => stage' = "history" /\ page' = 1
  BY <1>1 DEF PagingInv
<1>6. list \subseteq Own
  BY DEF TypeOK, Own
<1> QED
  BY <1>1, <1>2, <1>4, <1>5, <1>6 DEF StoryInv

LEMMA CountStory ==
  ASSUME TypeOK, RowsInv, PagingInv, StoryInv, Count
  PROVE  StoryInv'
<1> USE DEF Count, vars
<1>1. \A x \in Requests : Matches(x)' = Matches(x)
  BY SameListing
<1>2. Own' = Own /\ Own \subseteq Requests
  BY OwnFacts DEF Own
<1>3. \A S \in SUBSET Own : Explains(S) => Explains(S)'
  BY StillExplains
<1>4. \A S \in SUBSET Own : {x \in S : Matches(x)}' = {x \in S : Matches(x)}
  BY <1>1, <1>2
<1>5. \A S \in SUBSET Own : {x \in S : Matches(x)} \subseteq Listing
  BY <1>2 DEF Listing
<1>6. page = 1 \/ page > 1
  BY DEF PagingInv, TypeOK
<1> QED
  BY <1>2, <1>3, <1>4, <1>5, <1>6 DEF StoryInv

LEMMA FetchStory ==
  ASSUME TypeOK, RowsInv, PagingInv, StoryInv, FetchPage
  PROVE  StoryInv'
<1> USE DEF FetchPage, vars
<1>1. \A x \in Requests : Matches(x)' = Matches(x)
  BY SameListing
<1>2. Own' = Own /\ Own \subseteq Requests
  BY OwnFacts DEF Own
<1>3. \A S \in SUBSET Own : Explains(S) => Explains(S)'
  BY StillExplains
<1>4. \A S \in SUBSET Own : {x \in S : Matches(x)}' = {x \in S : Matches(x)}
  BY <1>1, <1>2
<1>5. client.first = "history" => stage' # "done"
  BY ClientFacts
<1> QED
  BY <1>2, <1>3, <1>4, <1>5 DEF StoryInv
-----------------------------------------------------------------------------
(* The theorems *)

LEMMA InitHInv == HInit => HInv
  BY InitTypes, InitPaging, InitRepeats, InitLedger, InitStory DEF HInv

LEMMA NextHInv == HInv /\ [HNext]_hvars => HInv'
<1> SUFFICES ASSUME HInv, [HNext]_hvars PROVE HInv'
  OBVIOUS
<1> USE DEF HInv
<1>1. ASSUME NEW r \in Requests, StartTransaction(r) PROVE HInv'
  <2>1. LedgerInv'
    BY <1>1, SameLedger DEF StartTransaction, vars
  <2> QED
    BY <1>1, <2>1, StartTypes, StartPaging, StartRepeats, StartStory
<1>2. ASSUME NEW r \in Requests, CommitTransaction(r) PROVE HInv'
  BY <1>2, CommitTypes, CommitPaging, CommitRepeats, CommitLedger, CommitStory
<1>3. CASE GetBalances
  <2>1. LedgerInv'
    BY <1>3, SameLedger DEF GetBalances, vars
  <2> QED
    BY <1>3, <2>1, GetBalancesTypes, GetBalancesPaging, GetBalancesRepeats, GetBalancesStory
<1>4. CASE Count
  <2>1. LedgerInv'
    BY <1>4, SameLedger DEF Count, vars
  <2> QED
    BY <1>4, <2>1, CountTypes, CountPaging, CountRepeats, CountStory
<1>5. CASE FetchPage
  <2>1. LedgerInv'
    BY <1>5, SameLedger DEF FetchPage, vars
  <2> QED
    BY <1>5, <2>1, FetchTypes, FetchPaging, FetchRepeats, FetchStory
<1>6. CASE UNCHANGED hvars
  <2> USE <1>6 DEF hvars, vars, reader
  <2>1. LedgerInv'
    BY SameLedger
  <2>2. Listing' = Listing /\ Own' = Own /\ \A x \in Listing : Place(x)' = Place(x)
    BY SameListing DEF Own
  <2>3. TypeOK' /\ RowsInv'
    BY DEF TypeOK, RowsInv
  <2>4. NothingSkipped' /\ HistoryIsComplete'
    BY <2>2 DEF PagingInv, NothingSkipped, Reading, Skip, HistoryIsComplete, HistoryRead, Uncounted
  <2>5. PagingInv'
    BY <2>2, <2>4 DEF PagingInv
  <2>6. RepeatsInv'
    BY <2>2, SameRepeats DEF Reading
  <2>7. \A S \in SUBSET Own : Explains(S) => Explains(S)'
    BY StillExplains
  <2>8. \A S \in SUBSET Own : {x \in S : Matches(x)}' = {x \in S : Matches(x)}
    BY DEF Matches
  <2>9. StoryInv'
    BY <2>2, <2>7, <2>8 DEF StoryInv
  <2> QED
    BY <2>1, <2>3, <2>5, <2>6, <2>9
<1> QED
  BY <1>1, <1>2, <1>3, <1>4, <1>5, <1>6 DEF HNext, Terminating

LEMMA HistoryInvariant == HSpec => []HInv
  BY InitHInv, NextHInv, PTL DEF HSpec

\* Every variable of the history keeps its type: nobody is shown another user's
\* transactions, and nothing is shown that has not settled.
THEOREM HistoryTyped == HSpec => []TypeOK
<1>1. HInv => TypeOK
  BY DEF HInv
<1> QED
  BY <1>1, HistoryInvariant, PTL

\* A client that has read to the end has seen every transaction that was there
\* when it began, whatever is committed between its pages and however long they
\* are; one that stops at totalPages misses at most as many as were committed
\* between its last count and the page that came with it.
THEOREM NoGaps == HSpec => []HistoryIsComplete
<1>1. HInv => HistoryIsComplete
  BY DEF HInv, PagingInv
<1> QED
  BY <1>1, HistoryInvariant, PTL

\* Each repeated row is paid for by a transaction committed since the first page.
THEOREM FewRepeats == HSpec => []RepeatsAreBounded
<1>1. HInv => RepeatsAreBounded
  BY DEF HInv, RepeatsInv
<1> QED
  BY <1>1, HistoryInvariant, PTL

\* GET /wallet and GET /transactions tell one story, to the tick per debit.
THEOREM OneStory == HSpec => []HistoryExplainsBalances
<1>1. ASSUME HInv PROVE HistoryExplainsBalances
  <2> USE <1>1 DEF HInv
  <2>1. SUFFICES ASSUME stage = "done"
                 PROVE  \E S \in SUBSET Own :
                          /\ Explains(S)
                          /\ client.first = "balances" /\ Uncounted = 0 =>
                               {r \in S : Matches(r)} \subseteq list
                          /\ client.first = "history" => list \subseteq S
    BY DEF HistoryExplainsBalances
  <2>2. CASE client.first = "balances"
    <3>1. page > 1
      BY <2>1, <2>2 DEF PagingInv
    <3>2. Uncounted = 0 => before \subseteq list
      <4>1. IsFiniteSet(before \ list) /\ Cardinality(before \ list) \in Nat
        <5>1. before \ list \in SUBSET Listing
          BY DEF PagingInv
        <5> QED
          BY <5>1, ListingType, FS_Subset, FS_CardinalityType
      <4>2. Cardinality(before \ list) <= Uncounted
        BY <2>1, <3>1 DEF PagingInv, HistoryIsComplete, HistoryRead
      <4>3. Uncounted = 0 => before \ list = {}
        BY <4>1, <4>2, FS_EmptySet
      <4> QED
        BY <4>3
    <3>3. PICK S \in SUBSET Own : Explains(S) /\ {r \in S : Matches(r)} \subseteq before
      BY <2>1, <2>2, <3>1 DEF StoryInv
    <3> QED
      BY <2>2, <3>2, <3>3
  <2>3. CASE client.first = "history"
    <3>1. PICK S \in SUBSET Own : Explains(S) /\ list \subseteq S
      BY <2>1, <2>3 DEF StoryInv
    <3> QED
      BY <2>3, <3>1
  <2> QED
    BY <2>2, <2>3, ClientFacts
<1> QED
  BY <1>1, HistoryInvariant, PTL

\* Whoever reads, the wallet behaves as AtomicWallet promises: what is proved of
\* AtomicWallet holds here.
THEOREM ReadersChangeNothing == HSpec => Spec
<1>1. HInit => Init
  BY HistoryAssumption DEF HInit, Init
<1>2. [HNext]_hvars => [Next]_vars
  <2> SUFFICES ASSUME [HNext]_hvars PROVE [Next]_vars
    OBVIOUS
  <2>1. ASSUME NEW r \in Requests, CommitTransaction(r) PROVE Next
    BY <2>1 DEF CommitTransaction, Next, Settle
  <2>2. ASSUME NEW r \in Requests, StartTransaction(r) PROVE UNCHANGED vars
    BY <2>2 DEF StartTransaction
  <2>3. CASE GetBalances \/ Count \/ FetchPage
    BY <2>3 DEF GetBalances, Count, FetchPage
  <2>4. CASE UNCHANGED hvars
    BY <2>4 DEF hvars
  <2> QED
    BY <2>1, <2>2, <2>3, <2>4 DEF HNext, Terminating
<1> QED
  BY <1>1, <1>2, PTL DEF HSpec, Spec
=============================================================================
