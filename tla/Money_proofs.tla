---------------------------- MODULE Money_proofs ----------------------------
(***************************************************************************)
(* What the rounding of core/utils/decimal.util guarantees for every       *)
(* amount: results are amounts again, they are whole ticks, and they are   *)
(* within half a tick of the exact value.  And what the quotes built from  *)
(* them guarantee, whatever the rates are.                                 *)
(***************************************************************************)
EXTENDS Quote, TLAPS

\* toFixed(4) of an amount is an amount.
LEMMA ToFixedType == \A x \in Nat : ToFixed(x) \in Nat
  BY SMT DEF ToFixed, Tick

LEMMA AddType == \A a, b \in Nat : Add(a, b) \in Nat
  BY ToFixedType DEF Add

LEMMA SubtractType == \A a, b \in Nat : a >= b => Subtract(a, b) \in Nat
  BY ToFixedType, SMT DEF Subtract

\* A quotient of naturals is a natural.
LEMMA DivType == \A n \in Nat, d \in Nat \ {0} : n \div d \in Nat
  BY SMT

LEMMA MultiplyType == \A a, rate \in Nat : Multiply(a, rate) \in Nat
<1> SUFFICES ASSUME NEW a \in Nat, NEW rate \in Nat PROVE Multiply(a, rate) \in Nat
  OBVIOUS
<1> DEFINE n == 2 * a * rate + Tick * RateOne
           d == 2 * Tick * RateOne
<1>1. n \in Nat /\ d \in Nat \ {0}
  BY RateOneAssumption, SMT DEF Tick
<1>2. n \div d \in Nat
  BY <1>1, DivType
<1> QED
  BY <1>2, SMT DEF Multiply, Tick

\* Every result is a whole number of ticks: what decimal(18,4) stores is the
\* value the service computed.
LEMMA ToFixedTicks == \A x \in Nat : ToFixed(x) % Tick = 0
  BY SMT DEF ToFixed, Tick

\* toFixed(4) leaves whole ticks alone and moves nothing by more than half one.
LEMMA ToFixedNear ==
  \A x \in Nat :
    /\ x % Tick = 0 => ToFixed(x) = x
    /\ 2 * (ToFixed(x) - x) <= Tick
    /\ 2 * (x - ToFixed(x)) < Tick
  BY SMT DEF ToFixed, Tick

\* Adding to a stored balance rounds the amount and nothing else.
LEMMA AddExact ==
  \A b, a \in Nat : b % Tick = 0 => Add(b, a) = b + ToFixed(a)
  BY SMT DEF Add, ToFixed, Tick

\* Subtracting from a stored balance takes the rounded amount, but a tick less
\* when the amount lies half way between two ticks.
LEMMA SubtractDrift ==
  \A b, a \in Nat : b % Tick = 0 /\ b >= a =>
    Subtract(b, a) = b - ToFixed(a) + (IF a % Tick = Tick \div 2 THEN Tick ELSE 0)
  BY SMT DEF Subtract, ToFixed, Tick

-----------------------------------------------------------------------------
(* Operations and quotes *)

LEMMA QuotedType == \A d, c \in Nat : Quoted(d, c) \in [debit: Nat, credit: Nat]
  BY DEF Quoted

\* An operation that can be quoted has a wallet and, if it is a move, two
\* different rows; its quote is a pair of amounts.
LEMMA QuoteFacts ==
  ASSUME NEW o \in Operation, NEW q \in Quotes(o)
  PROVE  /\ q \in [debit: Nat, credit: Nat]
         /\ SourceRow(o) \in Rows
         /\ TargetRow(o) \in Rows
         /\ IsMove(o) => SourceRow(o) # TargetRow(o)
<1> USE QuoteAssumption DEF Operation, IsPositive
<1>1. o.amount \in Nat /\ o.user \in Wallets /\ o.currency \in Currencies /\ o.to \in Currencies
  BY DEF Quotes
<1>2. SourceRow(o) \in Rows
  BY <1>1 DEF SourceRow, Rows
<1>3. TargetRow(o) \in Rows
  BY <1>1 DEF TargetRow, Rows
<1>4. CASE o.kind = "FUND"
  <2>1. q \in FundQuotes(o.amount)
    BY <1>1, <1>4 DEF Quotes
  <2> QED
    BY <1>1, <1>2, <1>3, <1>4, <2>1, QuotedType DEF FundQuotes, IsMove
<1>5. CASE o.kind = "BUY"
  <2>1. q \in BuyQuotes(o.currency, o.amount)
    BY <1>1, <1>5 DEF Quotes
  <2>2. PICK p \in RatePairs[o.currency] : q = Quoted(Multiply(o.amount, p.inverseRate), o.amount)
    BY <2>1 DEF BuyQuotes
  <2>3. p.inverseRate \in Nat
    BY <1>1, <2>2 DEF RatePair
  <2>4. q \in [debit: Nat, credit: Nat]
    BY <1>1, <2>2, <2>3, QuotedType, MultiplyType
  <2>5. SourceRow(o) # TargetRow(o)
    BY <1>1, <1>5, <2>2 DEF SourceRow, TargetRow
  <2> QED
    BY <1>2, <1>3, <2>4, <2>5
<1>6. CASE o.kind = "SELL"
  <2>1. q \in SellQuotes(o.currency, o.amount)
    BY <1>1, <1>6 DEF Quotes
  <2>2. PICK p \in RatePairs[o.currency] : q = Quoted(o.amount, Multiply(o.amount, p.rate))
    BY <2>1 DEF SellQuotes
  <2>3. p.rate \in Nat
    BY <1>1, <2>2 DEF RatePair
  <2>4. q \in [debit: Nat, credit: Nat]
    BY <1>1, <2>2, <2>3, QuotedType, MultiplyType
  <2>5. SourceRow(o) # TargetRow(o)
    BY <1>1, <1>6, <2>2 DEF SourceRow, TargetRow
  <2> QED
    BY <1>2, <1>3, <2>4, <2>5
<1>7. CASE o.kind = "CONVERT"
  <2>1. q \in ConvertQuotes(o.currency, o.to, o.amount)
    BY <1>1, <1>7 DEF Quotes
  <2>2. o.currency # o.to
    BY <2>1 DEF ConvertQuotes
  <2>3. PICK credit \in Nat : q = Quoted(o.amount, credit)
    <3>1. CASE o.currency = NGN
      BY <1>1, <2>1, <2>2, <3>1, MultiplyType DEF ConvertQuotes, RatePair
    <3>2. CASE o.currency # NGN /\ o.to = NGN
      BY <1>1, <2>1, <2>2, <3>2, MultiplyType DEF ConvertQuotes, RatePair
    <3>3. CASE o.currency # NGN /\ o.to # NGN
      <4>1. PICK p \in RatePairs[o.currency], s \in RatePairs[o.to] :
              q = Quoted(o.amount, Multiply(Multiply(o.amount, p.inverseRate), s.rate))
        BY <2>1, <2>2, <3>3 DEF ConvertQuotes
      <4>2. p.inverseRate \in Nat /\ s.rate \in Nat
        BY <1>1, <4>1 DEF RatePair
      <4> QED
        BY <1>1, <4>1, <4>2, MultiplyType
    <3> QED
      BY <3>1, <3>2, <3>3
  <2>4. SourceRow(o) # TargetRow(o)
    BY <1>7, <2>2 DEF SourceRow, TargetRow
  <2> QED
    BY <1>1, <1>2, <1>3, <2>3, <2>4, QuotedType
<1> QED
  BY <1>4, <1>5, <1>6, <1>7
=============================================================================
