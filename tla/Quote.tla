------------------------------- MODULE Quote -------------------------------
(***************************************************************************)
(* What a money request asks for and what it is quoted at: the part of     *)
(* fundWallet, TradeCurrencyUseCase.execute and                            *)
(* ConvertCurrencyUseCase.execute that runs before the database            *)
(* transaction starts.  A rate pair is always NGN -> foreign: `rate` is    *)
(* foreign currency per NGN, `inverseRate` is NGN per foreign unit.        *)
(***************************************************************************)
EXTENDS Money

CONSTANTS
  Users,        \* authenticated callers
  Wallets,      \* those of them that own a wallet (wallets.user_id is unique)
  Currencies,   \* enum Currency
  NGN,          \* Currency.NGN
  RatePairs,    \* the pairs getRate(NGN, c) may answer with, for each c
  Keys,         \* values of the Idempotency-Key header
  None          \* no key; nobody holds the lock

RatePair == [rate: Nat, inverseRate: Nat]

\* FundWalletParams, TradeParams and ConversionParams in one shape: `currency`
\* is fromCurrency and `to` is toCurrency of a conversion; only a conversion
\* reads `to`, and FUND reads neither.
Operation ==
  [kind: {"FUND", "BUY", "SELL", "CONVERT"}, user: Users,
   currency: Currencies, to: Currencies, amount: Nat, key: Keys \cup {None}]

\* SUPPORTED_TARGETS leaves NGN out: a pair NGN -> NGN is never found.
ASSUME QuoteAssumption ==
  /\ Wallets \subseteq Users
  /\ NGN \in Currencies
  /\ RatePairs \in [Currencies -> SUBSET RatePair]
  /\ RatePairs[NGN] = {}

\* wallet_balances is unique on (wallet_id, currency).
Rows == Wallets \X Currencies

-----------------------------------------------------------------------------
\* A move debits one row and credits another; FUND only credits.
IsMove(o) == o.kind # "FUND"

SourceRow(o) == <<o.user, IF o.kind = "BUY" THEN NGN ELSE o.currency>>

\* Mutant: the query for the target row does not name the caller's wallet.
TargetRowOfAnyWallet(o) ==
  <<CHOOSE w \in Wallets : TRUE,
    CASE o.kind = "CONVERT" -> o.to
      [] o.kind = "BUY"     -> o.currency
      [] OTHER              -> NGN>>

TargetRow(o) ==
  <<o.user, CASE o.kind = "CONVERT" -> o.to
              [] o.kind = "BUY"     -> o.currency
              [] OTHER              -> NGN>>

\* The rows whose balance the operation changes.
Touched(o) ==
  {TargetRow(o)} \cup (IF IsMove(o) THEN {SourceRow(o)} ELSE {})

-----------------------------------------------------------------------------
Quoted(debit, credit) == [debit |-> debit, credit |-> credit]

FundQuotes(amount) == {Quoted(0, amount)}

\* The caller names the foreign amount; NGN pays for it.
BuyQuotes(currency, amount) ==
  {Quoted(Multiply(amount, p.inverseRate), amount) : p \in RatePairs[currency]}

SellQuotes(currency, amount) ==
  {Quoted(amount, Multiply(amount, p.rate)) : p \in RatePairs[currency]}

\* A cross pair is bridged through NGN, rounding in between.  Its two rates
\* come from two calls of getRate.
ConvertQuotes(from, to, amount) ==
  CASE from = to  -> {}
    [] from = NGN -> {Quoted(amount, Multiply(amount, p.rate)) : p \in RatePairs[to]}
    [] to = NGN   -> {Quoted(amount, Multiply(amount, p.inverseRate)) :
                        p \in RatePairs[from]}
    [] OTHER      -> {Quoted(amount, Multiply(Multiply(amount, p.inverseRate), q.rate)) :
                        p \in RatePairs[from], q \in RatePairs[to]}

\* Every quote the operation may be given; none when it is refused whatever
\* the rates are: Money.create, SameCurrencyError, WalletNotFoundError.
Quotes(o) ==
  IF ~IsPositive(o.amount) \/ o.user \notin Wallets THEN {}
  ELSE CASE o.kind = "FUND" -> FundQuotes(o.amount)
         [] o.kind = "BUY"  -> BuyQuotes(o.currency, o.amount)
         [] o.kind = "SELL" -> SellQuotes(o.currency, o.amount)
         [] OTHER           -> ConvertQuotes(o.currency, o.to, o.amount)
=============================================================================
