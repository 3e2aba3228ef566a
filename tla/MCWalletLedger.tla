--------------------------- MODULE MCWalletLedger ---------------------------
(* Small instances of WalletLedger for TLC. *)
EXTENDS WalletProperties, TLC

CONSTANTS ada, bob, USD, EUR, GBP, k1

MCCurrencies == {NGN, USD, EUR, GBP}

\* With RateOne = 100, one NGN buys 0.5 USD, 0.25 EUR or 0.25 GBP.
MCRatePairs == [c \in MCCurrencies |->
  CASE c = USD        -> {[rate |-> 50, inverseRate |-> 200]}
    [] c \in {EUR, GBP} -> {[rate |-> 25, inverseRate |-> 400]}
    [] OTHER          -> {}]

Fund(user, amount, key) ==
  [kind |-> "FUND", user |-> user, currency |-> NGN, to |-> NGN,
   amount |-> amount, key |-> key]
Buy(user, currency, amount, key) ==
  [kind |-> "BUY", user |-> user, currency |-> currency, to |-> NGN,
   amount |-> amount, key |-> key]
Sell(user, currency, amount, key) ==
  [kind |-> "SELL", user |-> user, currency |-> currency, to |-> NGN,
   amount |-> amount, key |-> key]
Convert(user, from, to, amount, key) ==
  [kind |-> "CONVERT", user |-> user, currency |-> from, to |-> to,
   amount |-> amount, key |-> key]

\* ada has money in NGN, USD and EUR and no GBP row yet.  Between them her
\* operations fight over every pair of rows, close a ring of three, create the
\* GBP row twice, share a key with each other and with bob, drain a row that two
\* of them want, overflow a column (60 + 20 + 10 > 85) and debit half a tick.
AdasRows == (<<ada, NGN>> :> 60) @@ (<<ada, USD>> :> 40) @@ (<<ada, EUR>> :> 20)

SafetyWork ==
  {Fund(ada, 20, k1), Fund(bob, 20, k1),
   Buy(ada, USD, 20, k1), Buy(ada, GBP, 15, None), Sell(ada, USD, 25, None),
   Convert(ada, USD, GBP, 40, k1), Convert(ada, NGN, USD, 60, None),
   Convert(ada, USD, EUR, 10, None), Convert(ada, EUR, NGN, 5, None)}

\* Opposed moves, one of them with a key, and a funding request with the same
\* one; bob has no wallet here and is refused.
LivenessWork ==
  {Fund(ada, 20, k1), Fund(bob, 20, None), Buy(ada, USD, 20, k1), Sell(ada, USD, 20, None)}

Symmetry == Permutations(Requests)
=============================================================================
