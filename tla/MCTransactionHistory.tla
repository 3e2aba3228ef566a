------------------------- MODULE MCTransactionHistory -------------------------
(* Small instances of TransactionHistory for TLC. *)
EXTENDS TransactionHistory, TLC

CONSTANTS ada, bob, USD, k1

MCCurrencies == {NGN, USD}

\* With RateOne = 100, one NGN buys 0.5 USD.
MCRatePairs == [c \in MCCurrencies |->
  IF c = USD THEN {[rate |-> 50, inverseRate |-> 200]} ELSE {}]

Operate(kind, user, currency, to, amount, key) ==
  [kind |-> kind, user |-> user, currency |-> currency, to |-> to,
   amount |-> amount, key |-> key]

\* Both wallets are new.  Among the operations: half a tick sold, two that share
\* a key, and two that can only settle after others.
MCOpening == [row \in {ada, bob} \X MCCurrencies |-> 0]

MCWork ==
  {Operate("FUND", ada, NGN, NGN, 110, None), Operate("FUND", ada, NGN, NGN, 40, k1),
   Operate("FUND", bob, NGN, NGN, 20, None), Operate("BUY", ada, USD, NGN, 20, None),
   Operate("SELL", ada, USD, NGN, 5, None), Operate("CONVERT", ada, NGN, USD, 70, k1)}

Ask(first, stopsAt, type, until, limit) ==
  [first |-> first, stopsAt |-> stopsAt, type |-> type, until |-> until, limit |-> limit]

\* Both orders and policies, for all transactions, one type, or up to a date.
MCClients ==
  {Ask("balances", "shortPage", None, 9, 1), Ask("balances", "totalPages", None, 9, 1),
   Ask("history", "shortPage", None, 9, 2), Ask("history", "totalPages", "TRADE", 9, 1),
   Ask("balances", "totalPages", None, 2, 2)}

Symmetry == Permutations(Requests)
=============================================================================
