--------------------------- MODULE MCTradePricing ---------------------------
(* Small instances of TradePricing for TLC. *)
EXTENDS TradePricing

CONSTANTS USD, EUR

MCPlace == [t \in Targets |-> IF t = USD THEN 1 ELSE 2]

\* One conversion from USD to EUR, or two orders of one lookup each, for the
\* same currency or not, or one for all of them.
MCOrders == {<<1, 2>>, <<3>>, <<4>>}

MCWorkloads ==
  [placed: {{<<1, 2>>}}, wanted: {<<USD, EUR, USD, USD>>}] \cup
  [placed: {{<<3>>, <<4>>}}, wanted: {<<USD, EUR, USD, t>> : t \in {USD, EUR, All}}]

\* One trade.
OneTrade == [placed: {{<<3>>}}, wanted: {<<USD, EUR, USD, USD>>}]
=============================================================================
