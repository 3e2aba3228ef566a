---------------------------- MODULE PricingClaims ----------------------------
(***************************************************************************)
(* What the documents say of the age of rates, and the code does not do.   *)
(***************************************************************************)
EXTENDS MCTradePricing

\* README.md: rates older than 15 minutes are flagged as stale and rejected for
\* trade execution.
OldRatesAreRejected ==
  [][\A o \in Orders : stage[o] # "priced" /\ stage'[o] = "priced" =>
       \A rate \in Rates(o)' : Age(rate.fetchedAt) <= StaleAfter]_pricingVars
=============================================================================
