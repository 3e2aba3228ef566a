----------------------------- MODULE TradePricing -----------------------------
(***************************************************************************)
(* How TradeCurrencyUseCase and ConvertCurrencyUseCase price an order over *)
(* FxRates, and what becomes of the price.  An order is the sequence of    *)
(* the lookups it awaits, one after the other: one for a trade or a direct *)
(* conversion, two for a conversion bridged over NGN, and the staleness    *)
(* flags are looked at once, when the last has been answered.  The         *)
(* settlement, which WalletLedger models, comes any time later, after the  *)
(* wait for a connection and for the locks.  GET /fx/rates for all of them *)
(* is an order of one lookup that settles nothing.                         *)
(***************************************************************************)
EXTENDS FxRates, Sequences

CONSTANTS
  Orders,    \* the orders: sequences of lookups
  Workloads  \* which orders there are, and what the lookups want

Legs(o) == {o[i] : i \in DOMAIN o}

ASSUME TradePricingAssumption ==
  /\ Workloads \subseteq [placed: SUBSET Orders, wanted: [Requests -> Targets \cup {All}]]
  /\ \A o \in Orders : o \in Seq(Requests) /\ o # <<>>
  /\ \A o \in Orders : \A i, j \in DOMAIN o : o[i] = o[j] => i = j
  /\ \A o, p \in Orders : Legs(o) \cap Legs(p) # {} => o = p

VARIABLES
  stage,    \* how far each order is
  quotedAt  \* when each lookup was answered

pricingVars == <<vars, stage, quotedAt>>

Open   == {"pricing", "priced"}
Closed == {"unplaced", "shown", "settled", "stale", "unpriced", "failed"}

PricingInit ==
  /\ Init
  /\ \E w \in Workloads :
       /\ wanted = w.wanted
       /\ stage = [o \in Orders |-> IF o \in w.placed THEN "pricing" ELSE "unplaced"]
  /\ quotedAt = [r \in Requests |-> 0]

Become(o, s) == stage' = [stage EXCEPT ![o] = s]

\* Mutant: the lookups are started together, with Promise.all.
AwaitsAll(o, r) == stage[o] = "pricing" /\ r \in Legs(o)

\* The lookup that o awaits: each begins when the one before was answered.
Awaits(o, r) ==
  /\ stage[o] = "pricing"
  /\ \E i \in DOMAIN o : r = o[i] /\ \A j \in 1..(i - 1) : pc[o[j]] = "answered"

Look(o) ==
  /\ \E r \in Legs(o) : Awaits(o, r) /\ Lookup(r) /\ pc'[r] \in Active
  /\ UNCHANGED <<stage, quotedAt>>

\* The error of a lookup is the error of its order.
LookFails(o) ==
  /\ \E r \in Legs(o) :
       Awaits(o, r) /\ (Lookup(r) \/ Fault(r)) /\ pc'[r] \in Ended \ {"answered"}
  /\ Become(o, "unpriced")
  /\ UNCHANGED quotedAt

Last(o) == o[Len(o)]
Rates(o) == UNION {answer[r] : r \in Legs(o)}

\* Mutant: of a bridged conversion only the second rate is looked at.
CheckLast(o) ==
  IF wanted[Last(o)] = All THEN "shown"
  ELSE IF \E rate \in answer[Last(o)] : rate.isStale THEN "stale" ELSE "priced"

\* StaleRateError, or on to the transaction with the rates as they are.
Check(o) ==
  IF wanted[Last(o)] = All THEN "shown"
  ELSE IF \E rate \in Rates(o) : rate.isStale THEN "stale" ELSE "priced"

\* A lookup is answered: the next one begins, or the flags are checked.
Quote(o) ==
  \E r \in Legs(o) :
    /\ Awaits(o, r)
    /\ Lookup(r)
    /\ pc'[r] = "answered"
    /\ quotedAt' = [quotedAt EXCEPT ![r] = now]
    /\ Become(o, IF r = Last(o) THEN Check(o)' ELSE "pricing")

\* The transaction commits, or fails for any of the reasons of WalletLedger.
Settle(o) ==
  /\ stage[o] = "priced"
  /\ \E outcome \in {"settled", "failed"} : Become(o, outcome)
  /\ UNCHANGED <<vars, quotedAt>>

Step(o) == Look(o) \/ LookFails(o) \/ Quote(o) \/ Settle(o)

AllClosed ==
  /\ \A o \in Orders : stage[o] \in Closed
  /\ UNCHANGED pricingVars

PricingNext ==
  \/ \E o \in Orders : Step(o)
  \/ (\E o \in Orders : stage[o] \in Open) /\ (Pass \/ Publish) /\ UNCHANGED <<stage, quotedAt>>
  \/ AllClosed

PricingSpec == PricingInit /\ [][PricingNext]_pricingVars

\* Node runs every continuation; Redis, the API and PostgreSQL answer, if only
\* with an error, as long as the pool has a connection left: of a pool that has
\* leaked (WalletLedger: PoolLost) nothing is said here.
FairPricing == PricingSpec /\ \A o \in Orders : WF_pricingVars(Step(o))

-----------------------------------------------------------------------------
PricingTypeOK ==
  /\ TypeOK
  /\ stage \in [Orders -> Open \cup Closed]
  /\ quotedAt \in [Requests -> Time]

\* While the API is out, money moves only at rates that were at most
\* StaleAfter old when they were looked up, in every leg of the order, however
\* long the other leg and the settlement took.
OutageTradesAreFresh ==
  \A o \in Orders : stage[o] \in {"priced", "settled"} =>
    \A r \in Legs(o) : \A rate \in answer[r] :
      rate.source = "FALLBACK" => quotedAt[r] <= rate.fetchedAt + StaleAfter

\* An order in progress awaits exactly one lookup: those before it were answered,
\* those after it have not begun.  Whatever an order ended with, it left no lookup
\* running behind it.
OneLookupAtATime ==
  \A o \in Orders :
    IF stage[o] = "pricing"
    THEN \E i \in DOMAIN o :
           /\ pc[o[i]] \in Active
           /\ \A j \in DOMAIN o :
                /\ j < i => pc[o[j]] = "answered"
                /\ j > i => pc[o[j]] = "start"
    ELSE \A r \in Legs(o) : pc[r] \in Ended \cup {"start"}

\* Every order ends: each failure of a lookup leads to the next tier, and the
\* last one to an answer or an error.
EveryOrderEnds == <>(\A o \in Orders : stage[o] \in Closed)
=============================================================================
