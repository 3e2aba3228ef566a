-------------------------- MODULE TradePricing_proofs --------------------------
(***************************************************************************)
(* Orders add nothing to what FxRates allows, so what FxRates promises of  *)
(* every rate holds of the rates of every order.  And whatever the number  *)
(* of legs, orders and currencies: money moves at a fallback rate only if  *)
(* it was fresh when it was looked up.  The argument: a fallback comes     *)
(* from the database alone, never from the cache, where it would have been *)
(* judged at another time, and an unflagged one is at most StaleAfter old  *)
(* at the moment it is answered, which is the moment quotedAt records.     *)
(***************************************************************************)
EXTENDS TradePricing, FxRates_proofs

\* A fallback that is not flagged was fresh when it was answered, and an order
\* that was priced has no flagged rate.
QuoteInv ==
  /\ \A r \in Requests : \A rate \in answer[r] :
       rate.source = "FALLBACK" /\ ~rate.isStale => quotedAt[r] <= rate.fetchedAt + StaleAfter
  /\ \A o \in Orders : stage[o] \in {"priced", "settled"} =>
       \A r \in Legs(o) : \A rate \in answer[r] : ~rate.isStale

StageOK ==
  /\ stage \in [Orders -> Open \cup Closed]
  /\ quotedAt \in [Requests -> Time]

LEMMA LegsAreRequests ==
  ASSUME NEW o \in Orders
  PROVE  Legs(o) \subseteq Requests /\ o # <<>> /\ Len(o) \in DOMAIN o /\ Last(o) \in Legs(o)
<1>1. o \in Seq(Requests) /\ o # <<>>
  BY TradePricingAssumption
<1>2. DOMAIN o = 1..Len(o) /\ Len(o) \in Nat /\ Len(o) # 0 /\ \A i \in 1..Len(o) : o[i] \in Requests
  BY <1>1
<1> QED BY <1>1, <1>2 DEF Legs, Last

LEMMA InitRefines == PricingInit => Init
  BY DEF PricingInit

LEMMA StepRefines == [PricingNext]_pricingVars => [Next]_vars
<1>1. ASSUME NEW o \in Orders, Step(o) PROVE [Next]_vars
  BY <1>1, LegsAreRequests DEF Step, Look, LookFails, Quote, Settle, Next
<1> QED BY <1>1 DEF PricingNext, AllClosed, pricingVars, Next

\* Every behaviour of the orders is a behaviour of the lookups.
THEOREM OrdersAreLookups == PricingSpec => Spec
  BY InitRefines, StepRefines, PTL DEF PricingSpec, Spec

LEMMA Typed ==
  ASSUME IInv, StageOK, [PricingNext]_pricingVars
  PROVE  StageOK'
<1> USE DEF StageOK, Become, Open, Closed
<1>1. now \in Time
  BY DEF IInv, TypeOK
<1>2. ASSUME NEW o \in Orders, Look(o) \/ LookFails(o) \/ Settle(o) PROVE StageOK'
  BY <1>2 DEF Look, LookFails, Settle
<1>3. ASSUME NEW o \in Orders, Quote(o) PROVE StageOK'
  <2>1. Check(o)' \in Open \cup Closed
    BY DEF Check
  <2> QED BY <1>1, <1>3, <2>1 DEF Quote
<1> QED
  BY <1>2, <1>3 DEF PricingNext, Step, AllClosed, pricingVars

\* What a step of a lookup does to the answers.
LEMMA LookupAnswers ==
  ASSUME IInv, NEW r \in Requests, Lookup(r)
  PROVE  /\ now' = now /\ wanted' = wanted
         /\ pc'[r] # "answered" => answer' = answer
         /\ \A q \in Requests : q # r => answer'[q] = answer[q]
         /\ pc'[r] = "answered" =>
              \A rate \in answer'[r] :
                rate.source = "FALLBACK" /\ ~rate.isStale => now <= rate.fetchedAt + StaleAfter
<1> USE DEF IInv, TypeOK, Goto, Return
<1>1. CASE CacheHit(r)
  BY <1>1, Hits DEF CacheHit, Genuine
<1>2. CASE ReturnFetched(r)
  <2>1. \A rate \in FetchedRates(r) : Genuine(rate)
    BY <1>2, AllSaved DEF ReturnFetched, FetchedRates
  <2> QED BY <1>2, <2>1 DEF ReturnFetched, Genuine
<1>3. CASE FromDatabase(r)
  <2>1. wanted[r] \in Targets /\ Usable(wanted[r])
    BY <1>3 DEF FromDatabase
  <2>2. ~Fallback(wanted[r]).isStale => now <= Fallback(wanted[r]).fetchedAt + StaleAfter
    BY <2>1, FallbackIsARate
  <2> QED BY <1>3, <2>2 DEF FromDatabase
<1>4. CASE CacheMiss(r) \/ Fetch(r) \/ SaveSnapshot(r) \/ StoreAll(r) \/ StorePair(r)
  BY <1>4 DEF CacheMiss, Fetch, SaveSnapshot, StoreAll, StorePair
<1>5. CASE NotOffered(r) \/ FetchFails(r) \/ Unavailable(r) \/ AllFromDatabase(r)
  BY <1>5 DEF NotOffered, FetchFails, Unavailable, AllFromDatabase
<1> QED BY <1>1, <1>2, <1>3, <1>4, <1>5 DEF Lookup

LEMMA QuoteStep ==
  ASSUME IInv, StageOK, QuoteInv, [PricingNext]_pricingVars
  PROVE  QuoteInv'
<1> USE DEF StageOK, QuoteInv, Become
<1>1. ASSUME NEW o \in Orders, Look(o) PROVE QuoteInv'
  <2>1. answer' = answer
    BY <1>1, LookupAnswers, LegsAreRequests DEF Look, Active
  <2> QED BY <1>1, <2>1 DEF Look
<1>2. ASSUME NEW o \in Orders, LookFails(o) PROVE QuoteInv'
  <2>1. answer' = answer
    BY <1>2, LookupAnswers, LegsAreRequests DEF LookFails, Ended, Fault
  <2> QED BY <1>2, <2>1 DEF LookFails
<1>3. ASSUME NEW o \in Orders, Settle(o) PROVE QuoteInv'
  BY <1>3 DEF Settle, vars
<1>4. ASSUME NEW o \in Orders, Quote(o) PROVE QuoteInv'
  <2>1. PICK r \in Legs(o) :
          /\ Lookup(r) /\ pc'[r] = "answered"
          /\ quotedAt' = [quotedAt EXCEPT ![r] = now]
          /\ stage' = [stage EXCEPT ![o] = IF r = Last(o) THEN Check(o)' ELSE "pricing"]
    BY <1>4 DEF Quote
  <2>2. r \in Requests
    BY LegsAreRequests
  <2>3. ASSUME NEW q \in Requests, NEW rate \in answer'[q], rate.source = "FALLBACK", ~rate.isStale
        PROVE  quotedAt'[q] <= rate.fetchedAt + StaleAfter
    BY <2>1, <2>2, <2>3, LookupAnswers
  <2>4. ASSUME NEW p \in Orders, stage'[p] \in {"priced", "settled"}, NEW q \in Legs(p), NEW rate \in answer'[q]
        PROVE  ~rate.isStale
    <3>1. CASE p = o
      <4>1. Check(o)' = "priced"
        BY <2>1, <2>4, <3>1 DEF Check
      <4>2. rate \in Rates(o)'
        BY <2>4, <3>1 DEF Rates
      <4> QED BY <4>1, <4>2 DEF Check
    <3>2. CASE p # o
      <4>1. q # r /\ q \in Requests
        BY <2>1, <2>4, <3>2, TradePricingAssumption, LegsAreRequests
      <4>2. answer'[q] = answer[q] /\ stage'[p] = stage[p]
        BY <2>1, <2>2, <3>2, <4>1, LookupAnswers
      <4> QED BY <2>4, <4>2
    <3> QED BY <3>1, <3>2
  <2> QED BY <2>3, <2>4
<1>5. CASE UNCHANGED <<answer, stage, quotedAt>>
  BY <1>5
<1> QED
  BY <1>1, <1>2, <1>3, <1>4, <1>5
  DEF PricingNext, Step, AllClosed, pricingVars, Pass, Publish, vars

LEMMA PricingInvariance == PricingSpec => [](IInv /\ StageOK /\ QuoteInv)
<1>1. PricingInit => StageOK /\ QuoteInv
  BY FxRatesAssumption DEF PricingInit, Init, StageOK, QuoteInv, Open, Closed, Time
<1>2. IInv /\ StageOK /\ QuoteInv /\ [PricingNext]_pricingVars => (StageOK /\ QuoteInv)'
  BY Typed, QuoteStep
<1>3. PricingSpec => []IInv
  BY OrdersAreLookups, Invariance, PTL
<1> QED BY <1>1, <1>2, <1>3, PTL DEF PricingSpec

-----------------------------------------------------------------------------
\* Every variable of the orders and of their lookups keeps its type.
THEOREM OrdersTyped == PricingSpec => []PricingTypeOK
<1>1. IInv /\ StageOK => PricingTypeOK
  BY DEF IInv, StageOK, PricingTypeOK
<1> QED BY <1>1, PricingInvariance, PTL

\* A trade or conversion at a fallback rate was fresh, in every leg, when that
\* leg was looked up.
THEOREM OutageTradesWereFresh == PricingSpec => []OutageTradesAreFresh
<1>1. QuoteInv => OutageTradesAreFresh
  BY LegsAreRequests DEF QuoteInv, OutageTradesAreFresh
<1> QED BY <1>1, PricingInvariance, PTL

-----------------------------------------------------------------------------
(* One lookup at a time *)

LEMMA LegFacts ==
  ASSUME NEW o \in Orders
  PROVE  /\ Len(o) \in Nat \ {0} /\ DOMAIN o = 1..Len(o)
         /\ \A i \in DOMAIN o : o[i] \in Requests
         /\ \A i, j \in DOMAIN o : o[i] = o[j] => i = j
         /\ Legs(o) = {o[i] : i \in DOMAIN o}
         /\ Last(o) = o[Len(o)]
<1>1. o \in Seq(Requests) /\ o # <<>>
  BY TradePricingAssumption
<1>2. DOMAIN o = 1..Len(o) /\ Len(o) \in Nat /\ Len(o) # 0 /\ \A i \in 1..Len(o) : o[i] \in Requests
  BY <1>1
<1> QED BY <1>2, TradePricingAssumption DEF Legs, Last

\* The lookup an order awaits is the one that runs.
Turn(o, i) ==
  /\ i \in DOMAIN o
  /\ pc[o[i]] \in Active
  /\ \A j \in DOMAIN o :
       /\ j < i => pc[o[j]] = "answered"
       /\ j > i => pc[o[j]] = "start"

LEMMA AwaitedTurn ==
  ASSUME OneLookupAtATime, NEW o \in Orders, NEW r, Awaits(o, r), pc[r] \in Active
  PROVE  \E i \in DOMAIN o : r = o[i] /\ Turn(o, i)
<1>1. stage[o] = "pricing"
  BY DEF Awaits
<1>2. PICK i \in DOMAIN o : Turn(o, i)
  BY <1>1 DEF OneLookupAtATime, Turn
<1>3. PICK k \in DOMAIN o : r = o[k] /\ \A j \in 1..(k - 1) : pc[o[j]] = "answered"
  BY DEF Awaits
<1>4. i \in Int /\ k \in Int /\ 1 <= i /\ 1 <= k
  BY LegFacts
<1>5. ~(k < i)
  BY <1>2, <1>3 DEF Turn, Active
<1>6. ~(i < k)
  BY <1>2, <1>3, <1>4 DEF Turn, Active
<1> QED BY <1>2, <1>3, <1>4, <1>5, <1>6

\* A step of a lookup moves that lookup and no other.
LEMMA LookupMoves ==
  ASSUME IInv, NEW r \in Requests, Lookup(r) \/ Fault(r)
  PROVE  pc[r] \in Active /\ \A q \in Requests : q # r => pc'[q] = pc[q]
<1>1. TypeOK
  BY DEF IInv
<1>2. pc[r] \in Active
  BY DEF Lookup, CacheHit, CacheMiss, Fetch, SaveSnapshot, StoreAll, StorePair, ReturnFetched,
     NotOffered, FetchFails, FromDatabase, Unavailable, AllFromDatabase, Fault, Active
<1> QED BY <1>1, <1>2, OthersUntouched

\* An order's step leaves the legs of the others alone.
LEMMA OtherOrders ==
  ASSUME OneLookupAtATime, NEW o \in Orders, NEW r \in Legs(o), NEW p \in Orders, p # o,
         stage'[p] = stage[p], \A q \in Requests : q # r => pc'[q] = pc[q]
  PROVE  IF stage'[p] = "pricing" THEN \E i \in DOMAIN p : Turn(p, i)'
         ELSE \A q \in Legs(p) : pc'[q] \in Ended \cup {"start"}
<1>1. \A q \in Legs(p) : q # r /\ pc'[q] = pc[q]
  BY TradePricingAssumption, LegsAreRequests
<1>2. \A i \in DOMAIN p : pc'[p[i]] = pc[p[i]]
  BY <1>1 DEF Legs
<1> QED BY <1>1, <1>2 DEF OneLookupAtATime, Turn

LEMMA TurnStep ==
  ASSUME IInv, StageOK, OneLookupAtATime, [PricingNext]_pricingVars
  PROVE  OneLookupAtATime'
<1> DEFINE Fine(p) ==
      IF stage'[p] = "pricing" THEN \E i \in DOMAIN p : Turn(p, i)'
      ELSE \A q \in Legs(p) : pc'[q] \in Ended \cup {"start"}
<1>0. (\A p \in Orders : Fine(p)) => OneLookupAtATime'
  BY DEF OneLookupAtATime, Turn
<1>1. ASSUME UNCHANGED pc, \A p \in Orders : stage'[p] = "pricing" <=> stage[p] = "pricing"
      PROVE  OneLookupAtATime'
  BY <1>1 DEF OneLookupAtATime
<1>2. ASSUME NEW o \in Orders, Look(o) \/ LookFails(o) \/ Quote(o)
      PROVE  OneLookupAtATime'
  <2>1. PICK r \in Legs(o) :
          /\ Awaits(o, r) /\ (Lookup(r) \/ Fault(r))
          /\ \/ pc'[r] \in Active /\ stage' = stage
             \/ pc'[r] \in Ended \ {"answered"} /\ stage' = [stage EXCEPT ![o] = "unpriced"]
             \/ /\ pc'[r] = "answered"
                /\ stage' = [stage EXCEPT ![o] = IF r = Last(o) THEN Check(o)' ELSE "pricing"]
    BY <1>2 DEF Look, LookFails, Quote, Become
  <2>2. r \in Requests /\ \A q \in Requests : q # r => pc'[q] = pc[q]
    BY <2>1, LegsAreRequests, LookupMoves
  <2>3. PICK i \in DOMAIN o : r = o[i] /\ Turn(o, i)
    BY <2>1, <2>2, LookupMoves, AwaitedTurn
  <2>4. \A j \in DOMAIN o : j # i => pc'[o[j]] = pc[o[j]]
    BY <2>2, <2>3, LegFacts
  <2>5. \A j \in DOMAIN o : /\ j < i => pc'[o[j]] = "answered"
                            /\ j > i => pc'[o[j]] = "start"
    BY <2>3, <2>4, LegFacts DEF Turn
  <2>6. ASSUME NEW p \in Orders, p # o PROVE Fine(p)
    <3>1. stage'[p] = stage[p]
      BY <2>1, <2>6 DEF StageOK
    <3> QED BY <2>2, <2>6, <3>1, OtherOrders
  <2>7. Fine(o)
    <3>1. stage[o] = "pricing"
      BY <2>1 DEF Awaits
    <3>2. CASE pc'[r] \in Active /\ stage' = stage
      <4>1. pc'[o[i]] \in Active
        BY <2>3, <3>2
      <4>2. Turn(o, i)'
        BY <2>5, <4>1 DEF Turn
      <4>3. stage'[o] = "pricing"
        BY <3>1, <3>2
      <4> QED BY <4>2, <4>3
    <3>3. ASSUME pc'[r] \in Ended, stage'[o] # "pricing" PROVE Fine(o)
      <4>1. \A j \in DOMAIN o : pc'[o[j]] \in Ended \cup {"start"}
        <5>1. \A j \in DOMAIN o : j \in Int /\ i \in Int /\ (j < i \/ j = i \/ j > i)
          BY LegFacts
        <5>2. pc'[o[i]] \in Ended
          BY <2>3, <3>3
        <5>3. "answered" \in Ended
          BY DEF Ended
        <5>4. ASSUME NEW j \in DOMAIN o PROVE pc'[o[j]] \in Ended \cup {"start"}
          <6>1. CASE j < i
            BY <2>5, <5>3, <6>1
          <6>2. CASE j = i
            BY <5>2, <6>2
          <6>3. CASE j > i
            BY <2>5, <6>3
          <6> QED BY <5>1, <6>1, <6>2, <6>3
        <5> QED BY <5>4
      <4> QED BY <3>3, <4>1 DEF Legs
    <3>4. CASE pc'[r] \in Ended \ {"answered"} /\ stage' = [stage EXCEPT ![o] = "unpriced"]
      BY <3>3, <3>4 DEF StageOK
    <3>5. CASE /\ pc'[r] = "answered" /\ r = Last(o)
               /\ stage' = [stage EXCEPT ![o] = IF r = Last(o) THEN Check(o)' ELSE "pricing"]
      <4>1. stage'[o] = Check(o)' /\ Check(o)' # "pricing"
        BY <3>5 DEF StageOK, Check
      <4> QED BY <3>3, <3>5, <4>1 DEF Ended
    <3>6. CASE /\ pc'[r] = "answered" /\ r # Last(o)
               /\ stage' = [stage EXCEPT ![o] = IF r = Last(o) THEN Check(o)' ELSE "pricing"]
      <4>1. i + 1 \in DOMAIN o
        BY <2>3, <3>6, LegFacts
      <4>2. Turn(o, i + 1)'
        <5>1. pc'[o[i + 1]] = "start" /\ i \in Int
          BY <2>5, <4>1, LegFacts
        <5>2. \A j \in DOMAIN o : j \in Int /\ (j < i + 1 => j < i \/ j = i) /\ (j > i + 1 => j > i)
          BY LegFacts, <5>1
        <5>3. \A j \in DOMAIN o : /\ j < i + 1 => pc'[o[j]] = "answered"
                                  /\ j > i + 1 => pc'[o[j]] = "start"
          BY <2>3, <2>5, <3>6, <5>2
        <5>4. pc'[o[i + 1]] \in Active
          BY <5>1 DEF Active
        <5> QED BY <4>1, <5>3, <5>4 DEF Turn
      <4>3. stage'[o] = "pricing"
        BY <3>6 DEF StageOK
      <4> QED BY <4>1, <4>2, <4>3
    <3> QED BY <2>1, <3>2, <3>4, <3>5, <3>6
  <2> QED BY <1>0, <2>6, <2>7
<1>3. ASSUME NEW o \in Orders, Settle(o) PROVE OneLookupAtATime'
  <2>1. \A p \in Orders : stage'[p] = "pricing" <=> stage[p] = "pricing"
    BY <1>3 DEF Settle, Become, StageOK
  <2> QED BY <1>1, <1>3, <2>1 DEF Settle, vars
<1>4. CASE UNCHANGED <<pc, stage>>
  BY <1>1, <1>4
<1> QED
  BY <1>2, <1>3, <1>4 DEF PricingNext, Step, AllClosed, pricingVars, Pass, Publish, vars

\* However many legs an order has, they are looked up one after the other, and an order
\* that ends leaves no lookup running.
THEOREM LegsInTurn == PricingSpec => []OneLookupAtATime
<1>1. PricingInit => OneLookupAtATime
  <2> SUFFICES ASSUME PricingInit, NEW o \in Orders
               PROVE  IF stage[o] = "pricing" THEN \E i \in DOMAIN o : Turn(o, i)
                      ELSE \A r \in Legs(o) : pc[r] \in Ended \cup {"start"}
    BY DEF OneLookupAtATime, Turn
  <2>1. 1 \in DOMAIN o /\ \A i \in DOMAIN o : i >= 1 /\ pc[o[i]] = "start"
    BY LegFacts DEF PricingInit, Init
  <2>2. Turn(o, 1)
    BY <2>1, LegFacts DEF Turn, Active
  <2> QED BY <2>1, <2>2 DEF Legs
<1> QED BY <1>1, TurnStep, PricingInvariance, PTL DEF PricingSpec
==============================================================================
