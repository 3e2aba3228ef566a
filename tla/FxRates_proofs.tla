----------------------------- MODULE FxRates_proofs -----------------------------
(***************************************************************************)
(* For every number of lookups and currencies: a rate that a client or the *)
(* cache has was published by the provider at the time it carries and has  *)
(* its row in fx_rate_snapshots, and the cache holds no fallback.  The     *)
(* argument: a fetch reaches the cache and its caller only after its last  *)
(* row was saved, whatever other fetches write meanwhile, and rows are     *)
(* never removed.                                                          *)
(***************************************************************************)
EXTENDS FxRates, Finite_proofs

\* What every rate in the cache is.
Genuine(rate) ==
  /\ rate \in Rate
  /\ rate.source = "API" /\ ~rate.isStale
  /\ rate.fetchedAt \in publications
  /\ rate.fetchedAt \in snapshots[rate.target]

\* A fetch knows what was published, and saves all of it before it stores any.
DataInv ==
  \A r \in Requests :
    /\ pc[r] \in {"save", "store"} => data[r].fetchedAt \in publications
    /\ data[r].todo \subseteq data[r].offered
    /\ pc[r] = "save" => \A t \in data[r].offered \ data[r].todo : data[r].fetchedAt \in snapshots[t]
    /\ pc[r] = "store" => \A t \in data[r].offered : data[r].fetchedAt \in snapshots[t]

CacheInv ==
  /\ cachedAll # None => \A rate \in cachedAll.rates : Genuine(rate)
  /\ \A t \in Targets : cached[t] # None => \A rate \in cached[t].rates : Genuine(rate)

AnswerInv ==
  \A r \in Requests :
    /\ pc[r] # "answered" => answer[r] = {}
    /\ \A rate \in answer[r] :
         rate.fetchedAt \in publications /\ rate.fetchedAt \in snapshots[rate.target]

TrailInv ==
  /\ 0 \in publications
  /\ \A time \in publications : time <= now
  /\ \A t \in Targets : snapshots[t] \subseteq publications

IInv == TypeOK /\ TrailInv /\ DataInv /\ CacheInv /\ AnswerInv

\* A nonempty set of times has a last one.
LEMMA LastTime ==
  ASSUME NEW S \in SUBSET Time, S # {}
  PROVE  Max(S) \in S /\ \A x \in S : x <= Max(S)
<1>1. MaxTime \in Nat
  BY FxRatesAssumption
<1> DEFINE T == {MaxTime - x : x \in S}
<1>2. T \in SUBSET Nat /\ T # {}
  <2>1. \A x \in S : MaxTime - x \in Nat
    BY <1>1 DEF Time
  <2> QED BY <2>1
<1>3. PICK m \in T : \A k \in T : m <= k
  <2> HIDE DEF T
  <2> QED BY <1>2, LeastNat
<1>4. PICK y \in S : m = MaxTime - y
  OBVIOUS
<1>5. \A x \in S : MaxTime - x \in T
  OBVIOUS
<1>6. \A x \in S : y >= x
  <2>1. \A x \in S : x \in Int
    BY DEF Time
  <2> HIDE DEF T
  <2> QED BY <1>1, <1>3, <1>4, <1>5, <2>1
<1>7. Max(S) \in S /\ \A x \in S : Max(S) >= x
  BY <1>6 DEF Max
<1> QED BY <1>1, <1>7 DEF Time

LEMMA FetchedIsARate ==
  ASSUME TypeOK, NEW r \in Requests, NEW t \in Targets
  PROVE  /\ Fetched(r, t) \in Rate
         /\ Fetched(r, t).target = t
         /\ Fetched(r, t).fetchedAt = data[r].fetchedAt
         /\ Fetched(r, t).source = "API" /\ ~Fetched(r, t).isStale
  BY DEF TypeOK, Data, Fetched, Rate

LEMMA FallbackIsARate ==
  ASSUME TypeOK, NEW t \in Targets, Usable(t)
  PROVE  /\ Fallback(t) \in Rate
         /\ Fallback(t).target = t
         /\ Fallback(t).fetchedAt = FindLatest(t)
         /\ FindLatest(t) \in snapshots[t]
         /\ ~Fallback(t).isStale => now <= Fallback(t).fetchedAt + StaleAfter
<1>1. snapshots[t] \in SUBSET Time /\ snapshots[t] # {}
  BY DEF TypeOK, Usable
<1>2. FindLatest(t) \in snapshots[t]
  BY <1>1, LastTime DEF FindLatest
<1>3. now \in Int /\ FindLatest(t) \in Int /\ StaleAfter \in Int
  BY <1>1, <1>2, FxRatesAssumption DEF TypeOK, Time
<1>4. FindLatest(t) \in Time
  BY <1>1, <1>2
<1>5. now - FindLatest(t) > StaleAfter => Fallback(t).isStale
  BY Zenon DEF Fallback, Age
<1>6. ~(now - FindLatest(t) > StaleAfter) => now <= FindLatest(t) + StaleAfter
  BY <1>3
<1>7. Fallback(t) \in Rate
  BY <1>4 DEF Fallback, Rate, Age
<1> QED BY <1>2, <1>5, <1>6, <1>7 DEF Fallback

LEMMA InitInv == Init => IInv
  BY FxRatesAssumption
  DEF Init, IInv, TypeOK, Active, Time, TrailInv, DataInv, CacheInv, AnswerInv, Data, NoData

\* Publications and rows are only ever added.
LEMMA Grows ==
  ASSUME IInv, [Next]_vars
  PROVE  /\ publications \subseteq publications'
         /\ \A t \in Targets : snapshots[t] \subseteq snapshots'[t]
         /\ \A rate : Genuine(rate) => Genuine(rate)'
<1> USE DEF IInv, TypeOK
<1>1. ASSUME NEW r \in Requests, SaveSnapshot(r)
      PROVE  \A t \in Targets : snapshots[t] \subseteq snapshots'[t]
  BY <1>1 DEF SaveSnapshot
<1>2. publications \subseteq publications'
  BY DEF Next, vars, Lookup, Terminating, CacheHit, CacheMiss, Return, Fetch, SaveSnapshot, StoreAll,
     StorePair, ReturnFetched, NotOffered, FetchFails, FromDatabase, Unavailable, AllFromDatabase, Fault,
     Pass, Publish
<1>3. \A t \in Targets : snapshots[t] \subseteq snapshots'[t]
  BY <1>1 DEF Next, vars, Lookup, Terminating, CacheHit, CacheMiss, Return, Fetch, StoreAll,
     StorePair, ReturnFetched, NotOffered, FetchFails, FromDatabase, Unavailable, AllFromDatabase, Fault,
     Pass, Publish
<1> QED BY <1>2, <1>3 DEF Genuine, Rate

LEMMA Hits ==
  ASSUME IInv, NEW r \in Requests
  PROVE  \A rate \in CachedFor(r) : Genuine(rate)
<1> USE DEF IInv, TypeOK
<1>1. CASE wanted[r] = All
  BY <1>1 DEF CachedFor, CacheInv
<1>2. CASE wanted[r] # All
  <2>1. wanted[r] \in Targets
    BY <1>2
  <2> QED BY <1>2, <2>1 DEF CachedFor, CacheInv
<1> QED BY <1>1, <1>2

LEMMA AllSaved ==
  ASSUME IInv, NEW r \in Requests,
         pc[r] = "store" \/ (pc[r] = "save" /\ data[r].todo = {}),
         NEW t \in data[r].offered
  PROVE  t \in Targets /\ Genuine(Fetched(r, t))
<1>1. t \in Targets
  BY DEF IInv, TypeOK, Data
<1> QED BY <1>1, FetchedIsARate DEF IInv, DataInv, Genuine

LEMMA TypeStep ==
  ASSUME IInv, [Next]_vars
  PROVE  TypeOK'
<1> USE DEF IInv, TypeOK, Active, Ended, Goto, Return
<1>0. now + TTL \in Nat /\ now \in Nat
  BY FxRatesAssumption DEF Time
<1>1. ASSUME NEW r \in Requests, CacheHit(r) PROVE TypeOK'
  <2>1. CachedFor(r) \subseteq Rate
    BY Hits DEF Genuine
  <2> QED BY <1>1, <2>1 DEF CacheHit
<1>2. ASSUME NEW r \in Requests, CacheMiss(r) PROVE TypeOK'
  BY <1>2 DEF CacheMiss
<1>3. ASSUME NEW r \in Requests, Fetch(r) PROVE TypeOK'
  <2>1. Max(publications) \in Time
    BY LastTime DEF TrailInv
  <2>2. data' \in [Requests -> Data]
    BY <1>3, <2>1 DEF Fetch, Data
  <2> QED BY <1>3, <2>2 DEF Fetch
<1>4. ASSUME NEW r \in Requests, SaveSnapshot(r) PROVE TypeOK'
  <2>1. PICK t \in Targets :
          /\ snapshots' = [snapshots EXCEPT ![t] = @ \cup {data[r].fetchedAt}]
          /\ data' = [data EXCEPT ![r].todo = @ \ {t}]
    BY <1>4 DEF SaveSnapshot
  <2>2. data[r] \in Data
    OBVIOUS
  <2>3. data' \in [Requests -> Data]
    BY <2>1, <2>2 DEF Data
  <2>4. snapshots' \in [Targets -> SUBSET Time]
    BY <2>1, <2>2 DEF Data
  <2> QED BY <1>4, <2>3, <2>4 DEF SaveSnapshot
<1>5. ASSUME NEW r \in Requests, StoreAll(r) PROVE TypeOK'
  <2>1. FetchedRates(r) \subseteq Rate
    BY <1>5, AllSaved DEF StoreAll, FetchedRates, Genuine
  <2>2. cachedAll' \in Entry \cup {None}
    BY <1>0, <1>5, <2>1 DEF StoreAll, Entry
  <2>3. data' \in [Requests -> Data]
    BY <1>5 DEF StoreAll, Data
  <2> QED BY <1>5, <2>2, <2>3 DEF StoreAll
<1>6. ASSUME NEW r \in Requests, StorePair(r) PROVE TypeOK'
  <2>1. PICK t \in Targets :
          /\ cached' = [cached EXCEPT ![t] = [rates |-> {Fetched(r, t)}, until |-> now + TTL]]
          /\ data' = [data EXCEPT ![r].todo = @ \ {t}]
    BY <1>6 DEF StorePair
  <2>2. [rates |-> {Fetched(r, t)}, until |-> now + TTL] \in Entry
    BY <1>0, FetchedIsARate DEF Entry
  <2>3. cached' \in [Targets -> Entry \cup {None}]
    BY <2>1, <2>2
  <2>4. data' \in [Requests -> Data]
    BY <2>1 DEF Data
  <2> QED BY <1>6, <2>3, <2>4 DEF StorePair
<1>7. ASSUME NEW r \in Requests, ReturnFetched(r) PROVE TypeOK'
  <2>1. FetchedRates(r) \subseteq Rate
    BY <1>7, AllSaved DEF ReturnFetched, FetchedRates, Genuine
  <2>2. NoData \in Data
    BY FxRatesAssumption DEF NoData, Data, Time
  <2> QED BY <1>7, <2>1, <2>2 DEF ReturnFetched
<1>8. ASSUME NEW r \in Requests, NotOffered(r) \/ FetchFails(r) PROVE TypeOK'
  <2>1. NoData \in Data
    BY FxRatesAssumption DEF NoData, Data, Time
  <2> QED BY <1>8, <2>1 DEF NotOffered, FetchFails
<1>9. ASSUME NEW r \in Requests, FromDatabase(r) PROVE TypeOK'
  <2>1. Fallback(wanted[r]) \in Rate
    BY <1>9, FallbackIsARate DEF FromDatabase
  <2> QED BY <1>9, <2>1 DEF FromDatabase
<1>10. ASSUME NEW r \in Requests, Unavailable(r) \/ AllFromDatabase(r) \/ Fault(r) PROVE TypeOK'
  BY <1>10 DEF Unavailable, AllFromDatabase, Fault
<1>11. CASE Pass
  BY <1>11, FxRatesAssumption DEF Pass, Kept, Time
<1>12. CASE Publish
  BY <1>12 DEF Publish
<1>13. CASE UNCHANGED vars
  BY <1>13 DEF vars
<1> QED
  BY <1>1, <1>2, <1>3, <1>4, <1>5, <1>6, <1>7, <1>8, <1>9, <1>10, <1>11, <1>12, <1>13
  DEF Next, Lookup, Terminating

LEMMA TrailStep ==
  ASSUME IInv, [Next]_vars
  PROVE  TrailInv'
<1> USE DEF IInv, TypeOK, TrailInv
<1>1. ASSUME NEW r \in Requests, SaveSnapshot(r) PROVE TrailInv'
  BY <1>1 DEF SaveSnapshot, DataInv
<1>2. CASE Pass
  BY <1>2 DEF Pass, Time
<1>3. CASE Publish
  BY <1>3 DEF Publish, Time
<1>4. CASE UNCHANGED <<now, publications, snapshots>>
  BY <1>4
<1> QED
  BY <1>1, <1>2, <1>3, <1>4
  DEF Next, vars, Lookup, Terminating, CacheHit, CacheMiss, Return, Fetch, StoreAll, StorePair,
      ReturnFetched, NotOffered, FetchFails, FromDatabase, Unavailable, AllFromDatabase, Fault

LEMMA DataStep ==
  ASSUME IInv, [Next]_vars
  PROVE  DataInv'
<1> USE DEF IInv, TypeOK, DataInv, Goto, Return
<1>1. ASSUME NEW r \in Requests, CacheHit(r) \/ CacheMiss(r) PROVE DataInv'
  BY <1>1 DEF CacheHit, CacheMiss
<1>2. ASSUME NEW r \in Requests, Fetch(r) PROVE DataInv'
  <2>1. Max(publications) \in publications
    BY LastTime DEF TrailInv
  <2>2. PICK offered \in SUBSET Targets :
          data' = [data EXCEPT ![r] =
            [fetchedAt |-> Max(publications), offered |-> offered, todo |-> offered]]
    BY <1>2 DEF Fetch
  <2>3. /\ data'[r].fetchedAt \in publications
        /\ data'[r].offered = offered /\ data'[r].todo = offered
    BY <2>1, <2>2
  <2>4. \A q \in Requests : q # r => data'[q] = data[q] /\ pc'[q] = pc[q]
    BY <1>2, <2>2 DEF Fetch
  <2> QED BY <1>2, <2>3, <2>4 DEF Fetch
<1>3. ASSUME NEW r \in Requests, SaveSnapshot(r) PROVE DataInv'
  <2>1. PICK t \in Targets :
          /\ t \in data[r].todo
          /\ snapshots' = [snapshots EXCEPT ![t] = @ \cup {data[r].fetchedAt}]
          /\ data' = [data EXCEPT ![r].todo = @ \ {t}]
    BY <1>3 DEF SaveSnapshot, IsNext
  <2>2. data[r] \in Data
    OBVIOUS
  <2>3. /\ data'[r].fetchedAt = data[r].fetchedAt
        /\ data'[r].offered = data[r].offered
        /\ data'[r].todo = data[r].todo \ {t}
    BY <2>1, <2>2 DEF Data
  <2>4. \A q \in Requests : q # r => data'[q] = data[q]
    BY <2>1
  <2>5. /\ data[r].fetchedAt \in snapshots'[t]
        /\ \A u \in Targets : snapshots[u] \subseteq snapshots'[u]
    BY <2>1
  <2>6. \A q \in Requests : data[q].offered \subseteq Targets
    BY DEF Data
  <2> QED BY <1>3, <2>3, <2>4, <2>5, <2>6 DEF SaveSnapshot
<1>4. ASSUME NEW r \in Requests, StoreAll(r) PROVE DataInv'
  <2>1. /\ data'[r].fetchedAt = data[r].fetchedAt
        /\ data'[r].offered = data[r].offered
        /\ data'[r].todo = data[r].offered
    BY <1>4 DEF StoreAll, Data
  <2>2. \A q \in Requests : q # r => data'[q] = data[q]
    BY <1>4 DEF StoreAll
  <2> QED BY <1>4, <2>1, <2>2 DEF StoreAll
<1>5. ASSUME NEW r \in Requests, StorePair(r) PROVE DataInv'
  <2>1. PICK t \in Targets : data' = [data EXCEPT ![r].todo = @ \ {t}]
    BY <1>5 DEF StorePair
  <2>2. /\ data'[r].fetchedAt = data[r].fetchedAt
        /\ data'[r].offered = data[r].offered
        /\ data'[r].todo = data[r].todo \ {t}
    BY <2>1 DEF Data
  <2>3. \A q \in Requests : q # r => data'[q] = data[q]
    BY <2>1
  <2> QED BY <1>5, <2>2, <2>3 DEF StorePair
<1>6. ASSUME NEW r \in Requests, ReturnFetched(r) \/ NotOffered(r) \/ FetchFails(r) PROVE DataInv'
  BY <1>6 DEF ReturnFetched, NotOffered, FetchFails, NoData
<1>7. ASSUME NEW r \in Requests, FromDatabase(r) \/ Unavailable(r) \/ AllFromDatabase(r) \/ Fault(r)
      PROVE  DataInv'
  BY <1>7 DEF FromDatabase, Unavailable, AllFromDatabase, Fault
<1>8. CASE Pass \/ Publish
  BY <1>8 DEF Pass, Publish
<1>9. CASE UNCHANGED vars
  BY <1>9 DEF vars
<1> QED
  BY <1>1, <1>2, <1>3, <1>4, <1>5, <1>6, <1>7, <1>8, <1>9 DEF Next, Lookup, Terminating

\* Only a fetch that has saved everything writes into the cache.
LEMMA CacheStep ==
  ASSUME IInv, [Next]_vars
  PROVE  CacheInv'
<1> USE DEF CacheInv
<1>1. ASSUME NEW r \in Requests, StoreAll(r) PROVE CacheInv'
  <2>1. \A rate \in FetchedRates(r) : Genuine(rate)
    BY <1>1, AllSaved DEF StoreAll, FetchedRates
  <2> QED BY <1>1, <2>1, Grows DEF IInv, StoreAll
<1>2. ASSUME NEW r \in Requests, StorePair(r) PROVE CacheInv'
  <2>1. PICK t \in Targets :
          /\ t \in data[r].todo
          /\ cached' = [cached EXCEPT ![t] = [rates |-> {Fetched(r, t)}, until |-> now + TTL]]
    BY <1>2 DEF StorePair, IsNext
  <2>2. Genuine(Fetched(r, t))
    BY <1>2, <2>1, AllSaved DEF StorePair, IInv, DataInv
  <2> QED BY <1>2, <2>1, <2>2, Grows DEF IInv, TypeOK, StorePair
<1>3. CASE Pass
  BY <1>3, Grows DEF IInv, Pass, Kept
<1>4. CASE UNCHANGED <<cachedAll, cached>>
  BY <1>4, Grows DEF IInv
<1> QED
  BY <1>1, <1>2, <1>3, <1>4
  DEF Next, vars, Lookup, Terminating, CacheHit, CacheMiss, Return, Fetch, SaveSnapshot,
      ReturnFetched, NotOffered, FetchFails, FromDatabase, Unavailable, AllFromDatabase, Fault, Publish

LEMMA AnswerStep ==
  ASSUME IInv, [Next]_vars
  PROVE  AnswerInv'
<1> USE DEF IInv, TypeOK, AnswerInv, Goto, Return
<1>1. \A r \in Requests : \A rate \in answer[r] : rate.target \in Targets
  BY DEF Rate
<1>2. \A r \in Requests : \A rate \in answer[r] :
        rate.fetchedAt \in publications' /\ rate.fetchedAt \in snapshots'[rate.target]
  BY <1>1, Grows
<1>3. ASSUME NEW r \in Requests, CacheHit(r) PROVE AnswerInv'
  BY <1>2, <1>3, Hits, Grows DEF CacheHit, Genuine
<1>4. ASSUME NEW r \in Requests, ReturnFetched(r) PROVE AnswerInv'
  <2>1. \A rate \in FetchedRates(r) : Genuine(rate)
    BY <1>4, AllSaved DEF ReturnFetched, FetchedRates
  <2> QED BY <1>2, <1>4, <2>1, Grows DEF ReturnFetched, Genuine
<1>5. ASSUME NEW r \in Requests, FromDatabase(r) PROVE AnswerInv'
  <2>1. wanted[r] \in Targets /\ Usable(wanted[r])
    BY <1>5 DEF FromDatabase
  <2>2. /\ Fallback(wanted[r]).fetchedAt \in snapshots[wanted[r]]
        /\ Fallback(wanted[r]).target = wanted[r]
    BY <2>1, FallbackIsARate
  <2>3. Fallback(wanted[r]).fetchedAt \in publications
    BY <2>1, <2>2 DEF TrailInv
  <2> QED BY <1>2, <1>5, <2>2, <2>3 DEF FromDatabase
<1>6. ASSUME NEW r \in Requests,
             CacheMiss(r) \/ Fetch(r) \/ SaveSnapshot(r) \/ StoreAll(r) \/ StorePair(r) \/ NotOffered(r)
      PROVE  AnswerInv'
  BY <1>2, <1>6 DEF CacheMiss, Fetch, SaveSnapshot, StoreAll, StorePair, NotOffered
<1>7. ASSUME NEW r \in Requests, FetchFails(r) \/ Unavailable(r) \/ AllFromDatabase(r) \/ Fault(r)
      PROVE  AnswerInv'
  BY <1>2, <1>7 DEF FetchFails, Unavailable, AllFromDatabase, Fault
<1>8. CASE Pass \/ Publish
  BY <1>2, <1>8 DEF Pass, Publish
<1>9. CASE UNCHANGED vars
  BY <1>9 DEF vars
<1> QED
  BY <1>3, <1>4, <1>5, <1>6, <1>7, <1>8, <1>9 DEF Next, Lookup, Terminating

LEMMA Inductive == IInv /\ [Next]_vars => IInv'
  BY TypeStep, TrailStep, DataStep, CacheStep, AnswerStep DEF IInv

LEMMA Invariance == Spec => []IInv
  BY InitInv, Inductive, PTL DEF Spec

-----------------------------------------------------------------------------
\* Every variable of FxRates keeps its type.
THEOREM RatesTyped == Spec => []TypeOK
<1>1. IInv => TypeOK
  BY DEF IInv
<1> QED BY <1>1, Invariance, PTL

LEMMA CachedAreGenuine ==
  ASSUME IInv, NEW rate \in CachedRates
  PROVE  Genuine(rate)
  BY DEF IInv, CacheInv, CachedRates

\* Every rate that a client or the cache got has its row in the audit trail.
THEOREM RatesAreAudited == Spec => []AuditedBeforeUse
<1>1. IInv => AuditedBeforeUse
  BY CachedAreGenuine DEF IInv, AnswerInv, AuditedBeforeUse, Answers, Genuine
<1> QED BY <1>1, Invariance, PTL

\* No tier makes a rate look younger, or older, than it was published.
THEOREM RatesWerePublished == Spec => []AnswersWerePublished
<1>1. IInv => AnswersWerePublished
  BY DEF IInv, AnswerInv, AnswersWerePublished, Answers
<1> QED BY <1>1, Invariance, PTL

\* The cache never holds a fallback, flagged or not.
THEOREM CacheIsUnflagged == Spec => []FlaggedRatesAreNeverCached
<1>1. IInv => FlaggedRatesAreNeverCached
  BY CachedAreGenuine DEF FlaggedRatesAreNeverCached, Genuine
<1> QED BY <1>1, Invariance, PTL

\* The database never answers with an older rate than somebody already got.
THEOREM FallbackNeverStepsBack == Spec => FallbackIsNewest
<1>1. ASSUME IInv, [Next]_vars, NEW r \in Requests, NEW q \in Requests,
             pc[r] = "database", pc'[r] = "answered",
             NEW rate \in answer'[r], NEW earlier \in answer[q], rate.target = earlier.target
      PROVE  rate.fetchedAt >= earlier.fetchedAt
  <2> USE <1>1 DEF IInv, TypeOK
  <2>1. FromDatabase(r)
    BY DEF Active, Goto, Return, Next, vars, Lookup, Terminating, CacheHit, CacheMiss, Fetch, SaveSnapshot,
       StoreAll, StorePair, ReturnFetched, NotOffered, FetchFails, FromDatabase, Unavailable,
       AllFromDatabase, Fault, Pass, Publish
  <2>2. rate = Fallback(wanted[r]) /\ Usable(wanted[r]) /\ wanted[r] \in Targets
    BY <2>1 DEF FromDatabase, Return
  <2>3. rate.target = wanted[r] /\ rate.fetchedAt = FindLatest(wanted[r])
    BY <2>2, FallbackIsARate
  <2>4. earlier.fetchedAt \in snapshots[wanted[r]]
    BY <2>3 DEF AnswerInv
  <2>5. snapshots[wanted[r]] \in SUBSET Time
    BY <2>2
  <2>6. earlier.fetchedAt <= FindLatest(wanted[r]) /\ FindLatest(wanted[r]) \in Time
    BY <2>4, <2>5, LastTime DEF FindLatest
  <2> QED BY <2>3, <2>4, <2>5, <2>6 DEF Time
<1>2. IInv /\ [Next]_vars =>
        [\A r, q \in Requests :
           pc[r] = "database" /\ pc'[r] = "answered" =>
             \A rate \in answer'[r], earlier \in answer[q] :
               rate.target = earlier.target => rate.fetchedAt >= earlier.fetchedAt]_vars
  BY <1>1
<1> QED BY <1>2, Invariance, PTL DEF Spec, FallbackIsNewest

\* What is left to save or to store is part of what the provider offered.
LEMMA Loads ==
  ASSUME TypeOK, NEW r \in Requests
  PROVE  /\ Cardinality(Targets) \in Nat
         /\ IsFiniteSet(data[r].todo)
         /\ Cardinality(data[r].todo) \in Nat
         /\ \A T \in SUBSET Targets : Cardinality(T) \in Nat /\ Cardinality(T) <= Cardinality(Targets)
<1>1. data[r].todo \in SUBSET Targets
  BY DEF TypeOK, Data
<1>2. \A T \in SUBSET Targets :
        IsFiniteSet(T) /\ Cardinality(T) \in Nat /\ Cardinality(T) <= Cardinality(Targets)
  BY FxRatesAssumption, FS_Subset, FS_CardinalityType
<1>3. Targets \in SUBSET Targets
  OBVIOUS
<1> QED BY <1>1, <1>2, <1>3

\* One turn of the loops over the currencies.
LEMMA OneTurn ==
  ASSUME TypeOK, NEW r \in Requests, NEW t \in data[r].todo
  PROVE  Cardinality(data[r].todo \ {t}) = Cardinality(data[r].todo) - 1
  BY Loads, FS_RemoveElement

LEMMA StepsOfALookup ==
  ASSUME TypeOK, NEW r \in Requests, Lookup(r) \/ Fault(r)
  PROVE  Remaining(r)' < Remaining(r)
<1> DEFINE n == Cardinality(Targets)
           todo == data[r].todo
<1>0. /\ pc \in [Requests -> Active \cup Ended] /\ data \in [Requests -> Data]
      /\ n \in Nat /\ Cardinality(todo) \in Nat
  BY Loads DEF TypeOK
<1>1. CASE SaveSnapshot(r) \/ StorePair(r)
  <2>1. PICK t \in todo : data' = [data EXCEPT ![r].todo = @ \ {t}]
    BY <1>1 DEF SaveSnapshot, StorePair, IsNext
  <2>2. data'[r].todo = todo \ {t}
    BY <1>0, <2>1 DEF Data
  <2>3. Cardinality(data'[r].todo) = Cardinality(todo) - 1
    BY <2>2, OneTurn
  <2>4. pc' = pc /\ pc[r] \in {"save", "store"}
    BY <1>1 DEF SaveSnapshot, StorePair
  <2> QED BY <1>0, <2>3, <2>4 DEF Remaining, Ended
<1>2. CASE Fetch(r)
  <2>1. PICK offered \in SUBSET Targets : data'[r].todo = offered
    BY <1>0, <1>2 DEF Fetch
  <2>2. Cardinality(data'[r].todo) \in Nat /\ Cardinality(data'[r].todo) <= n
    BY <2>1, Loads
  <2>3. pc[r] = "fetch" /\ pc'[r] = "save"
    BY <1>0, <1>2 DEF Fetch, Goto
  <2> QED BY <1>0, <2>2, <2>3 DEF Remaining, Ended
<1>3. CASE StoreAll(r)
  <2>1. data'[r].todo \in SUBSET Targets
    BY <1>0, <1>3 DEF StoreAll, Data
  <2>2. Cardinality(data'[r].todo) \in Nat /\ Cardinality(data'[r].todo) <= n
    BY <2>1, Loads
  <2>3. pc[r] = "save" /\ pc'[r] = "store"
    BY <1>0, <1>3 DEF StoreAll, Goto
  <2> QED BY <1>0, <2>2, <2>3 DEF Remaining, Ended
<1>4. CASE CacheMiss(r)
  <2>1. pc[r] = "start" /\ pc'[r] = "fetch"
    BY <1>0, <1>4 DEF CacheMiss, Goto
  <2> QED BY <1>0, <2>1 DEF Remaining, Ended
<1>5. CASE NotOffered(r) \/ FetchFails(r)
  <2>1. pc[r] \in {"fetch", "save", "store"} /\ pc'[r] = "database"
    BY <1>0, <1>5 DEF NotOffered, FetchFails, Goto
  <2> QED BY <1>0, <2>1 DEF Remaining, Ended
<1>6. CASE \/ CacheHit(r) \/ ReturnFetched(r) \/ FromDatabase(r)
           \/ Unavailable(r) \/ AllFromDatabase(r) \/ Fault(r)
  <2>1. pc[r] \in {"start", "store", "database"} /\ pc'[r] \in Ended
    BY <1>0, <1>6
    DEF CacheHit, ReturnFetched, FromDatabase, Unavailable, AllFromDatabase, Fault, Goto, Return, Ended
  <2>2. Remaining(r)' = 0
    BY <2>1 DEF Remaining, Ended
  <2>3. Remaining(r) > 0
    BY <1>0, <2>1 DEF Remaining, Ended
  <2> QED BY <2>2, <2>3
<1> QED BY <1>1, <1>2, <1>3, <1>4, <1>5, <1>6 DEF Lookup

\* What a step leaves of the other lookups.
LEMMA OthersUntouched ==
  ASSUME NEW r \in Requests, Lookup(r) \/ Fault(r), TypeOK, NEW q \in Requests, q # r
  PROVE  UNCHANGED <<pc[q], data[q], answer[q]>>
  BY DEF TypeOK, Goto, Return, Lookup, CacheHit, CacheMiss, Fetch, SaveSnapshot, StoreAll, StorePair,
     ReturnFetched, NotOffered, FetchFails, FromDatabase, Unavailable, AllFromDatabase, Fault

\* A lookup of n currencies ends after at most 2n + 5 steps of its own.
THEOREM LookupsEnd == Spec => LookupsAreBounded
<1>1. ASSUME TypeOK, [Next]_vars, NEW r \in Requests
      PROVE  Remaining(r)' < Remaining(r) \/ UNCHANGED <<pc[r], data[r], answer[r]>>
  <2>1. CASE \E q \in Requests : Lookup(q) \/ Fault(q)
    BY <1>1, <2>1, StepsOfALookup, OthersUntouched
  <2>2. CASE Pass \/ Publish \/ Terminating \/ UNCHANGED vars
    BY <2>2 DEF Pass, Publish, Terminating, vars
  <2> QED BY <1>1, <2>1, <2>2 DEF Next
<1>2. TypeOK /\ [Next]_vars =>
        [\A r \in Requests :
           \/ Remaining(r)' < Remaining(r)
           \/ UNCHANGED <<pc[r], data[r], answer[r]>>]_vars
  BY <1>1
<1>3. IInv => TypeOK
  BY DEF IInv
<1> QED BY <1>2, <1>3, Invariance, PTL DEF Spec, LookupsAreBounded
=============================================================================
