------------------------------- MODULE FxRates -------------------------------
(***************************************************************************)
(* FxRateService.getRate and getAllRates: Redis, else the rates API, else  *)
(* the last snapshot in the database.  A fetch saves one snapshot per      *)
(* currency, then the all-rates key, then the key of each pair, and any of *)
(* these statements may fail.  Nothing keeps two requests from fetching at *)
(* the same time, and the caches are written last come, last served.       *)
(*                                                                         *)
(* A rate is identified by its currency and by the time the provider       *)
(* published it (fetchedAt); its value is left out.  One base currency is  *)
(* modelled: requests for different bases share no key and no row.         *)
(***************************************************************************)
EXTENDS Naturals, FiniteSets, FiniteSetsExt

CONSTANTS
  Requests,
  Targets,     \* SUPPORTED_TARGETS
  Place,       \* [Targets -> Nat], their order in that list
  All,         \* what a request without targetCurrency wants
  None,
  TTL,         \* CACHE_TTL_SECONDS
  StaleAfter,  \* STALE_THRESHOLD_MS
  MaxAge,      \* DB_MAX_AGE_MS
  MaxTime,         \* bound on the clock
  MaxPublications  \* bound on what the provider publishes

ASSUME FxRatesAssumption ==
  /\ IsFiniteSet(Targets)
  /\ All \notin Targets
  /\ Place \in [Targets -> Nat]
  /\ {TTL, StaleAfter, MaxAge, MaxTime, MaxPublications} \subseteq Nat \ {0}

VARIABLES
  wanted,        \* [Requests -> Targets \cup {All}]
  pc,
  now,
  publications,  \* the times at which the provider published its rates
  cachedAll,     \* fx:rates:<base>
  cached,        \* fx:rate:<base>:<target>
  snapshots,     \* fx_rate_snapshots: the fetchedAt of the rows of each target
  data,          \* what each request's fetch returned, and what is left to do
  answer         \* the rates each request returned

vars == <<wanted, pc, now, publications, cachedAll, cached, snapshots, data, answer>>

Time == 0..MaxTime

\* FxRatePair
Rate == [target: Targets, fetchedAt: Time, source: {"API", "FALLBACK"}, isStale: BOOLEAN]

Data   == [fetchedAt: Time, offered: SUBSET Targets, todo: SUBSET Targets]
NoData == [fetchedAt |-> 0, offered |-> {}, todo |-> {}]

Active == {"start", "fetch", "save", "store", "database"}
Ended  == {"answered", "unavailable", "error", "fault"}

Init ==
  /\ wanted \in [Requests -> Targets \cup {All}]
  /\ pc = [r \in Requests |-> "start"]
  /\ now = 0
  /\ publications = {0}
  /\ cachedAll = None
  /\ cached = [t \in Targets |-> None]
  /\ snapshots = [t \in Targets |-> {}]
  /\ data = [r \in Requests |-> NoData]
  /\ answer = [r \in Requests |-> {}]

\* What the loops over the list have to do next.
IsNext(t, r) == t \in data[r].todo /\ \A u \in data[r].todo : Place[t] <= Place[u]

Goto(r, at) == pc' = [pc EXCEPT ![r] = at]

Return(r, rates) ==
  /\ answer' = [answer EXCEPT ![r] = rates]
  /\ Goto(r, "answered")

-----------------------------------------------------------------------------
(* Tier 1: Redis *)

\* The rates in the cache that answer r: none on a miss.
CachedFor(r) ==
  LET entry == IF wanted[r] = All THEN cachedAll ELSE cached[wanted[r]]
  IN  IF entry = None THEN {} ELSE entry.rates

CacheHit(r) ==
  /\ pc[r] = "start"
  /\ CachedFor(r) # {}
  /\ Return(r, CachedFor(r))
  /\ UNCHANGED <<wanted, now, publications, cachedAll, cached, snapshots, data>>

CacheMiss(r) ==
  /\ pc[r] = "start"
  /\ CachedFor(r) = {}
  /\ Goto(r, "fetch")
  /\ UNCHANGED <<wanted, now, publications, cachedAll, cached, snapshots, data, answer>>

-----------------------------------------------------------------------------
(* Tier 2: fetchAndCacheFromApi *)

\* Mutant: fetchedAt is the time of the request.
FetchNow(r) ==
  /\ pc[r] = "fetch"
  /\ \E offered \in SUBSET Targets :
       data' = [data EXCEPT ![r] = [fetchedAt |-> now, offered |-> offered, todo |-> offered]]
  /\ Goto(r, "save")
  /\ UNCHANGED <<wanted, now, publications, cachedAll, cached, snapshots, answer>>

\* Mutant: the time of the next update, time_next_update_utc, is taken.
FetchNextUpdate(r) ==
  /\ pc[r] = "fetch"
  /\ \E offered \in SUBSET Targets :
       data' = [data EXCEPT ![r] =
         [fetchedAt |-> Max(publications) + StaleAfter, offered |-> offered, todo |-> offered]]
  /\ Goto(r, "save")
  /\ UNCHANGED <<wanted, now, publications, cachedAll, cached, snapshots, answer>>

\* time_last_update_utc is the time of the publication; conversion_rates may
\* lack a currency.
Fetch(r) ==
  /\ pc[r] = "fetch"
  /\ \E offered \in SUBSET Targets :
       data' = [data EXCEPT ![r] =
         [fetchedAt |-> Max(publications), offered |-> offered, todo |-> offered]]
  /\ Goto(r, "save")
  /\ UNCHANGED <<wanted, now, publications, cachedAll, cached, snapshots, answer>>

\* One row of the loop over SUPPORTED_TARGETS.
SaveSnapshot(r) ==
  /\ pc[r] = "save"
  /\ \E t \in Targets :
       /\ IsNext(t, r)
       /\ snapshots' = [snapshots EXCEPT ![t] = @ \cup {data[r].fetchedAt}]
       /\ data' = [data EXCEPT ![r].todo = @ \ {t}]
  /\ UNCHANGED <<wanted, pc, now, publications, cachedAll, cached, answer>>

Fetched(r, t) ==
  [target |-> t, fetchedAt |-> data[r].fetchedAt, source |-> "API", isStale |-> FALSE]

FetchedRates(r) == {Fetched(r, t) : t \in data[r].offered}

\* Mutant: the cache is filled before the snapshots are saved.
StoreAllEarly(r) ==
  /\ pc[r] = "save"
  /\ cachedAll' = IF data[r].offered = {} THEN cachedAll
                  ELSE [rates |-> FetchedRates(r), until |-> now + TTL]
  /\ data' = [data EXCEPT ![r].todo = data[r].offered]
  /\ Goto(r, "store")
  /\ UNCHANGED <<wanted, now, publications, cached, snapshots, answer>>

\* setAll writes the key of all rates first; with no rate it returns.
StoreAll(r) ==
  /\ pc[r] = "save"
  /\ data[r].todo = {}
  /\ cachedAll' = IF data[r].offered = {} THEN cachedAll
                  ELSE [rates |-> FetchedRates(r), until |-> now + TTL]
  /\ data' = [data EXCEPT ![r].todo = data[r].offered]
  /\ Goto(r, "store")
  /\ UNCHANGED <<wanted, now, publications, cached, snapshots, answer>>

StorePair(r) ==
  /\ pc[r] = "store"
  /\ \E t \in Targets :
       /\ IsNext(t, r)
       /\ cached' = [cached EXCEPT ![t] = [rates |-> {Fetched(r, t)}, until |-> now + TTL]]
       /\ data' = [data EXCEPT ![r].todo = @ \ {t}]
  /\ UNCHANGED <<wanted, pc, now, publications, cachedAll, snapshots, answer>>

ReturnFetched(r) ==
  /\ pc[r] = "store"
  /\ data[r].todo = {}
  /\ wanted[r] \in data[r].offered \cup {All}
  /\ Return(r, {rate \in FetchedRates(r) : wanted[r] \in {rate.target, All}})
  /\ data' = [data EXCEPT ![r] = NoData]
  /\ UNCHANGED <<wanted, now, publications, cachedAll, cached, snapshots>>

\* The API does not offer the wanted currency.
NotOffered(r) ==
  /\ pc[r] = "store"
  /\ data[r].todo = {}
  /\ wanted[r] \notin data[r].offered \cup {All}
  /\ Goto(r, "database")
  /\ data' = [data EXCEPT ![r] = NoData]
  /\ UNCHANGED <<wanted, now, publications, cachedAll, cached, snapshots, answer>>

\* Anything in the try block throws: the request, a save or a Redis statement.
FetchFails(r) ==
  /\ pc[r] \in {"fetch", "save", "store"}
  /\ Goto(r, "database")
  /\ data' = [data EXCEPT ![r] = NoData]
  /\ UNCHANGED <<wanted, now, publications, cachedAll, cached, snapshots, answer>>

-----------------------------------------------------------------------------
(* Tier 3: the database *)

Age(time) == now - time

\* Mutant: findLatest without DESC.
FindOldest(t) == Min(snapshots[t])

FindLatest(t) == Max(snapshots[t])

Usable(t) == snapshots[t] # {} /\ Age(FindLatest(t)) <= MaxAge

Fallback(t) ==
  [target |-> t, fetchedAt |-> FindLatest(t), source |-> "FALLBACK",
   isStale |-> Age(FindLatest(t)) > StaleAfter]

\* Mutant: without a usable snapshot the tiers are tried again.
UnavailableRetries(r) ==
  /\ pc[r] = "database"
  /\ wanted[r] # All
  /\ ~Usable(wanted[r])
  /\ Goto(r, "fetch")
  /\ UNCHANGED <<wanted, now, publications, cachedAll, cached, snapshots, data, answer>>

\* Mutant: the fallback is put into the cache.
FromDatabaseToCache(r) ==
  /\ pc[r] = "database"
  /\ wanted[r] # All
  /\ Usable(wanted[r])
  /\ Return(r, {Fallback(wanted[r])})
  /\ cached' = [cached EXCEPT ![wanted[r]] =
       [rates |-> {Fallback(wanted[r])}, until |-> now + TTL]]
  /\ UNCHANGED <<wanted, now, publications, cachedAll, snapshots, data>>

\* getFromDatabase
FromDatabase(r) ==
  /\ pc[r] = "database"
  /\ wanted[r] # All
  /\ Usable(wanted[r])
  /\ Return(r, {Fallback(wanted[r])})
  /\ UNCHANGED <<wanted, now, publications, cachedAll, cached, snapshots, data>>

\* FxRateUnavailableError
Unavailable(r) ==
  /\ pc[r] = "database"
  /\ wanted[r] # All
  /\ ~Usable(wanted[r])
  /\ Goto(r, "unavailable")
  /\ UNCHANGED <<wanted, now, publications, cachedAll, cached, snapshots, data, answer>>

\* findLatestAll orders by fetched_at alone, and PostgreSQL refuses a DISTINCT
\* ON whose expressions do not come first in ORDER BY.
AllFromDatabase(r) ==
  /\ pc[r] = "database"
  /\ wanted[r] = All
  /\ Goto(r, "error")
  /\ UNCHANGED <<wanted, now, publications, cachedAll, cached, snapshots, data, answer>>

\* The Redis read of tier 1 and the query of tier 3 stand outside the try.
Fault(r) ==
  /\ pc[r] \in {"start", "database"}
  /\ Goto(r, "fault")
  /\ UNCHANGED <<wanted, now, publications, cachedAll, cached, snapshots, data, answer>>

-----------------------------------------------------------------------------
Lookup(r) ==
  \/ CacheHit(r) \/ CacheMiss(r)
  \/ Fetch(r) \/ SaveSnapshot(r) \/ StoreAll(r) \/ StorePair(r)
  \/ ReturnFetched(r) \/ NotOffered(r) \/ FetchFails(r)
  \/ FromDatabase(r) \/ Unavailable(r) \/ AllFromDatabase(r)

\* What Redis still has of a key at the given time.
Kept(entry, time) == IF entry # None /\ time < entry.until THEN entry ELSE None

\* A unit of time passes, and Redis drops the keys whose TTL is over.
Pass ==
  /\ now < MaxTime
  /\ now' = now + 1
  /\ cachedAll' = Kept(cachedAll, now + 1)
  /\ cached' = [t \in Targets |-> Kept(cached[t], now + 1)]
  /\ UNCHANGED <<wanted, pc, publications, snapshots, data, answer>>

Publish ==
  /\ now \notin publications
  /\ Cardinality(publications) < MaxPublications
  /\ publications' = publications \cup {now}
  /\ UNCHANGED <<wanted, pc, now, cachedAll, cached, snapshots, data, answer>>

Terminating ==
  /\ \A r \in Requests : pc[r] \in Ended
  /\ UNCHANGED vars

Next ==
  \/ \E r \in Requests : Lookup(r) \/ Fault(r)
  \/ Pass
  \/ Publish
  \/ Terminating

Spec == Init /\ [][Next]_vars

-----------------------------------------------------------------------------
Entry == [rates: SUBSET Rate, until: Nat]

TypeOK ==
  /\ wanted \in [Requests -> Targets \cup {All}]
  /\ pc \in [Requests -> Active \cup Ended]
  /\ now \in Time
  /\ publications \in SUBSET Time
  /\ cachedAll \in Entry \cup {None}
  /\ cached \in [Targets -> Entry \cup {None}]
  /\ snapshots \in [Targets -> SUBSET Time]
  /\ data \in [Requests -> Data]
  /\ answer \in [Requests -> SUBSET Rate]

CachedRates ==
  UNION {entry.rates : entry \in ({cachedAll} \cup {cached[t] : t \in Targets}) \ {None}}

Answers == UNION {answer[r] : r \in Requests}

\* Every rate that a client or the cache ever got has its row in
\* fx_rate_snapshots, whichever tier it came from and whatever failed: no
\* trade is made at a rate that the audit trail does not show.
AuditedBeforeUse ==
  \A rate \in CachedRates \cup Answers : rate.fetchedAt \in snapshots[rate.target]

\* No tier makes a rate look younger than the provider published it.
AnswersWerePublished ==
  \A rate \in Answers : rate.fetchedAt \in publications

\* A fallback never outlives the outage: the cache holds no flagged rate, which
\* would block trades until its TTL after the API came back.
FlaggedRatesAreNeverCached ==
  \A rate \in CachedRates : rate.source = "API" /\ ~rate.isStale

\* Falling back never goes back in time: the database answers with a rate as
\* new as any that any request was given before.
FallbackIsNewest ==
  [][\A r, q \in Requests :
       pc[r] = "database" /\ pc'[r] = "answered" =>
         \A rate \in answer'[r], earlier \in answer[q] :
           rate.target = earlier.target => rate.fetchedAt >= earlier.fetchedAt]_vars

\* How many steps r is from its end, at most: it saves and stores each currency.
Remaining(r) ==
  CASE pc[r] = "start"    -> 2 * Cardinality(Targets) + 5
    [] pc[r] = "fetch"    -> 2 * Cardinality(Targets) + 4
    [] pc[r] = "save"     -> Cardinality(Targets) + Cardinality(data[r].todo) + 3
    [] pc[r] = "store"    -> Cardinality(data[r].todo) + 2
    [] pc[r] = "database" -> 1
    [] pc[r] \in Ended    -> 0

\* A lookup is bounded work, whatever fails on its way: no tier is tried twice, each
\* of its steps brings it closer to its end, and nothing that other lookups, the
\* clock or the provider do takes it further away.
LookupsAreBounded ==
  [][\A r \in Requests :
       \/ Remaining(r)' < Remaining(r)
       \/ UNCHANGED <<pc[r], data[r], answer[r]>>]_vars
=============================================================================
