# A TLA+ model of the credpal wallet API

This directory holds a formal model of the NestJS service in `src/`: a wallet
in four currencies with funding, trading and conversion at FX rates, an
`Idempotency-Key` interceptor, rates from Redis, an external API or the
database, balances and a transaction history to read, and registration by
e-mailed one-time codes. The modules are written
from the source; where the documents say something else, the run that shows it
is listed below as a claim that does not hold.

`tlc -config X.cfg M` checks a run, `tlapm M.tla` the proofs of a module.
`PROJECT.json` says which definition models which lines.

## 1. Inventory

The server is one Node process: handlers interleave at every `await`. They
share PostgreSQL (one TypeORM pool), Redis and two external services.

| Component | State | Operations | Hard part |
|---|---|---|---|
| Wallet funding (`wallet.service.ts`, the wallet repositories) | `wallets`, `wallet_balances`, `ledger_entries`, `transactions`, row locks, pooled connections | `fundWallet`, `createWallet` | a SERIALIZABLE transaction with `SELECT ... FOR UPDATE`, first requests that both create a row |
| Trades, conversions (`trade-currency`, `convert-currency.use-case.ts`) | the same tables | BUY, SELL, convert from, to and through NGN | two row locks in request order, a balance check before the second wait, deadlock, seven writes; rates that age between lookup and settlement |
| Decimals (`decimal.util.ts`, `money.vo.ts`) | none | `add`, `subtract`, `multiply`, comparisons | `toFixed(4)` against `decimal(18,4)` columns |
| Idempotency (`idempotency.interceptor.ts`) | `idempotency_keys` | lookup, replay, refusal, insert, update | lookup and insert are two statements, the update is not awaited, lookup is by key and user but the unique index by key |
| Exception filters (`core/filters`) | none | a domain error, an HTTP error or any other to a status | only some statuses tell the client that nothing happened |
| FX rates (`fx-rate.service.ts`, Redis cache, API adapter, snapshots) | two kinds of Redis key, `fx_rate_snapshots` | `getRate`, `getAllRates` | three tiers that fail half way, concurrent fetches, age |
| Registration (`auth.service.ts`, OTP cache, user repository) | OTP entries in Redis, `users`, `wallets` | `register`, `verifyEmail`, `resendOtp`, `login` | read, check, delete, create in separate steps on two stores |
| Mails (`resend-notification.adapter.ts` and its mailers) | none | `send`, the template, `send` again | the mailer calls its caller; an error of the provider is a value nobody reads |
| Balances and history (`wallet.service.ts`, `transaction.service.ts`) | reads `wallet_balances`, `transactions` | `getBalances`, a count and a page of transactions | the list changes between count, page and next page, and not only at its head |
| Encryption, passwords, JWT, guards, throttling, logging, DTOs, wiring | none | | |

How they interact: a money request passes the interceptor (Idempotency), the
controller, the use case (WalletLedger), which asks FxRates before it opens its
transaction. The key of the request reaches the interceptor's table and, by
itself, the unique `transactions.idempotency_key`. `verifyEmail` calls
`createWallet`, the only place where a wallet is made.

What makes each part correct:

* **Money**: no lost update; money that passed the check is still there at the
  debit; a request settles completely or not at all, even when the process dies
  or the reply to COMMIT is lost; one effect per key; the ledger of a row
  explains its balance; users never wait for each other; every request ends.
* **Idempotency**: one call of the handler per key; a replay is the response of
  the same user's effective request; a completed record is final.
* **Rates**: no rate is used that the audit trail does not show; no rate looks
  younger than it is; a fallback is as new as anything answered before.
* **Orders at rates**: in an outage of the API money moves only at rates that
  were fresh when looked up, in both legs of a bridged conversion.
* **Registration**: an account is made from a registration whose own code
  was mailed and returned; it is never replaced; whoever signs in to an address,
  by code or by password, is one owner; a session has a wallet.
* **History**: a client that pages to the end misses nothing that was there when
  it began, but for what a count that came too early hides; what it reads twice is
  bounded; the balances are explained by it.

## 2. Modules

| Module | Models | Abstraction |
|---|---|---|
| `Money` | `decimal.util.ts`, the column scale | integers in grains of 0.00001, one digit finer than a column |
| `Quote` | what a request debits and credits at which rates | `Quotes(o)` is a set: rates may be any of `RatePairs` |
| `AtomicWallet` | nothing in the code: the promise | one indivisible `Settle` |
| `WalletLedger` | fund, trade and convert on PostgreSQL | one action per statement that can wait, fail or be seen |
| `WalletProperties` | properties and inductive invariants | |
| `TransactionHistory` | `GET /wallet` and `GET /transactions` over `AtomicWallet` | writers settle in one step |
| `SafeRetry` | nothing in the code: what a client that retries may rely on | effects and answers, no records |
| `Idempotency` | the interceptor, and the filters that turn an error into a status | handlers abstracted to commit or no commit |
| `FxRates` | the three tiers | a rate is its currency and time of publication |
| `TradePricing` | how an order awaits its lookups, the staleness check, the settlement later | composes `FxRates`; the settlement is one step |
| `Registration` | register, verify, resend, login, the way of a mail | a code is named by the request that issued it |
| `WalletLedger_proofs`, `Money_proofs`, `Finite_proofs`, `Idempotency_proofs`, `FxRates_proofs`, `TradePricing_proofs`, `Registration_proofs`, `TransactionHistory_proofs` | theorems; `Finite_proofs` has the lemmas on finite sets, sums and places that the others share | |
| `MC*` | instances for TLC | |
| `*Claims` | sentences of the documents that the code does not satisfy | |

`MCWalletLedger` extends `WalletProperties`, which extends `WalletLedger`,
`Quote` and `Money` in that order; `WalletProperties` instantiates
`AtomicWallet` under the mapping `Opening <- OpeningBalance`,
`settled <- transactions`, with `op` and `balance` mapped to themselves.
`TransactionHistory` extends `AtomicWallet` in turn: what it says of settled
requests is said of `WalletLedger` through theorem `Refinement`. `TradePricing`
extends `FxRates` and restricts its lookups to one after the other per order;
theorem `OrdersAreLookups` carries what is proved of `FxRates` over to it.
`Idempotency` instantiates `SafeRetry` with its own `key`, `user` and `settled` and
with `told <- Told`, the answer as the caller sees it.

Definitions marked `Mutant:` stand beside the definition they would replace;
`PROJECT.json` pairs each property with the one it must catch. They are not used
by any specification.

### WalletLedger and the code

`pc` is where a handler awaits:

| `pc` | the code |
|---|---|
| `start` | `Money.create`, `findByUserId`, `getRate`, the amounts (`Price`, `Reject`) |
| `connect` | `queryRunner.connect()`: needs one of `PoolSize` connections |
| `begin` | `startTransaction('SERIALIZABLE')`; it stands before the `try`, so `BeginFails` leaks the connection |
| `lockSource`, `lockTarget` | `findAndLockForUpdate`, source first; the balance check is between them |
| `insertTarget` | `createWithQueryRunner` when the row is not there |
| `write` | `updateBalance`, the INSERTs into `transactions` and `ledger_entries` |
| `commit` | all written, `commitTransaction()` to come |

Every write of a transaction is invisible to others until its COMMIT except for
locks and unique keys, so `Write` only holds the key (`KeyHolders`) and `Commit`
applies `Persist` to the tables. The seven writes are one action because no other
request can tell them apart; a failure between them is `Fault`, which rolls
all of them back. `Commit` may end in `unknown`: committed, but the caller was
answered 500.

PostgreSQL is modelled by the rules the code relies on, marked external in the
map: a snapshot at the start of the transaction; a lock wait; error 40001 when
the wanted row was changed since the snapshot (`missed`); the unique indexes
that wait for an insert in progress; the deadlock detector, which picks any
victim. None of these errors is retried by the code, and none is in the model.

### TransactionHistory and the code

The writers are `AtomicWallet!Settle` preceded by `StartTransaction`: `created_at`
defaults to `now()`, in PostgreSQL the time at which the transaction *started*, so
a row that commits late appears in the middle of a list ordered by `created_at`.
`now` is the database's clock, which passes one `created_at` per transaction.
`Place` is where the order puts a row; `Page(p)` is the set of the rows whose places
`skip` and `take` select, and how they stand on the page is layout. `length` counts
the rows of all pages, so a repeated row is what `length` exceeds the size of `list`
by.
`GetBalances` is one SELECT. `Count` and `FetchPage` are the two statements of
`findAndCount`. The reader is a `Client`: which of the two endpoints it asks
first, a filter by type and an upper date, the page size, and when it stops: at
the `totalPages` of the last answer, or at a page that is not full. A client that
trusts `totalPages` stops too early when a commit falls between the count and
the page: `HistoryIsComplete` promises it that it misses no more rows than
transactions were committed there (`raced`, `Uncounted`), and every other client
that it misses none. The run reaches states in which such a row is missed.

### Idempotency and the code

`intercept` is `Miss`/`Replay`/`Conflict` at the lookup, `Insert`/`Duplicate` at
`save`, `Settle`/`Decline`/`Fail`/`FailAndLeak` for the handler, `Answer` for `tap`. The update to
COMPLETED is in `updating`: sent beside the answer, it may come late or never.
A rejected update is an unhandled rejection and ends the process (`Crash`).
Nothing reads `expiresAt`, `endpoint` or `requestHash`; of these only
`requestHash` is in the model's record, for the claim about it.

A handler that throws is answered by a filter: a `DomainException` or an
`HttpException` with its own status (`Decline`, and all of those are thrown before
anything commits, as `WalletLedger` has it), anything else with 500 (`Fail`, or
`Settle` with the reply to COMMIT lost). `SafeRetry` says what this is worth to a
client: a response tells of an effect under the same key, a 4xx means no effect,
then or later, and only a 500 or silence leaves it open. `Told` is the refinement
mapping's view of `pc`.

The interceptor's `findOne`, `save` and `update` use the pool that the handlers use.
`leaked` are the requests whose `startTransaction` failed outside the `try`
(`FailAndLeak`); when they are as many as there are connections (`PoolLost`), every
statement of the interceptor and of a handler waits for good. What a healthy pool
is used for is left to `WalletLedger`.

### FxRates and the code

`CacheHit`/`CacheMiss` is Redis, `Fetch`, `SaveSnapshot` (one currency each),
`StoreAll`, `StorePair` (one currency each) is `fetchAndCacheFromApi`,
`FromDatabase`/`Unavailable` is `getFromDatabase`. `FetchFails` is the `catch`
around the second tier, at any of its statements, with what was saved staying
saved. The all-rates fallback always ends in an error, because `findLatestAll`
sends `DISTINCT ON (target_currency) ... ORDER BY fetched_at`, which PostgreSQL
refuses (`AllFromDatabase`). `Pass` is the clock and Redis's TTL; `Publish` is the
provider.

`FxRates` has no fairness and no order among its requests. `TradePricing` gives
it both: an order is the sequence of lookups that a use case awaits one after the
other, two for a conversion bridged over NGN. The check of `isStale` is in the same
step as the last answer, because the continuation runs from one to the other
without an `await`. What follows, the pool, the locks and the commit, may take
any time (`Settle`), and the flag is not looked at again. `GET /fx/rates` is an
order of one lookup that is shown and settles nothing. Time passes and rates are
published only while an order is open: what happens before the first one is the
initial state, and after the last one nobody looks.

### Registration and the code

Entries in Redis are kept by token; a resend makes a new token for the same
registration. `Verify` reads and checks, `Consume` deletes, then `FindUser`,
`CreateUser`/`DuplicateUser`, `CreateWallet`. `Resend`, `Remove`, `Store` and the mail
are `resendOtp`. `late` holds the tokens past `expiresAt` that Redis may still have:
`verifyEmail` looks at `expiresAt`, `resendOtp` does not. `Login` compares a password
with that of the user; a password is named by the registration it came with.

A mail goes through `ResendNotificationAdapter.send` twice: with an `emailType` it
hands over to the mailer, which renders the template (`Render`, `RenderFails`) and
calls `send` again with the body and no type (`Deliver`). The provider's client
returns an error as a value, which nobody reads: a lost mail is answered like a
delivered one.

## 3. Runs

| Run | Question | Instance |
|---|---|---|
| `wallet` | Do concurrent requests on a wallet lose, double, or half-do anything, who waits for whom, what deadlocks, and is the whole an implementation of `AtomicWallet`? | 3 requests, any of 9 operations of two users; a wallet with NGN, USD and EUR rows and no GBP row, one without rows; one key |
| `wallet_liveness` | Can somebody always go on, and does every request end? | 3 requests on 2 connections, moves in opposite directions, a shared key; `FairSpec` |
| `history` | What does a client that reads its balances and pages through its transactions get to see while they change? | 4 requests, any of 6 operations, 5 kinds of client, pages of 1 or 2 |
| `idempotency` | Is a handler called twice, is a replay genuine, is everybody answered, what does an answer tell? | 3 requests, 4 contents: one key, two users, two bodies, or no key; 2 connections to leak; `FairSpec` |
| `fx` | Which rates leave the service and the cache, at which does money move, in which order and how often are they looked up? | a bridged conversion, or two orders of one lookup, 2 currencies, clock 0..3, 2 publications; `FairPricing` |
| `registration` | Can steps of several registrations be mixed, who can sign in, and does every handler end? | 4 requests, 8 workloads, 2 addresses; `FairSpec` |

Bounds, and why they are enough to be interesting:

* `Requests`: each property relates at most three requests (a ring of three
  conversions is the longest deadlock in a wallet of three rows). The theorems
  hold for every finite set.
* `Requests` of a run are all the requests of its behaviours, so a retry is one
  of them: two duplicates and the request they race fit in three. Registration
  needs four: a registration, a resend, and two verifications; or two
  registrations, a verification and a login. `MCWorkloads` lists the mixtures in
  which requests race for something; any other is one of these with requests
  that find nothing to do. The theorems hold for every workload.
* `history` needs four: one transaction that is there when the reader begins and
  three that arrive, or start before and commit after, in pages of one. All
  wallets begin empty, so that the history can explain the balances.
  `Observed` stops the writers when the reader has stopped.
* `MaxBalance = 85` grains: 60 + 20 + 10 overflows, so `NumericOverflow` occurs.
  The amounts 25 and 15 lie half way between two ticks, so `Drift` occurs.
* `MCRatePairs`: rates whose product with the amounts above need rounding.
* `PoolSize = 3` in `wallet` (nobody is kept out), 2 in `wallet_liveness` and
  `idempotency`, where three requests can leak the whole pool.
* `TTL = 1`, `StaleAfter = 1`, `MaxAge = 2`, `MaxTime = 3`: a cached rate expires,
  a snapshot becomes stale, then too old. Their order is the code's (the
  cache's TTL and the staleness limit below the one hour of `DB_MAX_AGE_MS`). Age
  exactly at a limit and one beyond it both occur.
* `MaxPublications = 2`: an old rate and a new one; a third would only repeat
  the difference. Two orders at once is where fetches overlap; a bridged
  conversion alone is where time passes between its own two lookups.

Symmetry over `Requests` is used in `wallet` and `history`, which state no
liveness: neither specification names a request. The other runs use none.
`Terminating` is the stutter of a finished system, so deadlock is checked
everywhere: a state that is not an end and has no step is an error.

### Fairness

`FairSpec` is weak fairness of each request's own program steps (of an order's in
`FairPricing`), never of a failure, a crash or a user's decision. Node runs every
continuation whose statement was answered; PostgreSQL answers each statement whose
lock is free and breaks every deadlock; Redis and the API answer or fail. Weak
fairness is enough because no request can be overtaken for ever: the requests of a
run are finitely many and each takes a row lock or connection at most once.
`EveryRequestEnds` excepts the state in which the whole pool was leaked by failed
`START TRANSACTION`s: `PoolLost` is what the code really does then. `Idempotency`
takes over just this: a handler is assumed to end while the pool has a connection
left (`WF_vars(~PoolLost /\ Handle(r))`, as `EveryRequestEnds` says), nothing is
assumed of a handler behind a lost pool, the interceptor's own statements are not
enabled there, and `EveryRequestIsAnswered` excepts `PoolLost` as well as the death of
the process. `FairPricing` and the `FairSpec` of `Registration` have no pool of their
own: their fairness of database statements, of an order's settlement among them,
holds while the pool has a connection left, and says nothing of a server whose
pool has leaked.
`EveryHandlerEnds` starts where a handler has begun: whether a user ever returns a
code is the user's decision. It is not vacuous for mails: `send` calls a mailer
that calls `send`, and ends only because the second call carries no type (the
mutant `RenderAndPassOnType` passes it on). `EveryOrderEnds` holds although every
statement may fail, because each failure leads to the next tier.

### What does not hold

Each of these runs refutes one sentence of the documents.

| Run | The sentence | What the code does |
|---|---|---|
| `claim_NoFreeCredit` | "(Debit from, Credit to)", `docs/SYSTEM_DESIGN.md:280` | an amount below half of 0.0001 debits nothing and credits |
| `claim_ConflictsAreDetected` | a reused key with another payload is detected, `:648` | `requestHash` is never compared |
| `claim_FailureAllowsRetry` | "Delete record (allow retry)", `:623` | the record stays PROCESSING |
| `claim_OldRatesAreRejected` | older than 15 minutes is flagged and rejected for trades, `README.md:203` | API and cached rates carry `isStale: false`, whatever their age: the trade goes ahead |
| `claim_PreviousCodesAreInvalid` | "Previous OTPs invalidated on resend", `:700` | two resends of one token that overlap each store a code, and both are accepted |
| `claim_EveryUserGetsAWallet` | "Each user has exactly one wallet", `:773` | a failure after the user's INSERT leaves none |

Further differences, read from the code and in the model's behaviour, but with
no run of their own:

* `fundWallet` writes one CREDIT; `README.md:191` speaks of paired entries.
* A debit half way between two ticks leaves the balance one tick above what the
  ledger entry says (`Drift` in `LedgerReconciles`; lemma `SubtractDrift`).
* A request that waited for a row gets 40001, not the new balance
  (`SYSTEM_DESIGN.md:576`): `SerializationFailure`.
* A new wallet has no balance rows; after the first one exists GET /wallet shows
  only those (`README.md:163`).
* Records of keys never expire (`SYSTEM_DESIGN.md:644`); a duplicate that
  overtakes the update to COMPLETED is refused although the first was answered.
* The fallback of GET /fx/rates always fails (`SYSTEM_DESIGN.md:770`).
* A client that stops at `totalPages` can miss the last page when a transaction
  commits between the count and the page that it comes with (`Uncounted`).
* Of two fetches of rates that overlap, the slower one overwrites the cache, with
  older rates if it asked first: until the TTL ends trades get older rates than
  some that were answered before. Only the database fallback never steps back
  (`FallbackIsNewest`).

## 4. Theorems

For every value of the constants that satisfies the modules' assumptions
(finite `Requests` and `Targets`, a pool of at least one connection, opening
balances that are natural multiples of a tick,
`RateOne` positive, `None` outside the other sets, no rate NGN to NGN, orders that
share no lookup and name none twice, workloads of well-formed jobs, wallets that begin empty for the
history):

| Theorem | Property | Rests on |
|---|---|---|
| `TypeCorrect`, `NoLostUpdate`, `NoDoubleSpending` | `TypeOK`, `ReadsAreCurrent`, `FundsStayReserved` | `MoneyInv` |
| `KeyTakesEffectOnce` | `OncePerKey` | `KeyInv` |
| `Isolation`, `DeadlockShape` | `WaitsStayInTheWallet`, `DeadlocksAreOpposedMoves` | `LockInv` |
| `LedgerIsUnbroken` | `LedgerReconciles` | `LedgerInv` |
| `SettledWhole` | `SettledCompletely` | `LedgerInv` |
| `ConnectionsReturn` | `ConnectionsAccounted` | `TypeOK` |
| `Unstuck` | `NobodyIsStuck` | `MoneyInv`, `LockInv`, `ConnectionsAccounted` |
| `RequestsGoForward` | `GoesForward` at every step: some request comes nearer to its end, none is taken away from it | `TypeOK` |
| `Refinement` | `ImplementsAtomicWallet` | `MoneyInv`, `KeyInv` |
| `HandledOnce`, `GenuineReplays`, `FinalResponses`, `RecordsTyped` | `HandledOncePerKey`, `ReplaysAreGenuine`, `CompletedIsFinal`, `TypeOK` | `IInv` of `Idempotency_proofs` |
| `RetriesAreSafe` | `ImplementsSafeRetry` | the same |
| `RatesAreAudited`, `RatesWerePublished`, `CacheIsUnflagged`, `FallbackNeverStepsBack`, `RatesTyped` | `AuditedBeforeUse`, `AnswersWerePublished`, `FlaggedRatesAreNeverCached`, `FallbackIsNewest`, `FxRates!TypeOK` | `IInv` of `FxRates_proofs` |
| `LookupsEnd` | `LookupsAreBounded` | `IInv` of `FxRates_proofs` |
| `LegsInTurn` | `OneLookupAtATime` | `IInv` of `FxRates_proofs`, `StageOK` |
| `OrdersAreLookups` | `PricingSpec => Spec` of `FxRates` | the steps alone |
| `OutageTradesWereFresh`, `OrdersTyped` | `OutageTradesAreFresh`, `PricingTypeOK` | `IInv` of `FxRates_proofs`, `QuoteInv` |
| `ProvenAccounts`, `AccountsStay`, `WalletsOfSessions`, `OneOwner`, `AccountsTyped` | `AccountsAreProven`, `AccountsAreNeverReplaced`, `SessionsHaveWallets`, `OneOwnerPerAddress`, `TypeOK` | `IInv` of `Registration_proofs` |
| `NoGaps`, `FewRepeats`, `OneStory`, `HistoryTyped` | `HistoryIsComplete`, `RepeatsAreBounded`, `HistoryExplainsBalances`, `TransactionHistory!TypeOK` | `HInv` of `TransactionHistory_proofs` |
| `ReadersChangeNothing` | `HSpec => Spec` of `AtomicWallet` | the steps alone |
| `SubtractDrift` (lemma) | how far a debit can drift | arithmetic |

None of the properties is inductive by itself.

* `MoneyInv` (in `WalletProperties`) explains `ReadsAreCurrent`. A row's balance is
  only written by a request that holds its lock (`LocksHeld`), and a lock
  is only granted where the snapshot is the balance: what a snapshot shows is
  current until another transaction commits the row (`SnapshotsAge`). The check
  of the balance is remembered as `Affordable`. `Priced` says that a request past
  its quote has two different rows; without it a conversion of a currency into
  itself would write one row twice.
* `KeyInv` adds that the keys of open transactions past their INSERT and those of
  committed ones are pairwise different, which is what the unique index means.
* `LockInv` adds the converse of `LocksHeld`: a lock belongs to a request at a
  stage at which it holds it. A wait for a row then names the row's user, and in a
  ring every member holds its source and waits for its target.
* `LedgerInv` adds that balances are whole ticks, so that a credit is exact and a
  debit off by at most `Drift`, and that each entry's request has committed, so
  that no later one can change the quote the entry is judged by.
* `SettledCompletely` and `ConnectionsAccounted` are inductive relative to these.
  A request that commits has no entry yet, because entries belong to committed
  requests (`EntriesSettled`), so each append is its first on that row
  (`OneMoreEntry`); the two rows of a move differ (`Priced`), so no row gets both.
* `NobodyIsStuck` says in `Able` what lets each statement be answered. A row
  lock or a key is held only by a request that is in its transaction (`HoldersGoOn`,
  which is what `Leave` in every `catch` and `finally` has to achieve), so a request that
  cannot go on waits for another one in its transaction (`WaitsForSomebody`).
  If nobody in a transaction could go on, everybody would wait for somebody; the
  smallest set in which that is so is a ring (`RingOfWaits`), and the detector
  breaks a ring. If nobody is in a transaction, the pool has room or has leaked
  (`PoolOrProgress`).
* `RequestsGoForward` counts the stages that a request has before it (`Rank`); a
  deadlock's victim and a refused request end, and none of them begins again.
* `IInv` of `Idempotency_proofs` ties each record to the request that inserted it:
  a key is handled once because its record is never removed.
* `Refinement`: a `Commit` is a `Settle` whose quote is the one priced at the start and
  whose balances are the current ones by `ReadsAreCurrent`; every other step
  stutters.
* `RetriesAreSafe` is the same kind of argument: what `Told` maps to a decline is
  reached only from stages at which the request has not settled.
* `IInv` of `FxRates_proofs` follows a rate on its way: what a fetch still holds was
  published, and its currencies are saved but for those in `todo`; so what it
  then caches or answers has its snapshot (`Genuine`), and the tables only grow
  (`Grows`). `Remaining` counts the statements that a lookup has before it, with the
  finitely many currencies of `todo` (`Loads`, `OneTurn`): a tier that fails leads
  on, never back. The largest element of a set of times, which `findLatest` returns,
  exists because times are bounded (`LastTime`, from the well-foundedness of <
  on the naturals).
* `QuoteInv`: an unflagged fallback was fresh when it was answered, and an order past
  its check has no flagged rate in any leg. The orders' legs are disjoint, so no
  other order answers a lookup of this one afterwards. The same disjointness keeps
  `OneLookupAtATime`: the lookup that an order awaits is the one whose turn it is
  (`AwaitedTurn`), and only that one moves (`LookupMoves`, `OtherOrders`).
* `IInv` of `Registration_proofs`: an entry in Redis is the one its token's request
  still holds (`StageInv`); a verification past its check has proof of its code
  (`ProofInv`); the user it found or made is its own until it ends (`OwnerInv`).
  Users are only ever added (`NeverReplaced`), which keeps all of these.

* `HInv` of `TransactionHistory_proofs` has one part for each promise to the reader.
  `PagingInv`: a row that was there at the first count and has not been shown yet
  stands behind the pages read so far (`NothingSkipped`). A commit only moves rows
  back (`PlaceGrows`); a page read shows every row whose place it covers, because
  `Place` is a bijection between a list and 1..n (`PlaceInjective`,
  `PlaceSurjective`), so a page that is not full is the last one (`PagesAreFull`,
  `LastPage`). Behind the last page of a count there are no more rows than the list
  has grown by since (`LastPageShows`, `FewBehind`). `RepeatsInv` counts what is
  still to be repeated: rows already shown
  that commits have pushed behind the pages read (`Behind`); each commit pushes at
  most one over the edge. `LedgerInv`: the reader's balances are the sum of its
  rows, but for the tick per debit of `Drift`, and remain whole ticks
  (`RowEffect` says what one row does). `StoryInv` keeps the set of transactions
  that explains the balances shown. `RowsInv` ties rows to settlements, and says
  that no two transactions have the same `created_at`.
* Sums over a set of rows (`Finite_proofs`) need the value of the library's recursive function
  `SumFunctionOnSet`. That such a function exists is proved without an induction
  theorem: a set on which it had no value could be chosen smallest
  (`SmallestSet`, from the well-foundedness of < on the naturals), and removing one
  element gives a smaller one (`SumDefined`, `SumUnique`, `SumRemove`).

### Only model-checked

The four liveness properties, `EveryRequestEnds`, `EveryRequestIsAnswered`,
`EveryOrderEnds` and `EveryHandlerEnds`: fairness and ENABLED are beyond the prover.
For the wallet what fairness is applied to is proved: somebody can always go on
(`Unstuck`, with the guards of `Progress` written out in `Able`), and nobody ever
goes back (`RequestsGoForward`). For the rates the bound of a lookup
is (`LookupsEnd`), and that an order has one running at a time (`LegsInTurn`).
Every invariant and action property that a passing run checks is a theorem.

### Not modelled

* `Decimal.divide` (only a displayed `exchangeRate`), the 20 significant
  digits of decimal.js (amounts of `decimal(18,4)` stay below), negative amounts
  (`Money.create` refuses them).
* A serialization failure found at COMMIT by predicate reads: it is one of the
  outcomes of `Fault`. The order in which PostgreSQL grants a lock to waiters is
  any order.
* The snapshot is taken at `Begin`; PostgreSQL takes it at the first statement,
  and no other statement of the request lies between.
* Two transactions that start in the same microsecond: `created_at` would not order
  their rows, and the query names no second column to order by.
* The filters of the history by `dateFrom` (the mirror of `dateTo`) and by status:
  every row that is ever written is COMPLETED.
* `isEmailVerified`: users are stored with it true and nothing resets it, so
  `EmailNotVerifiedError` cannot be thrown.
* `EmailNotificationAdapter`, which no module provides, and the SMS adapter, which
  only logs.
* Cryptography, the text of mails, guards, throttling and logging; DTO validation;
  module wiring and configuration.

## 5. Plan

Done in this order, the most important first: `Money`, `Quote`, `AtomicWallet`,
`WalletLedger` with its proofs; `Idempotency` with its proofs; `FxRates`;
`Registration`; then `TransactionHistory` over `AtomicWallet`; `SafeRetry` and
`Idempotency`'s refinement of it; `TradePricing` over `FxRates`; login and mails in
`Registration`; the proofs of `FxRates`, `TradePricing`, `Registration`, `SettledCompletely`
and `ConnectionsAccounted`; the proofs of `TransactionHistory`; that requests and
lookups go forward and nobody is stuck; the leaked pool in `Idempotency`; what a
count that came too early costs a reader.

Left, all of it proof:

1. That `Idempotency` over `AtomicWallet` settles a key once across both tables that
   hold it: `OncePerKey` and `HandledOncePerKey` each prove one half.
