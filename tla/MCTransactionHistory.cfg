CONSTANTS
  ada = ada
  bob = bob
  USD = USD
  NGN = NGN
  k1 = k1
  None = None
  Requests = {r1, r2, r3, r4}
  Users = {ada, bob}
  Wallets = {ada, bob}
  Currencies = {NGN, USD}
  Keys = {k1}
  RateOne = 100
  RatePairs <- MCRatePairs
  Opening <- MCOpening
  Work <- MCWork
  Reader = ada
  Clients <- MCClients
SYMMETRY Symmetry
SPECIFICATION HSpec
INVARIANTS
  TypeOK
  HistoryIsComplete
  RepeatsAreBounded
  HistoryExplainsBalances
