CONSTANTS
  ada = ada
  bob = bob
  USD = USD
  EUR = EUR
  GBP = GBP
  NGN = NGN
  k1 = k1
  None = None
  Requests = {r1, r2, r3}
  Users = {ada, bob}
  Wallets = {ada}
  Currencies = {NGN, USD, EUR, GBP}
  Keys = {k1}
  RateOne = 100
  PoolSize = 2
  MaxBalance = 85
  RatePairs <- MCRatePairs
  Opening <- AdasRows
  Work <- LivenessWork
SPECIFICATION FairSpec
INVARIANT
  NobodyIsStuck
PROPERTY
  EveryRequestEnds
