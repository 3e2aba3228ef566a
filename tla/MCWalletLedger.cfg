CONSTANTS
  ada = ada
  bob = bob
  USD = USD
  EUR = EUR
  GBP = GBP
  NGN = NGN
  k1 = k1
  None = None
  Requests = {r1, r2, r3}
  Users = {ada, bob}
  Wallets = {ada, bob}
  Currencies = {NGN, USD, EUR, GBP}
  Keys = {k1}
  RateOne = 100
  PoolSize = 3
  MaxBalance = 85
  RatePairs <- MCRatePairs
  Opening <- AdasRows
  Work <- SafetyWork
SYMMETRY Symmetry
SPECIFICATION Spec
INVARIANTS
  TypeOK
  ReadsAreCurrent
  FundsStayReserved
  LedgerReconciles
  SettledCompletely
  OncePerKey
  ConnectionsAccounted
  DeadlocksAreOpposedMoves
  WaitsStayInTheWallet
PROPERTY
  ImplementsAtomicWallet
