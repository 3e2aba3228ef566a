SPECIFICATION FairSpec
CONSTANTS
  None = None
  k1 = k1
  ada = ada
  bob = bob
  fund = fund
  trade = trade
  Requests = {r1, r2}
  Keys = {k1}
  PoolSize = 2
  Users = {ada, bob}
  Bodies = {fund, trade}
  Work <- MCWork
PROPERTY FailureAllowsRetry
