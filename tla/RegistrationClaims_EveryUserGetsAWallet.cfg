SPECIFICATION FairSpec
CONSTANTS
  None = None
  e1 = e1
  e2 = e2
  Emails = {e1, e2}
  Requests = {1, 2, 3}
  Workloads <- MCClaimWorkloads
PROPERTY EveryUserGetsAWallet
