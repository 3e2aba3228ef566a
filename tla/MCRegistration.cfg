SPECIFICATION FairSpec
CONSTANTS
  None = None
  e1 = e1
  e2 = e2
  Emails = {e1, e2}
  Requests = {1, 2, 3, 4}
  Workloads <- MCWorkloads
INVARIANT TypeOK
INVARIANT AccountsAreProven
INVARIANT SessionsHaveWallets
INVARIANT OneOwnerPerAddress
PROPERTY AccountsAreNeverReplaced
PROPERTY EveryHandlerEnds
