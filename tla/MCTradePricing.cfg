SPECIFICATION FairPricing
CONSTANTS
  All = All
  None = None
  USD = USD
  EUR = EUR
  Requests = {1, 2, 3, 4}
  Targets = {USD, EUR}
  Orders <- MCOrders
  Workloads <- MCWorkloads
  Place <- MCPlace
  TTL = 1
  StaleAfter = 1
  MaxAge = 2
  MaxTime = 3
  MaxPublications = 2
INVARIANT PricingTypeOK
INVARIANT AuditedBeforeUse
INVARIANT AnswersWerePublished
INVARIANT FlaggedRatesAreNeverCached
INVARIANT OutageTradesAreFresh
INVARIANT OneLookupAtATime
PROPERTY FallbackIsNewest
PROPERTY LookupsAreBounded
PROPERTY EveryOrderEnds
