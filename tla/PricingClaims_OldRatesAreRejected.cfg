SPECIFICATION FairPricing
CONSTANTS
  All = All
  None = None
  USD = USD
  EUR = EUR
  Requests = {1, 2, 3, 4}
  Targets = {USD, EUR}
  Orders <- MCOrders
  Workloads <- OneTrade
  Place <- MCPlace
  TTL = 1
  StaleAfter = 1
  MaxAge = 2
  MaxTime = 3
  MaxPublications = 2
PROPERTY OldRatesAreRejected
