\* Two renewals of one process, a tenant at 5 % or without a rate, and the
\* invoices of other callers, of up to two items, beside them.
SPECIFICATION FairSpec
CONSTANTS
  Quantities = {1}
  UnitAmounts = {10}
  Rates = {1000, 3600}
  MaxItems = 2
  Calls = {c1, c2}
  RawConfigs <- MCRawConfigs
  PlanAmount = 499
  TTL = 2
  Timeout = 1
INVARIANTS TaxIsNearest SplitIsFair DriftIsBounded
PROPERTIES ReturnsRecent RateConverges
