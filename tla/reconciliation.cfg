\* Three replicas, whose lock may expire in the middle of a run; providers and webhooks that
\* may fail, runs that crash or are abandoned.
SPECIFICATION FairSpec
CONSTANTS
  Runs = {r1, r2, r3}
  Transactions = {t1, t2}
  Batch = 2
  MaxOutlived = 1
  Webhooks = TRUE
  PaysLate = TRUE
  ProviderFails = TRUE
  None = None
  MaxCrashes = 2
INVARIANTS RunsAreBounded 
PROPERTIES NoneStaysPending
