\* Two requests of one payment, repeated; a verification under fairness, against
\* failure events and an expiry job.
SPECIFICATION FairSpec
CONSTANTS
  SharedKey = SharedKey
  None = None
  Requests = {r1, r2}
  Verifiers = {v1}
  Providers = {stripe}
  Keyed = {stripe}
  Cash = {}
  UniqueIndex = TRUE
  MaxExpiryJobs = 1
INVARIANTS ResultIsBacked
PROPERTIES PaidIsSettled
\* Requests and jobs are finite: the run may stop once all have ended.
CHECK_DEADLOCK FALSE
