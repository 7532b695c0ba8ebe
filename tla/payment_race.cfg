\* One request opens an attempt at Stripe, at Razorpay and for cash; two
\* verifications, failure events and one expiry job race over them.
SPECIFICATION Spec
CONSTANTS
  SharedKey = SharedKey
  None = None
  Requests = {r1}
  Verifiers = {v1, v2}
  Providers = {stripe, razorpay, cash}
  Keyed = {stripe, cash}
  Cash = {cash}
  UniqueIndex = TRUE
  MaxExpiryJobs = 1
SYMMETRY VerifierSymmetry
INVARIANTS OneSuccess SuccessIsPosted CancelledBySibling
PROPERTIES Settles
\* Requests and jobs are finite: the run may stop once all have ended.
CHECK_DEADLOCK FALSE
