\* Three calls of createRefund with two keys, at Stripe or Razorpay, that may overlap.
SPECIFICATION Spec
CONSTANTS
  Calls = {c1, c2, c3}
  Keys = {k1, k2}
  Total = 2
  MaxAmount = 2
  Providers = {"stripe", "razorpay"}
SYMMETRY CallSymmetry
INVARIANTS SuccessIsPaidAndBooked StatusIsBooked PaidOnceInTurn RefundsFitInTurn OneRowInTurn
