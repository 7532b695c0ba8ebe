\* Four creations around the end of a month, two clerks.
SPECIFICATION Spec
CONSTANTS
  Invoices = {i1, i2, i3, i4}
  Clerks = {c1, c2}
  None = None
  MaxMonth = 2
SYMMETRY Symmetry
INVARIANTS NumbersFollowTime NextNumberIsFree SequentialInAMonth
PROPERTY VoidIsFinalUncrossed
\* Calls are finite.
CHECK_DEADLOCK FALSE
