\* Two overlapping calls with different keys; cash refuses nothing.
SPECIFICATION Spec
CONSTANTS
  Calls = {c1, c2}
  Keys = {k1, k2}
  Total = 2
  MaxAmount = 2
  Providers = {"cash"}
SYMMETRY CallSymmetry
INVARIANTS RefundsFit
