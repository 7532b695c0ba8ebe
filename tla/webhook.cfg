\* The events of two orders and of a stranger.
SPECIFICATION Spec
CONSTANTS
  Attempts = {a1, a2}
  Strangers = {s1}
  Handlers = {h1, h2}
  None = None
SYMMETRY Symmetry
INVARIANTS AcknowledgedIsHandled BookedOnceInTurn
PROPERTIES Settles
