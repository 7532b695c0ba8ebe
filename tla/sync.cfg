\* Deliveries and verifications that overlap, overtake, are repeated and lost.
SPECIFICATION Spec
CONSTANTS
  Handlers = {h1, h2}
  Reported = {"active", "paused", "canceled"}
  Deduped = TRUE
  PlanCloses = TRUE
  MaxChanges = 2
  MaxRows = 3
  MaxCancels = 1
  MaxCrashes = 1
SYMMETRY Symmetry
INVARIANTS RowsAreTold AcknowledgedIsStored MirrorsInTurn OneRowInTurn
