\* Two calls at once or in turn, two of which may break off.
SPECIFICATION Spec
CONSTANTS
  Handlers = {h1, h2}
  Intents = {i1, i2}
  None = None
  MaxCustomers = 3
  MaxCrashes = 2
SYMMETRY Symmetry
INVARIANTS DefaultIsOwned CardsAgreeInTurn
PROPERTIES ListingRepairs
