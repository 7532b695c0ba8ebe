\* Redelivery under failures of the handler.
SPECIFICATION FairSpec
CONSTANTS
  Attempts = {a1, a2}
  Strangers = {}
  Handlers = {h1}
  None = None
PROPERTIES EventIsProcessed
