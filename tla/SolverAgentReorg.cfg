\* A reorganisation of one block between the receipt and the head.
SPECIFICATION Spec
CONSTANTS
  None = None
  Genuine = {g1}
  Forged = {}
  Unroutable = {}
  Required = 2
  MaxReorg = 1
  MaxFailures = 0
INVARIANTS
  NoPrematureFill
