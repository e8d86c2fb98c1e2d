\* One solver whose reports overtake each other.
SPECIFICATION Spec
CONSTANTS
  None = None
  Operators = {o1}
  Exchanges = {x1}
  Nonces = {n1, n2}
  ChallengeTtl = 1
  HeartbeatTimeout = 1
  MaxInFlight = 2
  MaxRestarts = 0
PROPERTIES
  SweepOnlyTheQuiet
