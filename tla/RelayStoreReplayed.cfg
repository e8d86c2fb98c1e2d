\* The same answer arrives twice, and both copies pass the checks.
SPECIFICATION Spec
CONSTANTS
  None = None
  Operators = {o1, o2}
  Exchanges = {x1, x2}
  Nonces = {n1, n2, n3}
  ChallengeTtl = 0
  HeartbeatTimeout = 0
  MaxInFlight = 1
  MaxRestarts = 0
SYMMETRY Symmetry
INVARIANTS
  ChallengeIsSingleUse
