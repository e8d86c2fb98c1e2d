\* Two keys contend for one vault; two exchanges under way at once.
SPECIFICATION Spec
CONSTANTS
  None = None
  Operators = {o1, o2}
  Exchanges = {x1, x2}
  Nonces = {n1, n2, n3}
  ChallengeTtl = 0
  HeartbeatTimeout = 0
  MaxInFlight = 1
  MaxRestarts = 1
SYMMETRY Symmetry
INVARIANTS
  PairedHasSigned
