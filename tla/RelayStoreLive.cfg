\* One solver pairs and beats through two restarts of the relay, or goes quiet.
SPECIFICATION SweepSpec
CONSTANTS
  None = None
  Operators = {o1}
  Exchanges = {x1}
  Nonces = {n1, n2}
  ChallengeTtl = 1
  HeartbeatTimeout = 1
  MaxInFlight = 2
  MaxRestarts = 2
PROPERTIES
  NotOnlineOnOldNews
  OnlineAgain
