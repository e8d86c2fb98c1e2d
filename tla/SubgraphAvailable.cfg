\* A vault whose owner never changes a limit: what the relay says is available.
SPECIFICATION IndexSpec
CONSTANTS
  lp1 = lp1
  lp2 = lp2
  i1 = i1
  i2 = i2
  LPs = {lp1, lp2}
  Intents = {i1, i2}
  Amount <- MCAmount
  MaxFeeBps <- MCMaxFeeBps
  Policy <- MCPolicy
  BPS_DENOMINATOR = 4
  VirtualShares = 2
  CreationLimits <- MCCreatedHalf
  BpsChoices = {2}
  FeeShares = {4}
  LpAmounts = {1, 4}
  MaxBalance = 5
  RiskPolicy <- MCRiskPolicy
  MarketMaxFeeBps = 3
  MaxDonated = 0
INVARIANTS
  AvailableNeverOverstated
