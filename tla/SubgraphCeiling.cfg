\* A vault that charges the protocol's ceiling; tenths as basis points.
SPECIFICATION IndexSpec
CONSTANTS
  lp1 = lp1
  lp2 = lp2
  i1 = i1
  i2 = i2
  LPs = {lp1}
  Intents = {i1, i2}
  Amount <- MCAmount
  MaxFeeBps <- MCMaxFeeBps
  Policy <- MCCeilingPolicy
  BPS_DENOMINATOR = 10
  VirtualShares = 2
  CreationLimits <- MCCreatedTenths
  BpsChoices = {1, 9}
  FeeShares = {4}
  LpAmounts = {5}
  MaxBalance = 5
  RiskPolicy <- MCRiskPolicy
  MarketMaxFeeBps = 2
  MaxDonated = 0
INVARIANTS
  AcceptedPriceIsClaimable
