\* An owner who tightens a limit: the capacity the relay says there is.
SPECIFICATION IndexSpec
CONSTANTS
  lp1 = lp1
  lp2 = lp2
  i1 = i1
  i2 = i2
  LPs = {lp1, lp2}
  Intents = {i1, i2}
  Amount <- MCAmount
  MaxFeeBps <- MCMaxFeeBps
  Policy <- MCPolicy
  BPS_DENOMINATOR = 4
  VirtualShares = 2
  CreationLimits <- MCCreatedLoose
  BpsChoices = {1, 3}
  FeeShares = {4}
  LpAmounts = {1, 4}
  MaxBalance = 5
  RiskPolicy <- MCRiskPolicy
  MarketMaxFeeBps = 3
  MaxDonated = 0
INVARIANTS
  CapsOfNow
