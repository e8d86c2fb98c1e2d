\* A CCTP fee above the fill fee parks a reimbursement for good.
SPECIFICATION FairSpec
CONSTANTS
  i1 = i1
  i2 = i2
  v1 = v1
  v2 = v2
  Vaults = {v1}
  Intents = {i1, i2}
  Hooked = {i1}
  NoVault = NoVault
  BPS_DENOMINATOR = 10
  Amount <- MCAmount
  MaxFeeBps <- MCMaxFeeBps
  MarketMaxFeeBps = 5
  Config <- MCConfig
  MaxCctpFee <- MCOneCctpFee
  LpAmounts = {4}
  MaxBalance = 8
PROPERTIES
  CanonicalNeverTrapped
