\* Two vaults race for a hooked and a hookless intent.
SPECIFICATION FairSpec
CONSTANTS
  i1 = i1
  i2 = i2
  v1 = v1
  v2 = v2
  Vaults = {v1, v2}
  Intents = {i1, i2}
  Hooked = {i1}
  NoVault = NoVault
  BPS_DENOMINATOR = 10
  Amount <- MCAmount
  MaxFeeBps <- MCMaxFeeBps
  MarketMaxFeeBps = 5
  Config <- MCConfig
  MaxCctpFee <- MCOneCctpFee
  LpAmounts = {4}
  MaxBalance = 8
INVARIANTS
  TypeOK
  ExposureIsSumOfPrincipals
  OnlyTheWinnerIsOwed
  ReceiverHoldsWhatItOwes
  MoneyCanMove
PROPERTIES
  LpAssetsNeverLost
  ImplementsLifecycle
  ImplementsDelivery
  EveryBurnSettles
  FreeCanonicalNeverTrapped
