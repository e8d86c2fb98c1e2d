\* One intent, two vaults, a receiver that is replaced and a second market.
SPECIFICATION FairSpec
CONSTANTS
  v1 = v1
  v2 = v2
  old = old
  new = new
  m1 = m1
  m2 = m2
  Nobody = Nobody
  i1 = i1
  Intents = {i1}
  Amount <- MCAmount
  Trades = {i1}
  Vaults = {v1, v2}
  Receivers = {old, new}
  Markets = {m1, m2}
  CheckOf <- MCCheckOf
  MarketOf <- MCMarketOf
  FactoryReceiver = old
  FactoryMarket = m1
  LimitChoices <- MCLimits
INVARIANTS
  OnRouteIsBacked
  PaidTwiceOnlyOffRoute
  InFlightCoversUnsettled
PROPERTIES
  ImplementsDelivery
  CommitmentsLand
