\* Two intents on two receivers, one of them without a source in the index.
SPECIFICATION FairSpec
CONSTANTS
  live = live
  retired = retired
  None = None
  MaxIntents = 2
  Receivers = {live, retired}
  Indexed = {live}
  PageSize <- MCPageSize
  RecheckAfter = 1
  MaxCallTime = 1
PROPERTIES
  NothingOpenIsMissing
  StaleIsRecent
  StaleRowsGo
