\* The worker's page holds one row: an older open intent is not on it.
SPECIFICATION Spec
CONSTANTS
  live = live
  retired = retired
  None = None
  MaxIntents = 2
  Receivers = {live, retired}
  Indexed = {live}
  PageSize <- MCPageSize
  RecheckAfter = 1
  MaxCallTime = 1
PROPERTY DiscoveryNamesAll
