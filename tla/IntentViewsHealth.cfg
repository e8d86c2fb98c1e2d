\* The solver's health on a page that holds one row only.
SPECIFICATION Spec
CONSTANTS
  live = live
  retired = retired
  None = None
  MaxIntents = 2
  Receivers = {live, retired}
  Indexed = {live}
  PageSize <- MCShortPages
  RecheckAfter = 1
  MaxCallTime = 1
PROPERTY HealthNamesTheOldest
