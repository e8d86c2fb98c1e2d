\* A genuine intent among a forged row and one that always throws.
SPECIFICATION FairSpec
CONSTANTS
  None = None
  Genuine = {g1}
  Forged = {f1}
  Unroutable = {u1}
  Required = 2
  MaxReorg = 1
  MaxFailures = 1
INVARIANTS
  PaysAtMostOnce
  OneAttemptPerLife
  NoForgedFill
  PrematureOnlyIfTorn
  FilledWasPaid
PROPERTIES
  StandingIsAttempted
