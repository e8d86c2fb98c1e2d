\* Two workers, a hooked and a hookless burn, one failure or restart.
SPECIFICATION Spec
CONSTANTS
  i1 = i1
  i2 = i2
  w1 = w1
  w2 = w2
  retired = retired
  live = live
  NoIntent = NoIntent
  Intents = {i1, i2}
  Amount <- MCAmount
  Uses <- MCUsesLive
  Receivers = {live}
  MintsTo <- MCMintsToLive
  Workers = {w1, w2}
  Hooked = {i1}
  MaxFailures = 1
SYMMETRY WorkerSymmetry
INVARIANTS
  JournalNeverAhead
  ReceiversHoldTheirOwn
PROPERTIES
  ImplementsDelivery
