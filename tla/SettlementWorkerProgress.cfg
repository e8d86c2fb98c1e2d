\* One worker on its own, which fails or restarts three times.
SPECIFICATION FairSpec
CONSTANTS
  i1 = i1
  i2 = i2
  w1 = w1
  w2 = w2
  retired = retired
  live = live
  NoIntent = NoIntent
  Intents = {i1, i2}
  Amount <- MCAmount
  Uses <- MCUsesLive
  Receivers = {live}
  MintsTo <- MCMintsToLive
  Workers = {w1}
  Hooked = {i1}
  MaxFailures = 3
PROPERTIES
  EveryBurnIsRouted
  JournalCatchesUp
