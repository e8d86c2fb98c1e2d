\* One worker on the live receiver; i1 was burned to the retired one.
SPECIFICATION Spec
CONSTANTS
  i1 = i1
  i2 = i2
  w1 = w1
  w2 = w2
  retired = retired
  live = live
  NoIntent = NoIntent
  Intents = {i1, i2}
  Amount <- MCAmount
  Uses <- MCUsesLive
  Receivers = {retired, live}
  MintsTo <- MCMintsAcrossReplacement
  Workers = {w1}
  Hooked = {i1, i2}
  MaxFailures = 0
INVARIANTS
  SettledOnOneReceiver
