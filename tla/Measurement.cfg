SPECIFICATION FairSpec
CONSTANTS
  Results <- MCResults
  NoResult = 0
  Encoded <- MCEncoded
  TornCode = 1
  EnergyMod = 15
  Client = {c1, c2}
  MaxEvents = 2
INVARIANTS
  OutputsAreMeasurements
  ResetIsReported
PROPERTIES
  SubscriberIsServed
  FramesKeepComing
CHECK_DEADLOCK FALSE
