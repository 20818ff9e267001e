SPECIFICATION Spec
CONSTANTS
  OffDown = 2
  PeakDown = 0
  StandardRungs = {1}
  BalanceLanes = 2
  DefaultHy2Lanes = 1
  ErrorThreshold = 1
  SlowSamples = 2
  RecoverSamples = 1
  Cooldown = 1
  DropEvery = 0
  RecoverAfter = 1
  Ceiling = 2
  Worlds <- Weather
  Answers = {"ok", "fail"}
INVARIANT IInv
PROPERTIES
  NoLaneToADeadLeg
  BalanceStays
  LanesSettle
  LanesComeBack
  CapIsLifted
