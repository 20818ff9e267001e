CONSTANTS
  Pins = {"auto"}
  Answers = {"ok", "fail"}
  Quality = {"clean", "dead"}
  Weather <- OneCarries
  EnterFails = 1
  DialWindow = 1
  DialBadEnter = 1
  LegGateProbes = 1
  TestInterval = 0
  MinDwell = 1
  MaxDwell = 1
  Probation = 0
SPECIFICATION PromptSpec
PROPERTY SteadyStays TrafficReachesCarryingLeg
