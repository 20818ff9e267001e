CONSTANTS
  Pins = {"auto", "hy2"}
  Answers = {"ok", "fail"}
  Quality = {"clean", "dead"}
  Weather <- Erratic
  EnterFails = 1
  DialWindow = 1
  DialBadEnter = 1
  LegGateProbes = 1
  TestInterval = 0
  MinDwell = 1
  MaxDwell = 1
  Probation = 0
SPECIFICATION PinSpec
INVARIANT IInv
PROPERTY PinIsNeverOverridden PinConverges DecisionPrevails
