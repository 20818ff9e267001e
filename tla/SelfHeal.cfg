SPECIFICATION Spec
CONSTANTS
  OffDown = 3
  PeakDown = 2
  StartHour = 1
  EndHour = 0
  Day = 2
  StandardRungs = {1, 5}
  Typed = {2}
  BackoffTicks = 2
  RecoverTicks = 2
  MaxBackoff = 1
  Answers = {"ok", "fail", "lost"}
INVARIANTS IInv DescentIsEarned
PROPERTIES
  CeilingFollows
  CeilingPrevails
  FloodLowersCeiling
