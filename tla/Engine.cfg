SPECIFICATION FairSpec
CONSTANTS
  Daemon = {1, 2}
  Box = {3, 4, 5}
  Faults = {"start", "dns", "box", "kill", "wedge"}
  MaxAstray = 1
INVARIANTS
  IInv
  OneEngine
  ReadyIsReal
  DownIsThorough
PROPERTIES
  OneTenant
  EngineComesBack
