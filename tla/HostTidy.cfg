CONSTANTS
  Services = {"wifi"}
  Settings = {"Empty"}
  Faults = {}
SPECIFICATION Spec
INVARIANT DownTidiesUp
