CONSTANTS
  Services = {"wifi"}
  Settings = {"Empty", "home"}
  Faults = {"boot", "read", "save", "set", "sysctl", "pfctl", "box"}
SPECIFICATION FairSpec
INVARIANT IInv StoppedIsClean
PROPERTY DnsIsBorrowed DnsIsGivenBack
