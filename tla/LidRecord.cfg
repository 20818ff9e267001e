CONSTANTS
  Servers = {a, b}
  a = a
  b = b
  Graces = {0, 1}
  Floor = 1
  Answers = {"ok", "fail", "lost"}
SYMMETRY Symmetric
SPECIFICATION Spec
INVARIANT IInv OwedIsOnRecord CloseStands
PROPERTY SettledIsProven OpenLidIsSafe
