CONSTANTS
  Procs = {p, q}
  Deploys = {i}
  Names = {a, b}
  Commands = {"deploy", "destroy", "stop", "start", "wake", "manage", "import", "adopt", "verify", "repair", "reconcile"}
  None = None
SPECIFICATION Spec
SYMMETRY Alike
INVARIANT IInv BillIsOnRecord DestroyedIsOver
PROPERTY StoreIsRegistry EntryOutlivesBill
