CONSTANTS
  Procs = {p}
  Deploys = {i}
  Names = {a}
  Commands = {"deploy", "destroy", "adopt", "import"}
  None = None
SPECIFICATION Spec
PROPERTY DestroyedIsGone
