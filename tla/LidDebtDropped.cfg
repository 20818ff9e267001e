CONSTANTS
  Servers = {"a", "b"}
  Graces = {0}
  Floor = 1
  Answers = {"ok", "fail"}
SPECIFICATION Spec
PROPERTY DebtClearedOnlyWhenGone
