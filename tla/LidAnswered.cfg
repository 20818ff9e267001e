CONSTANTS
  Servers = {"a"}
  Graces = {0, 1}
  Floor = 1
  Answers = {"ok", "fail", "lost"}
SPECIFICATION FairSpec
PROPERTY LidCloseIsAnswered OpenLidEndsIt
