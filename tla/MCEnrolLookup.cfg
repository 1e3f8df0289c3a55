SPECIFICATION Spec
CONSTANTS
  Procs = {app, tool}
  Tool = tool
  People = {ann1, ann2, bob1}
  Names = {"ann", "bob"}
  Name <- MCName
  Bobs = {bob1}
  Nobody = Nobody
  MaxOpens = 2
INVARIANT
  ExistingResidentsKept
SYMMETRY MCSymmetry
CHECK_DEADLOCK FALSE
