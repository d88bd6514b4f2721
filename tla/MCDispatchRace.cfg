SPECIFICATION Spec
CONSTANTS
  Callers = {c1}
  Pinners = {}
  Overriders = {o1}
  Hosts <- FewHosts
  Ops = {"fill_keystream"}
  MaxOps = 3
  None = None
INVARIANTS
  OverrideHolds
CHECK_DEADLOCK FALSE
