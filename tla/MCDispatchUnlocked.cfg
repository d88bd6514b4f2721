SPECIFICATION Spec
CONSTANTS
  Callers = {}
  Pinners = {p1}
  Overriders = {o1}
  Hosts <- FewHosts
  Ops = {"fill_keystream"}
  MaxOps = 3
  None = None
INVARIANTS
  PinHolds
CHECK_DEADLOCK FALSE
