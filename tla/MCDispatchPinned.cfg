SPECIFICATION FairSpec
CONSTANTS
  Callers = {}
  Pinners = {p1, p2}
  Overriders = {}
  Hosts <- FewHosts
  Ops = {"round128", "xor_into"}
  MaxOps = 4
  None = None
INVARIANTS
  TypeOK
  PinHolds
  ResetRestores
PROPERTIES
  LockReleased
CHECK_DEADLOCK FALSE
