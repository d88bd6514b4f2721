SPECIFICATION Spec
CONSTANTS
  Callers = {c1}
  Pinners = {}
  Overriders = {o1}
  Hosts <- MCHosts
  Ops = {"backend", "sub_bytes", "round128", "fill_keystream", "xor_into", "sha256_compress"}
  MaxOps = 2
  None = None
INVARIANTS
  NoFault
  DetectedOrForced
CHECK_DEADLOCK FALSE
