SPECIFICATION Spec
CONSTANTS
  Instances <- MCInstances
  ByteBits = 2
  Box <- MCBox
INVARIANTS
  HalvesAreNative
  LimbsAreModular
  IntermediatesFit
