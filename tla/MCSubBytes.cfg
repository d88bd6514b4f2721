SPECIFICATION Spec
CONSTANTS
  Kernels = {"Fallback", "Ssse3", "Avx2", "Avx512Vbmi", "AesNi", "Gfni"}
  MaxLen = 131
  Beyond = 64
  Contents <- MCContents
INVARIANTS
  SubstitutedOnce
  NothingBeyond
CHECK_DEADLOCK FALSE
