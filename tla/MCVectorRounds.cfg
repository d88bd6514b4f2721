SPECIFICATION RoundsSpec
CONSTANTS
  RoundKernels = {"Ssse3", "Avx2", "Avx2Loop", "Avx512Vbmi", "AesNi", "Gfni"}
  States <- MCStates
  Schedule <- MCSchedule
  MaxRounds = 12
INVARIANTS
  LanesInStep
CHECK_DEADLOCK FALSE
