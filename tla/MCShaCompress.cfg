SPECIFICATION Spec
CONSTANTS
  Radix = 2
  M = 16
  sigma0 <- MCsigma0
  sigma1 <- MCsigma1
  Sigma0 <- MCSigma0
  Sigma1 <- MCSigma1
  Ch <- MCCh
  Maj <- MCMaj
  SHA256_K <- MCSHA256_K
  States <- MCStates
  Messages <- MCMessages
INVARIANTS
  WordsInTime
  WorkingVariables
  SameState
CHECK_DEADLOCK FALSE
