SPECIFICATION Spec256
CONSTANTS
  Compress <- MCCompress
  SHA256_IV <- MCSHA256_IV
  XorBytes <- MCXorBytes
  Passphrases <- MCPassphrases
  MacKeys <- MCMacKeys
  MacTexts <- MCMacTexts
  Seeds <- MCSeeds
  M = 64
  MaxBytes = 2
INVARIANTS
  StandardResult
  ChainInClosedForm
  StateFromPassphrase
PROPERTIES
  PaddedToBlocks
  StreamOfTheKeys
CHECK_DEADLOCK FALSE
