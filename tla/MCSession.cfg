SPECIFICATION Spec
CONSTANTS
  Words <- SmallWords
  Bytes <- SmallBytes
  Lanes = 2
  N = 3
  M = 6
  WARMUP_ROUNDS = 4
  Rotr7 <- SmallRotr7
  Sub <- SmallSub
  XorW <- SmallXorW
  LeBytes <- SmallLeBytes
  Nibble <- SmallNibble
  Keys <- MCKeys
  XorB <- MCXorB
  Messages <- MCMessages
  MaxBytes = 6
INVARIANTS
  TypeOK
  RoundTrip
  CutInvisible
  InStep
