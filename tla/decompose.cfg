\* Ints of 5 bits, so that the third round overflows the shift; uint64_t of
\* 5 bits.  The algorithm stops at its answer.
SPECIFICATION Spec
CONSTANTS
  Inputs <- SmallInputs
  Bits = 5
  IntBits = 5
  ShiftMod = 8
  BaseShift = 2
  MinRounds = 3
  IterMax = 5
  RandMask = 15
  RandBase = 17
INVARIANTS AnswerRight DecomposeInv
PROPERTIES SquaresModPq
CHECK_DEADLOCK FALSE
