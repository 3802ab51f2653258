SPECIFICATION NSpec
CONSTANTS
  Inputs <- MCInputs
  Ints <- MCInts
  NoSource = NoSource
  FloatOverflows <- MCFloatOverflows
  ByteBits = 2
  NativeBytes = 3
  LongBits = 4
  MaxStrDigits = 2
  MaxLen = 5
  MaxInt = 130
INVARIANT EveryIntIsWritten
