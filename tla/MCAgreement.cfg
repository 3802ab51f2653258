SPECIFICATION ASpec
CONSTANTS
  ShortLength = 3
  EditLength = 6
  TextLength = 8
  Inputs <- MCInputs
  Limits = {0, 1, 2, 3}
  Strings <- MCStrings
  Scalars <- MCScalars
  Others <- MCOthers
  LexErrors <- MCLexErrors
  NotUtf8 <- MCNotUtf8
  Infinite <- MCInfinite
  TooManyDigits <- MCLongInts
  Raises = FALSE
  Hook = FALSE
INVARIANT FragmentAgreesWithLoads
