SPECIFICATION ASpec
CONSTANTS
  ShortLength = 2
  EditLength = 3
  TextLength = 3
  Inputs <- MCInputs
  Limits = {0, 1, 2, 3}
  Strings <- MCStrings
  Scalars <- MCScalars
  Others <- MCOthers
  LexErrors <- MCLexErrors
  NotUtf8 <- MCNotUtf8
  Infinite <- MCInfinite
  TooManyDigits <- MCLongInts
  Raises = FALSE
  Hook = FALSE
INVARIANT ValidatedTextLoads
