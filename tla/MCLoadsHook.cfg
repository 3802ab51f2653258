SPECIFICATION FairSpec
CONSTANTS
  ShortLength = 3
  EditLength = 5
  TextLength = 9
  Inputs <- MCInputs
  Limits = {0, 1, 2, 3}
  Strings <- MCStrings
  Scalars <- MCScalars
  Others <- MCOthers
  GoodStrings <- MCGoodStrings
  GoodScalars <- MCGoodScalars
  LexErrors <- MCLexErrors
  NotUtf8 <- MCNotUtf8
  Infinite <- MCInfinite
  TooManyDigits <- MCLongInts
  Raises = TRUE
  Hook = TRUE
INVARIANTS ReadsJson DepthIsNesting
PROPERTIES KeepsContract
