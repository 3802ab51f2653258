SPECIFICATION FairSpec
CONSTANTS
  ShortLength = 4
  EditLength = 7
  TextLength = 9
  Inputs <- MCInputs
  Limits = {0, 1, 2, 3}
  Strings <- MCStrings
  Scalars <- MCScalars
  Others <- MCOthers
  LexErrors <- MCLexErrors
  NotUtf8 <- MCNotUtf8
  Infinite <- MCInfinite
  Any <- UnitType
  String <- UnitType
  BuildingList <- UnitType
  Map <- UnitType
  EmptyList <- Unit
  ExtendList <- UnitExtendList
  FinishList <- UnitFinish
  EmptyMap <- Unit
  ExtendMap <- UnitExtendMap
  FinishMap <- UnitFinish
  ParseStr <- UnitParseStr
  ParseScalar <- UnitParseScalar
INVARIANTS TypeOK StackMirrorsBrackets DepthLimitExact
PROPERTIES Progress Termination
