SPECIFICATION SSpec
CONSTANTS
  MaxPieces = 2
  Inputs <- MCInputs
  Texts <- MCTexts
INVARIANT OnlyJsonStrings
