SPECIFICATION SSpec
CONSTANTS
  MaxPieces = 3
  Inputs <- MCInputs
  Texts <- MCTexts
INVARIANTS TypeOK ControlsRefused BorrowedVerbatim ReadsWhatIsWritten ReadsBack
PROPERTY Progress
