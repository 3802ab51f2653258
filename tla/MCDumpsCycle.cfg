SPECIFICATION Spec
CONSTANTS
  Addresses = {"A", "B", "C", "D", "E", "F", "G", "H"}
  Heaps <- ConvertingHeaps
  Roots = {"A"}
  Scalars <- MCScalars
  BadScalars <- MCBadScalars
  Fragments = {}
  Text <- MCNoText
  Unvalidated = {}
  BadStrings = {}
  LongInts = {}
  Keys <- MCKeys
  BadKeys <- MCBadKeys
  HookEffects <- ConvertingHook
  MaxStack = 6
INVARIANT CycleIsValueError
