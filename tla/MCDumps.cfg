SPECIFICATION FairSpec
CONSTANTS
  Addresses = {"A", "B", "C"}
  Heaps <- StaticHeaps
  Roots = {"A"}
  Scalars <- MCScalars
  BadScalars <- MCBadScalars
  Fragments = {}
  Text <- MCNoText
  Unvalidated = {}
  BadStrings = {}
  LongInts = {}
  Keys <- MCKeys
  BadKeys <- MCBadKeys
  HookEffects <- StaticHook
  MaxStack = 6
INVARIANTS TypeOK ObjectStackMirrorsThunks ReadsBack FailsForAReason
PROPERTY CheckedTerminates
