SPECIFICATION RSpec
CONSTANTS
  Addresses = {"A", "B", "C"}
  Heaps <- FragmentHeaps
  Roots = {"A", "1", "list", "long"}
  Scalars <- RoundTripScalars
  BadScalars <- MCBadScalars
  Fragments <- MCFragments
  Text <- MCText
  Unvalidated = {"pair", "latin"}
  BadStrings = {"s-latin"}
  LongInts <- MCLongInts
  TornStrings = {"s-torn"}
  TornScalars = {"nul"}
  WriteRaises = TRUE
  Limits = {0, 2}
  Keys <- MCKeys
  BadKeys <- MCBadKeys
  HookEffects <- ChangingHook
  MaxStack = 6
INVARIANTS TypeOK ObjectStackMirrorsThunks DeliveredIsRead FailedDumpIsRefused RoundTrips
PROPERTIES OutputIsJson
