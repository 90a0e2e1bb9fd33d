\* Three inputs, any of which may interrupt, and either kind of provider.
CONSTANTS
  i1 = i1  i2 = i2  i3 = i3  i4 = i4
  NoInput = NoInput
  Inputs <- ThreeInputs
  Priorities <- BothPriorities
  Providers <- BothProviders
  WritesFail = TRUE
SYMMETRY Symmetric
SPECIFICATION Spec
INVARIANTS TypeOK NoDuplicate PlacedOnce OneSteerAtATime ReadInOrder NothingStranded EventsHaveATurn NextConsumedWasRead
PROPERTIES HandedIsDurable ConsumedIsFinal NextUnknownNeverReplayed NextStopNeverReplays
CHECK_DEADLOCK FALSE
