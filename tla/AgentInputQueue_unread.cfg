\* A retained input is adopted together with one the provider does not hold.
CONSTANTS
  i1 = i1  i2 = i2  i3 = i3  i4 = i4
  NoInput = NoInput
  Inputs <- FourInputs
  Priorities <- BothPriorities
  Providers <- LocalProvider
  WritesFail = FALSE
SYMMETRY Symmetric
SPECIFICATION Spec
INVARIANTS ConsumedWasRead
CHECK_DEADLOCK FALSE
