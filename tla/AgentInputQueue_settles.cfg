\* Two inputs, stops, failures, failing writes and a close: all of them settle.
CONSTANTS
  i1 = i1  i2 = i2  i3 = i3  i4 = i4
  NoInput = NoInput
  Inputs <- TwoInputs
  Priorities <- BothPriorities
  Providers <- BothProviders
  WritesFail = TRUE
SPECIFICATION FairSpec
PROPERTIES EveryInputSettles
CHECK_DEADLOCK FALSE
