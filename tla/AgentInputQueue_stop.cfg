\* A stopped turn that is then superseded hands its inputs on.
CONSTANTS
  i1 = i1  i2 = i2  i3 = i3  i4 = i4
  NoInput = NoInput
  Inputs <- ThreeInputs
  Priorities <- BothPriorities
  Providers <- BothProviders
  WritesFail = FALSE
SYMMETRY Symmetric
SPECIFICATION Spec
PROPERTIES StopNeverReplays
CHECK_DEADLOCK FALSE
