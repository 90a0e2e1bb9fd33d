\* A superseded turn hands an input of unknown delivery on.
CONSTANTS
  i1 = i1  i2 = i2  i3 = i3  i4 = i4
  NoInput = NoInput
  Inputs <- ThreeInputs
  Priorities <- BothPriorities
  Providers <- RemoteProvider
  WritesFail = FALSE
SYMMETRY Symmetric
SPECIFICATION Spec
PROPERTIES UnknownNeverReplayed
CHECK_DEADLOCK FALSE
