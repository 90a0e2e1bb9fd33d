------------------------- MODULE MCAgentInputQueue --------------------------
EXTENDS AgentInputQueue, TLC
CONSTANTS i1, i2, i3, i4
TwoInputs == {i1, i2}
ThreeInputs == {i1, i2, i3}
FourInputs == {i1, i2, i3, i4}
BothPriorities == {"next", "now"}
BothProviders == {"local", "remote"}
LocalProvider == {"local"}
RemoteProvider == {"remote"}
Symmetric == Permutations(Inputs)
=============================================================================
