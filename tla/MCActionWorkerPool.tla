------------------------ MODULE MCActionWorkerPool --------------------------
EXTENDS ActionWorkerPool, TLC
CONSTANTS w1, w2, w3, w4, r1, r2, c1
TwoSlots == {w1, w2}
FourSlots == {w1, w2, w3, w4}
TwoRoots == {r1, r2}
OneCall == {c1}
Symmetric == Permutations(Workers) \union Permutations(Roots)
=============================================================================
