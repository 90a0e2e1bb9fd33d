-------------------------- MODULE MCSystemUpgrade ---------------------------
(* Two overlapping probes, two dashboards, two releases. *)
EXTENDS SystemUpgrade, TLC
CONSTANTS v1, v2, g1, g2, p1, p2
MCVersions == {v1, v2}
MCGuardians == {g1, g2}
MCProbes == {p1, p2}
Symmetric == Permutations(MCVersions) \union Permutations(MCGuardians)
               \union Permutations(MCProbes)
=============================================================================
