\* Safety, refinement and liveness of the consent flow.
CONSTANTS
  v1 = v1  v2 = v2  g1 = g1  g2 = g2  p1 = p1  p2 = p2
  NoVersion = NoVersion
  Versions <- MCVersions
  Guardians <- MCGuardians
  Probes <- MCProbes
  MaxOffers = 3
SPECIFICATION FairSpec
INVARIANTS TypeOK RelayMatchesOffer NoStrayTimer NeverStuck
INVARIANTS CommittedRestartShown NoSecondCutover
PROPERTIES VerdictMatchesHub ConsentSpec CountdownEnds UpdatingEnds
CHECK_DEADLOCK FALSE
