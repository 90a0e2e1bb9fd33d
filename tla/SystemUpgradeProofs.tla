------------------------ MODULE SystemUpgradeProofs -------------------------
(***************************************************************************)
(* Proofs about SystemUpgrade for every set of releases, probes and        *)
(* dashboards and any number of offers.                                    *)
(***************************************************************************)
EXTENDS SystemUpgrade, TLAPS

\* What the promise, its outcome and the two awaiting paths have to do with
\* one another: the part of the inductive invariant no run needs to name.
RelayBookkeeping ==
  /\ reply = "none" <=> relay = NoVersion
  /\ adopting => relay # NoVersion
  /\ phase = "countdown" <=> target \in Versions /\ phase # "updating"

IInv == /\ TypeOK
        /\ RelayBookkeeping
        /\ RelayMatchesOffer
        /\ NoStrayTimer
        /\ NeverStuck

LEMMA InitIInv == Init => IInv
<1> SUFFICES ASSUME Init PROVE IInv
  OBVIOUS
<1> USE UpgradeAssumption DEF UpgradeAssumption, Init, NoTimer
<1>1. TypeOK
  BY DEF TypeOK, Timers
<1>2. RelayBookkeeping
  BY DEF RelayBookkeeping
<1>3. RelayMatchesOffer /\ NoStrayTimer /\ NeverStuck
  BY DEF RelayMatchesOffer, NoStrayTimer, NeverStuck, Timer
<1> QED BY <1>1, <1>2, <1>3 DEF IInv

\* The probe's steps: only ProbeOffer touches the hub, and only from idle.
LEMMA ProbeKeepsIInv == IInv /\ ProbeStep => IInv'
<1> SUFFICES ASSUME IInv, ProbeStep PROVE IInv'
  OBVIOUS
<1> USE UpgradeAssumption
    DEF UpgradeAssumption, IInv, TypeOK, RelayBookkeeping, RelayMatchesOffer,
        NoStrayTimer, NeverStuck, Timer, Timers, NoTimer, hubVars, relayVars,
        cloudVars
<1>1. ASSUME NEW p \in Probes, ProbeStart(p) PROVE IInv'
  BY <1>1 DEF ProbeStart
<1>2. ASSUME NEW p \in Probes, ProbeGate(p) PROVE IInv'
  BY <1>2 DEF ProbeGate
<1>3. ASSUME NEW p \in Probes, ProbeNothing(p) PROVE IInv'
  BY <1>3 DEF ProbeNothing
<1>4. ASSUME NEW p \in Probes, NEW v \in Versions, ProbeOffer(p, v) PROVE IInv'
  <2>1. CASE phase = "idle"
    BY <1>4, <2>1 DEF ProbeOffer, BeginCountdown
  <2>2. CASE phase # "idle"
    BY <1>4, <2>2 DEF ProbeOffer, BeginCountdown
  <2> QED BY <2>1, <2>2
<1> QED BY <1>1, <1>2, <1>3, <1>4 DEF ProbeStep

\* The guardian's buttons.
LEMMA GuardianKeepsIInv == IInv /\ GuardianStep => IInv'
<1> SUFFICES ASSUME IInv, GuardianStep PROVE IInv'
  OBVIOUS
<1> USE UpgradeAssumption
    DEF UpgradeAssumption, IInv, TypeOK, RelayBookkeeping, RelayMatchesOffer,
        NoStrayTimer, NeverStuck, Timer, Timers, NoTimer, hubVars, relayVars,
        cloudVars
<1>1. CASE RequestDefer
  BY <1>1 DEF RequestDefer, TakeBackOffer, Reset
<1>2. ASSUME NEW g \in Guardians, RequestNow(g) PROVE IInv'
  BY <1>2 DEF RequestNow, RelayCutover
<1> QED BY <1>1, <1>2 DEF GuardianStep

\* The two timers.
LEMMA TimerKeepsIInv == IInv /\ TimerStep => IInv'
<1> SUFFICES ASSUME IInv, TimerStep PROVE IInv'
  OBVIOUS
<1> USE UpgradeAssumption
    DEF UpgradeAssumption, IInv, TypeOK, RelayBookkeeping, RelayMatchesOffer,
        NoStrayTimer, NeverStuck, Timer, Timers, NoTimer, hubVars, relayVars,
        cloudVars
<1>1. ASSUME NEW t \in armed, DeadlineElapsed(t) PROVE IInv'
  <2> USE <1>1 DEF DeadlineElapsed, RelayCutover
  <2>1. timer = t /\ t.kind = "countdown" /\ phase = "countdown"
    OBVIOUS
  <2>2. TypeOK'
    BY <2>1
  <2>3. RelayBookkeeping'
    BY <2>1
  <2>4. RelayMatchesOffer' /\ NeverStuck'
    BY <2>1
  <2>5. NoStrayTimer'
    BY <2>1
  <2> QED BY <2>2, <2>3, <2>4, <2>5
<1>2. ASSUME NEW t \in armed, RestartWindowElapsed(t) PROVE IInv'
  BY <1>2 DEF RestartWindowElapsed
<1> QED BY <1>1, <1>2 DEF TimerStep

\* The relay's outcomes.
LEMMA RelayKeepsIInv == IInv /\ RelayStep => IInv'
<1> SUFFICES ASSUME IInv, RelayStep PROVE IInv'
  OBVIOUS
<1> USE UpgradeAssumption
    DEF UpgradeAssumption, IInv, TypeOK, RelayBookkeeping, RelayMatchesOffer,
        NoStrayTimer, NeverStuck, Timer, Timers, NoTimer, hubVars, relayVars,
        cloudVars
<1>1. CASE RelayAccepted
  <2> USE <1>1 DEF RelayAccepted, MarkRestarting, SettleRelay
  <2>1. phase = "countdown"
    OBVIOUS
  <2>2. TypeOK'
    <3>1. timer' \in Timers /\ armed' \in SUBSET Timers
      BY <2>1
    <3>2. now' \in [Guardians -> {"idle", "waiting", "done", "accepted", "failed"}]
      OBVIOUS
    <3> QED BY <2>1, <3>1, <3>2
  <2>3. RelayBookkeeping' /\ RelayMatchesOffer' /\ NeverStuck'
    BY <2>1
  <2>4. NoStrayTimer'
    BY <2>1
  <2> QED BY <2>2, <2>3, <2>4
<1>2. CASE RelayFailed
  <2>1. CASE adopting
    BY <1>2, <2>1 DEF RelayFailed, TakeBackOffer, Reset, SettleRelay
  <2>2. CASE ~adopting
    BY <1>2, <2>2 DEF RelayFailed, SettleRelay
  <2> QED BY <2>1, <2>2
<1> QED BY <1>1, <1>2 DEF RelayStep

\* Rome Cloud and the replacement of the process.
LEMMA CloudKeepsIInv == IInv /\ CloudStep => IInv'
<1> SUFFICES ASSUME IInv, CloudStep PROVE IInv'
  OBVIOUS
<1> USE UpgradeAssumption
    DEF UpgradeAssumption, IInv, TypeOK, RelayBookkeeping, RelayMatchesOffer,
        NoStrayTimer, NeverStuck, Timer, Timers, NoTimer, hubVars, relayVars,
        cloudVars
<1>1. CASE CloudAccepts
  BY <1>1 DEF CloudAccepts
<1>2. CASE CloudRefuses
  BY <1>2 DEF CloudRefuses
<1>3. CASE CloudGivesUp
  BY <1>3 DEF CloudGivesUp
<1>4. CASE ProcessReplaced
  BY <1>4 DEF ProcessReplaced, FreshProcess
<1> QED BY <1>1, <1>2, <1>3, <1>4 DEF CloudStep

\* Restarts, and the manual route, which touches nothing of the service's.
LEMMA OthersKeepIInv == IInv /\ OtherStep => IInv'
<1> SUFFICES ASSUME IInv, OtherStep PROVE IInv'
  OBVIOUS
<1> USE UpgradeAssumption
    DEF UpgradeAssumption, IInv, TypeOK, RelayBookkeeping, RelayMatchesOffer,
        NoStrayTimer, NeverStuck, Timer, Timers, NoTimer, hubVars, relayVars
<1>1. CASE ProcessRestarts
  BY <1>1 DEF ProcessRestarts, FreshProcess
<1>2. CASE AppliedByHand
  BY <1>2 DEF AppliedByHand
<1>3. CASE HandGivesUp
  BY <1>3 DEF HandGivesUp
<1> QED BY <1>1, <1>2, <1>3 DEF OtherStep

LEMMA StepIInv == IInv /\ [Next]_vars => IInv'
<1> SUFFICES ASSUME IInv, [Next]_vars PROVE IInv'
  OBVIOUS
<1>1. CASE Next
  BY <1>1, ProbeKeepsIInv, GuardianKeepsIInv, TimerKeepsIInv, RelayKeepsIInv,
     CloudKeepsIInv, OthersKeepIInv DEF Next
<1>2. CASE UNCHANGED vars
  BY <1>2 DEF vars, IInv, TypeOK, RelayBookkeeping, RelayMatchesOffer,
              NoStrayTimer, NeverStuck, Timer
<1> QED BY <1>1, <1>2

LEMMA IInvHolds == Spec => []IInv
BY InitIInv, StepIInv, PTL DEF Spec

\* Every value keeps its type.
THEOREM TypeCorrect == Spec => []TypeOK
BY IInvHolds, PTL DEF IInv

\* Nothing moves the hub underneath an apply request.
THEOREM RelayIsShown == Spec => []RelayMatchesOffer
BY IInvHolds, PTL DEF IInv

\* The runtime never holds a timer the hub has lost track of.
THEOREM TimersAreOwned == Spec => []NoStrayTimer
BY IInvHolds, PTL DEF IInv

\* A countdown always has something that will end it.
THEOREM CountdownNeverStuck == Spec => []NeverStuck
BY IInvHolds, PTL DEF IInv
-----------------------------------------------------------------------------
\* A guardian who shared or started a relay is told what the hub then shows.
THEOREM VerdictsAreTrue == Spec => VerdictMatchesHub
<1>1. ASSUME IInv, [Next]_vars, NEW g \in Guardians, now[g] = "waiting"
      PROVE  /\ now'[g] = "accepted" => phase' = "updating"
             /\ now'[g] = "failed" =>
                  phase' = "idle" \/ (phase' = "countdown" /\ timer' # NoTimer)
  <2> USE <1>1 DEF IInv, TypeOK
  <2>1. CASE RelayAccepted
    BY <2>1 DEF RelayAccepted, MarkRestarting, SettleRelay, RelayMatchesOffer
  <2>2. CASE RelayFailed
    <3>1. now'[g] = "failed"
      BY <2>2 DEF RelayFailed, SettleRelay
    <3>2. phase = "countdown"
      BY <2>2 DEF RelayFailed, RelayMatchesOffer
    <3>3. CASE adopting
      BY <2>2, <3>1, <3>2, <3>3 DEF RelayFailed, TakeBackOffer, Reset
    <3>4. CASE ~adopting
      BY <2>2, <3>1, <3>2, <3>4 DEF RelayFailed, NeverStuck, hubVars
    <3> QED BY <3>3, <3>4
  <2>3. CASE ProbeStep \/ TimerStep \/ CloudStep \/ OtherStep \/ UNCHANGED vars
    <3>1. now'[g] = "waiting" \/ now'[g] = "idle"
      BY <2>3 DEF ProbeStep, ProbeStart, ProbeGate, ProbeNothing, ProbeOffer,
           TimerStep, DeadlineElapsed, RestartWindowElapsed, CloudStep,
           CloudAccepts, CloudRefuses, CloudGivesUp, ProcessReplaced,
           FreshProcess, OtherStep, ProcessRestarts, AppliedByHand,
           HandGivesUp, relayVars, vars
    <3> QED BY <3>1
  <2>4. CASE GuardianStep
    <3>1. now'[g] = "waiting"
      BY <2>4 DEF GuardianStep, RequestDefer, RequestNow, relayVars
    <3> QED BY <3>1
  <2> QED BY <2>1, <2>2, <2>3, <2>4 DEF Next, RelayStep
<1>2. IInv /\ [Next]_vars =>
        [\A g \in Guardians : now[g] = "waiting" =>
           /\ now'[g] = "accepted" => phase' = "updating"
           /\ now'[g] = "failed" =>
                phase' = "idle" \/ (phase' = "countdown" /\ timer' # NoTimer)]_vars
  BY <1>1
<1> QED BY <1>2, IInvHolds, PTL DEF Spec, VerdictMatchesHub

-----------------------------------------------------------------------------
\* What Rome Cloud installs at the service's request is what the hub relays or
\* shows, or what it accepted in an answer this process never got.
CloudIsShown ==
  lost \/ /\ reply \in {"sent", "refused"} => cloud = NoVersion
          /\ cloud # NoVersion /\ relay = NoVersion => phase = "updating"

LEMMA CloudIsShownStep ==
  ASSUME IInv, CloudIsShown, [Next]_vars
  PROVE  CloudIsShown'
<1> USE DEF CloudIsShown, IInv, TypeOK, cloudVars
<1>1. CASE ProbeStep
  BY <1>1 DEF ProbeStep, ProbeStart, ProbeGate, ProbeNothing, ProbeOffer,
              BeginCountdown, hubVars, relayVars
<1>2. CASE GuardianStep
  BY <1>2 DEF GuardianStep, RequestDefer, RequestNow, RelayCutover,
              TakeBackOffer, Reset, hubVars, relayVars, RelayBookkeeping
<1>3. CASE TimerStep
  BY <1>3 DEF TimerStep, DeadlineElapsed, RestartWindowElapsed, RelayCutover,
              relayVars
<1>4. CASE RelayAccepted
  BY <1>4 DEF RelayAccepted, MarkRestarting, SettleRelay, RelayMatchesOffer
<1>5. CASE RelayFailed
  BY <1>5 DEF RelayFailed, TakeBackOffer, Reset, SettleRelay, RelayBookkeeping
<1>6. CASE CloudStep
  BY <1>6, UpgradeAssumption
     DEF CloudStep, CloudAccepts, CloudRefuses, CloudGivesUp, ProcessReplaced,
         FreshProcess, hubVars, relayVars, RelayBookkeeping, UpgradeAssumption
<1>7. CASE OtherStep
  BY <1>7, UpgradeAssumption
     DEF OtherStep, ProcessRestarts, FreshProcess, AppliedByHand, HandGivesUp,
         hubVars, relayVars, UpgradeAssumption
<1>8. CASE UNCHANGED vars
  BY <1>8 DEF vars
<1> QED BY <1>1, <1>2, <1>3, <1>4, <1>5, <1>6, <1>7, <1>8 DEF Next, RelayStep

\* A restart the service asked for, and was told of, is always on show; the
\* manual route and the restarts of the process run at any time.
THEOREM RestartIsShown == Spec => []CommittedRestartShown
<1>1. Init => CloudIsShown
  BY UpgradeAssumption DEF Init, CloudIsShown, UpgradeAssumption
<1>2. IInv /\ CloudIsShown /\ [Next]_vars => CloudIsShown'
  BY CloudIsShownStep
<1>3. CloudIsShown => CommittedRestartShown
  BY DEF CloudIsShown, CommittedRestartShown
<1> QED BY <1>1, <1>2, <1>3, IInvHolds, PTL DEF Spec

\* The service's two entry points never ask again for an upgrade that is under
\* way for them, unless this process never got the answer.
THEOREM CutoversAreSerial == Spec => []NoSecondCutover
<1>1. Init => CloudIsShown
  BY UpgradeAssumption DEF Init, CloudIsShown, UpgradeAssumption
<1>2. IInv /\ CloudIsShown /\ [Next]_vars => CloudIsShown'
  BY CloudIsShownStep
<1>3. CloudIsShown => NoSecondCutover
  BY DEF CloudIsShown, NoSecondCutover
<1> QED BY <1>1, <1>2, <1>3, IInvHolds, PTL DEF Spec

-----------------------------------------------------------------------------
\* The hub, its timers and its relay implement the abstract consent.
LEMMA ConsentInit == Init => Consent!Init
BY DEF Init, Consent!Init

LEMMA ConsentStep == IInv /\ [Next]_vars => [Consent!Next]_(Consent!vars)
<1> SUFFICES ASSUME IInv, [Next]_vars PROVE [Consent!Next]_(Consent!vars)
  OBVIOUS
<1> USE UpgradeAssumption DEF UpgradeAssumption, IInv, TypeOK,
        RelayBookkeeping, RelayMatchesOffer, hubVars, relayVars,
        cloudVars
<1>1. ASSUME NEW p \in Probes, ProbeStart(p) \/ ProbeGate(p) \/ ProbeNothing(p)
      PROVE  UNCHANGED Consent!vars
  BY <1>1 DEF ProbeStart, ProbeGate, ProbeNothing, Consent!vars
<1>2. ASSUME NEW p \in Probes, NEW v \in Versions, ProbeOffer(p, v)
      PROVE  Consent!Offer(v) \/ UNCHANGED Consent!vars
  BY <1>2 DEF ProbeOffer, BeginCountdown, Consent!Offer, Consent!vars
<1>3. CASE RequestDefer
  <2>1. Consent!TakeBack
    BY <1>3 DEF RequestDefer, TakeBackOffer, Reset, Consent!TakeBack
  <2> QED BY <2>1 DEF Consent!Next
<1>4. ASSUME NEW g \in Guardians, RequestNow(g)
      PROVE  Consent!Relay \/ UNCHANGED Consent!vars
  BY <1>4 DEF RequestNow, RelayCutover, Consent!Relay, Consent!vars
<1>5. ASSUME NEW t \in armed, DeadlineElapsed(t)
      PROVE  Consent!Relay \/ UNCHANGED Consent!vars
  BY <1>5 DEF DeadlineElapsed, RelayCutover, Consent!Relay, Consent!vars
<1>6. ASSUME NEW t \in armed, RestartWindowElapsed(t)
      PROVE  Consent!GiveUp \/ UNCHANGED Consent!vars
  BY <1>6 DEF RestartWindowElapsed, Consent!GiveUp, Consent!vars
<1>7. CASE RelayAccepted
  <2>1. Consent!Accept
    BY <1>7 DEF RelayAccepted, MarkRestarting, SettleRelay, Consent!Accept
  <2> QED BY <2>1 DEF Consent!Next
<1>8. CASE RelayFailed
  <2>1. CASE adopting
    <3>1. Consent!TakeBack
      BY <1>8, <2>1 DEF RelayFailed, TakeBackOffer, Reset, SettleRelay,
                        Consent!TakeBack
    <3> QED BY <3>1 DEF Consent!Next
  <2>2. CASE ~adopting
    <3>1. Consent!KeepOffer
      BY <1>8, <2>2 DEF RelayFailed, SettleRelay, Consent!KeepOffer
    <3> QED BY <3>1 DEF Consent!Next
  <2> QED BY <2>1, <2>2
<1>9. CASE CloudAccepts
  BY <1>9 DEF CloudAccepts, Consent!Next, Consent!Commit
<1>10. CASE CloudRefuses
  BY <1>10 DEF CloudRefuses, Consent!vars
<1>11. CASE CloudGivesUp
  BY <1>11 DEF CloudGivesUp, Consent!Next, Consent!Abort
<1>12. CASE ProcessReplaced
  BY <1>12 DEF ProcessReplaced, FreshProcess, Consent!Next, Consent!Reboot
<1>13. CASE ProcessRestarts
  BY <1>13 DEF ProcessRestarts, FreshProcess, Consent!Next, Consent!Reboot
<1>14. CASE AppliedByHand \/ HandGivesUp
  BY <1>14 DEF AppliedByHand, HandGivesUp, Consent!vars
<1>15. CASE UNCHANGED vars
  BY <1>15 DEF vars, Consent!vars
<1> QED
  BY <1>1, <1>2, <1>3, <1>4, <1>5, <1>6, <1>7, <1>8, <1>9, <1>10, <1>11, <1>12,
     <1>13, <1>14, <1>15
     DEF Next, ProbeStep, GuardianStep, TimerStep, RelayStep, CloudStep,
         OtherStep, Consent!Next

\* Every behaviour of the implementation is one the promise allows.
THEOREM ConsentIsKept == Spec => ConsentSpec
BY ConsentInit, ConsentStep, IInvHolds, PTL
   DEF Spec, ConsentSpec, Consent!Spec
=============================================================================
