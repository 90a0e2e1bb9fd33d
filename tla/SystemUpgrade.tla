--------------------------- MODULE SystemUpgrade ----------------------------
(***************************************************************************)
(* The upgrade consent flow of the main process: UpgradeStatusHub (phase,  *)
(* target, one timer) and SystemUpgradeService (nightly probe, "Update     *)
(* now", "Remind me later", the deadline), with Rome Cloud as the external *)
(* that takes or refuses an apply request, may lose its answer, and later  *)
(* replaces the process or gives the upgrade up. The manual upgrade route  *)
(* sends the same apply request past both of them, at any time.            *)
(*                                                                         *)
(* One action is one macrotask of the event loop: everything the code does *)
(* up to its next await of I/O or a timer, with the microtasks it settles. *)
(***************************************************************************)
EXTENDS Naturals, FiniteSets

CONSTANTS
  Versions,      \* releases Rome Cloud may offer
  NoVersion,     \* null targetVersion
  Probes,        \* concurrent checkAndOffer() calls
  Guardians,     \* dashboards on which a guardian may press a button
  MaxOffers      \* bound: countdowns opened in one behaviour

ASSUME UpgradeAssumption ==
  /\ NoVersion \notin Versions
  /\ MaxOffers \in Nat

VARIABLES
  phase,     \* UpgradeStatusHub.phase
  target,    \* UpgradeStatusHub.targetVersion
  timer,     \* UpgradeStatusHub.timer: the handle the hub can still clear
  armed,     \* every timer the runtime holds, cleared or not by the hub
  offers,    \* history: countdowns opened so far, the identity of a timer
  relay,     \* pendingRelay: the target being applied, or NoVersion
  reply,     \* the apply request's fate while relay # NoVersion
  adopting,  \* cutoverOnDeadline is awaiting the pending relay
  now,       \* requestNow() of each guardian
  probe,     \* checkAndOffer() of each probe
  cloud,     \* the release Rome Cloud is installing because the service
             \* asked for it, or NoVersion
  lost,      \* history: this process never got the answer that accepted it
  byHand     \* Rome Cloud is installing what the manual route asked for

hubVars == <<phase, target, timer, armed, offers>>
relayVars == <<relay, reply, adopting, now>>
cloudVars == <<cloud, lost, byHand>>
vars == <<phase, target, timer, armed, offers, relay, reply, adopting, now,
          probe, cloud, lost, byHand>>

NoTimer == [kind |-> "none", offer |-> 0]
Timer(k) == [kind |-> k, offer |-> offers]
Timers == [kind : {"countdown", "restart"}, offer : Nat]

Init ==
  /\ phase = "idle" /\ target = NoVersion
  /\ timer = NoTimer /\ armed = {} /\ offers = 0
  /\ relay = NoVersion /\ reply = "none" /\ adopting = FALSE
  /\ now = [g \in Guardians |-> "idle"]
  /\ probe = [p \in Probes |-> "idle"]
  /\ cloud = NoVersion /\ lost = FALSE /\ byHand = FALSE

-----------------------------------------------------------------------------
(* UpgradeStatusHub *)

ResetKeepsTimer == /\ timer' = NoTimer /\ phase' = "idle" /\ target' = NoVersion
                   /\ UNCHANGED <<armed, offers>>

\* reset(): clear() the timer the hub still holds and go back to idle.
Reset == /\ armed' = armed \ {timer} /\ timer' = NoTimer
         /\ phase' = "idle" /\ target' = NoVersion
         /\ UNCHANGED offers

BeginCountdownAgain(v) ==
  LET t == [kind |-> "countdown", offer |-> offers + 1]
  IN /\ phase' = "countdown" /\ target' = v
     /\ offers' = offers + 1
     /\ timer' = t /\ armed' = (armed \ {timer}) \union {t}

\* beginCountdown(v): a no-op unless the hub is idle.
BeginCountdown(v) ==
  IF phase = "idle"
  THEN LET t == [kind |-> "countdown", offer |-> offers + 1]
       IN /\ phase' = "countdown" /\ target' = v
          /\ offers' = offers + 1
          /\ timer' = t /\ armed' = armed \union {t}
  ELSE UNCHANGED hubVars

\* standDown() and defer() are the same transition.
TakeBackOffer == IF phase = "countdown" THEN Reset ELSE UNCHANGED hubVars

MarkRestartingRenamed ==
  /\ phase' = "restarting"
  /\ timer' = Timer("restart")
  /\ armed' = (armed \ {timer}) \union {Timer("restart")}
  /\ UNCHANGED <<target, offers>>

MarkRestartingForever ==
  /\ phase' = "updating"
  /\ timer' = NoTimer /\ armed' = armed \ {timer}
  /\ UNCHANGED <<target, offers>>

\* markRestarting(): clear the countdown timer, arm the restart window.
MarkRestarting ==
  IF phase = "countdown"
  THEN /\ phase' = "updating"
       /\ timer' = Timer("restart")
       /\ armed' = (armed \ {timer}) \union {Timer("restart")}
       /\ UNCHANGED <<target, offers>>
  ELSE UNCHANGED hubVars

-----------------------------------------------------------------------------
(* SystemUpgradeService: the nightly probe *)

\* checkAndOffer() is called and awaits the auto_upgrade gate.
ProbeStart(p) ==
  /\ probe[p] = "idle" /\ offers < MaxOffers
  /\ probe' = [probe EXCEPT ![p] = "gate"]
  /\ UNCHANGED <<hubVars, relayVars, cloudVars>>

\* The gate answers. Disabled, or a countdown or cutover is live: done.
\* Otherwise ask Rome Cloud.
ProbeGate(p) ==
  /\ probe[p] = "gate"
  /\ \E enabled \in BOOLEAN :
       probe' = [probe EXCEPT ![p] =
                   IF enabled /\ phase = "idle" THEN "checking" ELSE "idle"]
  /\ UNCHANGED <<hubVars, relayVars, cloudVars>>

\* The check threw, was refused, or found nothing newer.
ProbeNothing(p) ==
  /\ probe[p] = "checking"
  /\ probe' = [probe EXCEPT ![p] = "idle"]
  /\ UNCHANGED <<hubVars, relayVars, cloudVars>>

\* The check found release v. The hub may have moved since ProbeGate.
ProbeOffer(p, v) ==
  /\ probe[p] = "checking" /\ offers < MaxOffers
  /\ probe' = [probe EXCEPT ![p] = "idle"]
  /\ BeginCountdown(v)
  /\ UNCHANGED <<relayVars, cloudVars>>

-----------------------------------------------------------------------------
(* SystemUpgradeService: the cutover *)

\* relayCutover(v): send the apply request and remember the promise.
RelayCutover(v) == relay' = v /\ reply' = "sent"

\* The countdown's timer fires. The hub calls onDeadline, which relays the
\* cutover or adopts the relay a guardian already started.
DeadlineElapsed(t) ==
  /\ t \in armed /\ t.kind = "countdown"
  /\ armed' = armed \ {t} /\ timer' = NoTimer
  /\ IF phase = "countdown"
     THEN /\ adopting' = TRUE
          /\ IF relay = NoVersion THEN RelayCutover(target)
                                  ELSE UNCHANGED <<relay, reply>>
     ELSE UNCHANGED <<adopting, relay, reply>>
  /\ UNCHANGED <<phase, target, offers, now, probe, cloudVars>>

RequestNowAlone(g) ==
  /\ now[g] \in {"idle", "done", "accepted", "failed"} /\ phase = "countdown"
  /\ now' = [now EXCEPT ![g] = "waiting"]
  /\ RelayCutover(target)
  /\ UNCHANGED <<hubVars, adopting, probe, cloudVars>>

\* requestNow(): share a pending relay, answer ok when there is no countdown,
\* or relay the cutover. "done" is the ok of the idempotent no-op.
RequestNow(g) ==
  /\ now[g] \in {"idle", "done", "accepted", "failed"}
  /\ \/ /\ relay # NoVersion
        /\ now' = [now EXCEPT ![g] = "waiting"]
        /\ UNCHANGED <<relay, reply>>
     \/ /\ relay = NoVersion /\ phase # "countdown"
        /\ now' = [now EXCEPT ![g] = "done"]
        /\ UNCHANGED <<relay, reply>>
     \/ /\ relay = NoVersion /\ phase = "countdown"
        /\ now' = [now EXCEPT ![g] = "waiting"]
        /\ RelayCutover(target)
  /\ UNCHANGED <<hubVars, adopting, probe, cloudVars>>

RequestDeferAnyway ==
  /\ phase = "countdown"
  /\ TakeBackOffer
  /\ UNCHANGED <<relayVars, probe, cloudVars>>

\* requestDefer(): a no-op while a relay is in flight.
RequestDefer ==
  /\ relay = NoVersion /\ phase = "countdown"
  /\ TakeBackOffer
  /\ UNCHANGED <<relayVars, probe, cloudVars>>

\* Everyone awaiting the relay gets its outcome; pendingRelay is cleared.
SettleRelay(outcome) ==
  /\ now' = [g \in Guardians |-> IF now[g] = "waiting" THEN outcome ELSE now[g]]
  /\ relay' = NoVersion /\ reply' = "none" /\ adopting' = FALSE

RelayAcceptedUnmarked ==
  /\ relay # NoVersion /\ reply = "accepted"
  /\ UNCHANGED hubVars
  /\ SettleRelay("accepted")
  /\ UNCHANGED <<probe, cloudVars>>

\* performRelay got its 200.
RelayAccepted ==
  /\ relay # NoVersion /\ reply = "accepted"
  /\ MarkRestarting
  /\ SettleRelay("accepted")
  /\ UNCHANGED <<probe, cloudVars>>

\* performRelay got a refusal, or no answer in time (an acceptance later than
\* that is taken to come just before). cutoverOnDeadline, when it awaited this
\* relay, stands the hub down.
RelayFailedSilently ==
  /\ relay # NoVersion
  /\ UNCHANGED hubVars
  /\ SettleRelay("failed")
  /\ lost' = (lost \/ reply = "accepted")
  /\ UNCHANGED <<probe, cloud, byHand>>

RelayFailed ==
  /\ relay # NoVersion
  /\ IF adopting THEN TakeBackOffer ELSE UNCHANGED hubVars
  /\ SettleRelay("failed")
  /\ lost' = (lost \/ reply = "accepted")
  /\ UNCHANGED <<probe, cloud, byHand>>

\* The restart window passed with this process still alive.
RestartWindowElapsed(t) ==
  /\ t \in armed /\ t.kind = "restart"
  /\ cloud = NoVersion   \* UPGRADE_RESTART_WINDOW_MS outlasts an upgrade
  /\ IF phase = "updating"
     THEN /\ armed' = armed \ {t} /\ timer' = NoTimer
          /\ phase' = "idle" /\ target' = NoVersion /\ UNCHANGED offers
     ELSE /\ armed' = armed \ {t} /\ timer' = NoTimer
          /\ UNCHANGED <<phase, target, offers>>
  /\ UNCHANGED <<relayVars, probe, cloudVars>>

-----------------------------------------------------------------------------
(* Rome Cloud *)

\* It takes the request on, or refuses it.
CloudAccepts == /\ reply = "sent"
                /\ reply' = "accepted" /\ cloud' = relay
                /\ UNCHANGED <<hubVars, relay, adopting, now, probe, lost, byHand>>

CloudRefuses == /\ reply = "sent"
                /\ reply' = "refused"
                /\ UNCHANGED <<hubVars, relay, adopting, now, probe, cloudVars>>

\* It fails before it stops this process (an image pull), or replaces the
\* process, whose hub, calls and timers are gone.
CloudGivesUp ==
  /\ cloud # NoVersion /\ cloud' = NoVersion /\ lost' = FALSE
  /\ UNCHANGED <<hubVars, relayVars, probe, byHand>>

\* The hub, the service's calls and the timers of a process end with it.
FreshProcess == /\ phase' = "idle" /\ target' = NoVersion
                /\ timer' = NoTimer /\ armed' = {} /\ UNCHANGED offers
                /\ relay' = NoVersion /\ reply' = "none" /\ adopting' = FALSE
                /\ now' = [g \in Guardians |-> "idle"]
                /\ probe' = [p \in Probes |-> "idle"]

ProcessReplaced == /\ cloud # NoVersion /\ cloud' = NoVersion /\ lost' = FALSE
                   /\ FreshProcess
                   /\ UNCHANGED byHand

\* The process crashes, or ends in the upgrade the manual route asked for. The
\* next one knows of no upgrade that Rome Cloud may be at.
ProcessRestarts == /\ FreshProcess
                   /\ lost' = (cloud # NoVersion)
                   /\ byHand' \in {byHand, FALSE}
                   /\ UNCHANGED cloud

-----------------------------------------------------------------------------
(* POST /system/upgrade: the manual route *)

\* It relays the apply request of a dashboard to Rome Cloud, which accepts it
\* (a refusal changes nothing here), without a look at the hub or at
\* pendingRelay, and tells neither of them.
AppliedByHand == /\ byHand' = TRUE
                 /\ UNCHANGED <<hubVars, relayVars, probe, cloud, lost>>

HandGivesUp == /\ byHand /\ byHand' = FALSE
               /\ UNCHANGED <<hubVars, relayVars, probe, cloud, lost>>

-----------------------------------------------------------------------------
ProbeStep == \E p \in Probes :
               \/ ProbeStart(p) \/ ProbeGate(p) \/ ProbeNothing(p)
               \/ \E v \in Versions : ProbeOffer(p, v)
GuardianStep == RequestDefer \/ \E g \in Guardians : RequestNow(g)
TimerStep == \E t \in armed : DeadlineElapsed(t) \/ RestartWindowElapsed(t)
RelayStep == RelayAccepted \/ RelayFailed
CloudStep == CloudAccepts \/ CloudRefuses \/ CloudGivesUp \/ ProcessReplaced
OtherStep == ProcessRestarts \/ AppliedByHand \/ HandGivesUp

Next == \/ ProbeStep \/ GuardianStep \/ TimerStep
        \/ RelayStep \/ CloudStep \/ OtherStep

Spec == Init /\ [][Next]_vars

\* Armed timers fire, the apply request's fetch ends (its AbortSignal bounds
\* it), and Rome Cloud neither sits on a request nor on an upgrade for ever.
\* Nothing is assumed of guardians, probes, crashes or the manual route.
FairSpec == /\ Spec
            /\ WF_vars(TimerStep)
            /\ WF_vars(RelayStep)
            /\ WF_vars(CloudAccepts \/ CloudRefuses)
            /\ WF_vars(CloudGivesUp \/ ProcessReplaced)
-----------------------------------------------------------------------------
(* Properties *)

\* The hub, the relay and Rome Cloud hold values of their types.
TypeOK ==
  /\ phase \in {"idle", "countdown", "updating"}
  /\ target \in Versions \union {NoVersion}
  /\ timer \in Timers \union {NoTimer}
  /\ armed \in SUBSET Timers
  /\ offers \in Nat
  /\ relay \in Versions \union {NoVersion}
  /\ reply \in {"none", "sent", "accepted", "refused"}
  /\ adopting \in BOOLEAN
  /\ now \in [Guardians -> {"idle", "waiting", "done", "accepted", "failed"}]
  /\ probe \in [Probes -> {"idle", "gate", "checking"}]
  /\ cloud \in Versions \union {NoVersion}
  /\ lost \in BOOLEAN
  /\ byHand \in BOOLEAN

\* While an apply request is out, the hub still shows the countdown for that
\* very release: no defer, probe or timer moved it underneath the relay, so
\* markRestarting() cannot turn into a no-op that hides a committed restart.
RelayMatchesOffer == relay # NoVersion => phase = "countdown" /\ target = relay

\* No timer outlives the offer it was armed for: the runtime holds exactly
\* the timer the hub can still clear, of the kind its phase waits for.
NoStrayTimer ==
  /\ armed = (IF timer = NoTimer THEN {} ELSE {timer})
  /\ phase = "idle" => timer = NoTimer
  /\ phase = "countdown" => timer \in {NoTimer, Timer("countdown")}
  /\ phase = "updating" => timer = Timer("restart")

\* An offer is never stuck past its deadline: a countdown either has its
\* timer armed or a deadline cutover awaiting the relay that will resolve it.
\* (The nightly probe skips every phase but idle, so nothing else would.)
NeverStuck ==
  phase = "countdown" => timer # NoTimer \/ (adopting /\ relay # NoVersion)

\* A guardian is told "accepted" only when the hub shows the restart, and
\* "failed" only when the offer is still armed or was taken back.
VerdictMatchesHub ==
  [][\A g \in Guardians : now[g] = "waiting" =>
       /\ now'[g] = "accepted" => phase' = "updating"
       /\ now'[g] = "failed" =>
            phase' = "idle" \/ (phase' = "countdown" /\ timer' # NoTimer)]_vars

\* A restart that Rome Cloud is carrying out at the service's request, and has
\* acknowledged to this process, is what the snapshot shows. (A restart the
\* manual route asked for is never shown: it does not tell the hub.)
CommittedRestartShown ==
  cloud # NoVersion /\ relay = NoVersion /\ ~lost => phase = "updating"

\* The service's two entry points never have Rome Cloud asked again for an
\* upgrade it is already carrying out for them, unless this process never got
\* the answer. (The manual route is not serialised with them: it may ask at
\* any time.)
NoSecondCutover == reply = "sent" /\ ~lost => cloud = NoVersion

\* Every countdown ends, and an accepted upgrade is not shown for ever.
CountdownEnds == (phase = "countdown") ~> (phase # "countdown")
UpdatingEnds == (phase = "updating") ~> (phase # "updating")

\* The hub implements what it promises the dashboard.
Consent == INSTANCE UpgradeConsent
             WITH relaying <- relay # NoVersion, committed <- cloud # NoVersion
ConsentSpec == Consent!Spec
=============================================================================
