--------------------------- MODULE UpgradeConsent ---------------------------
(***************************************************************************)
(* What the upgrade hub promises a polling dashboard, whatever probes,     *)
(* timers and guardian requests run behind it: an offer names one release  *)
(* from the moment it opens until it is resolved, only a relayed offer can *)
(* be committed at the hub's request or be shown as "updating", and an     *)
(* offer that is being relayed is resolved by the relay's own answer or by *)
(* the end of the process, never by a guardian or a probe. It says nothing *)
(* of an upgrade that someone else asks Rome Cloud for.                    *)
(***************************************************************************)
CONSTANTS Versions, NoVersion

VARIABLES phase,     \* "idle", "countdown" or "updating"
          target,    \* the release on offer, or NoVersion
          relaying,  \* an apply request for target is unanswered
          committed  \* Rome Cloud is carrying out an upgrade the hub asked for

vars == <<phase, target, relaying, committed>>

Init == /\ phase = "idle" /\ target = NoVersion
        /\ relaying = FALSE /\ committed = FALSE

\* A probe found a release: open the offer.
Offer(v) == /\ phase = "idle"
            /\ phase' = "countdown" /\ target' = v
            /\ UNCHANGED <<relaying, committed>>

\* Silence or the guardian's "Update now": hand the offer to Rome Cloud.
Relay == /\ phase = "countdown" /\ ~relaying
         /\ relaying' = TRUE /\ UNCHANGED <<phase, target, committed>>

\* Rome Cloud takes the relayed offer on.
Commit == /\ relaying /\ committed' = TRUE
          /\ UNCHANGED <<phase, target, relaying>>

\* The answer was yes: the offered release is shown as being installed.
Accept == /\ phase = "countdown" /\ relaying
          /\ phase' = "updating" /\ relaying' = FALSE
          /\ UNCHANGED <<target, committed>>

\* The relay failed and the deadline is still ahead: the offer stands.
KeepOffer == /\ relaying
             /\ relaying' = FALSE /\ UNCHANGED <<phase, target, committed>>

\* The relay failed past the deadline, or the guardian deferred an offer that
\* is not being relayed: the offer is taken back.
TakeBack == /\ phase = "countdown"
            /\ phase' = "idle" /\ target' = NoVersion /\ relaying' = FALSE
            /\ UNCHANGED committed

\* The accepted upgrade did not come within the restart window.
GiveUp == /\ phase = "updating"
          /\ phase' = "idle" /\ target' = NoVersion
          /\ UNCHANGED <<relaying, committed>>

\* Rome Cloud gives the upgrade up before it stopped the process.
Abort == /\ committed /\ committed' = FALSE
         /\ UNCHANGED <<phase, target, relaying>>

\* The process ends and a fresh hub boots: Rome Cloud replaced it, or it
\* crashed or was restarted under an upgrade that is still under way.
Reboot == /\ phase' = "idle" /\ target' = NoVersion /\ relaying' = FALSE
          /\ committed' \in {committed, FALSE}

Next == \/ \E v \in Versions : Offer(v)
        \/ Relay \/ Commit \/ Accept \/ KeepOffer \/ TakeBack
        \/ GiveUp \/ Abort \/ Reboot

Spec == Init /\ [][Next]_vars
=============================================================================
