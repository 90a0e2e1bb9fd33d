-------------------------- MODULE OrderedDelivery ---------------------------
(***************************************************************************)
(* What the relay drain promises of the events buffered for an instance:   *)
(* each is attempted only when every earlier one is over, one attempt at a *)
(* time, as often as it takes; nothing is attempted while an event waits   *)
(* for the guardian; and the relay forgets an event only when it and all   *)
(* before it are over. Over is settled, with one exception: an event that  *)
(* the guardian resumes while the socket is closing may be dropped.        *)
(***************************************************************************)
EXTENDS Naturals

CONSTANT N   \* events are numbered 1..N by the relay

VARIABLES
  posted,    \* events 1..posted have reached the relay
  pruned,    \* events 1..pruned are forgotten by it
  settled,   \* events the target handled, or rejected for good
  skipped,   \* events dropped by a resume
  out,       \* the event the target is working on, 0 if none
  stuck      \* the event that waits for the guardian, 0 if none

vars == <<posted, pruned, settled, skipped, out, stuck>>

\* Everything before s is over.
Over(s) == \A t \in 1..(s - 1) : t \in settled \union skipped

Init == /\ posted = 0 /\ pruned = 0 /\ settled = {} /\ skipped = {}
        /\ out = 0 /\ stuck = 0

Post == /\ posted < N /\ posted' = posted + 1
        /\ UNCHANGED <<pruned, settled, skipped, out, stuck>>

Attempt(s) == /\ out = 0 /\ stuck = 0 /\ s <= posted /\ Over(s)
              /\ out' = s
              /\ UNCHANGED <<posted, pruned, settled, skipped, stuck>>

Settle == /\ out # 0 /\ settled' = settled \union {out} /\ out' = 0
          /\ UNCHANGED <<posted, pruned, skipped, stuck>>

\* The attempt failed: the event will be tried again, or waits.
Fail == /\ out # 0 /\ out' = 0 /\ stuck' \in {stuck, out}
        /\ UNCHANGED <<posted, pruned, settled, skipped>>

\* The guardian resumes the event that waits: it is tried at once, or later in
\* its turn.
Resume == /\ stuck # 0 /\ stuck' = 0 /\ out' \in {0, stuck}
          /\ UNCHANGED <<posted, pruned, settled, skipped>>

\* The exception: it is dropped instead.
Drop == /\ stuck # 0 /\ stuck' = 0 /\ skipped' = skipped \union {stuck}
        /\ UNCHANGED <<posted, pruned, settled, out>>

\* A stop or a crash: an event that waits will be tried again in its turn, an
\* attempt under way is awaited or lost.
Restart == /\ stuck' = 0 /\ out' \in {0, out}
           /\ UNCHANGED <<posted, pruned, settled, skipped>>

Prune(s) == /\ pruned < s /\ s <= posted /\ Over(s + 1)
            /\ pruned' = s
            /\ UNCHANGED <<posted, settled, skipped, out, stuck>>

Next == \/ Post \/ Settle \/ Fail \/ Resume \/ Drop \/ Restart
        \/ \E s \in 1..N : Attempt(s) \/ Prune(s)

Spec == Init /\ [][Next]_vars
=============================================================================
