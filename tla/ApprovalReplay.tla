--------------------------- MODULE ApprovalReplay ---------------------------
(***************************************************************************)
(* One root execution whose body calls other actions in order, the         *)
(* approvals its gated calls ask for, and the replays that approvals and   *)
(* retries start: the journal a replay answers from, the claim that lets   *)
(* one of them run, the row of the execution, and a crash of the process   *)
(* with the recovery at the next boot.                                     *)
(*                                                                         *)
(* The body is deterministic: after an answer it makes the next call, or   *)
(* stops once a call was pending; a call that throws ends it, or is caught *)
(* and made again, passed over, or followed by the end of the body.        *)
(* A nested call runs in the process of its caller (no cancellable action: *)
(* those are replayed by a worker of their own). Call 0 is the root.       *)
(***************************************************************************)
EXTENDS Naturals, Sequences

CONSTANTS
  K,              \* bound: nested calls of the body
  MaxApprovals,   \* bound: approvals asked for under the root
  MaxGrants       \* bound: an approval's decision and its retries

ASSUME ReplayAssumption ==
  K \in Nat \ {0} /\ MaxApprovals \in Nat \ {0} /\ MaxGrants \in Nat \ {0}

VARIABLES
  gated, rootGated,   \* the calls, and whether the root, requiresApproval
  up,                 \* the process runs
  row,                \* status of the root's execution row
  run,                \* run[0]: the first run; run[a]: the replay of approval a
  approvals,          \* the approvals table, in the order of creation
  tried,              \* history: the gated calls each run was let through to
  opened,             \* history: how often one of them did not throw
  replayed,           \* history: calls a replay executed that no gate let through
  gaps                \* history: calls that threw and the first run passed over

history == <<tried, opened, replayed, gaps>>
vars == <<gated, rootGated, up, row, run, approvals, history>>

Calls == 1..K
Runs == 0..MaxApprovals
Entry == [call : 0..K, st : {"done", "pending", "diverged"}]
NoRun == [at |-> "none", pc |-> 1, journal |-> <<>>, index |-> 1,
          replay |-> FALSE, asked |-> FALSE]

Init ==
  /\ gated \in SUBSET Calls /\ rootGated \in BOOLEAN
  /\ up = TRUE /\ row = "none" /\ approvals = <<>>
  /\ run = [x \in Runs |-> NoRun]
  /\ tried = [x \in Runs |-> {}] /\ opened = [x \in Runs |-> 0]
  /\ replayed = {} /\ gaps = {}

-----------------------------------------------------------------------------
(* The first run *)

Begin ==
  /\ up /\ row = "none" /\ ~rootGated
  /\ row' = "running"
  /\ run' = [run EXCEPT ![0].at = "running"]
  /\ UNCHANGED <<gated, rootGated, up, approvals, history>>

\* recordPendingApproval(): the snapshot ends with the entry of the call.
Pending(c) == [call |-> c, st |-> "pending"]
Done(c) == [call |-> c, st |-> "done"]
Ask(c, journal) ==
  /\ Len(approvals) < MaxApprovals
  /\ approvals' = Append(approvals,
       [call |-> c, journal |-> Append(journal, Pending(c)), status |-> "pending",
        exec |-> "idle", grants |-> 0, called |-> FALSE])

\* A gated root is not executed at all.
RootAsksApproval ==
  /\ up /\ row = "none" /\ rootGated
  /\ Ask(0, <<>>) /\ row' = "pending_approval"
  /\ UNCHANGED <<gated, rootGated, up, run, history>>

-----------------------------------------------------------------------------
(* A nested call of run x *)

Calling(x) == up /\ run[x].at = "running" /\ run[x].pc <= K
Matches(x) == /\ run[x].index <= Len(run[x].journal)
              /\ run[x].journal[run[x].index].call = run[x].pc
Answers(x, st) == /\ Calling(x) /\ run[x].replay /\ Matches(x)
                  /\ run[x].journal[run[x].index].st = st

ReturnsCachedTwice(x) ==
  /\ Answers(x, "done")
  /\ run' = [run EXCEPT ![x].index = @ + 2, ![x].pc = @ + 1]
  /\ UNCHANGED <<gated, rootGated, up, row, approvals, history>>

ReturnsCachedInPlace(x) ==
  /\ Answers(x, "done")
  /\ run' = [run EXCEPT ![x].pc = @ + 1]
  /\ UNCHANGED <<gated, rootGated, up, row, approvals, history>>

ReturnsCached(x) ==
  /\ Answers(x, "done")
  /\ run' = [run EXCEPT ![x].index = @ + 1, ![x].pc = @ + 1]
  /\ UNCHANGED <<gated, rootGated, up, row, approvals, history>>

LetsThrough(x, c) == tried' = [tried EXCEPT ![x] = @ \union {c}]

OpensGateReplaying(x) ==
  /\ Answers(x, "pending")
  /\ run' = [run EXCEPT ![x].journal =
                          Append([@ EXCEPT ![run[x].index].st = "done"], Done(run[x].pc)),
                        ![x].index = @ + 1, ![x].pc = @ + 1]
  /\ LetsThrough(x, run[x].pc) /\ opened' = [opened EXCEPT ![x] = @ + 1]
  /\ UNCHANGED <<gated, rootGated, up, row, approvals, replayed, gaps>>

\* The first pending entry lets its call through, whichever call was approved.
\* The call is journaled a second time, and the rest of the body is recorded.
OpensGate(x) ==
  /\ Answers(x, "pending")
  /\ run' = [run EXCEPT ![x].journal =
                          Append([@ EXCEPT ![run[x].index].st = "done"], Done(run[x].pc)),
                        ![x].index = @ + 1, ![x].pc = @ + 1, ![x].replay = FALSE]
  /\ LetsThrough(x, run[x].pc) /\ opened' = [opened EXCEPT ![x] = @ + 1]
  /\ UNCHANGED <<gated, rootGated, up, row, approvals, replayed, gaps>>

\* The call throws, and the body catches it: again, the next call, or the end.
GoesOn(x) == run[x].pc..(K + 1)

\* Thrown by the call behind the gate: its entry stays pending, and the replay
\* where it is.
ThrowsAtGate(x) ==
  /\ Answers(x, "pending")
  /\ \E to \in GoesOn(x) : run' = [run EXCEPT ![x].pc = to]
  /\ LetsThrough(x, run[x].pc)
  /\ UNCHANGED <<gated, rootGated, up, row, approvals, opened, replayed, gaps>>

\* No entry answers the call: recording, or recording from here on.
Records(x) == Calling(x) /\ ~Answers(x, "done") /\ ~Answers(x, "pending")
Noted(x) == IF run[x].replay /\ ~Matches(x)
            THEN Append(run[x].journal, [call |-> run[x].pc, st |-> "diverged"])
            ELSE run[x].journal

AsksWithoutHistory(x) ==
  /\ Records(x) /\ run[x].pc \in gated
  /\ Ask(run[x].pc, <<>>)
  /\ run' = [run EXCEPT ![x].journal = Append(Noted(x), Pending(run[x].pc)),
                        ![x].pc = @ + 1, ![x].replay = FALSE, ![x].asked = TRUE]
  /\ UNCHANGED <<gated, rootGated, up, row, history>>

AsksApproval(x) ==
  /\ Records(x) /\ run[x].pc \in gated
  /\ Ask(run[x].pc, Noted(x))
  /\ run' = [run EXCEPT ![x].journal = Append(Noted(x), Pending(run[x].pc)),
                        ![x].pc = @ + 1, ![x].replay = FALSE, ![x].asked = TRUE]
  /\ UNCHANGED <<gated, rootGated, up, row, history>>

NotesReplayed(x) == replayed' = IF x = 0 THEN replayed
                                         ELSE replayed \union {run[x].pc}
Executes(x) ==
  /\ Records(x) /\ run[x].pc \notin gated
  /\ run' = [run EXCEPT ![x].journal = Append(Noted(x), Done(run[x].pc)),
                        ![x].pc = @ + 1, ![x].replay = FALSE]
  /\ NotesReplayed(x)
  /\ UNCHANGED <<gated, rootGated, up, row, approvals, tried, opened, gaps>>

\* A call that throws is not journaled.
ThrowsExecuting(x) ==
  /\ Records(x) /\ run[x].pc \notin gated
  /\ \E to \in GoesOn(x) :
       /\ run' = [run EXCEPT ![x].journal = Noted(x), ![x].pc = to, ![x].replay = FALSE]
       /\ gaps' = IF x = 0 /\ to # run[x].pc THEN gaps \union {run[x].pc} ELSE gaps
  /\ NotesReplayed(x)
  /\ UNCHANGED <<gated, rootGated, up, row, approvals, tried, opened>>

-----------------------------------------------------------------------------
(* The end of run x *)

\* Whatever the body returned, the root is pending if a call of this run was.
Ends(x) ==
  /\ up /\ run[x].at = "running" /\ (run[x].pc > K \/ run[x].asked)
  /\ row' = IF run[x].asked THEN "pending_approval" ELSE "ended"
  /\ run' = [run EXCEPT ![x] = IF x = 0 THEN NoRun ELSE [NoRun EXCEPT !.at = "continuing"]]
  /\ UNCHANGED <<gated, rootGated, up, approvals, history>>

\* The body throws, or its worker exits or is cancelled: only the first writes
\* over a row that is no longer running.
Dies(x) ==
  /\ up /\ run[x].at = "running"
  /\ row' \in {"ended"} \union (IF row = "running" THEN {} ELSE {row})
  /\ run' = [run EXCEPT ![x] = NoRun]
  /\ approvals' = IF x = 0 THEN approvals ELSE [approvals EXCEPT ![x].exec = "failed"]
  /\ UNCHANGED <<gated, rootGated, up, history>>

\* The result goes to the waiting agent's session; its turn may fail.
Continues(a) ==
  /\ up /\ run[a].at = "continuing"
  /\ run' = [run EXCEPT ![a] = NoRun]
  /\ \E e \in {"succeeded", "failed"} : approvals' = [approvals EXCEPT ![a].exec = e]
  /\ UNCHANGED <<gated, rootGated, up, row, history>>

-----------------------------------------------------------------------------
(* The guardian, and the handler *)

Grant(a) == approvals' = [approvals EXCEPT ![a].status = "approved", ![a].exec = "queued",
                                           ![a].grants = @ + 1, ![a].called = TRUE]
Approve(a) ==
  /\ up /\ approvals[a].status = "pending"
  /\ Grant(a)
  /\ UNCHANGED <<gated, rootGated, up, row, run, history>>

Reject(a) ==
  /\ up /\ approvals[a].status = "pending"
  /\ approvals' = [approvals EXCEPT ![a].status = "rejected"]
  /\ UNCHANGED <<gated, rootGated, up, row, run, history>>

Retry(a) ==
  /\ up /\ approvals[a].status = "approved" /\ approvals[a].exec = "failed"
  /\ approvals[a].grants < MaxGrants
  /\ Grant(a)
  /\ UNCHANGED <<gated, rootGated, up, row, run, history>>

\* onApproved() claims the execution and runs the root again, from the journal
\* of the approval. A root that waited at its own gate starts recording.
Claim(a) ==
  /\ up /\ approvals[a].called
  /\ approvals[a].status = "approved" /\ approvals[a].exec = "queued"
  /\ approvals' = [approvals EXCEPT ![a].exec = "running", ![a].called = FALSE]
  /\ row' = "running"
  /\ LET resumed == approvals[a].journal[1] = Pending(0)
     IN /\ run' = [run EXCEPT ![a] = [NoRun EXCEPT !.at = "running", !.replay = ~resumed,
                                         !.journal = approvals[a].journal,
                                         !.index = IF resumed THEN 2 ELSE 1]]
        /\ IF resumed THEN LetsThrough(a, 0) /\ opened' = [opened EXCEPT ![a] = @ + 1]
                      ELSE UNCHANGED <<tried, opened>>
  /\ UNCHANGED <<gated, rootGated, up, replayed, gaps>>

-----------------------------------------------------------------------------
(* The process *)

Crash ==
  /\ up /\ row # "none"
  /\ up' = FALSE
  /\ run' = [x \in Runs |-> NoRun]
  /\ approvals' = [a \in DOMAIN approvals |-> [approvals[a] EXCEPT !.called = FALSE]]
  /\ UNCHANGED <<gated, rootGated, row, history>>

RestartsAsItWas ==
  /\ ~up /\ up' = TRUE
  /\ UNCHANGED <<gated, rootGated, row, run, approvals, history>>

\* endInterruptedRuns(): nothing starts an approval that was queued or running.
Restart ==
  /\ ~up /\ up' = TRUE
  /\ row' = IF row = "running" THEN "ended" ELSE row
  /\ UNCHANGED <<gated, rootGated, run, approvals, history>>

-----------------------------------------------------------------------------
Next ==
  \/ Begin \/ RootAsksApproval \/ Crash \/ Restart
  \/ \E x \in Runs : \/ ReturnsCached(x) \/ OpensGate(x) \/ AsksApproval(x)
                     \/ Executes(x) \/ ThrowsAtGate(x) \/ ThrowsExecuting(x)
                     \/ Ends(x) \/ Dies(x)
  \/ \E a \in DOMAIN approvals : \/ Approve(a) \/ Reject(a) \/ Retry(a)
                                 \/ Claim(a) \/ Continues(a)

Spec == Init /\ [][Next]_vars
-----------------------------------------------------------------------------
(* Properties *)

RunOK(r) ==
  /\ r.at \in {"none", "running", "continuing"} /\ r.pc \in 1..(K + 1)
  /\ r.journal \in Seq(Entry) /\ r.replay \in BOOLEAN /\ r.asked \in BOOLEAN
  /\ r.index \in Nat
  /\ r.replay => r.index <= Len(r.journal)   \* a replay never runs past its gate

ApprovalOK(p) ==
  /\ p.call \in 0..K /\ p.journal \in Seq(Entry) /\ p.journal # <<>>
  /\ p.status \in {"pending", "approved", "rejected"}
  /\ p.exec \in {"idle", "queued", "running", "succeeded", "failed"}
  /\ p.grants \in 0..MaxGrants /\ p.called \in BOOLEAN

TypeOK ==
  /\ gated \subseteq Calls /\ rootGated \in BOOLEAN /\ up \in BOOLEAN
  /\ row \in {"none", "running", "pending_approval", "ended"}
  /\ DOMAIN run = Runs /\ \A x \in Runs : RunOK(run[x])
  /\ Len(approvals) <= MaxApprovals
  /\ \A a \in DOMAIN approvals : ApprovalOK(approvals[a])
  /\ tried \in [Runs -> SUBSET (0..K)] /\ opened \in [Runs -> Nat]
  /\ replayed \subseteq Calls /\ gaps \subseteq Calls

\* The runs of an approval, its retries included, let one call past its gate,
\* one that the approval's journal had pending, and bring it to one result for
\* each grant: a claim, a retry or a replay never passes a second gate on the
\* same decision (approvals.ts:163, "so only one worker runs it" of
\* approval-handler.ts:123). A run without a grant lets none through. While the
\* call throws the body may make it again; and it need not be the call that was
\* decided on, which DecidedBeforeRun is about.
OneRunPerGrant ==
  /\ tried[0] = {}
  /\ \A a \in Runs \ {0} : tried[a] # {} =>
       /\ a \in DOMAIN approvals
       /\ approvals[a].grants >= 1 /\ opened[a] <= approvals[a].grants
       /\ \E j \in DOMAIN approvals[a].journal :
            /\ approvals[a].journal[j].st = "pending"
            /\ tried[a] = {approvals[a].journal[j].call}

\* "An approval-gated action does not execute before the guardian's decision": a
\* call past its gate has an approval of its own.
DecidedBeforeRun ==
  \A x \in Runs : \A c \in tried[x] :
    \E a \in DOMAIN approvals : approvals[a].call = c /\ approvals[a].status = "approved"

\* What the body did before its first gate no replay does again, however often
\* the root is replayed, retried and interrupted, unless the first run passed
\* over a call that threw: it is not journaled, and every replay diverges there.
\* A gated root's body is not covered: its replays record from the start.
NothingRepeatedBeforeGate ==
  ~rootGated => \A c \in replayed : (\E g \in gated : g <= c) \/ (\E d \in gaps : d <= c)

\* An approval reported as executed had its call started, if only to throw, when
\* its journal has every call up to that one, once, and no other pending.
Clean(p) ==
  \/ p.journal = <<Pending(0)>>
  \/ \A i \in DOMAIN p.journal :
       p.journal[i].call = i /\ (p.journal[i].st = "done" \/ i = Len(p.journal))
ApprovedGateRuns ==
  \A a \in DOMAIN approvals :
    approvals[a].exec = "succeeded" /\ Clean(approvals[a]) => approvals[a].call \in tried[a]

\* A row that says running has a run behind it, also when runs of one root
\* overlap, die or are cut off: a root never hangs in the activity view
\* (restart-recovery.ts:12, actions.md:18).
RunningRowHasRunner ==
  up /\ row = "running" => \E x \in Runs : run[x].at = "running"
=============================================================================
