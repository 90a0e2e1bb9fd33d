------------------------ MODULE ApprovalReplayProofs ------------------------
(***************************************************************************)
(* Proofs about ApprovalReplay for any number of nested calls, approvals   *)
(* and retries, whatever the calls throw: a decision opens one gate of its *)
(* journal, no replay repeats what precedes the first gate, an approval    *)
(* without company starts its call, and a row is running only behind a run.*)
(***************************************************************************)
EXTENDS ApprovalReplay, SequenceTheorems, TLAPS

Run == [at : {"none", "running", "continuing"}, pc : 1..(K + 1), journal : Seq(Entry),
        index : Nat \ {0}, replay : BOOLEAN, asked : BOOLEAN]
Approval == [call : 0..K, journal : Seq(Entry),
             status : {"pending", "approved", "rejected"},
             exec : {"idle", "queued", "running", "succeeded", "failed"},
             grants : 0..MaxGrants, called : BOOLEAN]
Types ==
  /\ gated \subseteq Calls /\ rootGated \in BOOLEAN /\ up \in BOOLEAN
  /\ row \in {"none", "running", "pending_approval", "ended"}
  /\ run \in [Runs -> Run]
  /\ approvals \in Seq(Approval) /\ Len(approvals) <= MaxApprovals
  /\ tried \in [Runs -> SUBSET (0..K)] /\ opened \in [Runs -> Nat]
  /\ replayed \subseteq Calls /\ gaps \subseteq Calls

\* A replay is the running execution of its approval, and until it opens a gate
\* its journal is the approval's, which ends with the call asked about; what it
\* has gone past is done.
RunFlow(x) ==
  /\ run[x].at # "none" =>
       x = 0 \/ (x \in 1..Len(approvals) /\ approvals[x].exec = "running")
  /\ run[x].replay => /\ x # 0 /\ run[x].at = "running" /\ ~run[x].asked
                      /\ run[x].journal = approvals[x].journal
                      /\ run[x].index <= Len(run[x].journal)
                      /\ \A i \in 1..(run[x].index - 1) : run[x].journal[i].st = "done"
ApprovalFlow(p) ==
  /\ p.journal # <<>> /\ p.journal[Len(p.journal)] = Pending(p.call)
  /\ p.status = "pending" => p.exec = "idle" /\ p.grants = 0
FlowInv ==
  /\ \A x \in Runs : RunFlow(x)
  /\ \A a \in 1..Len(approvals) : ApprovalFlow(approvals[a])
  /\ row = "none" => approvals = <<>> /\ \A x \in Runs : run[x].at = "none"

\* A queued approval, and a replay that has opened nothing, still have a gate
\* to open: the first entry of the journal that is not done.
Owed(a) == IF approvals[a].exec = "queued" \/ run[a].replay THEN 1 ELSE 0
IsGate(q, c) == \E j \in 1..Len(q) : /\ q[j] = Pending(c)
                                     /\ \A i \in 1..(j - 1) : q[i].st = "done"
GrantOf(a) ==
  /\ a \notin 1..Len(approvals) => opened[a] = 0 /\ tried[a] = {}
  /\ a \in 1..Len(approvals) =>
       /\ opened[a] + Owed(a) <= approvals[a].grants
       /\ tried[a] # {} => approvals[a].grants >= 1
       /\ \A c \in tried[a] : IsGate(approvals[a].journal, c)
GrantInv == tried[0] = {} /\ \A a \in Runs \ {0} : GrantOf(a)

\* Every journal has the calls before the first gate, and before the first that
\* threw and was passed over, done and in their places.
PreGate(c) == (\A g \in gated : c < g) /\ (\A d \in gaps : c < d)
Recorded(q, p) ==
  \A c \in Calls : PreGate(c) /\ c < p => c <= Len(q) /\ q[c] = Done(c)
Gates(q) == \A i \in 1..Len(q) : q[i].st = "pending" => q[i].call \in gated
FirstRun(x) ==
  /\ Gates(run[x].journal)
  /\ x # 0 /\ run[x].at = "running" =>
       /\ Recorded(run[x].journal, K + 1)
       /\ PreGate(run[x].pc) => run[x].replay /\ run[x].index = run[x].pc
FirstApproval(p) == Gates(p.journal) /\ Recorded(p.journal, K + 1)
FirstBody ==
  /\ Recorded(run[0].journal, run[0].pc)
  /\ (\A d \in gaps : run[0].pc <= d) => Len(run[0].journal) = run[0].pc - 1
NoneReplayed == \A c \in replayed : ~PreGate(c)
FirstInv ==
  ~rootGated => /\ \A a \in 1..Len(approvals) : FirstApproval(approvals[a])
                /\ \A x \in Runs : FirstRun(x)
                /\ FirstBody /\ NoneReplayed

\* A replay of a clean journal meets each entry in its place, up to its gate.
CleanOf(a) ==
  Clean(approvals[a]) =>
    /\ approvals[a].exec = "succeeded" => approvals[a].call \in tried[a]
    /\ run[a].at # "none" => \/ approvals[a].call \in tried[a]
                             \/ /\ approvals[a].call # 0
                                /\ run[a].replay /\ run[a].index = run[a].pc
CleanInv == \A a \in 1..Len(approvals) : CleanOf(a)

IInv == Types /\ FlowInv /\ GrantInv /\ FirstInv /\ CleanInv /\ RunningRowHasRunner

(* Journals *)

LEMMA EntryAppended ==
  ASSUME NEW q \in Seq(Entry), NEW e \in Entry
  PROVE  /\ Append(q, e) \in Seq(Entry) /\ Len(Append(q, e)) = Len(q) + 1
         /\ Append(q, e) # <<>> /\ Append(q, e)[Len(q) + 1] = e
         /\ \A i \in 1..Len(q) : Append(q, e)[i] = q[i]
OBVIOUS

LEMMA EntryIs ==
  ASSUME NEW q \in Seq(Entry), NEW i \in 1..Len(q)
  PROVE  q[i] \in Entry /\ q[i] = [call |-> q[i].call, st |-> q[i].st]
<1>1. q[i] \in Entry
  OBVIOUS
<1> QED BY <1>1 DEF Entry

LEMMA EntryMarked ==
  ASSUME NEW q \in Seq(Entry), NEW i \in 1..Len(q), NEW r, r = [q EXCEPT ![i].st = "done"]
  PROVE  /\ r \in Seq(Entry) /\ Len(r) = Len(q)
         /\ r[i] = Done(q[i].call)
         /\ \A j \in 1..Len(q) : j # i => r[j] = q[j]
<1>1. q \in [1..Len(q) -> Entry] /\ Len(q) \in Nat
  OBVIOUS
<1>2. q[i] \in Entry /\ [q[i] EXCEPT !.st = "done"] = Done(q[i].call)
  BY <1>1 DEF Entry, Done
<1>3. [q[i] EXCEPT !.st = "done"] \in Entry
  BY <1>2 DEF Entry, Done
<1>4. r \in [1..Len(q) -> Entry] /\ r[i] = Done(q[i].call)
  BY <1>1, <1>2, <1>3
<1>5. r \in Seq(Entry) /\ Len(r) = Len(q)
  BY <1>1, <1>4, SeqDef
<1> QED BY <1>1, <1>4, <1>5

(* What the steps of a run do to it *)

LEMMA RunIs ==
  ASSUME Types, NEW x \in Runs
  PROVE  /\ run[x] \in Run /\ run[x].at \in {"none", "running", "continuing"}
         /\ run[x].pc \in 1..(K + 1) /\ run[x].pc \in Nat
         /\ run[x].journal \in Seq(Entry) /\ Len(run[x].journal) \in Nat
         /\ run[x].index \in Nat \ {0}
         /\ run[x].replay \in BOOLEAN /\ run[x].asked \in BOOLEAN
BY ReplayAssumption DEF ReplayAssumption, Types, Run

LEMMA CallAdvances ==
  ASSUME Types, NEW x \in Runs, run[x].at = "running", run[x].pc <= K
  PROVE  /\ run[x].pc \in Calls /\ run[x].pc + 1 \in 1..(K + 1)
         /\ run[x].index + 1 \in Nat \ {0}
BY RunIs, ReplayAssumption DEF ReplayAssumption, Calls

Others(x) == \A y \in Runs : y # x => run'[y] = run[y]

LEMMA ReturnsCachedRun ==
  ASSUME Types, NEW x \in Runs, ReturnsCached(x)
  PROVE  /\ run' \in [Runs -> Run] /\ Others(x)
         /\ run'[x].at = "running" /\ run'[x].journal = run[x].journal
         /\ run'[x].pc = run[x].pc + 1 /\ run'[x].index = run[x].index + 1
         /\ run'[x].replay = run[x].replay /\ run'[x].asked = run[x].asked
         /\ run[x].replay /\ run[x].at = "running" /\ run[x].pc \in Calls
         /\ run[x].index <= Len(run[x].journal)
         /\ run[x].journal[run[x].index].call = run[x].pc
         /\ run[x].journal[run[x].index].st = "done"
<1>1. run' = [run EXCEPT ![x] = [run[x] EXCEPT !.index = run[x].index + 1,
                                               !.pc = run[x].pc + 1]]
  BY DEF ReturnsCached
<1>2. /\ run[x].pc \in Calls /\ run[x].pc + 1 \in 1..(K + 1)
      /\ run[x].index + 1 \in Nat \ {0}
  BY CallAdvances DEF ReturnsCached, Answers, Calling
<1> DEFINE u == [run[x] EXCEPT !.index = run[x].index + 1, !.pc = run[x].pc + 1]
<1>3. /\ u \in Run /\ u.at = run[x].at /\ u.journal = run[x].journal
      /\ u.pc = run[x].pc + 1 /\ u.index = run[x].index + 1
      /\ u.replay = run[x].replay /\ u.asked = run[x].asked
  BY <1>2, RunIs DEF Run
<1>4. run' \in [Runs -> Run] /\ Others(x) /\ run'[x] = u
  BY <1>1, <1>3 DEF Types, Others
<1> QED BY <1>2, <1>3, <1>4 DEF ReturnsCached, Answers, Calling, Matches

LEMMA OpensGateRun ==
  ASSUME Types, NEW x \in Runs, OpensGate(x)
  PROVE  /\ run' \in [Runs -> Run] /\ Others(x)
         /\ run'[x].at = "running" /\ run'[x].pc = run[x].pc + 1
         /\ run'[x].index = run[x].index + 1
         /\ ~run'[x].replay /\ run'[x].asked = run[x].asked
         /\ run[x].replay /\ run[x].at = "running" /\ run[x].pc \in Calls
         /\ run[x].index \in 1..Len(run[x].journal)
         /\ run[x].journal[run[x].index] = Pending(run[x].pc)
         /\ Len(run'[x].journal) = Len(run[x].journal) + 1
         /\ run'[x].journal[run[x].index] = Done(run[x].pc)
         /\ run'[x].journal[Len(run[x].journal) + 1] = Done(run[x].pc)
         /\ \A i \in 1..Len(run[x].journal) :
              i # run[x].index => run'[x].journal[i] = run[x].journal[i]
<1> DEFINE q == run[x].journal
           r == [q EXCEPT ![run[x].index].st = "done"]
           u == [run[x] EXCEPT !.journal = Append(r, Done(run[x].pc)),
                               !.index = run[x].index + 1, !.pc = run[x].pc + 1,
                               !.replay = FALSE]
<1>1. /\ run[x].index \in 1..Len(q) /\ q[run[x].index].call = run[x].pc
      /\ q[run[x].index].st = "pending" /\ run[x].pc \in Calls
      /\ run[x].replay /\ run[x].at = "running"
  BY RunIs, ReplayAssumption
     DEF ReplayAssumption, OpensGate, Answers, Calling, Matches, Calls
<1>2. q[run[x].index] = Pending(run[x].pc)
  BY <1>1, RunIs, EntryIs DEF Pending
<1>3. Done(run[x].pc) \in Entry
  BY <1>1 DEF Entry, Done, Calls
<1>4. /\ r \in Seq(Entry) /\ Len(r) = Len(q) /\ r[run[x].index] = Done(run[x].pc)
      /\ \A j \in 1..Len(q) : j # run[x].index => r[j] = q[j]
  <2>1. q \in Seq(Entry) /\ run[x].index \in 1..Len(q)
    BY <1>1, RunIs
  <2> HIDE DEF q
  <2>2. \A z : z = [q EXCEPT ![run[x].index].st = "done"] =>
          /\ z \in Seq(Entry) /\ Len(z) = Len(q)
          /\ z[run[x].index] = Done(q[run[x].index].call)
          /\ \A j \in 1..Len(q) : j # run[x].index => z[j] = q[j]
    BY <2>1, EntryMarked
  <2> QED BY <2>2, <1>1
<1> HIDE DEF r
<1>5. /\ Append(r, Done(run[x].pc)) \in Seq(Entry)
      /\ Len(Append(r, Done(run[x].pc))) = Len(q) + 1
      /\ Append(r, Done(run[x].pc))[Len(q) + 1] = Done(run[x].pc)
      /\ \A i \in 1..Len(q) : Append(r, Done(run[x].pc))[i] = r[i]
  BY <1>3, <1>4, EntryAppended
<1>6. run' = [run EXCEPT ![x] = u]
  BY DEF OpensGate, r
<1>7. /\ u \in Run /\ u.at = "running" /\ u.pc = run[x].pc + 1
      /\ u.index = run[x].index + 1 /\ u.asked = run[x].asked /\ ~u.replay
      /\ u.journal = Append(r, Done(run[x].pc))
  <2>1. run[x].pc + 1 \in 1..(K + 1) /\ run[x].index + 1 \in Nat \ {0}
    BY CallAdvances DEF OpensGate, Answers, Calling
  <2> QED BY <1>1, <1>5, <2>1, RunIs DEF Run
<1>8. run' \in [Runs -> Run] /\ Others(x) /\ run'[x] = u
  BY <1>6, <1>7 DEF Types, Others
<1> QED BY <1>1, <1>2, <1>4, <1>5, <1>7, <1>8

\* The entry for a divergence comes before the entry of the call.
LEMMA NotedIs ==
  ASSUME Types, NEW x \in Runs, run[x].pc \in Calls
  PROVE  /\ Noted(x) \in Seq(Entry) /\ Len(Noted(x)) >= Len(run[x].journal)
         /\ \A i \in 1..Len(run[x].journal) : Noted(x)[i] = run[x].journal[i]
         /\ \/ Noted(x) = run[x].journal
            \/ /\ Len(Noted(x)) = Len(run[x].journal) + 1
               /\ Noted(x)[Len(Noted(x))].st = "diverged"
         /\ ~run[x].replay => Noted(x) = run[x].journal
<1> DEFINE e == [call |-> run[x].pc, st |-> "diverged"]
<1>1. e \in Entry /\ e.st = "diverged"
  BY DEF Entry, Calls
<1>2. run[x].journal \in Seq(Entry) /\ Len(run[x].journal) \in Nat
  BY RunIs
<1>3. Noted(x) \in {run[x].journal, Append(run[x].journal, e)}
  BY DEF Noted
<1> HIDE DEF e
<1>4. CASE Noted(x) = Append(run[x].journal, e) /\ run[x].replay
  BY <1>1, <1>2, <1>4, EntryAppended
<1>5. CASE Noted(x) = run[x].journal
  BY <1>2, <1>5
<1> QED BY <1>3, <1>4, <1>5 DEF Noted

\* A call that no entry answers is journaled, as pending or as done.
Entered(x, e) ==
  /\ run' \in [Runs -> Run] /\ Others(x)
  /\ run'[x].at = "running" /\ run'[x].pc = run[x].pc + 1
  /\ run'[x].index = run[x].index /\ ~run'[x].replay
  /\ run[x].at = "running" /\ run[x].pc \in Calls
  /\ Len(run'[x].journal) = Len(Noted(x)) + 1
  /\ run'[x].journal = Append(Noted(x), e)
  /\ run'[x].journal[Len(Noted(x)) + 1] = e
  /\ \A i \in 1..Len(Noted(x)) : run'[x].journal[i] = Noted(x)[i]

LEMMA AsksApprovalRun ==
  ASSUME Types, NEW x \in Runs, AsksApproval(x)
  PROVE  Entered(x, Pending(run[x].pc)) /\ run[x].pc \in gated
<1> DEFINE q == Append(Noted(x), Pending(run[x].pc))
           u == [run[x] EXCEPT !.journal = q, !.pc = run[x].pc + 1,
                               !.replay = FALSE, !.asked = TRUE]
<1>1. run[x].pc \in Calls /\ run[x].at = "running" /\ run[x].pc \in gated
  BY RunIs, ReplayAssumption
     DEF ReplayAssumption, AsksApproval, Records, Calling, Calls
<1>2. Pending(run[x].pc) \in Entry
  BY <1>1 DEF Entry, Pending, Calls
<1>3. /\ q \in Seq(Entry) /\ Len(q) = Len(Noted(x)) + 1
      /\ q[Len(Noted(x)) + 1] = Pending(run[x].pc)
      /\ \A i \in 1..Len(Noted(x)) : q[i] = Noted(x)[i]
  BY <1>1, <1>2, NotedIs, EntryAppended
<1>4. run' = [run EXCEPT ![x] = u]
  BY DEF AsksApproval
<1> HIDE DEF q
<1>5. /\ u \in Run /\ u.at = "running" /\ u.pc = run[x].pc + 1
      /\ u.index = run[x].index /\ ~u.replay /\ u.journal = q
  <2>1. run[x].pc + 1 \in 1..(K + 1)
    BY CallAdvances DEF AsksApproval, Records, Calling
  <2> QED BY <1>1, <1>3, <2>1, RunIs DEF Run
<1>6. run' \in [Runs -> Run] /\ Others(x) /\ run'[x] = u
  BY <1>4, <1>5 DEF Types, Others
<1> QED BY <1>1, <1>3, <1>5, <1>6 DEF Entered, q

LEMMA ExecutesRun ==
  ASSUME Types, NEW x \in Runs, Executes(x)
  PROVE  Entered(x, Done(run[x].pc)) /\ run'[x].asked = run[x].asked
<1> DEFINE q == Append(Noted(x), Done(run[x].pc))
           u == [run[x] EXCEPT !.journal = q, !.pc = run[x].pc + 1, !.replay = FALSE]
<1>1. run[x].pc \in Calls /\ run[x].at = "running"
  BY RunIs, ReplayAssumption DEF ReplayAssumption, Executes, Records, Calling, Calls
<1>2. Done(run[x].pc) \in Entry
  BY <1>1 DEF Entry, Done, Calls
<1>3. /\ q \in Seq(Entry) /\ Len(q) = Len(Noted(x)) + 1
      /\ q[Len(Noted(x)) + 1] = Done(run[x].pc)
      /\ \A i \in 1..Len(Noted(x)) : q[i] = Noted(x)[i]
  BY <1>1, <1>2, NotedIs, EntryAppended
<1>4. run' = [run EXCEPT ![x] = u]
  BY DEF Executes
<1> HIDE DEF q
<1>5. /\ u \in Run /\ u.at = "running" /\ u.pc = run[x].pc + 1
      /\ u.index = run[x].index /\ ~u.replay /\ u.journal = q /\ u.asked = run[x].asked
  <2>1. run[x].pc + 1 \in 1..(K + 1)
    BY CallAdvances DEF Executes, Records, Calling
  <2> QED BY <1>1, <1>3, <2>1, RunIs DEF Run
<1>6. run' \in [Runs -> Run] /\ Others(x) /\ run'[x] = u
  BY <1>4, <1>5 DEF Types, Others
<1> QED BY <1>1, <1>3, <1>5, <1>6 DEF Entered, q

\* A call that throws: the run is where the body takes it up again.
LEMMA GoesOnIs ==
  ASSUME Types, NEW x \in Runs, Calling(x), NEW to \in GoesOn(x)
  PROVE  /\ to \in 1..(K + 1) /\ to \in Nat /\ to >= run[x].pc
         /\ run[x].pc \in Calls /\ run[x].pc \in Nat /\ run[x].at = "running"
BY RunIs, ReplayAssumption DEF ReplayAssumption, GoesOn, Calling, Calls

LEMMA ThrowsAtGateRun ==
  ASSUME Types, NEW x \in Runs, ThrowsAtGate(x)
  PROVE  /\ run' \in [Runs -> Run] /\ Others(x)
         /\ run'[x].at = "running" /\ run'[x].journal = run[x].journal
         /\ run'[x].pc \in Nat /\ run'[x].pc >= run[x].pc
         /\ run'[x].index = run[x].index /\ run'[x].replay = run[x].replay
         /\ run'[x].asked = run[x].asked
         /\ run[x].replay /\ run[x].at = "running" /\ run[x].pc \in Calls
         /\ run[x].index \in 1..Len(run[x].journal)
         /\ run[x].journal[run[x].index] = Pending(run[x].pc)
<1>1. /\ Calling(x) /\ run[x].replay /\ Matches(x)
      /\ run[x].journal[run[x].index].st = "pending"
  BY DEF ThrowsAtGate, Answers
<1>2. PICK to \in GoesOn(x) : run' = [run EXCEPT ![x].pc = to]
  BY DEF ThrowsAtGate
<1>3. /\ to \in 1..(K + 1) /\ to \in Nat /\ to >= run[x].pc
      /\ run[x].pc \in Calls /\ run[x].at = "running"
  BY <1>1, GoesOnIs
<1> DEFINE u == [run[x] EXCEPT !.pc = to]
<1>4. /\ u \in Run /\ u.at = run[x].at /\ u.journal = run[x].journal /\ u.pc = to
      /\ u.index = run[x].index /\ u.replay = run[x].replay /\ u.asked = run[x].asked
  BY <1>3, RunIs DEF Run
<1>5. run' \in [Runs -> Run] /\ Others(x) /\ run'[x] = u
  BY <1>2, <1>4 DEF Types, Others
<1>6. run[x].index \in 1..Len(run[x].journal)
  BY <1>1, RunIs DEF Matches
<1>7. run[x].journal[run[x].index] = Pending(run[x].pc)
  BY <1>1, <1>6, RunIs, EntryIs DEF Matches, Pending
<1> QED BY <1>1, <1>3, <1>4, <1>5, <1>6, <1>7

LEMMA ThrowsExecutingRun ==
  ASSUME Types, NEW x \in Runs, ThrowsExecuting(x)
  PROVE  /\ run' \in [Runs -> Run] /\ Others(x)
         /\ run'[x].at = "running" /\ run'[x].journal = Noted(x)
         /\ run'[x].pc \in Nat /\ run'[x].pc >= run[x].pc
         /\ ~run'[x].replay /\ run'[x].asked = run[x].asked
         /\ run[x].at = "running" /\ run[x].pc \in Calls
         /\ gaps' = IF x = 0 /\ run'[x].pc # run[x].pc THEN gaps \union {run[x].pc} ELSE gaps
<1>1. Calling(x)
  BY DEF ThrowsExecuting, Records
<1>2. PICK to \in GoesOn(x) :
        /\ run' = [run EXCEPT ![x].journal = Noted(x), ![x].pc = to, ![x].replay = FALSE]
        /\ gaps' = IF x = 0 /\ to # run[x].pc THEN gaps \union {run[x].pc} ELSE gaps
  BY DEF ThrowsExecuting
<1>3. /\ to \in 1..(K + 1) /\ to \in Nat /\ to >= run[x].pc
      /\ run[x].pc \in Calls /\ run[x].at = "running"
  BY <1>1, GoesOnIs
<1>4. Noted(x) \in Seq(Entry)
  BY <1>3, NotedIs
<1> DEFINE u == [run[x] EXCEPT !.journal = Noted(x), !.pc = to, !.replay = FALSE]
<1>5. /\ u \in Run /\ u.at = run[x].at /\ u.journal = Noted(x) /\ u.pc = to
      /\ ~u.replay /\ u.asked = run[x].asked
  BY <1>3, <1>4, RunIs DEF Run
<1>6. run' \in [Runs -> Run] /\ Others(x) /\ run'[x] = u
  BY <1>2, <1>5 DEF Types, Others
<1> QED BY <1>2, <1>3, <1>5, <1>6

(* What the steps do to the approvals *)

LEMMA ApprovalIs ==
  ASSUME Types, NEW a \in 1..Len(approvals)
  PROVE  /\ approvals[a] \in Approval /\ approvals[a].call \in 0..K
         /\ approvals[a].journal \in Seq(Entry) /\ Len(approvals[a].journal) \in Nat
         /\ approvals[a].grants \in 0..MaxGrants /\ approvals[a].grants \in Nat
         /\ a \in Runs \ {0} /\ Len(approvals) \in Nat
         /\ DOMAIN approvals = 1..Len(approvals)
<1>1. approvals[a] \in Approval /\ Len(approvals) \in Nat /\ Len(approvals) <= MaxApprovals
  BY DEF Types
<1>2. a \in Runs \ {0} /\ DOMAIN approvals = 1..Len(approvals)
  BY <1>1, ReplayAssumption DEF ReplayAssumption, Runs, Types
<1>3. /\ approvals[a].call \in 0..K /\ approvals[a].journal \in Seq(Entry)
      /\ approvals[a].grants \in 0..MaxGrants
  BY <1>1 DEF Approval
<1> QED BY <1>1, <1>2, <1>3, ReplayAssumption DEF ReplayAssumption

\* Only the state of approval a changes.
Changes(a) ==
  /\ approvals' \in Seq(Approval) /\ Len(approvals') = Len(approvals)
  /\ \A b \in 1..Len(approvals) : b # a => approvals'[b] = approvals[b]
  /\ approvals'[a].call = approvals[a].call
  /\ approvals'[a].journal = approvals[a].journal

LEMMA ApprovalChanges ==
  ASSUME Types, NEW a \in 1..Len(approvals), NEW p \in Approval,
         approvals' = [approvals EXCEPT ![a] = p],
         p.call = approvals[a].call, p.journal = approvals[a].journal
  PROVE  Changes(a) /\ approvals'[a] = p
<1>1. approvals \in [1..Len(approvals) -> Approval] /\ Len(approvals) \in Nat
  BY DEF Types
<1>2. /\ approvals' \in [1..Len(approvals) -> Approval] /\ approvals'[a] = p
      /\ \A b \in 1..Len(approvals) : b # a => approvals'[b] = approvals[b]
  BY <1>1
<1>3. approvals' \in Seq(Approval) /\ Len(approvals') = Len(approvals)
  BY <1>1, <1>2, SeqDef
<1> QED BY <1>2, <1>3 DEF Changes

LEMMA GrantIs ==
  ASSUME Types, NEW a \in 1..Len(approvals), Grant(a), approvals[a].grants < MaxGrants
  PROVE  /\ Changes(a) /\ approvals'[a].status = "approved"
         /\ approvals'[a].exec = "queued"
         /\ approvals'[a].grants = approvals[a].grants + 1
<1> DEFINE p == [approvals[a] EXCEPT !.status = "approved", !.exec = "queued",
                                     !.grants = approvals[a].grants + 1, !.called = TRUE]
<1>1. approvals[a] \in Approval /\ approvals[a].grants + 1 \in 0..MaxGrants
  BY ApprovalIs, ReplayAssumption DEF ReplayAssumption
<1>2. /\ p \in Approval /\ p.call = approvals[a].call /\ p.journal = approvals[a].journal
      /\ p.status = "approved" /\ p.exec = "queued" /\ p.grants = approvals[a].grants + 1
  BY <1>1 DEF Approval
<1>3. approvals' = [approvals EXCEPT ![a] = p]
  BY DEF Grant
<1> HIDE DEF p
<1> QED BY <1>2, <1>3, ApprovalChanges

LEMMA RejectIs ==
  ASSUME Types, NEW a \in 1..Len(approvals), Reject(a)
  PROVE  /\ Changes(a) /\ approvals'[a].status = "rejected"
         /\ approvals'[a].exec = approvals[a].exec /\ approvals'[a].grants = approvals[a].grants
<1> DEFINE p == [approvals[a] EXCEPT !.status = "rejected"]
<1>1. approvals[a] \in Approval
  BY ApprovalIs
<1>2. /\ p \in Approval /\ p.call = approvals[a].call /\ p.journal = approvals[a].journal
      /\ p.status = "rejected" /\ p.exec = approvals[a].exec /\ p.grants = approvals[a].grants
  BY <1>1 DEF Approval
<1>3. approvals' = [approvals EXCEPT ![a] = p]
  BY DEF Reject
<1> HIDE DEF p
<1> QED BY <1>2, <1>3, ApprovalChanges

LEMMA ExecChangeIs ==
  ASSUME Types, NEW a \in 1..Len(approvals),
         NEW e \in {"idle", "queued", "running", "succeeded", "failed"},
         approvals' = [approvals EXCEPT ![a].exec = e]
  PROVE  /\ Changes(a) /\ approvals'[a].status = approvals[a].status
         /\ approvals'[a].exec = e /\ approvals'[a].grants = approvals[a].grants
<1> DEFINE p == [approvals[a] EXCEPT !.exec = e]
<1>1. approvals[a] \in Approval
  BY ApprovalIs
<1>2. /\ p \in Approval /\ p.call = approvals[a].call /\ p.journal = approvals[a].journal
      /\ p.status = approvals[a].status /\ p.exec = e /\ p.grants = approvals[a].grants
  BY <1>1 DEF Approval
<1>3. approvals' = [approvals EXCEPT ![a] = p]
  OBVIOUS
<1> HIDE DEF p
<1> QED BY <1>2, <1>3, ApprovalChanges

LEMMA ClaimIs ==
  ASSUME Types, NEW a \in 1..Len(approvals), Claim(a)
  PROVE  /\ Changes(a) /\ approvals'[a].status = approvals[a].status
         /\ approvals'[a].exec = "running" /\ approvals'[a].grants = approvals[a].grants
<1> DEFINE p == [approvals[a] EXCEPT !.exec = "running", !.called = FALSE]
<1>1. approvals[a] \in Approval
  BY ApprovalIs
<1>2. /\ p \in Approval /\ p.call = approvals[a].call /\ p.journal = approvals[a].journal
      /\ p.status = approvals[a].status /\ p.exec = "running" /\ p.grants = approvals[a].grants
  BY <1>1 DEF Approval
<1>3. approvals' = [approvals EXCEPT ![a] = p]
  BY DEF Claim
<1> HIDE DEF p
<1> QED BY <1>2, <1>3, ApprovalChanges

LEMMA NoRunIs == NoRun \in Run /\ [NoRun EXCEPT !.at = "continuing"] \in Run
<1>1. 1 \in 1..(K + 1) /\ 1 \in Nat \ {0} /\ <<>> \in Seq(Entry)
  BY ReplayAssumption DEF ReplayAssumption
<1>2. NoRun \in Run
  BY <1>1 DEF NoRun, Run
<1> QED BY <1>2 DEF Run

Resumed(a) == approvals[a].journal[1] = Pending(0)
LEMMA ClaimRun ==
  ASSUME Types, NEW a \in 1..Len(approvals), Claim(a)
  PROVE  /\ run' \in [Runs -> Run] /\ Others(a)
         /\ run'[a].at = "running" /\ run'[a].pc = 1
         /\ run'[a].journal = approvals[a].journal
         /\ run'[a].index = IF Resumed(a) THEN 2 ELSE 1
         /\ run'[a].replay = ~Resumed(a) /\ ~run'[a].asked
<1> DEFINE u == [NoRun EXCEPT !.at = "running", !.replay = ~Resumed(a),
                   !.journal = approvals[a].journal,
                   !.index = IF Resumed(a) THEN 2 ELSE 1]
<1>1. run' = [run EXCEPT ![a] = u]
  BY DEF Claim, Resumed
<1>2. /\ 1 \in 1..(K + 1) /\ approvals[a].journal \in Seq(Entry) /\ a \in Runs
      /\ 1 \in Nat \ {0} /\ 2 \in Nat \ {0}
  BY ApprovalIs, ReplayAssumption DEF ReplayAssumption
<1>3. /\ u.at = "running" /\ u.pc = 1 /\ u.journal = approvals[a].journal
      /\ u.index = IF Resumed(a) THEN 2 ELSE 1
      /\ u.replay = ~Resumed(a) /\ ~u.asked
  BY DEF NoRun
<1>4. u \in Run
  <2>1. CASE Resumed(a)
    BY <1>2, <2>1, NoRunIs DEF Run
  <2>2. CASE ~Resumed(a)
    BY <1>2, <2>2, NoRunIs DEF Run
  <2> QED BY <2>1, <2>2
<1> HIDE DEF u
<1>5. run' \in [Runs -> Run] /\ Others(a) /\ run'[a] = u
  BY <1>1, <1>2, <1>4 DEF Types, Others
<1> QED BY <1>3, <1>5

\* A run that ends, or that goes on to its continuation, keeps nothing.
LEMMA RunEnds ==
  ASSUME Types, NEW x \in Runs, NEW s \in {"none", "continuing"},
         run' = [run EXCEPT ![x] = [NoRun EXCEPT !.at = s]]
  PROVE  /\ run' \in [Runs -> Run] /\ Others(x) /\ run'[x] = [NoRun EXCEPT !.at = s]
         /\ run'[x].at = s /\ run'[x].pc = 1 /\ run'[x].journal = <<>>
         /\ ~run'[x].replay /\ ~run'[x].asked
<1>1. NoRun = [NoRun EXCEPT !.at = "none"]
  BY DEF NoRun
<1>2. [NoRun EXCEPT !.at = s] \in Run
  BY NoRunIs, <1>1
<1>3. run' \in [Runs -> Run] /\ Others(x) /\ run'[x] = [NoRun EXCEPT !.at = s]
  BY <1>2 DEF Types, Others
<1> QED BY <1>3 DEF NoRun

LEMMA EndsRun ==
  ASSUME Types, NEW x \in Runs, Ends(x)
  PROVE  run' = [run EXCEPT ![x] = [NoRun EXCEPT !.at = IF x = 0 THEN "none" ELSE "continuing"]]
<1>1. NoRun = [NoRun EXCEPT !.at = "none"]
  BY DEF NoRun
<1> QED BY <1>1 DEF Ends

\* An approval is asked for: it joins the table with a copy of the journal.
LEMMA AskIs ==
  ASSUME Types, NEW c \in 0..K, NEW q \in Seq(Entry), Ask(c, q)
  PROVE  LET n == Len(approvals) + 1 IN
         /\ approvals' \in Seq(Approval) /\ Len(approvals') = n /\ n <= MaxApprovals
         /\ \A b \in 1..Len(approvals) : approvals'[b] = approvals[b]
         /\ approvals'[n].call = c /\ approvals'[n].journal = Append(q, Pending(c))
         /\ approvals'[n].status = "pending" /\ approvals'[n].exec = "idle"
         /\ approvals'[n].grants = 0
<1> DEFINE p == [call |-> c, journal |-> Append(q, Pending(c)), status |-> "pending",
                 exec |-> "idle", grants |-> 0, called |-> FALSE]
<1>1. Append(q, Pending(c)) \in Seq(Entry)
  BY EntryAppended DEF Entry, Pending
<1>2. 0 \in 0..MaxGrants
  BY ReplayAssumption DEF ReplayAssumption
<1>3. p \in Approval
  BY <1>1, <1>2 DEF Approval
<1>4. approvals' = Append(approvals, p) /\ Len(approvals) < MaxApprovals
  BY DEF Ask
<1> HIDE DEF p
<1>5. approvals \in Seq(Approval) /\ Len(approvals) \in Nat
  BY DEF Types
<1>6. /\ approvals' \in Seq(Approval) /\ Len(approvals') = Len(approvals) + 1
      /\ approvals'[Len(approvals) + 1] = p
      /\ \A b \in 1..Len(approvals) : approvals'[b] = approvals[b]
  BY <1>3, <1>4, <1>5
<1> QED BY <1>4, <1>5, <1>6, ReplayAssumption DEF p, ReplayAssumption

(* Types *)

LEMMA NatSets == 0 \in Runs /\ Runs \subseteq Nat /\ 0 \in 0..K /\ Calls \subseteq 0..K
BY ReplayAssumption DEF ReplayAssumption, Runs, Calls

LEMMA RunsOfApprovals ==
  ASSUME Types, FlowInv, NEW x \in Runs \ {0}, run[x].at # "none"
  PROVE  x \in 1..Len(approvals) /\ approvals[x].exec = "running"
BY DEF FlowInv, RunFlow

\* Run x is let through to call c, and the call does not throw.
LEMMA TriedGrows ==
  ASSUME Types, NEW x \in Runs, NEW c \in 0..K, LetsThrough(x, c)
  PROVE  /\ tried' \in [Runs -> SUBSET (0..K)] /\ tried'[x] = tried[x] \union {c}
         /\ \A y \in Runs : y # x => tried'[y] = tried[y]
BY DEF Types, LetsThrough

LEMMA OpenedGrows ==
  ASSUME Types, NEW x \in Runs, opened' = [opened EXCEPT ![x] = @ + 1]
  PROVE  /\ opened' \in [Runs -> Nat] /\ opened'[x] = opened[x] + 1
         /\ \A y \in Runs : y # x => opened'[y] = opened[y]
BY DEF Types

LEMMA ReplayedGrows ==
  ASSUME Types, NEW x \in Runs, run[x].pc \in Calls, NotesReplayed(x)
  PROVE  /\ replayed' \subseteq Calls /\ replayed \subseteq replayed'
         /\ x = 0 => replayed' = replayed
         /\ replayed' \subseteq replayed \union {run[x].pc}
BY DEF Types, NotesReplayed

LEMMA CrashIs ==
  ASSUME Types, Crash
  PROVE  /\ approvals' \in Seq(Approval) /\ Len(approvals') = Len(approvals)
         /\ \A a \in 1..Len(approvals) :
              /\ approvals'[a].call = approvals[a].call
              /\ approvals'[a].journal = approvals[a].journal
              /\ approvals'[a].status = approvals[a].status
              /\ approvals'[a].exec = approvals[a].exec
              /\ approvals'[a].grants = approvals[a].grants
         /\ run' \in [Runs -> Run] /\ \A x \in Runs : run'[x] = NoRun
<1>1. approvals \in [1..Len(approvals) -> Approval] /\ Len(approvals) \in Nat
      /\ DOMAIN approvals = 1..Len(approvals)
  BY DEF Types
<1>2. \A a \in 1..Len(approvals) : [approvals[a] EXCEPT !.called = FALSE] \in Approval
  BY <1>1 DEF Approval
<1>3. /\ approvals' \in [1..Len(approvals) -> Approval]
      /\ \A a \in 1..Len(approvals) :
           approvals'[a] = [approvals[a] EXCEPT !.called = FALSE]
  BY <1>1, <1>2 DEF Crash
<1>4. approvals' \in Seq(Approval) /\ Len(approvals') = Len(approvals)
  BY <1>1, <1>3, SeqDef
<1>5. \A a \in 1..Len(approvals) :
        /\ approvals'[a].call = approvals[a].call
        /\ approvals'[a].journal = approvals[a].journal
        /\ approvals'[a].status = approvals[a].status
        /\ approvals'[a].exec = approvals[a].exec
        /\ approvals'[a].grants = approvals[a].grants
  BY <1>1, <1>3 DEF Approval
<1>6. run' \in [Runs -> Run] /\ \A x \in Runs : run'[x] = NoRun
  BY NoRunIs DEF Crash
<1> QED BY <1>4, <1>5, <1>6

LEMMA BeginRun ==
  ASSUME Types, Begin
  PROVE  /\ run' \in [Runs -> Run] /\ Others(0) /\ run'[0].at = "running"
         /\ run'[0].pc = run[0].pc /\ run'[0].journal = run[0].journal
         /\ run'[0].replay = run[0].replay /\ run'[0].asked = run[0].asked
         /\ run'[0].index = run[0].index
<1> DEFINE u == [run[0] EXCEPT !.at = "running"]
<1>1. /\ u \in Run /\ u.at = "running" /\ u.pc = run[0].pc /\ u.journal = run[0].journal
      /\ u.replay = run[0].replay /\ u.asked = run[0].asked /\ u.index = run[0].index
  BY NatSets, RunIs DEF Run
<1>2. run' \in [Runs -> Run] /\ Others(0) /\ run'[0] = u
  BY <1>1, NatSets DEF Begin, Types, Others
<1> QED BY <1>1, <1>2

LEMMA TypesStep == Types /\ FlowInv /\ [Next]_vars => Types'
<1> SUFFICES ASSUME Types, FlowInv, [Next]_vars PROVE Types'
  OBVIOUS
<1>1. CASE Begin
  BY <1>1, BeginRun DEF Begin, history, Types
<1>2. CASE RootAsksApproval
  <2>1. approvals' \in Seq(Approval) /\ Len(approvals') <= MaxApprovals
    <3>1. Ask(0, <<>>) /\ <<>> \in Seq(Entry) /\ 0 \in 0..K
      BY <1>2, NatSets DEF RootAsksApproval
    <3> QED BY <3>1, AskIs
  <2> QED BY <1>2, <2>1 DEF RootAsksApproval, history, Types
<1>3. CASE Crash
  BY <1>3, CrashIs DEF Crash, history, Types
<1>4. CASE Restart
  BY <1>4 DEF Restart, history, Types
<1>5. ASSUME NEW x \in Runs, ReturnsCached(x) PROVE Types'
  BY <1>5, ReturnsCachedRun DEF ReturnsCached, history, Types
<1>6. ASSUME NEW x \in Runs, OpensGate(x) PROVE Types'
  <2>1. run' \in [Runs -> Run] /\ run[x].pc \in 0..K
    BY <1>6, OpensGateRun, NatSets
  <2>2. tried' \in [Runs -> SUBSET (0..K)] /\ opened' \in [Runs -> Nat]
    BY <1>6, <2>1, TriedGrows, OpenedGrows DEF OpensGate
  <2> QED BY <1>6, <2>1, <2>2 DEF OpensGate, Types
<1>7. ASSUME NEW x \in Runs, AsksApproval(x) PROVE Types'
  <2>1. run' \in [Runs -> Run] /\ run[x].pc \in Calls
    BY <1>7, AsksApprovalRun DEF Entered
  <2>2. approvals' \in Seq(Approval) /\ Len(approvals') <= MaxApprovals
    BY <1>7, <2>1, NatSets, NotedIs, AskIs DEF AsksApproval
  <2> QED BY <1>7, <2>1, <2>2 DEF AsksApproval, history, Types
<1>8. ASSUME NEW x \in Runs, Executes(x) PROVE Types'
  <2>1. run' \in [Runs -> Run] /\ run[x].pc \in Calls
    BY <1>8, ExecutesRun DEF Entered
  <2>2. replayed' \subseteq Calls
    BY <1>8, <2>1, ReplayedGrows DEF Executes
  <2> QED BY <1>8, <2>1, <2>2 DEF Executes, Types
<1>9. ASSUME NEW x \in Runs, Ends(x) PROVE Types'
  <2>1. run' \in [Runs -> Run]
    BY <1>9, EndsRun, RunEnds
  <2> QED BY <1>9, <2>1 DEF Ends, history, Types
<1>10. ASSUME NEW x \in Runs, Dies(x) PROVE Types'
  <2>1. run' \in [Runs -> Run]
    BY <1>10, NoRunIs DEF Dies, Types
  <2>2. approvals' \in Seq(Approval) /\ Len(approvals') <= MaxApprovals
    <3>1. CASE x = 0
      BY <1>10, <3>1 DEF Dies, Types
    <3>2. CASE x # 0
      BY <1>10, <3>2, RunsOfApprovals, ExecChangeIs DEF Dies, Changes, Types
    <3> QED BY <3>1, <3>2
  <2>3. row' \in {"none", "running", "pending_approval", "ended"}
    BY <1>10 DEF Dies, Types
  <2> QED BY <1>10, <2>1, <2>2, <2>3 DEF Dies, history, Types
<1>11. ASSUME NEW a \in DOMAIN approvals,
              Approve(a) \/ Reject(a) \/ Retry(a) \/ Claim(a) \/ Continues(a)
       PROVE  Types'
  <2>1. a \in 1..Len(approvals) /\ a \in Runs \ {0} /\ Len(approvals) <= MaxApprovals
    BY ApprovalIs DEF Types
  <2>2. CASE Approve(a)
    <3>1. approvals[a].grants < MaxGrants
      BY <2>1, <2>2, ReplayAssumption DEF ReplayAssumption, Approve, FlowInv, ApprovalFlow
    <3> QED BY <2>1, <2>2, <3>1, GrantIs DEF Approve, history, Changes, Types
  <2>3. CASE Reject(a)
    BY <2>1, <2>3, RejectIs DEF Reject, history, Changes, Types
  <2>4. CASE Retry(a)
    BY <2>1, <2>4, GrantIs DEF Retry, history, Changes, Types
  <2>5. CASE Claim(a)
    <3>1. tried' \in [Runs -> SUBSET (0..K)] /\ opened' \in [Runs -> Nat]
      <4>1. CASE Resumed(a)
        BY <2>1, <2>5, <4>1, NatSets, TriedGrows, OpenedGrows DEF Claim, Resumed
      <4>2. CASE ~Resumed(a)
        BY <2>5, <4>2 DEF Claim, Resumed, Types
      <4> QED BY <4>1, <4>2
    <3> QED BY <2>1, <2>5, <3>1, ClaimIs, ClaimRun DEF Claim, Changes, Types
  <2>6. CASE Continues(a)
    <3>1. run' \in [Runs -> Run]
      BY <2>1, <2>6, NoRunIs DEF Continues, Types
    <3>2. approvals' \in Seq(Approval) /\ Len(approvals') <= MaxApprovals
      BY <2>1, <2>6, ExecChangeIs DEF Continues, Changes, Types
    <3> QED BY <2>6, <3>1, <3>2 DEF Continues, history, Types
  <2> QED BY <1>11, <2>2, <2>3, <2>4, <2>5, <2>6
<1>12. CASE UNCHANGED vars
  BY <1>12 DEF vars, history, Types
<1>13. ASSUME NEW x \in Runs, ThrowsAtGate(x) PROVE Types'
  <2>1. run' \in [Runs -> Run] /\ run[x].pc \in 0..K
    BY <1>13, ThrowsAtGateRun, NatSets
  <2>2. tried' \in [Runs -> SUBSET (0..K)]
    BY <1>13, <2>1, TriedGrows DEF ThrowsAtGate
  <2> QED BY <1>13, <2>1, <2>2 DEF ThrowsAtGate, Types
<1>14. ASSUME NEW x \in Runs, ThrowsExecuting(x) PROVE Types'
  <2>1. run' \in [Runs -> Run] /\ run[x].pc \in Calls /\ gaps' \subseteq Calls
    BY <1>14, ThrowsExecutingRun DEF Types
  <2>2. replayed' \subseteq Calls
    BY <1>14, <2>1, ReplayedGrows DEF ThrowsExecuting
  <2> QED BY <1>14, <2>1, <2>2 DEF ThrowsExecuting, Types
<1> QED
  BY <1>1, <1>2, <1>3, <1>4, <1>5, <1>6, <1>7, <1>8, <1>9, <1>10, <1>11, <1>12, <1>13, <1>14
  DEF Next

LEMMA TypeHolds == Types /\ FlowInv => TypeOK
<1> SUFFICES ASSUME Types, FlowInv PROVE TypeOK
  OBVIOUS
<1>1. ASSUME NEW x \in Runs PROVE RunOK(run[x])
  BY <1>1, RunIs DEF RunOK, FlowInv, RunFlow
<1>2. ASSUME NEW a \in DOMAIN approvals PROVE ApprovalOK(approvals[a])
  <2>1. approvals[a] \in Approval /\ a \in 1..Len(approvals)
    BY ApprovalIs DEF Types
  <2> QED BY <2>1 DEF Approval, ApprovalOK, FlowInv, ApprovalFlow
<1> QED BY <1>1, <1>2 DEF Types, TypeOK

(* The bookkeeping of runs and approvals *)

\* A step of run x, or of its approval, leaves the other runs as they were.
LEMMA FlowOfOthers ==
  ASSUME Types, FlowInv, Types', NEW x \in Runs, Others(x),
         Len(approvals') >= Len(approvals),
         \A b \in 1..Len(approvals) : b # x =>
           approvals'[b].exec = approvals[b].exec /\ approvals'[b].journal = approvals[b].journal
  PROVE  \A y \in Runs : y # x => RunFlow(y)'
<1> SUFFICES ASSUME NEW y \in Runs, y # x PROVE RunFlow(y)'
  OBVIOUS
<1>1. /\ run'[y] = run[y] /\ RunFlow(y) /\ y \in Nat
      /\ Len(approvals) \in Nat /\ Len(approvals') \in Nat
  BY NatSets DEF Others, FlowInv, Types
<1>2. CASE y \in 1..Len(approvals)
  BY <1>1, <1>2 DEF RunFlow
<1>3. CASE y \notin 1..Len(approvals)
  BY <1>1, <1>3 DEF RunFlow
<1> QED BY <1>2, <1>3

LEMMA ApprovalsFlow ==
  ASSUME Types, FlowInv, NEW a \in 1..Len(approvals), Changes(a),
         approvals'[a].status # "pending" \/ /\ approvals'[a].exec = approvals[a].exec
                                             /\ approvals'[a].grants = approvals[a].grants
                                             /\ approvals'[a].status = approvals[a].status
  PROVE  \A b \in 1..Len(approvals') : ApprovalFlow(approvals'[b])
BY DEF Changes, FlowInv, ApprovalFlow

LEMMA AskedFlow ==
  ASSUME Types, FlowInv, NEW c \in 0..K, NEW q \in Seq(Entry), Ask(c, q)
  PROVE  \A b \in 1..Len(approvals') : ApprovalFlow(approvals'[b])
<1> DEFINE n == Len(approvals) + 1
<1>1. /\ Len(approvals') = n /\ Len(approvals) \in Nat
      /\ \A b \in 1..Len(approvals) : approvals'[b] = approvals[b]
      /\ approvals'[n].call = c /\ approvals'[n].journal = Append(q, Pending(c))
      /\ approvals'[n].status = "pending" /\ approvals'[n].exec = "idle"
      /\ approvals'[n].grants = 0
  BY AskIs DEF Types
<1>2. Pending(c) \in Entry
  BY DEF Pending, Entry
<1>3. /\ Append(q, Pending(c)) # <<>> /\ Len(Append(q, Pending(c))) = Len(q) + 1
      /\ Append(q, Pending(c))[Len(q) + 1] = Pending(c)
  BY <1>2, EntryAppended
<1>4. ApprovalFlow(approvals'[n])
  BY <1>1, <1>3 DEF ApprovalFlow
<1> QED BY <1>1, <1>4 DEF FlowInv

LEMMA AllRunsFlow ==
  ASSUME NEW x \in Runs, RunFlow(x)', \A y \in Runs : y # x => RunFlow(y)'
  PROVE  \A y \in Runs : RunFlow(y)'
BY Zenon

LEMMA FlowStep == Types /\ FlowInv /\ [Next]_vars => FlowInv'
<1> SUFFICES ASSUME Types, FlowInv, [Next]_vars PROVE FlowInv'
  OBVIOUS
<1>0. Types' /\ Len(approvals) \in Nat
  BY TypesStep DEF Types
<1>1. CASE Begin
  <2>1. approvals' = approvals /\ row' # "none" /\ approvals = <<>>
    BY <1>1 DEF Begin, FlowInv
  <2>2. RunFlow(0)'
    BY <1>1, BeginRun, NatSets DEF FlowInv, RunFlow
  <2>3. \A y \in Runs : RunFlow(y)'
    BY <1>0, <1>1, <2>1, <2>2, BeginRun, NatSets, FlowOfOthers, AllRunsFlow
  <2> QED BY <2>1, <2>3 DEF FlowInv
<1>2. CASE RootAsksApproval
  <2>1. Ask(0, <<>>) /\ <<>> \in Seq(Entry) /\ 0 \in 0..K /\ run' = run /\ row' # "none"
    BY <1>2, NatSets DEF RootAsksApproval
  <2>2. \A b \in 1..Len(approvals') : ApprovalFlow(approvals'[b])
    BY <2>1, AskedFlow
  <2>3. \A y \in Runs : RunFlow(y)'
    <3> SUFFICES ASSUME NEW y \in Runs PROVE RunFlow(y)'
      OBVIOUS
    <3>1. run[y].at = "none"
      BY <1>2 DEF RootAsksApproval, FlowInv
    <3>2. ~run[y].replay
      BY <3>1 DEF FlowInv, RunFlow
    <3> QED BY <2>1, <3>1, <3>2 DEF RunFlow
  <2> QED BY <2>1, <2>2, <2>3 DEF FlowInv
<1>3. CASE Crash
  <2>1. \A y \in Runs : RunFlow(y)'
    BY <1>3, CrashIs DEF RunFlow, NoRun
  <2>2. \A b \in 1..Len(approvals') : ApprovalFlow(approvals'[b])
    BY <1>3, CrashIs DEF ApprovalFlow, FlowInv
  <2> QED BY <1>3, <2>1, <2>2 DEF FlowInv, Crash
<1>4. CASE Restart
  BY <1>4 DEF Restart, FlowInv, RunFlow, ApprovalFlow
<1>5. ASSUME NEW x \in Runs, ReturnsCached(x) PROVE FlowInv'
  <2>1. approvals' = approvals /\ row' = row
    BY <1>5 DEF ReturnsCached
  <2>2. /\ RunFlow(x) /\ run[x].at = "running" /\ run[x].replay
        /\ run[x].journal[run[x].index].st = "done"
        /\ run'[x].at = "running" /\ run'[x].journal = run[x].journal
        /\ run'[x].index = run[x].index + 1 /\ run[x].index \in Nat
        /\ run'[x].replay = run[x].replay /\ run'[x].asked = run[x].asked
    BY <1>5, ReturnsCachedRun, RunIs DEF FlowInv
  <2>3. x \in 1..Len(approvals) /\ ApprovalFlow(approvals[x])
    BY <2>2, RunsOfApprovals DEF FlowInv, RunFlow
  <2>4. /\ run[x].journal[Len(run[x].journal)].st = "pending"
        /\ Len(run[x].journal) \in Nat
    BY <2>2, <2>3, RunIs DEF RunFlow, ApprovalFlow, Pending
  <2>5. run[x].index # Len(run[x].journal)
    BY <2>2, <2>4
  <2>6. RunFlow(x)'
    <3>1. \A i \in 1..(run'[x].index - 1) : i \in 1..(run[x].index - 1) \/ i = run[x].index
      BY <2>2
    <3>2. \A i \in 1..(run'[x].index - 1) : run'[x].journal[i].st = "done"
      BY <2>2, <3>1 DEF RunFlow
    <3> QED BY <2>1, <2>2, <2>4, <2>5, <3>2 DEF RunFlow
  <2>7. \A y \in Runs : RunFlow(y)'
    BY <1>0, <1>5, <2>1, <2>6, ReturnsCachedRun, FlowOfOthers, AllRunsFlow
  <2> QED BY <2>1, <2>2, <2>7 DEF FlowInv
<1>6. ASSUME NEW x \in Runs, OpensGate(x) PROVE FlowInv'
  <2>1. approvals' = approvals /\ row' = row
    BY <1>6 DEF OpensGate
  <2>2. RunFlow(x) /\ run[x].at = "running"
    BY <1>6, OpensGateRun DEF FlowInv
  <2>3. RunFlow(x)'
    BY <1>6, <2>1, <2>2, OpensGateRun DEF RunFlow
  <2>4. \A y \in Runs : RunFlow(y)'
    BY <1>0, <1>6, <2>1, <2>3, OpensGateRun, FlowOfOthers, AllRunsFlow
  <2> QED BY <2>1, <2>2, <2>4 DEF FlowInv
<1>7. ASSUME NEW x \in Runs, AsksApproval(x) PROVE FlowInv'
  <2>1. Entered(x, Pending(run[x].pc)) /\ run[x].pc \in Calls /\ row' = row
    BY <1>7, AsksApprovalRun DEF Entered, AsksApproval
  <2>2. Ask(run[x].pc, Noted(x)) /\ run[x].pc \in 0..K /\ Noted(x) \in Seq(Entry)
    BY <1>7, <2>1, NatSets, NotedIs DEF AsksApproval
  <2>3. /\ \A b \in 1..Len(approvals) : approvals'[b] = approvals[b]
        /\ Len(approvals') = Len(approvals) + 1
    BY <2>2, AskIs
  <2>4. RunFlow(x)'
    BY <1>0, <2>1, <2>3, NatSets DEF RunFlow, Entered, FlowInv
  <2>5. \A y \in Runs : RunFlow(y)'
    BY <1>0, <2>1, <2>3, <2>4, FlowOfOthers, AllRunsFlow DEF Entered
  <2>6. \A b \in 1..Len(approvals') : ApprovalFlow(approvals'[b])
    BY <2>2, AskedFlow
  <2> QED BY <2>1, <2>5, <2>6 DEF FlowInv, Entered
<1>8. ASSUME NEW x \in Runs, Executes(x) PROVE FlowInv'
  <2>1. Entered(x, Done(run[x].pc)) /\ approvals' = approvals /\ row' = row
    BY <1>8, ExecutesRun DEF Executes
  <2>2. RunFlow(x)'
    BY <2>1 DEF RunFlow, Entered, FlowInv
  <2>3. \A y \in Runs : RunFlow(y)'
    BY <1>0, <2>1, <2>2, FlowOfOthers, AllRunsFlow DEF Entered
  <2> QED BY <2>1, <2>3 DEF FlowInv, Entered
<1>9. ASSUME NEW x \in Runs, Ends(x) PROVE FlowInv'
  <2>1. approvals' = approvals /\ row' # "none" /\ run[x].at = "running"
    BY <1>9 DEF Ends
  <2>2. /\ Others(x) /\ ~run'[x].replay
        /\ run'[x].at = IF x = 0 THEN "none" ELSE "continuing"
    BY <1>9, EndsRun, RunEnds
  <2>3. RunFlow(x)'
    BY <2>1, <2>2 DEF RunFlow, FlowInv
  <2>4. \A y \in Runs : RunFlow(y)'
    BY <1>0, <2>1, <2>2, <2>3, FlowOfOthers, AllRunsFlow
  <2> QED BY <2>1, <2>4 DEF FlowInv
<1>10. ASSUME NEW x \in Runs, Dies(x) PROVE FlowInv'
  <2>1. row' # "none"
    BY <1>10 DEF Dies, FlowInv
  <2>2. Others(x) /\ run'[x] = NoRun
    BY <1>10 DEF Dies, Others, Types
  <2>3. RunFlow(x)'
    BY <2>2 DEF RunFlow, NoRun
  <2>4. CASE x = 0
    <3>1. approvals' = approvals
      BY <1>10, <2>4 DEF Dies
    <3> QED BY <1>0, <2>1, <2>2, <2>3, <3>1, FlowOfOthers, AllRunsFlow DEF FlowInv
  <2>5. CASE x # 0
    <3>1. x \in 1..Len(approvals) /\ approvals[x].exec = "running"
      BY <1>10, <2>5, RunsOfApprovals DEF Dies
    <3>2. /\ Changes(x) /\ approvals'[x].status = approvals[x].status
          /\ approvals'[x].exec = "failed" /\ approvals'[x].grants = approvals[x].grants
      BY <1>10, <2>5, <3>1, ExecChangeIs DEF Dies
    <3>3. approvals[x].status # "pending"
      BY <3>1 DEF FlowInv, ApprovalFlow
    <3>4. \A b \in 1..Len(approvals') : ApprovalFlow(approvals'[b])
      BY <3>1, <3>2, <3>3, ApprovalsFlow
    <3>5. \A y \in Runs : RunFlow(y)'
      BY <1>0, <2>2, <2>3, <3>2, FlowOfOthers, AllRunsFlow DEF Changes
    <3> QED BY <2>1, <3>4, <3>5 DEF FlowInv
  <2> QED BY <2>4, <2>5
<1>11. ASSUME NEW a \in DOMAIN approvals,
              Approve(a) \/ Reject(a) \/ Retry(a) \/ Claim(a) \/ Continues(a)
       PROVE  FlowInv'
  <2>1. /\ a \in 1..Len(approvals) /\ a \in Runs /\ a # 0 /\ row # "none"
        /\ ApprovalFlow(approvals[a]) /\ RunFlow(a)
    BY ApprovalIs DEF Types, FlowInv
  <2>2. ASSUME run' = run, row' = row, Changes(a), approvals'[a].status # "pending",
               run[a].at = "none"
        PROVE  FlowInv'
    <3>1. \A b \in 1..Len(approvals') : ApprovalFlow(approvals'[b])
      BY <2>1, <2>2, ApprovalsFlow
    <3>2. RunFlow(a)'
      BY <2>1, <2>2 DEF RunFlow
    <3>3. \A y \in Runs : RunFlow(y)'
      BY <1>0, <2>1, <2>2, <3>2, FlowOfOthers, AllRunsFlow DEF Others, Changes
    <3> QED BY <2>1, <2>2, <3>1, <3>3 DEF FlowInv
  <2>3. CASE Approve(a)
    <3>1. approvals[a].grants < MaxGrants /\ run[a].at = "none"
      BY <2>1, <2>3, ReplayAssumption DEF ReplayAssumption, Approve, ApprovalFlow, RunFlow
    <3> QED BY <2>1, <2>2, <2>3, <3>1, GrantIs DEF Approve
  <2>4. CASE Reject(a)
    BY <2>1, <2>2, <2>4, RejectIs DEF Reject, ApprovalFlow, RunFlow
  <2>5. CASE Retry(a)
    BY <2>1, <2>2, <2>5, GrantIs DEF Retry, RunFlow
  <2>6. CASE Claim(a)
    <3>1. row' # "none" /\ approvals[a].status = "approved"
      BY <2>6 DEF Claim
    <3>2. \A b \in 1..Len(approvals') : ApprovalFlow(approvals'[b])
      BY <2>1, <2>6, <3>1, ClaimIs, ApprovalsFlow
    <3>3. Len(approvals[a].journal) \in Nat \ {0}
      BY <2>1, ApprovalIs DEF ApprovalFlow
    <3>4. RunFlow(a)'
      <4>1. /\ approvals'[a].exec = "running" /\ approvals'[a].journal = approvals[a].journal
            /\ Len(approvals') = Len(approvals)
            /\ run'[a].at = "running" /\ run'[a].journal = approvals[a].journal
            /\ run'[a].replay = ~Resumed(a) /\ ~run'[a].asked
            /\ run'[a].index = IF Resumed(a) THEN 2 ELSE 1
        BY <2>1, <2>6, ClaimIs, ClaimRun DEF Changes
      <4>2. CASE Resumed(a)
        BY <2>1, <4>1, <4>2 DEF RunFlow
      <4>3. CASE ~Resumed(a)
        BY <2>1, <3>3, <4>1, <4>3 DEF RunFlow
      <4> QED BY <4>2, <4>3
    <3>5. \A y \in Runs : RunFlow(y)'
      BY <1>0, <2>1, <2>6, <3>4, ClaimIs, ClaimRun, FlowOfOthers, AllRunsFlow DEF Changes
    <3> QED BY <3>1, <3>2, <3>5 DEF FlowInv
  <2>7. CASE Continues(a)
    <3>1. Others(a) /\ run'[a] = NoRun /\ row' = row
      BY <2>1, <2>7 DEF Continues, Others, Types
    <3>2. approvals[a].status # "pending"
      BY <2>1, <2>7 DEF Continues, ApprovalFlow, RunFlow
    <3>3. PICK e \in {"succeeded", "failed"} : approvals' = [approvals EXCEPT ![a].exec = e]
      BY <2>7 DEF Continues
    <3>4. Changes(a) /\ approvals'[a].status = approvals[a].status
      BY <2>1, <3>3, ExecChangeIs
    <3>5. \A b \in 1..Len(approvals') : ApprovalFlow(approvals'[b])
      BY <2>1, <3>2, <3>4, ApprovalsFlow
    <3>6. RunFlow(a)'
      BY <3>1 DEF RunFlow, NoRun
    <3>7. \A y \in Runs : RunFlow(y)'
      BY <1>0, <2>1, <3>1, <3>4, <3>6, FlowOfOthers, AllRunsFlow DEF Changes
    <3> QED BY <2>1, <3>1, <3>5, <3>7 DEF FlowInv
  <2> QED BY <1>11, <2>3, <2>4, <2>5, <2>6, <2>7
<1>12. CASE UNCHANGED vars
  BY <1>12 DEF vars, FlowInv, RunFlow, ApprovalFlow
<1>13. ASSUME NEW x \in Runs, ThrowsAtGate(x) PROVE FlowInv'
  <2>1. approvals' = approvals /\ row' = row
    BY <1>13 DEF ThrowsAtGate
  <2>2. RunFlow(x) /\ RunFlow(x)'
    BY <1>13, <2>1, ThrowsAtGateRun DEF RunFlow, FlowInv
  <2>3. \A y \in Runs : RunFlow(y)'
    BY <1>0, <1>13, <2>1, <2>2, ThrowsAtGateRun, FlowOfOthers, AllRunsFlow
  <2> QED BY <1>13, <2>1, <2>3, ThrowsAtGateRun DEF FlowInv
<1>14. ASSUME NEW x \in Runs, ThrowsExecuting(x) PROVE FlowInv'
  <2>1. approvals' = approvals /\ row' = row
    BY <1>14 DEF ThrowsExecuting
  <2>2. RunFlow(x)'
    BY <1>14, <2>1, ThrowsExecutingRun DEF RunFlow, FlowInv
  <2>3. \A y \in Runs : RunFlow(y)'
    BY <1>0, <1>14, <2>1, <2>2, ThrowsExecutingRun, FlowOfOthers, AllRunsFlow
  <2> QED BY <1>14, <2>1, <2>3, ThrowsExecutingRun DEF FlowInv
<1> QED
  BY <1>1, <1>2, <1>3, <1>4, <1>5, <1>6, <1>7, <1>8, <1>9, <1>10, <1>11, <1>12, <1>13, <1>14
  DEF Next

(* One gate for each decision *)

LEMMA GrantsAreNat ==
  /\ Types => \A b \in 1..Len(approvals) : approvals[b].grants \in Nat
  /\ Types' => \A b \in 1..Len(approvals') : approvals'[b].grants \in Nat
<1>1. 0..MaxGrants \subseteq Nat
  BY ReplayAssumption DEF ReplayAssumption
<1>2. ASSUME Types, NEW b \in 1..Len(approvals) PROVE approvals[b].grants \in Nat
  <2>1. approvals[b] \in Approval
    BY <1>2 DEF Types
  <2> QED BY <1>1, <2>1 DEF Approval
<1>3. ASSUME Types', NEW b \in 1..Len(approvals') PROVE approvals'[b].grants \in Nat
  <2>1. approvals'[b] \in Approval
    BY <1>3 DEF Types
  <2> QED BY <1>1, <2>1 DEF Approval
<1> QED BY <1>2, <1>3

LEMMA OwedIs == ASSUME NEW a \in Runs PROVE Owed(a) \in {0, 1}
BY DEF Owed

\* What a run was let through to stays when nothing opens: a grant may be owed
\* only in exchange for another.
LEMMA NothingOpened ==
  ASSUME Types, GrantInv, Types', opened' = opened, tried' = tried,
         Len(approvals') >= Len(approvals),
         \A a \in 1..Len(approvals) :
           /\ approvals'[a].journal = approvals[a].journal
           /\ approvals'[a].grants >= approvals[a].grants
           /\ Owed(a)' + approvals[a].grants <= Owed(a) + approvals'[a].grants,
         \A a \in 1..Len(approvals') : a > Len(approvals) => Owed(a)' = 0
  PROVE  GrantInv'
<1>1. /\ tried'[0] = {} /\ Len(approvals) \in Nat /\ Len(approvals') \in Nat
      /\ Runs \subseteq Nat /\ 0 \in Runs
  BY NatSets DEF GrantInv, Types
<1> SUFFICES ASSUME NEW a \in Runs \ {0} PROVE GrantOf(a)'
  BY <1>1 DEF GrantInv
<1>2. GrantOf(a) /\ opened[a] \in Nat /\ a \in Nat
  BY <1>1 DEF GrantInv, Types
<1>3. CASE a \in 1..Len(approvals)
  <2>1. a \in 1..Len(approvals')
    BY <1>1, <1>3
  <2>2. /\ approvals[a].grants \in Nat /\ approvals'[a].grants \in Nat
        /\ Owed(a) \in Nat /\ Owed(a)' \in Nat
    BY <1>3, <2>1, GrantsAreNat DEF Owed
  <2>3. opened[a] + Owed(a) <= approvals[a].grants
    BY <1>2, <1>3 DEF GrantOf
  <2>4. opened'[a] + Owed(a)' <= approvals'[a].grants
    <3>1. Owed(a)' + approvals[a].grants <= Owed(a) + approvals'[a].grants
      BY <1>3
    <3>2. opened'[a] = opened[a] /\ opened[a] \in Nat
      BY <1>2
    <3>3. \A n, w, v, g, h \in Nat : n + w <= g /\ v + g <= w + h => n + v <= h
      OBVIOUS
    <3> QED BY <2>2, <2>3, <3>1, <3>2, <3>3
  <2>5. tried'[a] # {} => approvals'[a].grants >= 1
    BY <1>2, <1>3, <2>2 DEF GrantOf
  <2>6. \A c \in tried'[a] : IsGate(approvals'[a].journal, c)
    BY <1>2, <1>3 DEF GrantOf
  <2> QED BY <2>1, <2>4, <2>5, <2>6 DEF GrantOf, IsGate
<1>4. CASE a \notin 1..Len(approvals)
  <2>1. opened'[a] = 0 /\ tried'[a] = {}
    BY <1>2, <1>4 DEF GrantOf
  <2>2. a \in 1..Len(approvals') => Owed(a)' = 0 /\ approvals'[a].grants \in Nat
    <3> SUFFICES ASSUME a \in 1..Len(approvals')
                 PROVE  Owed(a)' = 0 /\ approvals'[a].grants \in Nat
      OBVIOUS
    <3>1. a > Len(approvals)
      BY <1>1, <1>2, <1>4
    <3> QED BY <3>1, GrantsAreNat
  <2> QED BY <2>1, <2>2 DEF GrantOf
<1> QED BY <1>3, <1>4

\* Run a is let through to call c, the gate of its journal; the call throws, and
\* the gate is still owed, or the grant is spent.
LEMMA OneOpened ==
  ASSUME Types, FlowInv, GrantInv, Types', NEW a \in 1..Len(approvals), NEW c \in 0..K,
         LetsThrough(a, c),
         \/ opened' = opened /\ Owed(a)' = 1
         \/ opened' = [opened EXCEPT ![a] = @ + 1] /\ Owed(a)' = 0,
         Others(a), Changes(a), approvals'[a].grants = approvals[a].grants,
         IsGate(approvals[a].journal, c), Owed(a) = 1
  PROVE  GrantInv'
<1>1. /\ a \in Runs \ {0} /\ Len(approvals') = Len(approvals) /\ Len(approvals) \in Nat
      /\ Runs \subseteq Nat /\ 0 \in Runs
  BY ApprovalIs, NatSets DEF Changes, Types
<1>2. /\ tried'[a] = tried[a] \union {c} /\ \A y \in Runs : y # a => tried'[y] = tried[y]
  BY <1>1, TriedGrows
<1>3. /\ opened'[a] + Owed(a)' = opened[a] + Owed(a) /\ opened[a] \in Nat
      /\ \A y \in Runs : y # a => opened'[y] = opened[y]
  <2>1. opened[a] \in Nat
    BY <1>1 DEF Types
  <2>2. CASE opened' = opened /\ Owed(a)' = 1
    BY <2>1, <2>2
  <2>3. CASE opened' = [opened EXCEPT ![a] = @ + 1] /\ Owed(a)' = 0
    <3>1. opened'[a] = opened[a] + 1 /\ \A y \in Runs : y # a => opened'[y] = opened[y]
      BY <1>1, <2>3, OpenedGrows
    <3> QED BY <2>1, <2>3, <3>1
  <2> QED BY <2>1, <2>2, <2>3
<1>4. GrantOf(a) /\ approvals[a].grants \in Nat
  BY <1>1, ApprovalIs DEF GrantInv
<1>5. GrantOf(a)'
  <2>1. opened[a] + Owed(a) <= approvals[a].grants /\ approvals[a].grants >= 1
    BY <1>3, <1>4 DEF GrantOf
  <2>2. \A d \in tried'[a] : IsGate(approvals[a].journal, d)
    BY <1>2, <1>4 DEF GrantOf
  <2> QED BY <1>1, <1>3, <2>1, <2>2 DEF GrantOf, Changes, IsGate
<1>6. ASSUME NEW b \in Runs \ {0}, b # a PROVE GrantOf(b)'
  <2>1. /\ opened'[b] = opened[b] /\ tried'[b] = tried[b] /\ run'[b] = run[b]
        /\ GrantOf(b)
    BY <1>2, <1>3, <1>6 DEF Others, GrantInv
  <2>2. b \in 1..Len(approvals) => approvals'[b] = approvals[b] /\ Owed(b)' = Owed(b)
    BY <1>6, <2>1 DEF Changes, Owed
  <2>3. CASE b \in 1..Len(approvals)
    <3>1. approvals'[b] = approvals[b] /\ Owed(b)' = Owed(b) /\ b \in 1..Len(approvals')
      BY <1>1, <2>2, <2>3
    <3> QED BY <2>1, <2>3, <3>1 DEF GrantOf, IsGate
  <2>4. CASE b \notin 1..Len(approvals)
    BY <1>1, <2>1, <2>4 DEF GrantOf
  <2> QED BY <2>3, <2>4
<1>7. tried'[0] = {}
  BY <1>1, <1>2 DEF GrantInv
<1> QED BY <1>5, <1>6, <1>7 DEF GrantInv

\* What run x, or the decision about it, may owe; the other runs are as before.
LEMMA OwedBy ==
  ASSUME Types, GrantInv, Types', NEW x \in Runs, Others(x),
         opened' = opened, tried' = tried,
         Len(approvals') = Len(approvals),
         \A b \in 1..Len(approvals) : b # x => approvals'[b] = approvals[b],
         x \in 1..Len(approvals) =>
           /\ approvals'[x].journal = approvals[x].journal
           /\ approvals'[x].grants >= approvals[x].grants
           /\ Owed(x)' + approvals[x].grants <= Owed(x) + approvals'[x].grants
  PROVE  GrantInv'
<1>1. Len(approvals) \in Nat /\ 1..Len(approvals) \subseteq Runs
  BY ApprovalIs DEF Types
<1>2. ASSUME NEW b \in 1..Len(approvals), b # x
      PROVE  /\ approvals'[b].journal = approvals[b].journal
             /\ approvals'[b].grants >= approvals[b].grants
             /\ Owed(b)' + approvals[b].grants <= Owed(b) + approvals'[b].grants
  <2>1. /\ Owed(b)' = Owed(b) /\ Owed(b) \in Nat /\ approvals[b].grants \in Nat
        /\ approvals'[b] = approvals[b]
    BY <1>1, <1>2, ApprovalIs DEF Others, Owed
  <2> QED BY <2>1
<1>3. \A b \in 1..Len(approvals') : ~(b > Len(approvals))
  BY <1>1
<1> QED BY <1>1, <1>2, <1>3, NothingOpened

\* The entry a replay is let through at is its gate.
LEMMA GateOfReplay ==
  ASSUME Types, FlowInv, NEW x \in Runs, run[x].replay, run[x].at = "running",
         run[x].index \in 1..Len(run[x].journal),
         run[x].journal[run[x].index] = Pending(run[x].pc)
  PROVE  /\ x # 0 /\ x \in 1..Len(approvals) /\ approvals[x].exec = "running"
         /\ run[x].journal = approvals[x].journal
         /\ IsGate(approvals[x].journal, run[x].pc) /\ Owed(x) = 1
<1>1. /\ x # 0 /\ run[x].journal = approvals[x].journal
      /\ \A i \in 1..(run[x].index - 1) : run[x].journal[i].st = "done"
  BY DEF FlowInv, RunFlow
<1>2. x \in 1..Len(approvals) /\ approvals[x].exec = "running"
  BY <1>1, RunsOfApprovals
<1> QED BY <1>1, <1>2 DEF IsGate, Owed

LEMMA GrantStep == Types /\ FlowInv /\ GrantInv /\ [Next]_vars => GrantInv'
<1> SUFFICES ASSUME Types, FlowInv, GrantInv, [Next]_vars PROVE GrantInv'
  OBVIOUS
<1>0. /\ Types' /\ FlowInv' /\ Len(approvals) \in Nat /\ Len(approvals) <= MaxApprovals
      /\ 1..Len(approvals) \subseteq Runs \ {0}
      /\ \A b \in 1..Len(approvals) : approvals[b].grants \in Nat
      /\ \A b \in 1..Len(approvals') : approvals'[b].grants \in Nat
  <2>1. Types' /\ FlowInv'
    BY TypesStep, FlowStep
  <2> QED BY <2>1, ApprovalIs, GrantsAreNat DEF Types
<1>1. CASE Begin
  BY <1>0, <1>1, BeginRun, NatSets, OwedBy DEF Begin, history
<1>2. CASE RootAsksApproval
  <2>1. Ask(0, <<>>) /\ <<>> \in Seq(Entry) /\ 0 \in 0..K /\ run' = run
        /\ opened' = opened /\ tried' = tried /\ approvals = <<>>
    BY <1>2, NatSets DEF RootAsksApproval, FlowInv, history
  <2>2. /\ Len(approvals') = 1 /\ approvals'[1].exec = "idle"
        /\ Len(approvals) = 0 /\ 1 \in Runs
    <3>1. Len(approvals) = 0 /\ 1 \in Runs
      BY <2>1, ReplayAssumption DEF ReplayAssumption, Runs
    <3>2. /\ Len(approvals') = Len(approvals) + 1
          /\ approvals'[Len(approvals) + 1].exec = "idle"
      BY <2>1, AskIs
    <3> QED BY <3>1, <3>2
  <2>3. ~run[1].replay
    BY <1>2, <2>2 DEF RootAsksApproval, FlowInv, RunFlow
  <2>4. Owed(1)' = 0
    BY <2>1, <2>2, <2>3 DEF Owed
  <2> QED BY <1>0, <2>1, <2>2, <2>4, NothingOpened
<1>3. CASE Crash
  <2>1. ASSUME NEW b \in 1..Len(approvals)
        PROVE  /\ approvals'[b].journal = approvals[b].journal
               /\ approvals'[b].grants >= approvals[b].grants
               /\ Owed(b)' + approvals[b].grants <= Owed(b) + approvals'[b].grants
    <3>1. /\ approvals'[b].exec = approvals[b].exec /\ ~run'[b].replay
          /\ approvals'[b].grants = approvals[b].grants
          /\ approvals'[b].journal = approvals[b].journal
      BY <1>0, <1>3, CrashIs DEF NoRun
    <3> QED BY <1>0, <3>1 DEF Owed
  <2>2. opened' = opened /\ tried' = tried /\ Len(approvals') = Len(approvals)
    BY <1>3, CrashIs DEF Crash, history
  <2>3. \A b \in 1..Len(approvals') : ~(b > Len(approvals))
    BY <1>0, <2>2
  <2> QED BY <1>0, <2>1, <2>2, <2>3, NothingOpened
<1>4. CASE Restart
  <2>1. Owed(0) \in Nat /\ run' = run /\ approvals' = approvals /\ opened' = opened
        /\ tried' = tried
    BY <1>4 DEF Restart, history, Owed
  <2> QED BY <1>0, <2>1, NatSets, OwedBy DEF Others, Owed
<1>5. ASSUME NEW x \in Runs, ReturnsCached(x) PROVE GrantInv'
  <2>1. /\ approvals' = approvals /\ opened' = opened /\ tried' = tried
        /\ Owed(x)' = Owed(x)
    BY <1>5, ReturnsCachedRun DEF ReturnsCached, Owed, history
  <2> QED BY <1>0, <1>5, <2>1, ReturnsCachedRun, OwedBy, OwedIs
<1>6. ASSUME NEW x \in Runs, OpensGate(x) PROVE GrantInv'
  <2>1. /\ Others(x) /\ run[x].replay /\ ~run'[x].replay /\ run[x].at = "running"
        /\ run[x].index \in 1..Len(run[x].journal) /\ run[x].pc \in 0..K
        /\ run[x].journal[run[x].index] = Pending(run[x].pc)
    BY <1>6, OpensGateRun, NatSets
  <2>2. /\ x \in 1..Len(approvals) /\ IsGate(approvals[x].journal, run[x].pc)
        /\ Owed(x) = 1 /\ approvals[x].exec = "running"
    BY <2>1, GateOfReplay
  <2>3. approvals' = approvals /\ Changes(x) /\ Owed(x)' = 0
    BY <1>6, <2>1, <2>2 DEF OpensGate, Changes, Owed, Types
  <2>4. LetsThrough(x, run[x].pc) /\ opened' = [opened EXCEPT ![x] = @ + 1]
    BY <1>6 DEF OpensGate
  <2> QED BY <1>0, <2>1, <2>2, <2>3, <2>4, OneOpened
<1>7. ASSUME NEW x \in Runs, AsksApproval(x) PROVE GrantInv'
  <2>1. /\ Entered(x, Pending(run[x].pc)) /\ run[x].pc \in Calls
        /\ opened' = opened /\ tried' = tried
    BY <1>7, AsksApprovalRun DEF Entered, AsksApproval, history
  <2>2. Ask(run[x].pc, Noted(x)) /\ run[x].pc \in 0..K /\ Noted(x) \in Seq(Entry)
    BY <1>7, <2>1, NatSets, NotedIs DEF AsksApproval
  <2>3. /\ \A b \in 1..Len(approvals) : approvals'[b] = approvals[b]
        /\ Len(approvals') = Len(approvals) + 1
        /\ approvals'[Len(approvals) + 1].exec = "idle"
    BY <2>2, AskIs
  <2>4. ASSUME NEW b \in 1..Len(approvals)
        PROVE  /\ approvals'[b].journal = approvals[b].journal
               /\ approvals'[b].grants >= approvals[b].grants
               /\ Owed(b)' + approvals[b].grants <= Owed(b) + approvals'[b].grants
    <3>1. run'[b].replay => run[b].replay
      BY <1>0, <2>1 DEF Entered, Others
    <3> QED BY <1>0, <2>3, <3>1 DEF Owed
  <2>5. ASSUME NEW b \in 1..Len(approvals'), b > Len(approvals) PROVE Owed(b)' = 0
    <3>1. b = Len(approvals) + 1 /\ b \in Runs /\ b # 0
      BY <1>0, <2>3, <2>5, ApprovalIs DEF Types, Runs
    <3>2. ~run[b].replay
      BY <1>0, <3>1, RunsOfApprovals DEF FlowInv, RunFlow
    <3>3. ~run'[b].replay
      BY <2>1, <3>1, <3>2 DEF Entered, Others
    <3> QED BY <2>3, <3>1, <3>3 DEF Owed
  <2> QED BY <1>0, <2>1, <2>3, <2>4, <2>5, NothingOpened
<1>8. ASSUME NEW x \in Runs, Executes(x) PROVE GrantInv'
  <2>1. /\ Entered(x, Done(run[x].pc)) /\ approvals' = approvals
        /\ opened' = opened /\ tried' = tried
    BY <1>8, ExecutesRun DEF Executes
  <2>2. x \in 1..Len(approvals) =>
          Owed(x)' + approvals[x].grants <= Owed(x) + approvals'[x].grants
    BY <1>0, <2>1 DEF Entered, Owed
  <2> QED BY <1>0, <2>1, <2>2, OwedBy DEF Entered
<1>9. ASSUME NEW x \in Runs, Ends(x) PROVE GrantInv'
  <2>1. /\ approvals' = approvals /\ opened' = opened /\ tried' = tried
        /\ Others(x) /\ ~run'[x].replay
    BY <1>9, EndsRun, RunEnds DEF Ends, history
  <2>2. x \in 1..Len(approvals) =>
          Owed(x)' + approvals[x].grants <= Owed(x) + approvals'[x].grants
    BY <1>0, <2>1 DEF Owed
  <2> QED BY <1>0, <2>1, <2>2, OwedBy
<1>10. ASSUME NEW x \in Runs, Dies(x) PROVE GrantInv'
  <2>1. /\ Others(x) /\ run'[x] = NoRun /\ ~run'[x].replay
        /\ opened' = opened /\ tried' = tried
    BY <1>10 DEF Dies, Others, Types, NoRun, history
  <2>2. CASE x = 0
    <3>1. approvals' = approvals /\ x \notin 1..Len(approvals)
      BY <1>0, <1>10, <2>2 DEF Dies
    <3> QED BY <1>0, <2>1, <3>1, OwedBy
  <2>3. CASE x # 0
    <3>1. x \in 1..Len(approvals)
      BY <1>10, <2>3, RunsOfApprovals DEF Dies
    <3>2. Changes(x) /\ approvals'[x].exec = "failed" /\ approvals'[x].grants = approvals[x].grants
      BY <1>10, <2>3, <3>1, ExecChangeIs DEF Dies
    <3>3. Owed(x)' + approvals[x].grants <= Owed(x) + approvals'[x].grants
      BY <1>0, <2>1, <3>1, <3>2 DEF Owed
    <3> QED BY <1>0, <2>1, <3>2, <3>3, OwedBy DEF Changes
  <2> QED BY <2>2, <2>3
<1>11. ASSUME NEW a \in DOMAIN approvals,
              Approve(a) \/ Reject(a) \/ Retry(a) \/ Claim(a) \/ Continues(a)
       PROVE  GrantInv'
  <2>1. /\ a \in 1..Len(approvals) /\ a \in Runs \ {0}
        /\ ApprovalFlow(approvals[a]) /\ RunFlow(a)
    BY ApprovalIs DEF Types, FlowInv
  <2>2. ASSUME opened' = opened, tried' = tried, Others(a), Changes(a),
               approvals'[a].grants >= approvals[a].grants,
               Owed(a)' + approvals[a].grants <= Owed(a) + approvals'[a].grants
        PROVE  GrantInv'
    BY <1>0, <2>1, <2>2, OwedBy DEF Changes
  <2>3. CASE Approve(a) \/ Retry(a)
    <3>1. approvals[a].grants < MaxGrants
      BY <2>1, <2>3, ReplayAssumption DEF ReplayAssumption, Approve, Retry, ApprovalFlow
    <3>2. Grant(a) /\ run' = run /\ opened' = opened /\ tried' = tried
      BY <2>3 DEF Approve, Retry, history
    <3>3. Changes(a) /\ approvals'[a].grants = approvals[a].grants + 1
      BY <2>1, <3>1, <3>2, GrantIs
    <3>4. Owed(a)' + approvals[a].grants <= Owed(a) + approvals'[a].grants
      BY <1>0, <2>1, <3>3 DEF Owed
    <3>5. approvals'[a].grants >= approvals[a].grants
      BY <1>0, <2>1, <3>3
    <3> QED BY <2>2, <3>2, <3>3, <3>4, <3>5 DEF Others
  <2>4. CASE Reject(a)
    <3>1. /\ Changes(a) /\ approvals'[a].exec = approvals[a].exec
          /\ approvals'[a].grants = approvals[a].grants /\ run' = run
          /\ opened' = opened /\ tried' = tried
      BY <2>1, <2>4, RejectIs DEF Reject, history
    <3>2. Owed(a)' + approvals[a].grants <= Owed(a) + approvals'[a].grants
      BY <1>0, <2>1, <3>1 DEF Owed
    <3> QED BY <1>0, <2>1, <2>2, <3>1, <3>2 DEF Others
  <2>5. CASE Claim(a)
    <3>1. /\ Changes(a) /\ approvals'[a].exec = "running" /\ Others(a)
          /\ approvals'[a].grants = approvals[a].grants
          /\ run'[a].replay = ~Resumed(a) /\ Owed(a) = 1
      BY <2>1, <2>5, ClaimIs, ClaimRun DEF Claim, Owed
    <3>2. CASE Resumed(a)
      <4>1. LetsThrough(a, 0) /\ opened' = [opened EXCEPT ![a] = @ + 1] /\ Owed(a)' = 0
        BY <2>5, <3>1, <3>2 DEF Claim, Resumed, Owed
      <4>2. IsGate(approvals[a].journal, 0)
        <5>1. Len(approvals[a].journal) \in Nat \ {0}
          BY <2>1, ApprovalIs DEF ApprovalFlow
        <5>2. 1 \in 1..Len(approvals[a].journal) /\ \A i \in 1..(1 - 1) : FALSE
          BY <5>1
        <5> QED BY <3>2, <5>2 DEF IsGate, Resumed
      <4> QED BY <1>0, <2>1, <3>1, <4>1, <4>2, NatSets, OneOpened
    <3>3. CASE ~Resumed(a)
      <4>1. opened' = opened /\ tried' = tried /\ Owed(a)' = 1
        BY <2>5, <3>1, <3>3 DEF Claim, Resumed, Owed
      <4> QED BY <1>0, <2>1, <2>2, <3>1, <4>1
    <3> QED BY <3>2, <3>3
  <2>6. CASE Continues(a)
    <3>1. Others(a) /\ ~run'[a].replay /\ opened' = opened /\ tried' = tried
      BY <2>1, <2>6 DEF Continues, Others, Types, NoRun, history
    <3>2. PICK e \in {"succeeded", "failed"} : approvals' = [approvals EXCEPT ![a].exec = e]
      BY <2>6 DEF Continues
    <3>3. Changes(a) /\ approvals'[a].exec = e /\ approvals'[a].grants = approvals[a].grants
      BY <2>1, <3>2, ExecChangeIs
    <3>4. Owed(a)' + approvals[a].grants <= Owed(a) + approvals'[a].grants
      BY <1>0, <2>1, <3>1, <3>3 DEF Owed
    <3> QED BY <1>0, <2>1, <2>2, <3>1, <3>3, <3>4
  <2> QED BY <1>11, <2>3, <2>4, <2>5, <2>6
<1>12. CASE UNCHANGED vars
  BY <1>12 DEF vars, history, GrantInv, GrantOf, Owed, IsGate
<1>13. ASSUME NEW x \in Runs, ThrowsAtGate(x) PROVE GrantInv'
  <2>1. /\ Others(x) /\ run[x].replay /\ run'[x].replay /\ run[x].at = "running"
        /\ run[x].index \in 1..Len(run[x].journal) /\ run[x].pc \in 0..K
        /\ run[x].journal[run[x].index] = Pending(run[x].pc)
    BY <1>13, ThrowsAtGateRun, NatSets
  <2>2. /\ x \in 1..Len(approvals) /\ IsGate(approvals[x].journal, run[x].pc)
        /\ Owed(x) = 1
    BY <2>1, GateOfReplay
  <2>3. approvals' = approvals /\ Changes(x) /\ Owed(x)' = 1
    BY <1>13, <2>1, <2>2 DEF ThrowsAtGate, Changes, Owed, Types
  <2>4. LetsThrough(x, run[x].pc) /\ opened' = opened
    BY <1>13 DEF ThrowsAtGate
  <2> QED BY <1>0, <2>1, <2>2, <2>3, <2>4, OneOpened
<1>14. ASSUME NEW x \in Runs, ThrowsExecuting(x) PROVE GrantInv'
  <2>1. /\ approvals' = approvals /\ opened' = opened /\ tried' = tried
        /\ Others(x) /\ ~run'[x].replay
    BY <1>14, ThrowsExecutingRun DEF ThrowsExecuting
  <2>2. x \in 1..Len(approvals) =>
          Owed(x)' + approvals[x].grants <= Owed(x) + approvals'[x].grants
    BY <1>0, <2>1 DEF Owed
  <2> QED BY <1>0, <2>1, <2>2, OwedBy
<1> QED
  BY <1>1, <1>2, <1>3, <1>4, <1>5, <1>6, <1>7, <1>8, <1>9, <1>10, <1>11, <1>12, <1>13, <1>14
  DEF Next

\* The gate of a journal is one entry: the first that is not done.
LEMMA GateIsOne ==
  ASSUME NEW q \in Seq(Entry), NEW c, NEW d, IsGate(q, c), IsGate(q, d)
  PROVE  c = d
<1>1. PICK j \in 1..Len(q) : q[j] = Pending(c) /\ \A i \in 1..(j - 1) : q[i].st = "done"
  BY DEF IsGate
<1>2. PICK k \in 1..Len(q) : q[k] = Pending(d) /\ \A i \in 1..(k - 1) : q[i].st = "done"
  BY DEF IsGate
<1>3. q[j].st = "pending" /\ q[k].st = "pending" /\ q[j].call = c /\ q[k].call = d
  BY <1>1, <1>2 DEF Pending
<1>4. j \notin 1..(k - 1) /\ k \notin 1..(j - 1)
  BY <1>1, <1>2, <1>3
<1>5. j = k
  BY <1>1, <1>2, <1>4
<1> QED BY <1>3, <1>5

LEMMA GrantsKept == Types /\ FlowInv /\ GrantInv => OneRunPerGrant
<1> SUFFICES ASSUME Types, FlowInv, GrantInv PROVE OneRunPerGrant
  OBVIOUS
<1>1. ASSUME NEW a \in Runs \ {0}, tried[a] # {}
      PROVE  /\ a \in DOMAIN approvals
             /\ approvals[a].grants >= 1 /\ opened[a] <= approvals[a].grants
             /\ \E j \in DOMAIN approvals[a].journal :
                  /\ approvals[a].journal[j].st = "pending"
                  /\ tried[a] = {approvals[a].journal[j].call}
  <2> DEFINE q == approvals[a].journal
  <2>1. a \in 1..Len(approvals) /\ GrantOf(a)
    BY <1>1 DEF GrantInv, GrantOf
  <2>2. /\ DOMAIN approvals = 1..Len(approvals) /\ q \in Seq(Entry)
        /\ approvals[a].grants \in Nat /\ opened[a] \in Nat
    BY <2>1, ApprovalIs DEF Types
  <2>3. /\ opened[a] + Owed(a) <= approvals[a].grants /\ approvals[a].grants >= 1
        /\ \A c \in tried[a] : IsGate(q, c)
    BY <1>1, <2>1 DEF GrantOf
  <2>4. opened[a] <= approvals[a].grants
    BY <2>2, <2>3, OwedIs
  <2>5. PICK c \in tried[a] : IsGate(q, c)
    BY <1>1, <2>3
  <2>6. tried[a] = {c}
    BY <2>2, <2>3, <2>5, GateIsOne
  <2>7. PICK j \in 1..Len(q) : q[j] = Pending(c)
    BY <2>5 DEF IsGate
  <2>8. j \in DOMAIN q /\ q[j].st = "pending" /\ q[j].call = c
    BY <2>2, <2>7 DEF Pending
  <2> QED BY <2>1, <2>2, <2>3, <2>4, <2>6, <2>8
<1> QED BY <1>1 DEF OneRunPerGrant, GrantInv

(* What precedes the first gate *)

LEMMA RecordedGrows ==
  ASSUME NEW q \in Seq(Entry), NEW r \in Seq(Entry), NEW p, Recorded(q, p),
         Len(r) >= Len(q), \A i \in 1..Len(q) : r[i] = q[i]
  PROVE  Recorded(r, p)
<1>1. \A c \in Calls : c \in Nat \ {0}
  BY DEF Calls
<1> QED BY <1>1 DEF Recorded

\* A journal that gains a divergence, and after it an entry.
LEMMA NotedGates ==
  ASSUME Types, NEW x \in Runs, run[x].pc \in Calls, Gates(run[x].journal)
  PROVE  Gates(Noted(x))
<1>1. /\ Len(Noted(x)) >= Len(run[x].journal)
      /\ \A i \in 1..Len(run[x].journal) : Noted(x)[i] = run[x].journal[i]
      /\ Len(run[x].journal) \in Nat /\ Len(Noted(x)) \in Nat
  BY NotedIs, RunIs
<1>2. ASSUME NEW i \in 1..Len(Noted(x)), Noted(x)[i].st = "pending"
      PROVE  Noted(x)[i].call \in gated
  <2>1. CASE Noted(x) = run[x].journal
    BY <1>2, <2>1 DEF Gates
  <2>2. CASE /\ Len(Noted(x)) = Len(run[x].journal) + 1
             /\ Noted(x)[Len(Noted(x))].st = "diverged"
    <3>1. i \in 1..Len(run[x].journal)
      BY <1>1, <1>2, <2>2
    <3> QED BY <1>1, <1>2, <3>1 DEF Gates
  <2> QED BY <2>1, <2>2, NotedIs
<1> QED BY <1>2 DEF Gates

LEMMA NotedEntered ==
  ASSUME Types, NEW x \in Runs, NEW e \in Entry, run[x].pc \in Calls,
         Gates(run[x].journal), e.st = "pending" => e.call \in gated
  PROVE  LET q == Append(Noted(x), e) IN
         /\ q \in Seq(Entry) /\ Gates(q) /\ Len(q) >= Len(run[x].journal)
         /\ \A i \in 1..Len(run[x].journal) : q[i] = run[x].journal[i]
<1> DEFINE q == Append(Noted(x), e)
<1>1. /\ Noted(x) \in Seq(Entry) /\ Len(Noted(x)) >= Len(run[x].journal)
      /\ \A i \in 1..Len(run[x].journal) : Noted(x)[i] = run[x].journal[i]
      /\ Len(run[x].journal) \in Nat /\ Len(Noted(x)) \in Nat
  BY NotedIs, RunIs
<1>2. /\ q \in Seq(Entry) /\ Len(q) = Len(Noted(x)) + 1 /\ q[Len(Noted(x)) + 1] = e
      /\ \A i \in 1..Len(Noted(x)) : q[i] = Noted(x)[i]
  BY <1>1, EntryAppended
<1> HIDE DEF q
<1>3. Gates(q)
  BY <1>1, <1>2, NotedGates DEF Gates
<1> QED BY <1>1, <1>2, <1>3 DEF q

\* A call that does not precede the gates is followed by others that do not.
LEMMA PreGateOf ==
  ASSUME Types, NEW c \in Nat, NEW d \in Nat, c <= d, PreGate(d)
  PROVE  PreGate(c)
<1>1. (\A g \in gated : g \in Nat) /\ (\A g \in gaps : g \in Nat)
  BY DEF Types, Calls
<1> QED BY <1>1 DEF PreGate

\* No run but the first executes a call that precedes the gates.
LEMMA RepliesBeforeGate ==
  ASSUME Types, FlowInv, NEW x \in Runs, x # 0, FirstRun(x), Records(x)
  PROVE  ~PreGate(run[x].pc)
<1> SUFFICES ASSUME PreGate(run[x].pc) PROVE FALSE
  OBVIOUS
<1>1. run[x].pc \in Calls /\ run[x].at = "running"
  BY RunIs, ReplayAssumption DEF ReplayAssumption, Records, Calling, Calls
<1>2. /\ Recorded(run[x].journal, K + 1) /\ run[x].replay /\ run[x].index = run[x].pc
      /\ run[x].pc < K + 1
  BY <1>1, ReplayAssumption DEF ReplayAssumption, FirstRun, Calls
<1>3. run[x].pc <= Len(run[x].journal) /\ run[x].journal[run[x].pc] = Done(run[x].pc)
  BY <1>1, <1>2 DEF Recorded
<1> QED BY <1>2, <1>3 DEF Records, Answers, Matches, Done

LEMMA FirstOfOthers ==
  ASSUME NEW x \in Runs, Others(x), gated' = gated, gaps \subseteq gaps', FirstRun(x)',
         \A y \in Runs : FirstRun(y)
  PROVE  \A y \in Runs : FirstRun(y)'
<1> SUFFICES ASSUME NEW y \in Runs, y # x PROVE FirstRun(y)'
  OBVIOUS
<1>1. run'[y] = run[y] /\ FirstRun(y)
  BY DEF Others
<1> QED BY <1>1 DEF FirstRun, Gates, Recorded, PreGate

\* A run that is not going on.
LEMMA FirstOfNone ==
  ASSUME NEW x \in Runs, run'[x].at # "running", run'[x].journal = <<>>
  PROVE  FirstRun(x)'
BY DEF FirstRun, Gates

LEMMA FirstOfApprovals ==
  ASSUME gated' = gated, gaps \subseteq gaps', Len(approvals') = Len(approvals),
         \A a \in 1..Len(approvals) : approvals'[a].journal = approvals[a].journal,
         \A a \in 1..Len(approvals) : FirstApproval(approvals[a])
  PROVE  \A a \in 1..Len(approvals') : FirstApproval(approvals[a])'
<1> SUFFICES ASSUME NEW a \in 1..Len(approvals) PROVE FirstApproval(approvals[a])'
  OBVIOUS
<1>1. approvals'[a].journal = approvals[a].journal /\ FirstApproval(approvals[a])
  OBVIOUS
<1> QED BY <1>1 DEF FirstApproval, Gates, Recorded, PreGate

LEMMA NoneReplayedKept ==
  ASSUME gated' = gated, gaps \subseteq gaps', replayed' = replayed, NoneReplayed
  PROVE  NoneReplayed'
BY DEF NoneReplayed, PreGate

LEMMA FirstBodyKept ==
  ASSUME gated' = gated, gaps \subseteq gaps', FirstBody,
         run'[0] = run[0] \/ (run'[0].journal = <<>> /\ run'[0].pc = 1)
  PROVE  FirstBody'
<1>1. CASE run'[0] = run[0]
  BY <1>1 DEF FirstBody, Recorded, PreGate
<1>2. CASE run'[0].journal = <<>> /\ run'[0].pc = 1
  <2>1. \A c \in Calls : ~(c < 1)
    BY DEF Calls
  <2> QED BY <1>2, <2>1 DEF FirstBody, Recorded
<1> QED BY <1>1, <1>2

LEMMA FirstStep == Types /\ FlowInv /\ FirstInv /\ [Next]_vars => FirstInv'
<1> SUFFICES ASSUME Types, FlowInv, FirstInv, [Next]_vars PROVE FirstInv'
  OBVIOUS
<1>r. rootGated' = rootGated
  BY DEF Next, vars, Begin, RootAsksApproval, Crash, Restart, ReturnsCached, OpensGate,
         AsksApproval, Executes, ThrowsAtGate, ThrowsExecuting, Ends, Dies, Approve,
         Reject, Retry, Claim, Continues
<1> SUFFICES ASSUME ~rootGated PROVE FirstInv'
  BY <1>r DEF FirstInv
<1>0. /\ \A a \in 1..Len(approvals) : FirstApproval(approvals[a])
      /\ \A x \in Runs : FirstRun(x)
      /\ FirstBody /\ NoneReplayed
      /\ gated \subseteq Calls /\ 0 \in Runs /\ Len(approvals) \in Nat
      /\ Types' /\ ~run[0].replay
  <2>1. Types' /\ ~run[0].replay
    BY TypesStep, NatSets DEF FlowInv, RunFlow
  <2> QED BY <2>1, NatSets DEF FirstInv, Types
<1> SUFFICES /\ \A a \in 1..Len(approvals') : FirstApproval(approvals[a])'
             /\ \A x \in Runs : FirstRun(x)'
             /\ FirstBody' /\ NoneReplayed'
  BY DEF FirstInv
<1> DEFINE Goal == /\ \A a \in 1..Len(approvals') : FirstApproval(approvals[a])'
                   /\ \A x \in Runs : FirstRun(x)'
                   /\ FirstBody' /\ NoneReplayed'
<1>1. CASE Begin
  <2>1. /\ Others(0) /\ approvals' = approvals /\ gated' = gated
        /\ gaps' = gaps /\ replayed' = replayed
        /\ run'[0].pc = run[0].pc /\ run'[0].journal = run[0].journal
    BY <1>1, BeginRun DEF Begin, history
  <2>2. FirstRun(0)'
    BY <1>0, <2>1 DEF FirstRun, Gates
  <2>3. \A x \in Runs : FirstRun(x)'
    BY <1>0, <2>1, <2>2, FirstOfOthers
  <2>4. FirstBody'
    BY <1>0, <2>1 DEF FirstBody, Recorded, PreGate
  <2>7. \A a \in 1..Len(approvals') : FirstApproval(approvals[a])'
    BY <1>0, <2>1, FirstOfApprovals
  <2> QED BY <1>0, <2>1, <2>3, <2>4, <2>7, NoneReplayedKept
<1>2. CASE RootAsksApproval
  BY <1>2 DEF RootAsksApproval
<1>3. CASE Crash
  <2>1. /\ \A x \in Runs : run'[x].journal = <<>> /\ run'[x].pc = 1 /\ run'[x].at = "none"
        /\ gated' = gated /\ gaps' = gaps /\ replayed' = replayed
    BY <1>3 DEF Crash, NoRun, history
  <2>2. \A x \in Runs : FirstRun(x)'
    BY <2>1, FirstOfNone
  <2>3. \A a \in 1..Len(approvals') : FirstApproval(approvals[a])'
    BY <1>0, <1>3, <2>1, CrashIs, FirstOfApprovals
  <2> QED BY <1>0, <2>1, <2>2, <2>3, FirstBodyKept, NoneReplayedKept
<1>4. CASE Restart
  <2>1. /\ run' = run /\ approvals' = approvals /\ gated' = gated
        /\ gaps' = gaps /\ replayed' = replayed
    BY <1>4 DEF Restart, history
  <2> QED BY <1>0, <2>1, FirstBodyKept, NoneReplayedKept, FirstOfApprovals, FirstOfOthers
          DEF Others, FirstRun, Gates, Recorded, PreGate
<1>5. ASSUME NEW x \in Runs, ReturnsCached(x) PROVE Goal
  <2>1. /\ Others(x) /\ approvals' = approvals /\ gated' = gated
        /\ gaps' = gaps /\ replayed' = replayed /\ x # 0
        /\ run'[x].journal = run[x].journal /\ run'[x].replay /\ run[x].at = "running"
        /\ run'[x].pc = run[x].pc + 1 /\ run'[x].index = run[x].index + 1
        /\ run[x].pc \in Nat
    BY <1>0, <1>5, RunIs, ReturnsCachedRun DEF ReturnsCached, history
  <2>2. PreGate(run[x].pc + 1) => PreGate(run[x].pc)
    BY <2>1, PreGateOf
  <2>3. FirstRun(x)'
    BY <1>0, <2>1, <2>2 DEF FirstRun, Gates, Recorded, PreGate
  <2>4. run'[0] = run[0]
    BY <1>0, <2>1 DEF Others
  <2> QED BY <1>0, <2>1, <2>3, <2>4, FirstOfOthers, FirstBodyKept, NoneReplayedKept,
             FirstOfApprovals
<1>6. ASSUME NEW x \in Runs, OpensGate(x) PROVE Goal
  <2>1. /\ Others(x) /\ approvals' = approvals /\ gated' = gated
        /\ gaps' = gaps /\ replayed' = replayed /\ x # 0 /\ run[x].pc \in Calls
    BY <1>0, <1>6, OpensGateRun DEF OpensGate
  <2>2. run[x].pc \in gated
    <3>1. run[x].index \in 1..Len(run[x].journal)
      BY <1>6, OpensGateRun
    <3>2. /\ run[x].journal[run[x].index].st = "pending"
          /\ run[x].journal[run[x].index].call = run[x].pc
      <4>1. run[x].journal[run[x].index] = Pending(run[x].pc)
        BY <1>6, OpensGateRun
      <4> QED BY <4>1 DEF Pending
    <3> QED BY <1>0, <3>1, <3>2 DEF FirstRun, Gates
  <2>3. ~PreGate(run[x].pc) /\ ~PreGate(run[x].pc + 1)
    BY <2>1, <2>2 DEF PreGate, Calls
  <2>5. FirstRun(x)'
    <3>1. /\ run'[x].pc = run[x].pc + 1 /\ run[x].at = "running"
          /\ run[x].journal \in Seq(Entry) /\ run'[x].journal \in Seq(Entry)
          /\ Len(run'[x].journal) = Len(run[x].journal) + 1
          /\ Len(run[x].journal) \in Nat
          /\ run[x].journal[run[x].index] = Pending(run[x].pc)
          /\ run'[x].journal[run[x].index] = Done(run[x].pc)
          /\ run'[x].journal[Len(run[x].journal) + 1] = Done(run[x].pc)
          /\ \A i \in 1..Len(run[x].journal) :
               i # run[x].index => run'[x].journal[i] = run[x].journal[i]
      <4>1. run' \in [Runs -> Run]
        BY <1>0 DEF Types
      <4> QED BY <1>6, <4>1, OpensGateRun, RunIs DEF Run
    <3>2. Gates(run[x].journal) /\ Recorded(run[x].journal, K + 1)
      BY <1>0, <2>1, <3>1 DEF FirstRun
    <3>3. ASSUME NEW i \in 1..Len(run'[x].journal), run'[x].journal[i].st = "pending"
          PROVE  run'[x].journal[i].call \in gated
      <4>1. i # run[x].index /\ i # Len(run[x].journal) + 1
        BY <3>1, <3>3 DEF Done
      <4>2. i \in 1..Len(run[x].journal)
        BY <3>1, <4>1
      <4> QED BY <3>1, <3>2, <3>3, <4>1, <4>2 DEF Gates
    <3>4. ASSUME NEW c \in Calls, PreGate(c), c < K + 1
          PROVE  c <= Len(run'[x].journal) /\ run'[x].journal[c] = Done(c)
      <4>1. c <= Len(run[x].journal) /\ run[x].journal[c] = Done(c) /\ c \in Nat \ {0}
        BY <3>2, <3>4 DEF Recorded, Calls
      <4>2. c # run[x].index
        BY <3>1, <4>1 DEF Done, Pending
      <4> QED BY <3>1, <4>1, <4>2
    <3>5. Gates(run[x].journal)' /\ Recorded(run[x].journal, K + 1)'
      BY <2>1, <3>3, <3>4 DEF Gates, Recorded, PreGate
    <3>6. ~PreGate(run[x].pc)'
      BY <2>1, <2>3, <3>1 DEF PreGate
    <3> QED BY <3>5, <3>6 DEF FirstRun
  <2>6. run'[0] = run[0]
    BY <1>0, <2>1 DEF Others
  <2> QED BY <1>0, <2>1, <2>5, <2>6, FirstOfOthers, FirstBodyKept, NoneReplayedKept,
             FirstOfApprovals
<1>7. ASSUME NEW x \in Runs, AsksApproval(x) PROVE Goal
  <2>1. /\ Others(x) /\ gated' = gated /\ gaps' = gaps /\ replayed' = replayed
        /\ run[x].pc \in Calls /\ run[x].pc \in gated /\ run'[x].pc = run[x].pc + 1
        /\ run'[x].journal = Append(Noted(x), Pending(run[x].pc))
        /\ run[x].at = "running" /\ run[x].pc \in Nat
    BY <1>7, RunIs, AsksApprovalRun DEF Entered, AsksApproval, history
  <2>2. /\ Pending(run[x].pc) \in Entry /\ Pending(run[x].pc).call = run[x].pc
        /\ run[x].pc \in 0..K
    BY <2>1, NatSets DEF Entry, Pending
  <2>3. ~PreGate(run[x].pc) /\ ~PreGate(run[x].pc + 1)
    BY <2>1 DEF PreGate
  <2>4. /\ run'[x].journal \in Seq(Entry) /\ Gates(run'[x].journal)
        /\ Len(run'[x].journal) >= Len(run[x].journal)
        /\ \A i \in 1..Len(run[x].journal) : run'[x].journal[i] = run[x].journal[i]
    BY <1>0, <2>1, <2>2, NotedEntered DEF FirstRun
  <2>5. Recorded(run'[x].journal, K + 1)
    <3>1. Recorded(run[x].journal, IF x = 0 THEN run[x].pc ELSE K + 1)
      BY <1>0, <2>1 DEF FirstRun, FirstBody
    <3>2. Recorded(run'[x].journal, IF x = 0 THEN run[x].pc ELSE K + 1)
      BY <2>4, <3>1, RunIs, RecordedGrows
    <3> QED BY <2>1, <3>2 DEF Recorded, PreGate
  <2>6. FirstRun(x)'
    <3>1. ~PreGate(run[x].pc)'
      BY <2>1, <2>3 DEF PreGate
    <3>2. Gates(run[x].journal)' /\ Recorded(run[x].journal, K + 1)'
      BY <2>1, <2>4, <2>5 DEF Gates, Recorded, PreGate
    <3> QED BY <3>1, <3>2 DEF FirstRun
  <2>7. \A a \in 1..Len(approvals') : FirstApproval(approvals[a])'
    <3>1. Ask(run[x].pc, Noted(x)) /\ Noted(x) \in Seq(Entry)
      BY <1>7, <2>1, NotedIs DEF AsksApproval
    <3>2. /\ Len(approvals') = Len(approvals) + 1
          /\ \A b \in 1..Len(approvals) : approvals'[b] = approvals[b]
          /\ approvals'[Len(approvals) + 1].journal = run'[x].journal
      BY <2>1, <2>2, <3>1, AskIs
    <3> SUFFICES ASSUME NEW a \in 1..Len(approvals') PROVE FirstApproval(approvals[a])'
      OBVIOUS
    <3>3. a \in 1..Len(approvals) \/ a = Len(approvals) + 1
      BY <1>0, <3>2
    <3>4. Gates(approvals'[a].journal) /\ Recorded(approvals'[a].journal, K + 1)
      BY <1>0, <2>4, <2>5, <3>2, <3>3 DEF FirstApproval
    <3> QED BY <2>1, <3>4 DEF FirstApproval, Gates, Recorded, PreGate
  <2>8. FirstBody'
    <3>1. CASE x # 0
      <4>1. run'[0] = run[0]
        BY <1>0, <2>1, <3>1 DEF Others
      <4> QED BY <1>0, <2>1, <4>1, FirstBodyKept
    <3>2. CASE x = 0
      <4>1. Noted(0) = run[0].journal /\ Len(run[0].journal) \in Nat
        BY <1>0, <2>1, <3>2, RunIs, NotedIs
      <4>2. Len(run'[0].journal) = Len(run[0].journal) + 1
        BY <2>1, <2>2, <3>2, <4>1, RunIs, EntryAppended
      <4>3. Recorded(run'[0].journal, run'[0].pc)
        <5>1. \A c \in Calls : c < K + 1
          BY ReplayAssumption DEF ReplayAssumption, Calls
        <5> QED BY <2>5, <3>2, <5>1 DEF Recorded
      <4>4. (\A d \in gaps : run[0].pc + 1 <= d) => \A d \in gaps : run[0].pc <= d
        <5>1. \A d \in gaps : d \in Nat
          BY DEF Types, Calls
        <5> QED BY <2>1, <3>2, <5>1
      <4> QED BY <1>0, <2>1, <3>2, <4>1, <4>2, <4>3, <4>4 DEF FirstBody, Recorded, PreGate
    <3> QED BY <3>1, <3>2
  <2> QED BY <1>0, <2>1, <2>6, <2>7, <2>8, FirstOfOthers, NoneReplayedKept
<1>8. ASSUME NEW x \in Runs, Executes(x) PROVE Goal
  <2>1. /\ Others(x) /\ gated' = gated /\ approvals' = approvals /\ gaps' = gaps
        /\ run[x].pc \in Calls /\ run'[x].pc = run[x].pc + 1 /\ NotesReplayed(x)
        /\ run'[x].journal = Append(Noted(x), Done(run[x].pc))
        /\ run[x].at = "running" /\ run'[x].at = "running" /\ run[x].pc \in Nat
        /\ run[x].pc \in 0..K
    BY <1>8, RunIs, ExecutesRun, NatSets DEF Entered, Executes
  <2>2. Done(run[x].pc) \in Entry /\ Done(run[x].pc).st # "pending"
    BY <2>1 DEF Entry, Done
  <2>3. /\ run'[x].journal \in Seq(Entry) /\ Gates(run'[x].journal)
        /\ Len(run'[x].journal) >= Len(run[x].journal)
        /\ \A i \in 1..Len(run[x].journal) : run'[x].journal[i] = run[x].journal[i]
    BY <1>0, <2>1, <2>2, NotedEntered DEF FirstRun
  <2>4. \A a \in 1..Len(approvals') : FirstApproval(approvals[a])'
    BY <1>0, <2>1, FirstOfApprovals
  <2>5. CASE x # 0
    <3>1. ~PreGate(run[x].pc)
      BY <1>0, <1>8, <2>5, RepliesBeforeGate DEF Executes
    <3>2. run'[0] = run[0]
      BY <1>0, <2>1, <2>5 DEF Others
    <3>3. NoneReplayed'
      BY <1>0, <2>1, <3>1, ReplayedGrows DEF NoneReplayed, PreGate
    <3>4. Recorded(run'[x].journal, K + 1)
      BY <1>0, <2>1, <2>3, <2>5, RunIs, RecordedGrows DEF FirstRun
    <3>5. ~PreGate(run[x].pc + 1)
      BY <2>1, <3>1, PreGateOf
    <3>6. Gates(run[x].journal)' /\ Recorded(run[x].journal, K + 1)' /\ ~PreGate(run[x].pc)'
      BY <2>1, <2>3, <3>4, <3>5 DEF Gates, Recorded, PreGate
    <3>7. FirstRun(x)'
      BY <3>6 DEF FirstRun
    <3> QED BY <1>0, <2>1, <2>4, <3>2, <3>3, <3>7, FirstOfOthers, FirstBodyKept
  <2>6. CASE x = 0
    <3>1. Noted(0) = run[0].journal /\ Len(run[0].journal) \in Nat
      BY <1>0, <2>1, <2>6, RunIs, NotedIs
    <3>2. /\ Len(run'[0].journal) = Len(run[0].journal) + 1
          /\ run'[0].journal[Len(run[0].journal) + 1] = Done(run[0].pc)
      BY <2>1, <2>2, <2>6, <3>1, RunIs, EntryAppended
    <3>3. Recorded(run'[0].journal, run[0].pc)
      BY <1>0, <2>3, <2>6, RunIs, RecordedGrows DEF FirstBody
    <3>4. Recorded(run'[0].journal, run[0].pc + 1)
      <4>1. ASSUME NEW c \in Calls, PreGate(c), c < run[0].pc + 1, ~(c < run[0].pc)
            PROVE  c <= Len(run'[0].journal) /\ run'[0].journal[c] = Done(c)
        <5>1. c = run[0].pc /\ c \in Nat
          BY <2>1, <2>6, <4>1 DEF Calls
        <5>2. \A d \in gaps : run[0].pc <= d
          <6>1. \A d \in gaps : d \in Nat
            BY DEF Types, Calls
          <6> QED BY <4>1, <5>1, <6>1 DEF PreGate
        <5>3. Len(run[0].journal) = run[0].pc - 1
          BY <1>0, <5>2 DEF FirstBody
        <5> QED BY <3>2, <5>1, <5>3
      <4> QED BY <3>3, <4>1 DEF Recorded
    <3>5. FirstBody'
      <4>1. (\A d \in gaps : run[0].pc + 1 <= d) => \A d \in gaps : run[0].pc <= d
        <5>1. \A d \in gaps : d \in Nat
          BY DEF Types, Calls
        <5> QED BY <2>1, <2>6, <5>1
      <4>2. (\A d \in gaps : run[0].pc + 1 <= d) => Len(run'[0].journal) = run[0].pc
        BY <1>0, <2>1, <2>6, <3>1, <3>2, <4>1 DEF FirstBody
      <4>3. Recorded(run[0].journal, run[0].pc)'
        BY <2>1, <2>6, <3>4 DEF Recorded, PreGate
      <4>4. run'[0].pc = run[0].pc + 1 /\ run[0].pc \in Nat /\ gaps' = gaps
        BY <2>1, <2>6
      <4> QED BY <4>2, <4>3, <4>4 DEF FirstBody
    <3>6. FirstRun(0)'
      BY <2>1, <2>3, <2>6 DEF FirstRun, Gates
    <3>7. replayed' = replayed
      BY <2>1, <2>6 DEF NotesReplayed
    <3> QED BY <1>0, <2>1, <2>4, <2>6, <3>5, <3>6, <3>7, FirstOfOthers, NoneReplayedKept
  <2> QED BY <2>5, <2>6
<1>9. ASSUME NEW x \in Runs, Ends(x) PROVE Goal
  <2>1. /\ Others(x) /\ gated' = gated /\ approvals' = approvals
        /\ gaps' = gaps /\ replayed' = replayed
        /\ run'[x].at # "running" /\ run'[x].journal = <<>> /\ run'[x].pc = 1
    BY <1>9, EndsRun, RunEnds DEF Ends, history
  <2>2. \/ run'[0] = run[0]
        \/ run'[0].at # "running" /\ run'[0].journal = <<>> /\ run'[0].pc = 1
    BY <1>0, <2>1 DEF Others
  <2> QED BY <1>0, <2>1, <2>2, FirstOfNone, FirstOfOthers, FirstOfApprovals, FirstBodyKept,
             NoneReplayedKept
<1>10. ASSUME NEW x \in Runs, Dies(x) PROVE Goal
  <2>1. /\ Others(x) /\ gated' = gated /\ gaps' = gaps /\ replayed' = replayed
        /\ run'[x].at # "running" /\ run'[x].journal = <<>> /\ run'[x].pc = 1
    BY <1>10 DEF Dies, Others, Types, NoRun, history
  <2>2. \/ run'[0] = run[0]
        \/ run'[0].at # "running" /\ run'[0].journal = <<>> /\ run'[0].pc = 1
    BY <1>0, <2>1 DEF Others
  <2>3. /\ Len(approvals') = Len(approvals)
        /\ \A a \in 1..Len(approvals) : approvals'[a].journal = approvals[a].journal
    <3>1. CASE x = 0
      BY <1>10, <3>1 DEF Dies
    <3>2. CASE x # 0
      BY <1>10, <3>2, RunsOfApprovals, ExecChangeIs DEF Dies, Changes
    <3> QED BY <3>1, <3>2
  <2> QED BY <1>0, <2>1, <2>2, <2>3, FirstOfNone, FirstOfOthers, FirstOfApprovals,
             FirstBodyKept, NoneReplayedKept
<1>11. ASSUME NEW a \in DOMAIN approvals,
              Approve(a) \/ Reject(a) \/ Retry(a) \/ Claim(a) \/ Continues(a)
       PROVE  Goal
  <2>1. /\ a \in 1..Len(approvals) /\ a \in Runs /\ a # 0
        /\ ApprovalFlow(approvals[a])
        /\ gated' = gated /\ gaps' = gaps /\ replayed' = replayed
    <3>1. a \in 1..Len(approvals)
      BY DEF Types
    <3>2. gated' = gated /\ gaps' = gaps /\ replayed' = replayed
      BY <1>11 DEF Approve, Reject, Retry, Claim, Continues, history
    <3> QED BY <3>1, <3>2, ApprovalIs DEF FlowInv
  <2>2. Changes(a)
    <3>1. CASE Approve(a) \/ Retry(a)
      <4>1. approvals[a].grants < MaxGrants /\ Grant(a)
        BY <2>1, <3>1, ReplayAssumption
           DEF ReplayAssumption, Approve, Retry, ApprovalFlow
      <4> QED BY <2>1, <4>1, GrantIs
    <3>2. CASE Reject(a)
      BY <2>1, <3>2, RejectIs
    <3>3. CASE Claim(a)
      BY <2>1, <3>3, ClaimIs
    <3>4. CASE Continues(a)
      BY <2>1, <3>4, ExecChangeIs DEF Continues
    <3> QED BY <1>11, <3>1, <3>2, <3>3, <3>4
  <2>3. \A b \in 1..Len(approvals') : FirstApproval(approvals[b])'
    BY <1>0, <2>1, <2>2, FirstOfApprovals DEF Changes
  <2>4. Others(a) /\ run'[0] = run[0]
    <3>1. CASE Approve(a) \/ Reject(a) \/ Retry(a)
      BY <2>1, <3>1 DEF Approve, Reject, Retry, Others
    <3>2. CASE Claim(a)
      BY <1>0, <2>1, <3>2, ClaimRun DEF Others
    <3>3. CASE Continues(a)
      <4>1. Others(a)
        BY <3>3 DEF Continues, Others, Types
      <4> QED BY <1>0, <2>1, <4>1 DEF Others
    <3> QED BY <1>11, <3>1, <3>2, <3>3
  <2>5. FirstRun(a)'
    <3>1. CASE Approve(a) \/ Reject(a) \/ Retry(a)
      <4>1. run' = run
        BY <3>1 DEF Approve, Reject, Retry
      <4> QED BY <1>0, <2>1, <4>1 DEF FirstRun, Gates, Recorded, PreGate
    <3>2. CASE Claim(a)
      <4>1. FirstApproval(approvals[a]) /\ ~Resumed(a)
        <5>1. FirstApproval(approvals[a]) /\ 0 \notin gated
          BY <1>0, <2>1 DEF Calls
        <5>2. 1 \in 1..Len(approvals[a].journal)
          <6>1. approvals[a].journal # <<>> /\ approvals[a].journal \in Seq(Entry)
            BY <2>1, ApprovalIs DEF ApprovalFlow
          <6> QED BY <6>1
        <5>3. Resumed(a) => /\ approvals[a].journal[1].st = "pending"
                            /\ approvals[a].journal[1].call = 0
          BY DEF Resumed, Pending
        <5> QED BY <5>1, <5>2, <5>3 DEF FirstApproval, Gates
      <4>2. /\ run'[a].journal = approvals[a].journal /\ run'[a].replay
            /\ run'[a].index = 1 /\ run'[a].pc = 1
        BY <2>1, <3>2, <4>1, ClaimRun
      <4>3. Gates(run[a].journal)' /\ Recorded(run[a].journal, K + 1)'
        BY <2>1, <4>1, <4>2 DEF FirstApproval, Gates, Recorded, PreGate
      <4> QED BY <4>2, <4>3 DEF FirstRun
    <3>3. CASE Continues(a)
      <4>1. run'[a] = NoRun
        BY <2>1, <3>3 DEF Continues, Types
      <4>2. run'[a].at # "running" /\ run'[a].journal = <<>>
        BY <4>1 DEF NoRun
      <4> QED BY <2>1, <4>2, FirstOfNone
    <3> QED BY <1>11, <3>1, <3>2, <3>3
  <2> QED BY <1>0, <2>1, <2>3, <2>4, <2>5, FirstOfOthers, FirstBodyKept, NoneReplayedKept
<1>12. CASE UNCHANGED vars
  <2>1. /\ gated' = gated /\ run' = run /\ approvals' = approvals
        /\ gaps' = gaps /\ replayed' = replayed
    BY <1>12 DEF vars, history
  <2> QED BY <1>0, <2>1 DEF FirstApproval, FirstRun, FirstBody, NoneReplayed, Gates, Recorded,
             PreGate
<1>13. ASSUME NEW x \in Runs, ThrowsAtGate(x) PROVE Goal
  <2>1. /\ Others(x) /\ approvals' = approvals /\ gated' = gated
        /\ gaps' = gaps /\ replayed' = replayed /\ x # 0 /\ run[x].pc \in Calls
        /\ run'[x].journal = run[x].journal /\ run[x].at = "running"
        /\ run'[x].pc \in Nat /\ run[x].pc \in Nat /\ run'[x].pc >= run[x].pc
    BY <1>0, <1>13, RunIs, ThrowsAtGateRun DEF ThrowsAtGate
  <2>2. run[x].pc \in gated
    <3>1. /\ run[x].index \in 1..Len(run[x].journal)
          /\ run[x].journal[run[x].index] = Pending(run[x].pc)
      BY <1>13, ThrowsAtGateRun
    <3>2. /\ run[x].journal[run[x].index].st = "pending"
          /\ run[x].journal[run[x].index].call = run[x].pc
      BY <3>1 DEF Pending
    <3> QED BY <1>0, <3>1, <3>2 DEF FirstRun, Gates
  <2>3. ~PreGate(run'[x].pc)
    <3>1. ~PreGate(run[x].pc)
      BY <2>1, <2>2 DEF PreGate
    <3> QED BY <2>1, <3>1, PreGateOf
  <2>4. FirstRun(x)'
    <3>1. Gates(run[x].journal) /\ Recorded(run[x].journal, K + 1)
      BY <1>0, <2>1 DEF FirstRun
    <3>2. Gates(run[x].journal)' /\ Recorded(run[x].journal, K + 1)' /\ ~PreGate(run[x].pc)'
      BY <2>1, <2>3, <3>1 DEF Gates, Recorded, PreGate
    <3> QED BY <3>2 DEF FirstRun
  <2>5. run'[0] = run[0]
    BY <1>0, <2>1 DEF Others
  <2> QED BY <1>0, <2>1, <2>4, <2>5, FirstOfOthers, FirstBodyKept, NoneReplayedKept,
             FirstOfApprovals
<1>14. ASSUME NEW x \in Runs, ThrowsExecuting(x) PROVE Goal
  <2>1. /\ Others(x) /\ approvals' = approvals /\ gated' = gated /\ gaps \subseteq gaps'
        /\ run[x].pc \in Calls /\ run'[x].journal = Noted(x) /\ NotesReplayed(x)
        /\ run[x].at = "running" /\ run[x].pc \in Nat
        /\ run'[x].pc \in Nat /\ run'[x].pc >= run[x].pc
    BY <1>14, RunIs, ThrowsExecutingRun DEF ThrowsExecuting
  <2>2. /\ Noted(x) \in Seq(Entry) /\ Gates(Noted(x)) /\ Len(Noted(x)) >= Len(run[x].journal)
        /\ \A i \in 1..Len(run[x].journal) : Noted(x)[i] = run[x].journal[i]
    BY <1>0, <2>1, NotedIs, NotedGates DEF FirstRun
  <2>3. \A a \in 1..Len(approvals') : FirstApproval(approvals[a])'
    BY <1>0, <2>1, FirstOfApprovals
  <2>4. CASE x # 0
    <3>1. ~PreGate(run[x].pc)
      BY <1>0, <1>14, <2>4, RepliesBeforeGate DEF ThrowsExecuting
    <3>2. run'[0] = run[0] /\ gaps' = gaps
      BY <1>0, <1>14, <2>1, <2>4, ThrowsExecutingRun DEF Others
    <3>3. NoneReplayed'
      BY <1>0, <2>1, <3>1, <3>2, ReplayedGrows DEF NoneReplayed, PreGate
    <3>4. Recorded(Noted(x), K + 1)
      BY <1>0, <2>1, <2>2, <2>4, RunIs, RecordedGrows DEF FirstRun
    <3>5. ~PreGate(run'[x].pc)
      BY <2>1, <3>1, PreGateOf
    <3>6. Gates(run[x].journal)' /\ Recorded(run[x].journal, K + 1)' /\ ~PreGate(run[x].pc)'
      BY <2>1, <2>2, <3>2, <3>4, <3>5 DEF Gates, Recorded, PreGate
    <3>7. FirstRun(x)'
      BY <3>6 DEF FirstRun
    <3> QED BY <1>0, <2>1, <2>3, <3>2, <3>3, <3>7, FirstOfOthers, FirstBodyKept
  <2>5. CASE x = 0
    <3>1. run'[0].journal = run[0].journal
      BY <1>0, <2>1, <2>5, NotedIs
    <3>2. FirstRun(0)'
      BY <2>1, <2>2, <2>5 DEF FirstRun, Gates
    <3>3. NoneReplayed'
      <4>1. replayed' = replayed
        BY <2>1, <2>5 DEF NotesReplayed
      <4> QED BY <1>0, <2>1, <4>1, NoneReplayedKept
    <3>4. FirstBody'
      <4>1. CASE run'[0].pc = run[0].pc
        BY <1>0, <2>1, <3>1, <4>1 DEF FirstBody, Recorded, PreGate
      <4>2. CASE run'[0].pc # run[0].pc
        <5>1. run[0].pc \in gaps'
          BY <1>14, <2>5, <4>2, ThrowsExecutingRun
        <5>2. ~(\A d \in gaps' : run'[0].pc <= d)
          BY <2>1, <2>5, <4>2, <5>1
        <5>3. ASSUME NEW c \in Calls, PreGate(c)' PROVE PreGate(c) /\ c < run[0].pc
          BY <2>1, <5>1, <5>3 DEF PreGate
        <5>4. Recorded(run[0].journal, run[0].pc)'
          BY <1>0, <3>1, <5>3 DEF FirstBody, Recorded
        <5> QED BY <5>2, <5>4 DEF FirstBody
      <4> QED BY <4>1, <4>2
    <3> QED BY <1>0, <2>1, <2>3, <2>5, <3>2, <3>3, <3>4, FirstOfOthers
  <2> QED BY <2>4, <2>5
<1> QED
  BY <1>1, <1>2, <1>3, <1>4, <1>5, <1>6, <1>7, <1>8, <1>9, <1>10, <1>11, <1>12, <1>13, <1>14
  DEF Next

LEMMA FirstHolds == Types /\ FirstInv => NothingRepeatedBeforeGate
<1> SUFFICES ASSUME Types, FirstInv, ~rootGated, NEW c \in replayed,
                    \A g \in gated : ~(g <= c), \A d \in gaps : ~(d <= c)
             PROVE  FALSE
  BY DEF NothingRepeatedBeforeGate
<1>1. c \in Nat /\ (\A g \in gated : g \in Nat) /\ (\A d \in gaps : d \in Nat)
  BY DEF Types, Calls
<1>2. PreGate(c)
  BY <1>1 DEF PreGate
<1> QED BY <1>2 DEF FirstInv, NoneReplayed

(* An approval without company *)

\* The journal of a clean approval, up to the gate it ends with.
LEMMA CleanIs ==
  ASSUME Types, FlowInv, NEW a \in 1..Len(approvals), Clean(approvals[a])
  PROVE  LET q == approvals[a].journal IN
         /\ Len(q) \in Nat \ {0} /\ q[Len(q)] = Pending(approvals[a].call)
         /\ \A i \in 1..Len(q) : q[i].st = "pending" => i = Len(q)
         /\ approvals[a].call # 0 => \A i \in 1..Len(q) :
              q[i].call = i /\ q[i].st \in {"done", "pending"}
         /\ approvals[a].call = 0 <=> Resumed(a)
<1> DEFINE q == approvals[a].journal
<1>1. /\ q \in Seq(Entry) /\ q # <<>> /\ q[Len(q)] = Pending(approvals[a].call)
      /\ approvals[a].call \in 0..K
  BY ApprovalIs DEF FlowInv, ApprovalFlow
<1>2. Len(q) \in Nat \ {0} /\ DOMAIN q = 1..Len(q) /\ 1 \in 1..Len(q) /\ Len(q) \in 1..Len(q)
  BY <1>1
<1>3. q[Len(q)].st = "pending" /\ q[Len(q)].call = approvals[a].call
  BY <1>1 DEF Pending
<1>4. CASE q = <<Pending(0)>>
  <2>1. Len(q) = 1 /\ q[1] = Pending(0) /\ Pending(0).call = 0
    BY <1>4 DEF Pending
  <2>2. approvals[a].call = 0 /\ Resumed(a) /\ \A i \in 1..Len(q) : i = Len(q)
    BY <1>3, <2>1 DEF Resumed
  <2> QED BY <1>1, <1>2, <2>2
<1>5. CASE \A i \in 1..Len(q) : q[i].call = i /\ (q[i].st = "done" \/ i = Len(q))
  <2>1. approvals[a].call = Len(q) /\ q[1].call = 1
    BY <1>2, <1>3, <1>5
  <2>2. ~Resumed(a)
    BY <2>1 DEF Resumed, Pending
  <2>3. \A i \in 1..Len(q) : q[i].st \in {"done", "pending"} /\ (q[i].st = "pending" => i = Len(q))
    BY <1>3, <1>5
  <2> QED BY <1>1, <1>2, <1>5, <2>1, <2>2, <2>3
<1> QED BY <1>2, <1>4, <1>5 DEF Clean

\* The replay of a clean approval meets its entries in their places: a call is
\* answered until the gate.
LEMMA CleanReplies ==
  ASSUME Types, FlowInv, NEW a \in 1..Len(approvals), Clean(approvals[a]),
         approvals[a].call # 0, run[a].replay, run[a].index = run[a].pc
  PROVE  run[a].pc <= K /\ ~Records(a)
<1>1. /\ a \in Runs /\ run[a].journal = approvals[a].journal
      /\ run[a].index \in 1..Len(run[a].journal) /\ run[a].journal \in Seq(Entry)
  BY ApprovalIs, RunIs DEF FlowInv, RunFlow
<1>2. /\ run[a].journal[run[a].index].call = run[a].pc
      /\ run[a].journal[run[a].index].st \in {"done", "pending"}
  BY <1>1, CleanIs
<1>3. run[a].journal[run[a].index] \in Entry
  BY <1>1
<1>4. run[a].pc <= K
  BY <1>2, <1>3, ReplayAssumption DEF Entry, ReplayAssumption
<1> QED BY <1>1, <1>2, <1>4 DEF Records, Answers, Matches

\* The gate of a clean journal, in its place, is the call asked about.
LEMMA CleanGate ==
  ASSUME Types, FlowInv, NEW a \in 1..Len(approvals), Clean(approvals[a]),
         NEW i \in 1..Len(approvals[a].journal), NEW c,
         approvals[a].journal[i] = Pending(c)
  PROVE  c = approvals[a].call
<1>1. approvals[a].journal[i].st = "pending"
  BY DEF Pending
<1>2. approvals[a].journal[i] = Pending(approvals[a].call)
  BY <1>1, CleanIs
<1> QED BY <1>2 DEF Pending

\* What a step leaves as it was for approval b, or ends.
LEMMA CleanKept ==
  ASSUME NEW b, CleanOf(b), approvals'[b].journal = approvals[b].journal,
         approvals'[b].call = approvals[b].call,
         approvals'[b].exec = "succeeded" => approvals[b].exec = "succeeded",
         run'[b] = run[b] \/ run'[b].at = "none", tried'[b] = tried[b]
  PROVE  CleanOf(b)'
BY DEF CleanOf, Clean

\* A step of run x leaves the approvals of the others as they were.
LEMMA CleanOfOthers ==
  ASSUME Types, CleanInv, NEW x \in Runs, Others(x), Len(approvals') = Len(approvals),
         \A b \in 1..Len(approvals) : b # x => approvals'[b] = approvals[b],
         \A y \in Runs : y # x => tried'[y] = tried[y],
         x \in 1..Len(approvals) => CleanOf(x)'
  PROVE  CleanInv'
<1> SUFFICES ASSUME NEW b \in 1..Len(approvals), b # x PROVE CleanOf(b)'
  BY DEF CleanInv
<1>1. b \in Runs /\ CleanOf(b)
  BY ApprovalIs DEF CleanInv
<1>2. run'[b] = run[b] /\ approvals'[b] = approvals[b] /\ tried'[b] = tried[b]
  BY <1>1 DEF Others
<1> QED BY <1>1, <1>2, CleanKept

\* A run that records has its call let through, or a journal that is not clean.
LEMMA CleanRecords ==
  ASSUME Types, FlowInv, CleanInv, NEW x \in 1..Len(approvals), Records(x),
         approvals'[x] = approvals[x], tried'[x] = tried[x]
  PROVE  CleanOf(x)'
<1>1. CleanOf(x) /\ run[x].at = "running"
  BY DEF CleanInv, Records, Calling
<1>2. Clean(approvals[x]) => approvals[x].call \in tried[x]
  BY <1>1, CleanReplies DEF CleanOf
<1> QED BY <1>2 DEF CleanOf, Clean

\* Run x is let through at its gate.
LEMMA CleanLetsThrough ==
  ASSUME Types, FlowInv, CleanInv, NEW x \in Runs, run[x].replay, run[x].at = "running",
         run[x].index \in 1..Len(run[x].journal), run[x].pc \in Calls,
         run[x].journal[run[x].index] = Pending(run[x].pc),
         LetsThrough(x, run[x].pc), Others(x), approvals' = approvals
  PROVE  CleanInv'
<1>1. x \in 1..Len(approvals) /\ run[x].journal = approvals[x].journal
  BY GateOfReplay
<1>2. /\ tried'[x] = tried[x] \union {run[x].pc}
      /\ \A y \in Runs : y # x => tried'[y] = tried[y]
  BY NatSets, TriedGrows
<1>3. CleanOf(x)'
  <2>1. Clean(approvals[x]) => approvals[x].call = run[x].pc
    BY <1>1, CleanGate
  <2> QED BY <1>2, <2>1 DEF CleanOf, Clean
<1> QED BY <1>2, <1>3, CleanOfOthers

\* An approval that is asked for has not run, and has no run.
LEMMA CleanAsked ==
  ASSUME Types, FlowInv, CleanInv, NEW c \in 0..K, NEW q \in Seq(Entry), Ask(c, q),
         NEW x \in Runs, Others(x), tried' = tried,
         x \in 1..Len(approvals) => CleanOf(x)',
         run'[x].at = "none" => run[x].at = "none",
         run[x].at = "none" => run'[x].at = "none"
  PROVE  CleanInv'
<1>n. PICK n \in Nat : n = Len(approvals) + 1
  BY DEF Types
<1>1. /\ Len(approvals') = n /\ Len(approvals) \in Nat /\ n <= MaxApprovals
      /\ \A b \in 1..Len(approvals) : approvals'[b] = approvals[b]
      /\ approvals'[n].exec = "idle"
  BY <1>n, AskIs DEF Types
<1>2. n \in Runs \ {0} /\ n \notin 1..Len(approvals)
  BY <1>n, <1>1, ReplayAssumption DEF ReplayAssumption, Runs
<1>3. run[n].at = "none"
  BY <1>2, RunsOfApprovals
<1>4. run'[n].at = "none"
  BY <1>2, <1>3 DEF Others
<1>5. CleanOf(n)'
  BY <1>1, <1>4 DEF CleanOf
<1>6. ASSUME NEW b \in 1..Len(approvals), b # x PROVE CleanOf(b)'
  <2>1. b \in Runs /\ CleanOf(b)
    BY ApprovalIs DEF CleanInv
  <2>2. run'[b] = run[b] /\ approvals'[b] = approvals[b] /\ tried'[b] = tried[b]
    BY <1>1, <1>6, <2>1 DEF Others
  <2> QED BY <2>1, <2>2, CleanKept
<1>7. ASSUME NEW b \in 1..Len(approvals') PROVE CleanOf(b)'
  <2>1. b \in 1..Len(approvals) \/ b = n
    BY <1>n, <1>1
  <2> QED BY <1>5, <1>6, <2>1
<1> QED BY <1>7 DEF CleanInv

LEMMA CleanStep == Types /\ FlowInv /\ CleanInv /\ [Next]_vars => CleanInv'
<1> SUFFICES ASSUME Types, FlowInv, CleanInv, [Next]_vars PROVE CleanInv'
  OBVIOUS
<1>0. /\ Len(approvals) \in Nat /\ 1..Len(approvals) \subseteq Runs \ {0} /\ 0 \in Runs
      /\ 0 \notin 1..Len(approvals)
  BY ApprovalIs, NatSets DEF Types
<1>1. CASE Begin
  BY <1>0, <1>1, BeginRun, CleanOfOthers DEF Begin, history
<1>2. CASE RootAsksApproval
  <2>1. Ask(0, <<>>) /\ <<>> \in Seq(Entry) /\ 0 \in 0..K /\ run' = run /\ tried' = tried
    BY <1>2, NatSets DEF RootAsksApproval, history
  <2> QED BY <1>0, <2>1, CleanAsked DEF Others
<1>3. CASE Crash
  <2>1. ASSUME NEW b \in 1..Len(approvals) PROVE CleanOf(b)'
    <3>1. CleanOf(b) /\ run'[b].at = "none" /\ tried'[b] = tried[b]
      BY <1>0, <1>3, CrashIs DEF CleanInv, Crash, history, NoRun
    <3> QED BY <1>3, <3>1, CrashIs, CleanKept
  <2> QED BY <1>3, <2>1, CrashIs DEF CleanInv
<1>4. CASE Restart
  <2>1. run' = run /\ approvals' = approvals /\ tried' = tried
    BY <1>4 DEF Restart, history
  <2> QED BY <2>1 DEF CleanInv, CleanOf, Clean
<1>5. ASSUME NEW x \in Runs, ReturnsCached(x) PROVE CleanInv'
  <2>1. approvals' = approvals /\ tried' = tried
    BY <1>5 DEF ReturnsCached, history
  <2>2. x \in 1..Len(approvals) => CleanOf(x)'
    <3> SUFFICES ASSUME x \in 1..Len(approvals) PROVE CleanOf(x)'
      OBVIOUS
    <3>1. CleanOf(x)
      BY DEF CleanInv
    <3> QED BY <1>5, <2>1, <3>1, ReturnsCachedRun DEF CleanOf, Clean
  <2> QED BY <1>5, <2>1, <2>2, ReturnsCachedRun, CleanOfOthers
<1>6. ASSUME NEW x \in Runs, OpensGate(x) PROVE CleanInv'
  <2>1. LetsThrough(x, run[x].pc) /\ approvals' = approvals
    BY <1>6 DEF OpensGate
  <2> QED BY <1>6, <2>1, OpensGateRun, CleanLetsThrough
<1>7. ASSUME NEW x \in Runs, AsksApproval(x) PROVE CleanInv'
  <2>1. /\ Others(x) /\ run'[x].at = "running" /\ run[x].at = "running"
        /\ run[x].pc \in Calls /\ Records(x) /\ tried' = tried
    BY <1>7, AsksApprovalRun DEF Entered, AsksApproval, history
  <2>2. Ask(run[x].pc, Noted(x)) /\ run[x].pc \in 0..K /\ Noted(x) \in Seq(Entry)
    BY <1>7, <2>1, NatSets, NotedIs DEF AsksApproval
  <2>3. \A b \in 1..Len(approvals) : approvals'[b] = approvals[b]
    BY <2>2, AskIs
  <2>4. x \in 1..Len(approvals) => CleanOf(x)'
    BY <2>1, <2>3, CleanRecords
  <2> QED BY <2>1, <2>2, <2>4, CleanAsked
<1>8. ASSUME NEW x \in Runs, Executes(x) PROVE CleanInv'
  <2>1. Others(x) /\ Records(x) /\ tried' = tried /\ approvals' = approvals
    BY <1>8, ExecutesRun DEF Entered, Executes
  <2>2. x \in 1..Len(approvals) => CleanOf(x)'
    BY <2>1, CleanRecords
  <2> QED BY <2>1, <2>2, CleanOfOthers
<1>9. ASSUME NEW x \in Runs, Ends(x) PROVE CleanInv'
  <2>1. Others(x) /\ tried' = tried /\ approvals' = approvals
    BY <1>9, EndsRun, RunEnds DEF Ends, history
  <2>2. x \in 1..Len(approvals) => CleanOf(x)'
    <3> SUFFICES ASSUME x \in 1..Len(approvals), Clean(approvals[x])
                 PROVE  approvals[x].call \in tried[x]
      BY <2>1 DEF CleanOf, Clean
    <3>1. CleanOf(x) /\ run[x].at = "running" /\ (run[x].pc > K \/ run[x].asked)
      BY <1>9 DEF CleanInv, Ends
    <3>2. run[x].replay => ~run[x].asked
      BY DEF FlowInv, RunFlow
    <3>3. run[x].pc \in Nat /\ K \in Nat
      BY RunIs, ReplayAssumption DEF ReplayAssumption
    <3> QED BY <3>1, <3>2, <3>3, CleanReplies DEF CleanOf
  <2> QED BY <2>1, <2>2, CleanOfOthers
<1>10. ASSUME NEW x \in Runs, Dies(x) PROVE CleanInv'
  <2>1. Others(x) /\ run'[x].at = "none" /\ tried' = tried /\ run[x].at = "running"
    BY <1>10 DEF Dies, Others, Types, NoRun, history
  <2>2. CASE x = 0
    BY <1>0, <1>10, <2>1, <2>2, CleanOfOthers DEF Dies
  <2>3. CASE x # 0
    <3>1. x \in 1..Len(approvals)
      BY <2>1, <2>3, RunsOfApprovals
    <3>2. Changes(x) /\ approvals'[x].exec = "failed"
      BY <1>10, <2>3, <3>1, ExecChangeIs DEF Dies
    <3>3. CleanOf(x)'
      BY <2>1, <3>2 DEF CleanOf
    <3> QED BY <2>1, <3>2, <3>3, CleanOfOthers DEF Changes
  <2> QED BY <2>2, <2>3
<1>11. ASSUME NEW a \in DOMAIN approvals,
              Approve(a) \/ Reject(a) \/ Retry(a) \/ Claim(a) \/ Continues(a)
       PROVE  CleanInv'
  <2>1. /\ a \in 1..Len(approvals) /\ a \in Runs /\ CleanOf(a)
        /\ ApprovalFlow(approvals[a]) /\ RunFlow(a)
    BY ApprovalIs DEF Types, FlowInv, CleanInv
  <2>2. CASE Approve(a) \/ Reject(a) \/ Retry(a)
    <3>1. run' = run /\ tried' = tried
      BY <2>2 DEF Approve, Reject, Retry, history
    <3>2. Changes(a) /\ (approvals'[a].exec = "succeeded" => approvals[a].exec = "succeeded")
      <4>1. CASE Approve(a) \/ Retry(a)
        <5>1. approvals[a].grants < MaxGrants /\ Grant(a)
          BY <2>1, <4>1, ReplayAssumption
             DEF ReplayAssumption, Approve, Retry, ApprovalFlow
        <5> QED BY <2>1, <5>1, GrantIs
      <4>2. CASE Reject(a)
        BY <2>1, <4>2, RejectIs
      <4> QED BY <2>2, <4>1, <4>2
    <3>3. CleanOf(a)'
      BY <2>1, <3>1, <3>2, CleanKept DEF Changes
    <3> QED BY <2>1, <3>1, <3>2, <3>3, CleanOfOthers DEF Changes, Others
  <2>3. CASE Claim(a)
    <3>1. Changes(a) /\ approvals'[a].exec = "running" /\ Others(a)
      BY <2>1, <2>3, ClaimIs, ClaimRun
    <3>2. CASE Resumed(a)
      <4>1. LetsThrough(a, 0)
        BY <2>3, <3>2 DEF Claim, Resumed
      <4>2. 0 \in tried'[a] /\ \A y \in Runs : y # a => tried'[y] = tried[y]
        BY <2>1, <4>1, NatSets, TriedGrows
      <4>3. CleanOf(a)'
        <5>1. Clean(approvals[a]) => approvals[a].call = 0
          BY <2>1, <3>2, CleanIs
        <5> QED BY <3>1, <4>2, <5>1 DEF CleanOf, Clean, Changes
      <4> QED BY <2>1, <3>1, <4>2, <4>3, CleanOfOthers DEF Changes
    <3>3. CASE ~Resumed(a)
      <4>1. tried' = tried
        BY <2>3, <3>3 DEF Claim, Resumed
      <4>2. run'[a].replay /\ run'[a].index = 1 /\ run'[a].pc = 1
        BY <2>1, <2>3, <3>3, ClaimRun
      <4>3. CleanOf(a)'
        <5>1. Clean(approvals[a]) => approvals[a].call # 0
          BY <2>1, <3>3, CleanIs
        <5> QED BY <3>1, <4>2, <5>1 DEF CleanOf, Clean, Changes
      <4> QED BY <2>1, <3>1, <4>1, <4>3, CleanOfOthers DEF Changes
    <3> QED BY <3>2, <3>3
  <2>4. CASE Continues(a)
    <3>1. Others(a) /\ run'[a].at = "none" /\ tried' = tried /\ run[a].at = "continuing"
      BY <2>1, <2>4 DEF Continues, Others, Types, NoRun, history
    <3>2. Changes(a)
      BY <2>1, <2>4, ExecChangeIs DEF Continues
    <3>3. ~run[a].replay
      BY <2>1, <3>1 DEF RunFlow
    <3>4. Clean(approvals[a]) => approvals[a].call \in tried[a]
      BY <2>1, <3>1, <3>3 DEF CleanOf
    <3>5. CleanOf(a)'
      BY <3>1, <3>2, <3>4 DEF CleanOf, Clean, Changes
    <3> QED BY <2>1, <3>1, <3>2, <3>5, CleanOfOthers DEF Changes
  <2> QED BY <1>11, <2>2, <2>3, <2>4
<1>12. CASE UNCHANGED vars
  BY <1>12 DEF vars, history, CleanInv, CleanOf, Clean
<1>13. ASSUME NEW x \in Runs, ThrowsAtGate(x) PROVE CleanInv'
  <2>1. LetsThrough(x, run[x].pc) /\ approvals' = approvals
    BY <1>13 DEF ThrowsAtGate
  <2> QED BY <1>13, <2>1, ThrowsAtGateRun, CleanLetsThrough
<1>14. ASSUME NEW x \in Runs, ThrowsExecuting(x) PROVE CleanInv'
  <2>1. Others(x) /\ Records(x) /\ tried' = tried /\ approvals' = approvals
    BY <1>14, ThrowsExecutingRun DEF ThrowsExecuting
  <2>2. x \in 1..Len(approvals) => CleanOf(x)'
    BY <2>1, CleanRecords
  <2> QED BY <2>1, <2>2, CleanOfOthers
<1> QED
  BY <1>1, <1>2, <1>3, <1>4, <1>5, <1>6, <1>7, <1>8, <1>9, <1>10, <1>11, <1>12, <1>13, <1>14
  DEF Next

LEMMA CleanHolds == Types /\ CleanInv => ApprovedGateRuns
BY DEF Types, CleanInv, CleanOf, ApprovedGateRuns

(* The row of the root *)

LEMMA RowStep ==
  Types /\ RunningRowHasRunner /\ [Next]_vars => RunningRowHasRunner'
<1> SUFFICES ASSUME Types, RunningRowHasRunner, [Next]_vars, up', row' = "running"
             PROVE  \E y \in Runs : run'[y].at = "running"
  BY DEF RunningRowHasRunner
<1>1. CASE Begin
  BY <1>1, BeginRun, NatSets
<1>2. CASE RootAsksApproval \/ Crash \/ Restart
  BY <1>2 DEF RootAsksApproval, Crash, Restart
<1>3. ASSUME NEW x \in Runs,
             \/ ReturnsCached(x) \/ OpensGate(x) \/ AsksApproval(x) \/ Executes(x)
             \/ ThrowsAtGate(x) \/ ThrowsExecuting(x)
      PROVE  \E y \in Runs : run'[y].at = "running"
  BY <1>3, ReturnsCachedRun, OpensGateRun, AsksApprovalRun, ExecutesRun, ThrowsAtGateRun,
     ThrowsExecutingRun DEF Entered
<1>4. ASSUME NEW x \in Runs, Ends(x) \/ Dies(x) PROVE FALSE
  BY <1>4 DEF Ends, Dies
<1>5. ASSUME NEW a \in DOMAIN approvals, Approve(a) \/ Reject(a) \/ Retry(a)
      PROVE  \E y \in Runs : run'[y].at = "running"
  BY <1>5 DEF Approve, Reject, Retry, RunningRowHasRunner
<1>6. ASSUME NEW a \in DOMAIN approvals, Claim(a)
      PROVE  \E y \in Runs : run'[y].at = "running"
  <2>1. a \in 1..Len(approvals)
    BY DEF Types
  <2> QED BY <1>6, <2>1, ClaimRun, ApprovalIs
<1>7. ASSUME NEW a \in DOMAIN approvals, Continues(a)
      PROVE  \E y \in Runs : run'[y].at = "running"
  <2>1. PICK y \in Runs : run[y].at = "running"
    BY <1>7 DEF Continues, RunningRowHasRunner
  <2>2. run'[y] = run[y]
    BY <1>7, <2>1 DEF Continues, Types
  <2> QED BY <2>1, <2>2
<1>8. CASE UNCHANGED vars
  BY <1>8 DEF vars, RunningRowHasRunner
<1> QED BY <1>1, <1>2, <1>3, <1>4, <1>5, <1>6, <1>7, <1>8 DEF Next

(* The inductive invariant *)

LEMMA InitIInv == Init => IInv
<1> SUFFICES ASSUME Init PROVE IInv
  OBVIOUS
<1>1. /\ \A x \in Runs : run[x] = NoRun /\ opened[x] = 0 /\ tried[x] = {}
      /\ approvals = <<>> /\ row = "none" /\ 0 \in Runs
  BY NatSets DEF Init
<1>2. Types
  <2>1. run \in [Runs -> Run]
    BY NoRunIs DEF Init
  <2>2. approvals \in Seq(Approval) /\ Len(approvals) <= MaxApprovals
    BY <1>1, ReplayAssumption DEF ReplayAssumption
  <2>3. /\ tried \in [Runs -> SUBSET (0..K)] /\ opened \in [Runs -> Nat]
        /\ replayed \subseteq Calls /\ gaps \subseteq Calls
    BY DEF Init
  <2> QED BY <2>1, <2>2, <2>3 DEF Init, Types
<1>3. Len(approvals) = 0
  BY <1>1
<1>4. FlowInv /\ GrantInv /\ RunningRowHasRunner
  BY <1>1, <1>3 DEF FlowInv, RunFlow, GrantInv, GrantOf, RunningRowHasRunner, NoRun
<1>5. FirstInv
  <2>1. \A c \in Calls : ~(c < 1)
    BY DEF Calls
  <2>2. FirstBody
    BY <1>1, <2>1 DEF FirstBody, Recorded, NoRun
  <2>3. \A x \in Runs : FirstRun(x)
    BY <1>1 DEF FirstRun, Gates, NoRun
  <2>4. NoneReplayed
    BY DEF Init, NoneReplayed
  <2> QED BY <1>1, <1>3, <2>2, <2>3, <2>4 DEF FirstInv
<1>6. CleanInv
  BY <1>3 DEF CleanInv
<1> QED BY <1>2, <1>4, <1>5, <1>6 DEF IInv

LEMMA IInvStep == IInv /\ [Next]_vars => IInv'
BY TypesStep, FlowStep, GrantStep, FirstStep, CleanStep, RowStep DEF IInv

LEMMA Inductive == Spec => []IInv
<1>1. Init => IInv
  BY InitIInv
<1>2. IInv /\ [Next]_vars => IInv'
  BY IInvStep
<1> QED BY <1>1, <1>2, PTL DEF Spec

(* The theorems *)

\* The rows, runs and approvals stay what engine.ts and the approvals table say
\* they are, and a replay never reads past its journal (engine.ts:838).
THEOREM TypeCorrect == Spec => []TypeOK
<1>1. IInv => TypeOK
  BY TypeHolds DEF IInv
<1> QED BY <1>1, Inductive, PTL

\* However decisions, retries, claims, crashes and replays interleave, and
\* whatever throws: the runs of an approval let through one call, the gate of
\* its journal, and bring it to one result at most for each grant
\* (approval-handler.ts:123, "so only one worker runs it"). How often the body
\* makes that call again while it throws is not bounded, and which decision the
\* call needed is not said: engine.ts:838 does not ask.
THEOREM OneGatePerDecision == Spec => []OneRunPerGrant
<1>1. IInv => OneRunPerGrant
  BY GrantsKept DEF IInv
<1> QED BY <1>1, Inductive, PTL

\* No replay executes a call before the first gate and before the first call
\* that threw and was passed over, whatever is approved, retried or interrupted:
\* the journals every replay starts from have those calls (engine.ts:838). From
\* a call that threw on, nothing of the kind holds: it is not journaled
\* (engine.ts:937-961).
THEOREM BodyBeforeGateRunsOnce == Spec => []NothingRepeatedBeforeGate
<1>1. IInv => NothingRepeatedBeforeGate
  BY FirstHolds DEF IInv
<1> QED BY <1>1, Inductive, PTL

\* An approval that succeeded let its call through, if only to throw, when its
\* journal has every call up to that one in its place and no other pending. A
\* journal with a gap, where a call threw, is not among them.
THEOREM ApprovalRunsItsCall == Spec => []ApprovedGateRuns
<1>1. IInv => ApprovedGateRuns
  BY CleanHolds DEF IInv
<1> QED BY <1>1, Inductive, PTL

\* A row that says running has a run behind it, over crashes and overlapping
\* runs of one root (restart-recovery.ts:12).
THEOREM RunningRowsRun == Spec => []RunningRowHasRunner
<1>1. IInv => RunningRowHasRunner
  BY DEF IInv
<1> QED BY <1>1, Inductive, PTL
=============================================================================
