----------------------- MODULE ActionWorkerPoolProofs -----------------------
(***************************************************************************)
(* Proofs about ActionWorkerPool for every cap, warm pool size, number of  *)
(* uses, set of executions and number of restarts.                         *)
(***************************************************************************)
EXTENDS ActionWorkerPool, FiniteSetTheorems, TLAPS

\* A worker runs exactly while it has an execution, only a running worker has
\* a message under way, and a worn worker is being stopped.
Kept(u) == /\ u.state = "running" <=> u.job # NoJob
           /\ u.mail # "none" => u.state = "running"
           /\ u.state # "stopping" => u.uses < MaxUses
WorkerBookkeeping == \A w \in Workers : Kept(worker[w])

IInv == TypeOK /\ WorkerBookkeeping /\ WarmIsSpare

\* The types of what is not a worker.
RestTypeOK ==
  /\ queue \in Seq(Roots)
  /\ recheck \in BOOLEAN /\ started \in BOOLEAN
  /\ phase \in {"booting", "up", "down"}
  /\ generation \in 0..MaxRestarts /\ restarting \in Nat
  /\ pc \in {"idle", "admit", "admit+refill", "refill"}
  /\ status \in [Jobs -> Statuses]

LEMMA NoWorkerIsWorker == NoWorker \in Worker /\ NoWorker.state = "none" /\ Kept(NoWorker)
BY PoolAssumption DEF PoolAssumption, NoWorker, Worker, Kept

LEMMA InitIInv == Init => IInv
<1> SUFFICES ASSUME Init PROVE IInv
  OBVIOUS
<1>1. worker \in [Workers -> Worker]
  BY NoWorkerIsWorker DEF Init
<1>2. RestTypeOK
  <2>1. generation \in 0..MaxRestarts /\ restarting \in Nat
    BY PoolAssumption DEF PoolAssumption, Init
  <2>2. status \in [Jobs -> Statuses]
    BY DEF Init, Statuses
  <2>3. queue \in Seq(Roots)
    BY DEF Init
  <2>4. /\ recheck \in BOOLEAN /\ started \in BOOLEAN
        /\ phase \in {"booting", "up", "down"}
        /\ pc \in {"idle", "admit", "admit+refill", "refill"}
    BY DEF Init
  <2> QED BY <2>1, <2>2, <2>3, <2>4 DEF RestTypeOK
<1>3. live \subseteq Workers /\ warm \subseteq Workers
  BY DEF Init
<1>4. WorkerBookkeeping /\ WarmIsSpare
  BY PoolAssumption
     DEF PoolAssumption, Init, WorkerBookkeeping, Kept, WarmIsSpare, NoWorker
<1> QED BY <1>1, <1>2, <1>3, <1>4 DEF IInv, TypeOK, RestTypeOK

\* The steps that change one worker: what is to be shown of its new record.
LEMMA OneWorkerChanges ==
  ASSUME IInv, RestTypeOK', NEW w \in Workers, NEW u \in Worker, Kept(u),
         worker' = [worker EXCEPT ![w] = u],
         live' = IF u.state = "none" THEN live \ {w} ELSE live \union {w},
         warm' = IF u.state \in {"starting", "idle"} THEN warm \union {w}
                                                     ELSE warm \ {w}
  PROVE  IInv'
<1>1. worker \in [Workers -> Worker] /\ live \subseteq Workers /\ warm \subseteq Workers
  BY DEF IInv, TypeOK
<1>2. worker'[w] = u /\ \A v \in Workers \ {w} : worker'[v] = worker[v]
  BY <1>1
<1>3. TypeOK'
  <2>1. worker' \in [Workers -> Worker]
    BY <1>1
  <2>2. live' \subseteq Workers /\ warm' \subseteq Workers
    BY <1>1
  <2> QED BY <2>1, <2>2 DEF RestTypeOK, TypeOK
<1>4. WorkerBookkeeping'
  BY <1>2 DEF IInv, WorkerBookkeeping, Kept
<1>5. WarmIsSpare'
  BY <1>2 DEF IInv, WarmIsSpare
<1> QED BY <1>3, <1>4, <1>5 DEF IInv

\* The steps that change no worker.
LEMMA NoWorkerChanges ==
  ASSUME IInv, RestTypeOK', UNCHANGED <<worker, live, warm>>
  PROVE  IInv'
BY DEF IInv, TypeOK, RestTypeOK, WorkerBookkeeping, Kept, WarmIsSpare

\* What is known of a worker before a step.
LEMMA WorkerKnown ==
  ASSUME IInv, NEW w \in Workers
  PROVE  /\ worker \in [Workers -> Worker] /\ worker[w] \in Worker
         /\ Kept(worker[w])
         /\ w \in live <=> worker[w].state # "none"
         /\ w \in warm <=> worker[w].state \in {"starting", "idle"}
BY DEF IInv, TypeOK, WorkerBookkeeping, WarmIsSpare

\* Handing an execution to a worker.
LEMMA CheckoutKeepsIInv ==
  ASSUME IInv, NEW j \in Jobs, Checkout(j), RestTypeOK'
  PROVE  IInv'
<1>1. PICK w \in Workers : CheckoutWarm(w, j) \/ CheckoutFork(w, j)
  BY DEF Checkout
<1>2. j # NoJob
  BY PoolAssumption DEF PoolAssumption
<1>3. CASE CheckoutWarm(w, j)
  <2> DEFINE u == [worker[w] EXCEPT !.state = "running", !.job = j]
  <2>1. /\ u \in Worker /\ u.state = "running" /\ u.job = j
        /\ u.uses = worker[w].uses
    BY WorkerKnown DEF Worker
  <2>2. Kept(u)
    BY <1>2, <1>3, <2>1, WorkerKnown DEF Kept, CheckoutWarm, Usable
  <2>3. worker' = [worker EXCEPT ![w] = u]
    BY <1>3, WorkerKnown DEF CheckoutWarm
  <2>4. w \in live /\ live' = live /\ warm' = warm \ {w}
    BY <1>3, WorkerKnown DEF CheckoutWarm, Usable
  <2> HIDE DEF u
  <2> QED BY <2>1, <2>2, <2>3, <2>4, OneWorkerChanges
<1>4. CASE CheckoutFork(w, j)
  <2> DEFINE u == [NoWorker EXCEPT !.state = "running", !.gen = generation, !.job = j]
  <2>1. /\ u \in Worker /\ u.state = "running" /\ u.job = j
        /\ u.uses = NoWorker.uses
    BY NoWorkerIsWorker DEF IInv, TypeOK, Worker
  <2>2. Kept(u)
    BY <1>2, <2>1, NoWorkerIsWorker DEF Kept
  <2>3. worker' = [worker EXCEPT ![w] = u] /\ live' = live \union {w} /\ warm' = warm
    BY <1>4 DEF CheckoutFork, Forks
  <2>4. w \notin warm
    BY <1>4, WorkerKnown DEF CheckoutFork, Forks
  <2> HIDE DEF u
  <2> QED BY <2>1, <2>2, <2>3, <2>4, OneWorkerChanges
<1> QED BY <1>1, <1>3, <1>4

LEMMA CallerKeepsIInv == IInv /\ CallerStep => IInv'
<1> SUFFICES ASSUME IInv, CallerStep PROVE IInv'
  OBVIOUS
<1> USE DEF IInv, TypeOK, RestTypeOK, Statuses, Jobs, poolVars
<1>1. ASSUME NEW r \in Roots, RootStarts(r) PROVE IInv'
  <2>1. RestTypeOK'
    BY <1>1 DEF RootStarts, Checkout
  <2> QED BY <1>1, <2>1, CheckoutKeepsIInv DEF RootStarts
<1>2. ASSUME NEW r \in Roots, RootQueues(r) PROVE IInv'
  <2>1. RestTypeOK'
    BY <1>2 DEF RootQueues
  <2> QED BY <1>2, <2>1, NoWorkerChanges DEF RootQueues
<1>3. ASSUME NEW c \in Calls, CallStarts(c) PROVE IInv'
  <2>1. RestTypeOK'
    BY <1>3 DEF CallStarts, Checkout
  <2> QED BY <1>3, <2>1, CheckoutKeepsIInv DEF CallStarts
<1>4. ASSUME NEW c \in Calls, CallRefused(c) PROVE IInv'
  <2>1. RestTypeOK'
    BY <1>4 DEF CallRefused
  <2> QED BY <1>4, <2>1, NoWorkerChanges DEF CallRefused
<1>5. ASSUME NEW i \in DOMAIN queue, NEW st \in {"refused", "cancelled"},
             LeavesQueue(i, st)
      PROVE  IInv'
  <2>1. queue' \in Seq(Roots)
    BY <1>5 DEF LeavesQueue, RemoveAt
  <2>2. RestTypeOK'
    BY <1>5, <2>1 DEF LeavesQueue
  <2> QED BY <1>5, <2>2, NoWorkerChanges DEF LeavesQueue
<1>6. ASSUME NEW w \in Workers, Cancel(w) PROVE IInv'
  <2> DEFINE u == [worker[w] EXCEPT !.doomed = worker[w].job]
  <2>1. /\ u \in Worker /\ u.state = "running" /\ u.job = worker[w].job
        /\ u.uses = worker[w].uses
    BY <1>6, WorkerKnown DEF Cancel, Worker
  <2>2. Kept(u)
    BY <1>6, <2>1, WorkerKnown DEF Kept, Cancel
  <2>3. worker' = [worker EXCEPT ![w] = u] /\ live' = live /\ warm' = warm
    BY <1>6 DEF Cancel
  <2>4. w \in live /\ w \notin warm
    BY <1>6, WorkerKnown DEF Cancel
  <2>5. RestTypeOK'
    BY <1>6 DEF Cancel
  <2> HIDE DEF u
  <2> QED BY <2>1, <2>2, <2>3, <2>4, <2>5, OneWorkerChanges
<1> QED BY <1>1, <1>2, <1>3, <1>4, <1>5, <1>6 DEF CallerStep

\* The warm workers are told to stop and are warm no longer.
LEMMA StoppingKeepsIInv ==
  ASSUME IInv, RestTypeOK', worker' = Stopped(warm), warm' = {}, live' = live
  PROVE  IInv'
<1>1. ASSUME NEW w \in Workers
      PROVE  /\ worker'[w] \in Worker /\ Kept(worker'[w])
             /\ worker'[w].state = "none" <=> worker[w].state = "none"
             /\ worker'[w].state \notin {"starting", "idle"}
  <2>1. CASE w \in warm
    <3>1. /\ worker'[w] = [worker[w] EXCEPT !.state = "stopping"]
          /\ worker[w].state \in {"starting", "idle"}
      BY <2>1, WorkerKnown DEF Stopped
    <3>2. /\ worker'[w] \in Worker /\ worker'[w].state = "stopping"
          /\ worker'[w].job = worker[w].job /\ worker'[w].mail = worker[w].mail
      BY <3>1, WorkerKnown DEF Worker
    <3> QED BY <3>1, <3>2, WorkerKnown DEF Kept
  <2>2. CASE w \notin warm
    BY <2>2, WorkerKnown DEF Stopped
  <2> QED BY <2>1, <2>2
<1>2. worker' \in [Workers -> Worker]
  BY <1>1 DEF Stopped
<1>3. TypeOK'
  BY <1>2 DEF IInv, TypeOK, RestTypeOK
<1>4. WorkerBookkeeping' /\ WarmIsSpare'
  BY <1>1 DEF IInv, WorkerBookkeeping, WarmIsSpare, Kept
<1> QED BY <1>3, <1>4 DEF IInv

LEMMA LifeKeepsIInv == IInv /\ LifeStep => IInv'
<1> SUFFICES ASSUME IInv, LifeStep PROVE IInv'
  OBVIOUS
<1>1. RestTypeOK'
  <2> USE DEF IInv, TypeOK, RestTypeOK
  <2>1. CASE StartPool \/ StopPool
    BY <2>1 DEF StartPool, StopPool
  <2>2. CASE RestartPool
    <3>1. generation' \in 0..MaxRestarts /\ restarting' \in Nat
      BY <2>2, PoolAssumption DEF PoolAssumption, RestartPool
    <3> QED BY <2>2, <3>1 DEF RestartPool
  <2>3. CASE RestartDone
    <3>1. restarting' \in Nat
      BY <2>3 DEF RestartDone
    <3> QED BY <2>3, <3>1 DEF RestartDone
  <2> QED BY <2>1, <2>2, <2>3 DEF LifeStep
<1>2. CASE StartPool \/ RestartDone
  BY <1>1, <1>2, NoWorkerChanges DEF StartPool, RestartDone
<1>3. CASE StopPool \/ RestartPool
  BY <1>1, <1>3, StoppingKeepsIInv DEF StopPool, RestartPool
<1> QED BY <1>2, <1>3 DEF LifeStep

LEMMA LoopKeepsIInv == IInv /\ LoopStep => IInv'
<1> SUFFICES ASSUME IInv, LoopStep PROVE IInv'
  OBVIOUS
<1> USE DEF IInv, TypeOK, RestTypeOK, Statuses, Jobs, poolVars, Admitting,
            AfterAdmission
<1>1. CASE AdmitNext
  <2>1. Head(queue) \in Roots /\ Tail(queue) \in Seq(Roots)
    BY <1>1 DEF AdmitNext
  <2>2. RestTypeOK'
    BY <1>1, <2>1 DEF AdmitNext, Checkout
  <2> QED BY <1>1, <2>1, <2>2, CheckoutKeepsIInv DEF AdmitNext
<1>2. CASE AdmitHeld \/ AdmitDone \/ RefillDone
  <2>1. RestTypeOK'
    BY <1>2 DEF AdmitHeld, AdmitDone, RefillDone
  <2> QED BY <1>2, <2>1, NoWorkerChanges DEF AdmitHeld, AdmitDone, RefillDone
<1>3. CASE RefillNext
  <2> DEFINE u == [NoWorker EXCEPT !.state = "starting", !.pooled = TRUE,
                                   !.gen = generation]
  <2>1. PICK w \in Workers : /\ Forks(w) /\ worker' = [worker EXCEPT ![w] = u]
                             /\ warm' = warm \union {w}
    BY <1>3 DEF RefillNext
  <2>2. /\ u \in Worker /\ u.state = "starting" /\ u.job = NoWorker.job
        /\ u.uses = NoWorker.uses /\ u.mail = NoWorker.mail
    BY NoWorkerIsWorker DEF Worker
  <2>3. Kept(u)
    BY <2>2, NoWorkerIsWorker DEF Kept
  <2>4. RestTypeOK'
    BY <1>3 DEF RefillNext
  <2> HIDE DEF u
  <2> QED BY <2>1, <2>2, <2>3, <2>4, OneWorkerChanges DEF Forks
<1> QED BY <1>1, <1>2, <1>3 DEF LoopStep

LEMMA WorkerKeepsIInv ==
  ASSUME IInv, NEW w \in Workers, WorkerStep(w) PROVE IInv'
<1> USE WorkerKnown DEF Kept
<1>1. RestTypeOK'
  <2>1. status' \in [Jobs -> Statuses]
    BY DEF IInv, TypeOK, Statuses, WorkerStep, Replies, WorkerReady,
           ResultArrives, ErrorArrives, WorkerExits
  <2> QED BY <2>1 DEF IInv, TypeOK, RestTypeOK, poolVars, WorkerStep, Replies,
                      WorkerReady, ResultArrives, ErrorArrives, WorkerExits
<1>2. CASE Replies(w)
  <2>1. PICK m \in {"result", "error"} : worker' = [worker EXCEPT ![w].mail = m]
    BY <1>2 DEF Replies
  <2> DEFINE u == [worker[w] EXCEPT !.mail = m]
  <2>2. /\ u \in Worker /\ u.state = "running" /\ u.job = worker[w].job
        /\ u.uses = worker[w].uses
    BY <1>2 DEF Replies, Worker
  <2>3. Kept(u) /\ w \in live /\ w \notin warm
    BY <1>2, <2>2 DEF Replies
  <2>4. worker' = [worker EXCEPT ![w] = u] /\ live' = live /\ warm' = warm
    BY <1>2, <2>1 DEF Replies
  <2> HIDE DEF u
  <2> QED BY <1>1, <2>2, <2>3, <2>4, OneWorkerChanges
<1>3. CASE WorkerReady(w)
  <2> DEFINE u == [worker[w] EXCEPT !.state = "idle", !.ready = TRUE]
  <2>1. /\ u \in Worker /\ u.state = "idle" /\ u.job = worker[w].job
        /\ u.uses = worker[w].uses /\ u.mail = worker[w].mail
    BY <1>3 DEF WorkerReady, Worker
  <2>2. Kept(u) /\ w \in live /\ w \in warm
    BY <1>3, <2>1 DEF WorkerReady
  <2>3. worker' = [worker EXCEPT ![w] = u] /\ live' = live /\ warm' = warm
    BY <1>3 DEF WorkerReady
  <2> HIDE DEF u
  <2> QED BY <1>1, <2>1, <2>2, <2>3, OneWorkerChanges
<1>4. CASE ResultArrives(w)
  <2>1. /\ worker[w].state = "running" /\ worker[w].uses < MaxUses
        /\ worker[w].uses \in Nat /\ MaxUses \in Nat /\ w \in live /\ w \notin warm
    BY <1>4, PoolAssumption DEF PoolAssumption, ResultArrives, Worker
  <2> DEFINE u(s) == [worker[w] EXCEPT !.job = NoJob, !.mail = "none",
                                       !.uses = worker[w].uses + 1, !.state = s]
  <2>2. ASSUME NEW s \in {"idle", "stopping"}
        PROVE  /\ u(s) \in Worker /\ u(s).state = s /\ u(s).job = NoJob
               /\ u(s).uses = worker[w].uses + 1 /\ u(s).mail = "none"
    <3>1. worker[w].uses + 1 \in 0..MaxUses
      BY <2>1
    <3> QED BY <3>1 DEF Worker
  <2>3. CASE ReturnsToPool(w)
    <3>1. Kept(u("idle"))
      BY <2>2, <2>3 DEF ReturnsToPool
    <3>2. /\ worker' = [worker EXCEPT ![w] = u("idle")]
          /\ live' = live /\ warm' = warm \union {w}
      BY <1>4, <2>3 DEF ResultArrives, Freed, Worker
    <3> HIDE DEF u
    <3> QED BY <1>1, <2>1, <2>2, <3>1, <3>2, OneWorkerChanges
  <2>4. CASE ~ReturnsToPool(w)
    <3>1. Kept(u("stopping"))
      BY <2>2
    <3>2. /\ worker' = [worker EXCEPT ![w] = u("stopping")]
          /\ live' = live /\ warm' = warm
      BY <1>4, <2>4 DEF ResultArrives, Freed, Worker
    <3> HIDE DEF u
    <3> QED BY <1>1, <2>1, <2>2, <3>1, <3>2, OneWorkerChanges
  <2> QED BY <2>3, <2>4
<1>5. CASE ErrorArrives(w)
  <2> DEFINE u == [worker[w] EXCEPT !.job = NoJob, !.mail = "none", !.state = "stopping"]
  <2>1. u \in Worker /\ u.state = "stopping" /\ u.job = NoJob /\ u.mail = "none"
    BY DEF Worker
  <2>2. Kept(u) /\ w \in live /\ w \notin warm
    BY <1>5, <2>1 DEF ErrorArrives
  <2>3. worker' = [worker EXCEPT ![w] = u] /\ live' = live /\ warm' = warm
    BY <1>5 DEF ErrorArrives, Freed, Worker
  <2> HIDE DEF u
  <2> QED BY <1>1, <2>1, <2>2, <2>3, OneWorkerChanges
<1>6. CASE WorkerExits(w)
  <2>1. /\ worker' = [worker EXCEPT ![w] = NoWorker]
        /\ live' = live \ {w} /\ warm' = warm \ {w}
    BY <1>6 DEF WorkerExits
  <2> QED BY <1>1, <2>1, NoWorkerIsWorker, OneWorkerChanges
<1> QED BY <1>2, <1>3, <1>4, <1>5, <1>6 DEF WorkerStep

LEMMA StepIInv == IInv /\ [Next]_vars => IInv'
<1> SUFFICES ASSUME IInv, [Next]_vars PROVE IInv'
  OBVIOUS
<1>1. CASE RecheckFires \/ UNCHANGED vars
  <2>1. RestTypeOK'
    BY <1>1 DEF vars, RecheckFires, IInv, TypeOK, RestTypeOK, poolVars
  <2> QED BY <1>1, <2>1, NoWorkerChanges DEF vars, RecheckFires
<1> QED BY <1>1, CallerKeepsIInv, LifeKeepsIInv, LoopKeepsIInv,
           WorkerKeepsIInv DEF Next

LEMMA Invariance == Spec => []IInv
<1> QED BY InitIInv, StepIInv, PTL DEF Spec

\* Every variable of the pool keeps its type.
THEOREM TypeCorrect == Spec => []TypeOK
<1>1. IInv => TypeOK
  BY DEF IInv
<1> QED BY <1>1, Invariance, PTL

\* The warm set is exactly the live workers that may be given an execution or
\* soon will be, and a slot is taken exactly while its process has not exited.
THEOREM WarmSetIsSpare == Spec => []WarmIsSpare
<1>1. IInv => WarmIsSpare
  BY DEF IInv
<1> QED BY <1>1, Invariance, PTL
-----------------------------------------------------------------------------
(* Counting workers *)

LEMMA Counted ==
  ASSUME IInv
  PROVE  /\ IsFiniteSet(live) /\ IsFiniteSet(warm) /\ warm \subseteq live
         /\ Cardinality(live) \in Nat /\ Cardinality(warm) \in Nat
<1>1. IsFiniteSet(live) /\ IsFiniteSet(warm)
  BY FS_Subset, PoolAssumption DEF PoolAssumption, IInv, TypeOK
<1>2. warm \subseteq live
  BY DEF IInv, WarmIsSpare
<1> QED BY <1>1, <1>2, FS_CardinalityType

\* How the steps count: a fork adds a process where the cap allows it, any
\* other step adds none, and only an exit, a return and a stop make room.
LEMMA CapStep == IInv /\ CapRespected /\ [Next]_vars => CapRespected'
<1> SUFFICES ASSUME IInv, CapRespected, [Next]_vars PROVE CapRespected'
  OBVIOUS
<1> USE Counted, PoolAssumption DEF PoolAssumption, CapRespected
<1>1. CASE live' = live
  BY <1>1
<1>2. ASSUME NEW w \in Workers, Forks(w) PROVE CapRespected'
  <2>1. Cardinality(live') = Cardinality(live) + 1
    BY <1>2, FS_AddElement DEF Forks
  <2> QED BY <1>2, <2>1 DEF Forks
<1>3. ASSUME NEW w \in Workers, live' = live \ {w} PROVE CapRespected'
  <2>1. Cardinality(live') \in {Cardinality(live), Cardinality(live) - 1}
    BY <1>3, FS_RemoveElement
  <2> QED BY <2>1
<1>4. ASSUME NEW j \in Jobs, Checkout(j)
      PROVE  live' = live \/ \E w \in Workers : Forks(w)
  BY <1>4 DEF Checkout, CheckoutWarm, CheckoutFork
<1>5. CASE CallerStep
  <2>1. live' = live \/ \E j \in Jobs : Checkout(j)
    BY <1>5 DEF CallerStep, RootStarts, RootQueues, CallStarts, CallRefused,
                LeavesQueue, Cancel, Jobs
  <2> QED BY <2>1, <1>1, <1>2, <1>4
<1>6. CASE LifeStep \/ RecheckFires \/ UNCHANGED vars
  BY <1>1, <1>6 DEF LifeStep, StartPool, StopPool, RestartPool, RestartDone,
                    RecheckFires, vars
<1>7. CASE LoopStep
  <2>1. CASE AdmitNext
    <3>1. Head(queue) \in Jobs
      BY <2>1 DEF AdmitNext, IInv, TypeOK, Jobs
    <3> QED BY <2>1, <3>1, <1>1, <1>2, <1>4 DEF AdmitNext
  <2>2. CASE RefillNext
    BY <2>2, <1>2 DEF RefillNext
  <2>3. CASE AdmitHeld \/ AdmitDone \/ RefillDone
    BY <2>3, <1>1 DEF AdmitHeld, AdmitDone, RefillDone
  <2> QED BY <1>7, <2>1, <2>2, <2>3 DEF LoopStep
<1>8. ASSUME NEW w \in Workers, WorkerStep(w) PROVE CapRespected'
  <2>1. live' = live \/ live' = live \ {w}
    BY <1>8 DEF WorkerStep, Replies, WorkerReady, ResultArrives, ErrorArrives,
                WorkerExits
  <2> QED BY <2>1, <1>1, <1>3
<1> QED BY <1>5, <1>6, <1>7, <1>8 DEF Next

\* Spare workers, returning ones and the ones being stopped included, the
\* processes never exceed maxWorkerProcesses.
THEOREM CapIsRespected == Spec => []CapRespected
<1>1. Init => CapRespected
  BY FS_EmptySet, PoolAssumption DEF PoolAssumption, Init, CapRespected
<1> QED BY <1>1, CapStep, Invariance, PTL DEF Spec
-----------------------------------------------------------------------------
(* When a queued root could be admitted *)

\* Less room than before admits nothing that was not admissible before.
LEMMA Narrower ==
  ASSUME IInv, Cardinality(live) <= Cardinality(live'), Busy <= Busy',
         Cardinality(live') \in Nat, Busy' \in Int,
         Usable' \subseteq Usable, CanAdmit'
  PROVE  CanAdmit
<1>1. Busy \in Int /\ MaxWorkers - Reserved \in Int
  BY Counted, PoolAssumption DEF PoolAssumption, Busy, Reserved
<1>2. Busy' < MaxWorkers - Reserved
  BY DEF CanAdmit
<1>3. Busy < MaxWorkers - Reserved
  BY <1>1, <1>2
<1>4. Cardinality(live') < MaxWorkers \/ Usable' # {}
  BY DEF CanAdmit
<1>5. Cardinality(live) < MaxWorkers \/ Usable # {}
  BY <1>4, Counted, PoolAssumption DEF PoolAssumption
<1> QED BY <1>3, <1>5 DEF CanAdmit

LEMMA CheckoutNarrows ==
  ASSUME IInv, NEW j \in Jobs, Checkout(j), generation' = generation, CanAdmit'
  PROVE  CanAdmit
<1>1. PICK w \in Workers : CheckoutWarm(w, j) \/ CheckoutFork(w, j)
  BY DEF Checkout
<1>2. CASE CheckoutWarm(w, j)
  <2>1. live' = live /\ warm' = warm \ {w} /\ w \in warm
    BY <1>2 DEF CheckoutWarm, Usable
  <2>2. Cardinality(warm') = Cardinality(warm) - 1
    BY <2>1, Counted, FS_RemoveElement
  <2>3. Usable' \subseteq Usable
    <3>1. \A v \in Workers \ {w} : worker'[v] = worker[v]
      BY <1>2, WorkerKnown DEF CheckoutWarm
    <3>2. warm \subseteq Workers
      BY DEF IInv, TypeOK
    <3> QED BY <2>1, <3>1, <3>2 DEF Usable
  <2>4. Busy <= Busy' /\ Busy' \in Int /\ Cardinality(live') = Cardinality(live)
    BY <2>1, <2>2, Counted DEF Busy
  <2> QED BY <2>3, <2>4, Counted, Narrower
<1>3. CASE CheckoutFork(w, j)
  <2>1. live' = live \union {w} /\ w \notin live /\ warm' = warm
    BY <1>3 DEF CheckoutFork, Forks
  <2>2. Cardinality(live') = Cardinality(live) + 1
    BY <2>1, Counted, FS_AddElement
  <2>3. Usable' \subseteq Usable
    <3>1. \A v \in Workers \ {w} : worker'[v] = worker[v]
      BY <1>3, WorkerKnown DEF CheckoutFork
    <3>2. warm \subseteq Workers /\ w \notin warm
      BY <2>1, Counted DEF IInv, TypeOK
    <3> QED BY <2>1, <3>1, <3>2 DEF Usable
  <2>4. Busy <= Busy' /\ Busy' \in Int
    BY <2>1, <2>2, Counted DEF Busy
  <2> QED BY <2>2, <2>3, <2>4, Counted, Narrower
<1> QED BY <1>1, <1>2, <1>3

\* A new warm worker is as busy as it is spare, and not usable yet.
LEMMA RefillNarrows ==
  ASSUME IInv, RefillNext, CanAdmit' PROVE CanAdmit
<1>1. PICK w \in Workers : /\ Forks(w) /\ warm' = warm \union {w}
                           /\ \A v \in Workers \ {w} : worker'[v] = worker[v]
                           /\ worker'[w].state = "starting"
  BY WorkerKnown DEF RefillNext, NoWorker
<1>2. w \notin live /\ w \notin warm /\ live' = live \union {w}
  BY <1>1, Counted DEF Forks
<1>3. /\ Cardinality(live') = Cardinality(live) + 1
      /\ Cardinality(warm') = Cardinality(warm) + 1
  BY <1>1, <1>2, Counted, FS_AddElement
<1>4. Usable' \subseteq Usable
  <2>1. warm \subseteq Workers /\ generation' = generation
    BY DEF IInv, TypeOK, RefillNext, poolVars
  <2> QED BY <1>1, <2>1 DEF Usable
<1>5. Busy <= Busy' /\ Busy' \in Int
  BY <1>3, Counted DEF Busy
<1> QED BY <1>3, <1>4, <1>5, Counted, Narrower

\* A stopped warm worker keeps its slot, and so becomes a busy one.
LEMMA StoppingNarrows ==
  ASSUME IInv, live' = live, warm' = {}, CanAdmit'
  PROVE  CanAdmit
<1>1. Cardinality(warm') = 0
  BY FS_EmptySet
<1>2. Usable' = {}
  BY DEF Usable
<1>3. Busy <= Busy' /\ Busy' \in Int
  BY <1>1, Counted DEF Busy
<1> QED BY <1>2, <1>3, Counted, Narrower

\* What a step that takes and frees no worker leaves usable.
LEMMA SameUsable ==
  ASSUME IInv, UNCHANGED <<live, warm, generation>>,
         \A w \in warm : worker'[w].state = worker[w].state
                        /\ worker'[w].gen = worker[w].gen
  PROVE  CanAdmit' <=> CanAdmit
<1>1. Usable' = Usable
  BY DEF Usable
<1> QED BY <1>1 DEF CanAdmit, Busy

LEMMA WakeupStep == IInv /\ NoLostWakeup /\ [Next]_vars => NoLostWakeup'
<1> SUFFICES ASSUME IInv, NoLostWakeup, [Next]_vars, queue' # <<>>, CanAdmit'
             PROVE  Admitting' \/ recheck'
  BY DEF NoLostWakeup
<1>1. ASSUME CanAdmit, queue # <<>>, pc' = pc, recheck' = recheck
      PROVE  Admitting' \/ recheck'
  BY <1>1 DEF NoLostWakeup, Admitting
<1>2. ASSUME UNCHANGED <<worker, live, warm, generation>> PROVE CanAdmit
  BY <1>2, SameUsable
<1>3. CASE CallerStep
  <2>1. ASSUME NEW r \in Roots, RootStarts(r) PROVE Admitting' \/ recheck'
    BY <2>1 DEF RootStarts
  <2>2. ASSUME NEW r \in Roots, RootQueues(r) PROVE Admitting' \/ recheck'
    BY <2>2, <1>2 DEF RootQueues, poolVars
  <2>3. ASSUME NEW c \in Calls, CallStarts(c) PROVE Admitting' \/ recheck'
    BY <2>3, <1>1, CheckoutNarrows DEF CallStarts, Jobs, poolVars
  <2>4. ASSUME NEW c \in Calls, CallRefused(c) PROVE Admitting' \/ recheck'
    BY <2>4, <1>1, <1>2 DEF CallRefused, poolVars
  <2>5. ASSUME NEW i \in DOMAIN queue, NEW st \in {"refused", "cancelled"},
               LeavesQueue(i, st)
        PROVE  Admitting' \/ recheck'
    <3>1. queue # <<>>
      BY <2>5
    <3> QED BY <2>5, <3>1, <1>1, <1>2 DEF LeavesQueue, poolVars
  <2>6. ASSUME NEW w \in Workers, Cancel(w) PROVE Admitting' \/ recheck'
    <3>1. CanAdmit
      BY <2>6, WorkerKnown, SameUsable DEF Cancel, poolVars, IInv, TypeOK, Worker
    <3> QED BY <2>6, <3>1, <1>1 DEF Cancel
  <2> QED BY <1>3, <2>1, <2>2, <2>3, <2>4, <2>5, <2>6 DEF CallerStep
<1>4. CASE LifeStep
  <2>1. CASE StartPool \/ RestartDone
    <3>1. pc = "idle" /\ queue' = queue /\ recheck' = recheck /\ CanAdmit
      BY <2>1, <1>2 DEF StartPool, RestartDone
    <3> QED BY <3>1 DEF NoLostWakeup, Admitting
  <2>2. CASE StopPool \/ RestartPool
    BY <2>2, <1>1, StoppingNarrows DEF StopPool, RestartPool
  <2> QED BY <1>4, <2>1, <2>2 DEF LifeStep
<1>5. CASE LoopStep
  <2>1. CASE AdmitNext
    BY <2>1 DEF AdmitNext, Admitting
  <2>2. CASE AdmitHeld
    BY <2>2 DEF AdmitHeld
  <2>3. CASE AdmitDone
    BY <2>3, <1>2 DEF AdmitDone, poolVars
  <2>4. CASE RefillNext
    BY <2>4, <1>1, RefillNarrows DEF RefillNext
  <2>5. CASE RefillDone
    BY <2>5, <1>2 DEF RefillDone, NoLostWakeup, Admitting, poolVars
  <2> QED BY <1>5, <2>1, <2>2, <2>3, <2>4, <2>5 DEF LoopStep
<1>6. CASE RecheckFires
  BY <1>6 DEF RecheckFires, Admitting
<1>7. ASSUME NEW w \in Workers, WorkerStep(w) PROVE Admitting' \/ recheck'
  <2>1. CASE WorkerReady(w) \/ WorkerExits(w)
    BY <2>1 DEF WorkerReady, WorkerExits, Admitting
  <2>2. CASE ResultArrives(w) /\ ReturnsToPool(w)
    BY <2>2 DEF ResultArrives, Admitting
  <2>3. CASE \/ Replies(w) \/ ErrorArrives(w)
             \/ ResultArrives(w) /\ ~ReturnsToPool(w)
    <3>1. /\ worker[w].state = "running"
          /\ UNCHANGED <<live, warm, generation, queue, pc, recheck>>
          /\ \A v \in Workers \ {w} : worker'[v] = worker[v]
      BY <2>3, WorkerKnown
         DEF Replies, ErrorArrives, ResultArrives, Kept, poolVars
    <3>2. warm \subseteq Workers /\ w \notin warm
      BY <3>1, WorkerKnown DEF IInv, TypeOK
    <3>3. CanAdmit
      BY <3>1, <3>2, SameUsable
    <3> QED BY <3>1, <3>3, <1>1
  <2> QED BY <1>7, <2>1, <2>2, <2>3 DEF WorkerStep
<1>8. CASE UNCHANGED vars
  BY <1>8, <1>1, <1>2 DEF vars
<1> QED BY <1>3, <1>4, <1>5, <1>6, <1>7, <1>8 DEF Next

\* Whatever frees a slot runs the admission loop or arms its timer: no queued
\* root is left while it could have a worker.
THEOREM NoWakeupIsLost == Spec => []NoLostWakeup
<1>1. Init => NoLostWakeup
  BY DEF Init, NoLostWakeup
<1> QED BY <1>1, WakeupStep, Invariance, PTL DEF Spec
-----------------------------------------------------------------------------
(* The reserve *)

Rooted == {w \in Workers : worker[w].job \in Roots}

LEMMA RootedCounted ==
  ASSUME IInv
  PROVE  IsFiniteSet(Rooted) /\ Cardinality(Rooted) \in Nat
BY FS_Subset, FS_CardinalityType, PoolAssumption DEF PoolAssumption, Rooted

\* A worker with a root is live and not warm, so the roots are some of the
\* busy workers that admission counts.
LEMMA RootedAreBusy == ASSUME IInv PROVE Cardinality(Rooted) <= Busy
<1>1. Rooted \subseteq live \ warm
  BY WorkerKnown, PoolAssumption
     DEF Rooted, Kept, PoolAssumption, Jobs, IInv, WarmIsSpare
<1>2. IsFiniteSet(live \ warm) /\ Cardinality(live \ warm) = Busy
  <2>1. live \intersect warm = warm
    BY Counted
  <2> QED BY <2>1, Counted, FS_Difference DEF Busy
<1> QED BY <1>1, <1>2, FS_Subset

LEMMA ReserveStep == IInv /\ QueueKeepsReserve /\ [Next]_vars => QueueKeepsReserve'
<1> SUFFICES ASSUME IInv, QueueKeepsReserve, [Next]_vars PROVE QueueKeepsReserve'
  OBVIOUS
<1>1. QueueKeepsReserve <=> (Cardinality(Rooted) <= MaxWorkers - Reserved)
  BY DEF QueueKeepsReserve, Rooted
<1>2. QueueKeepsReserve' <=> (Cardinality(Rooted') <= MaxWorkers - Reserved)
  BY DEF QueueKeepsReserve, Rooted, Reserved
<1>3. MaxWorkers - Reserved \in Int
  BY PoolAssumption DEF PoolAssumption, Reserved
<1>4. ASSUME Rooted' \subseteq Rooted PROVE QueueKeepsReserve'
  <2>1. Cardinality(Rooted') <= Cardinality(Rooted) /\ Cardinality(Rooted') \in Nat
    BY <1>4, RootedCounted, FS_Subset, FS_CardinalityType
  <2> QED BY <2>1, <1>1, <1>2, <1>3, RootedCounted
<1>5. ASSUME NEW j \in Jobs, Checkout(j)
      PROVE  \E w \in Workers : Rooted' = IF j \in Roots THEN Rooted \union {w}
                                                         ELSE Rooted
  <2>1. PICK w \in Workers : CheckoutWarm(w, j) \/ CheckoutFork(w, j)
    BY <1>5 DEF Checkout
  <2>2. worker[w].job = NoJob
    BY <2>1, WorkerKnown, Counted
       DEF CheckoutWarm, CheckoutFork, Forks, Usable, Kept
  <2>3. worker'[w].job = j /\ \A v \in Workers \ {w} : worker'[v] = worker[v]
    <3>1. CASE CheckoutWarm(w, j)
      BY <3>1, WorkerKnown DEF CheckoutWarm, Worker
    <3>2. CASE CheckoutFork(w, j)
      BY <3>2, WorkerKnown DEF CheckoutFork, NoWorker
    <3> QED BY <2>1, <3>1, <3>2
  <2> QED BY <2>2, <2>3, PoolAssumption DEF PoolAssumption, Rooted, Jobs
<1>6. ASSUME NEW r \in Roots, Checkout(r), CanAdmit PROVE QueueKeepsReserve'
  <2>1. PICK w \in Workers : Rooted' = Rooted \union {w}
    BY <1>5, <1>6 DEF Jobs
  <2>2. /\ Cardinality(Rooted') <= Cardinality(Rooted) + 1
        /\ Cardinality(Rooted') \in Nat
    <3>1. IsFiniteSet(Rooted')
      BY <2>1, RootedCounted, FS_AddElement
    <3>2. Cardinality(Rooted') \in {Cardinality(Rooted), Cardinality(Rooted) + 1}
      BY <2>1, RootedCounted, FS_AddElement
    <3> QED BY <3>1, <3>2, RootedCounted, FS_CardinalityType
  <2>3. Busy < MaxWorkers - Reserved /\ Busy \in Int
    BY <1>6, Counted DEF CanAdmit, Busy
  <2> QED BY <2>2, <2>3, <1>2, <1>3, RootedAreBusy, RootedCounted
<1>7. ASSUME \A w \in Workers : worker'[w].job \in {worker[w].job, NoJob}
      PROVE  QueueKeepsReserve'
  <2>1. Rooted' \subseteq Rooted
    BY <1>7, PoolAssumption DEF PoolAssumption, Rooted, Jobs
  <2> QED BY <2>1, <1>4
<1>8. CASE CallerStep
  <2>1. ASSUME NEW r \in Roots, RootStarts(r) PROVE QueueKeepsReserve'
    BY <2>1, <1>6 DEF RootStarts
  <2>2. ASSUME NEW c \in Calls, CallStarts(c) PROVE QueueKeepsReserve'
    <3>1. c \in Jobs /\ c \notin Roots
      BY PoolAssumption DEF PoolAssumption, Jobs
    <3> QED BY <2>2, <3>1, <1>4, <1>5 DEF CallStarts
  <2>3. ASSUME NEW w \in Workers, Cancel(w) PROVE QueueKeepsReserve'
    BY <2>3, <1>7, WorkerKnown DEF Cancel, Worker
  <2>4. CASE worker' = worker
    BY <2>4, <1>7
  <2> QED BY <1>8, <2>1, <2>2, <2>3, <2>4
          DEF CallerStep, RootQueues, CallRefused, LeavesQueue
<1>9. CASE LifeStep
  <2>1. \A w \in Workers : Stopped(warm)[w].job = worker[w].job
    BY WorkerKnown DEF Stopped, Worker
  <2> QED BY <1>9, <2>1, <1>7
          DEF LifeStep, StartPool, StopPool, RestartPool, RestartDone
<1>10. CASE LoopStep
  <2>1. CASE AdmitNext
    <3>1. Head(queue) \in Roots
      BY <2>1 DEF AdmitNext, IInv, TypeOK
    <3> QED BY <2>1, <3>1, <1>6 DEF AdmitNext
  <2>2. CASE RefillNext
    BY <2>2, <1>7, WorkerKnown DEF RefillNext, NoWorker
  <2>3. CASE worker' = worker
    BY <2>3, <1>7
  <2> QED BY <1>10, <2>1, <2>2, <2>3 DEF LoopStep, AdmitHeld, AdmitDone, RefillDone
<1>11. ASSUME NEW w \in Workers, WorkerStep(w) PROVE QueueKeepsReserve'
  <2>1. worker'[w].job \in {worker[w].job, NoJob}
    <3>1. CASE Replies(w) \/ WorkerReady(w)
      BY <3>1, WorkerKnown DEF Replies, WorkerReady, Worker
    <3>2. CASE ResultArrives(w)
      <4> DEFINE u(s) == [worker[w] EXCEPT !.job = NoJob, !.mail = "none",
                                           !.uses = worker[w].uses + 1, !.state = s]
      <4>1. \A s : u(s).job = NoJob
        BY WorkerKnown DEF Worker
      <4>2. CASE ReturnsToPool(w)
        <5>1. worker' = [worker EXCEPT ![w] = u("idle")]
          BY <3>2, <4>2 DEF ResultArrives, Freed, Worker
        <5> QED BY <4>1, <5>1, WorkerKnown
      <4>3. CASE ~ReturnsToPool(w)
        <5>1. worker' = [worker EXCEPT ![w] = u("stopping")]
          BY <3>2, <4>3 DEF ResultArrives, Freed, Worker
        <5> QED BY <4>1, <5>1, WorkerKnown
      <4> QED BY <4>2, <4>3
    <3>3. CASE ErrorArrives(w)
      BY <3>3, WorkerKnown DEF ErrorArrives, Freed, Worker
    <3>4. CASE WorkerExits(w)
      BY <3>4, WorkerKnown DEF WorkerExits, NoWorker
    <3> QED BY <1>11, <3>1, <3>2, <3>3, <3>4 DEF WorkerStep
  <2>2. \A v \in Workers \ {w} : worker'[v] = worker[v]
    BY <1>11, WorkerKnown
       DEF WorkerStep, Replies, WorkerReady, ResultArrives, ErrorArrives, WorkerExits
  <2> QED BY <2>1, <2>2, <1>7
<1>12. CASE RecheckFires \/ UNCHANGED vars
  BY <1>12, <1>7 DEF RecheckFires, vars
<1> QED BY <1>8, <1>9, <1>10, <1>11, <1>12 DEF Next

\* However many roots are queued and admitted, the slots reserved for callers
\* that cannot wait are never taken by roots.
THEOREM ReserveIsKept == Spec => []QueueKeepsReserve
<1>1. Init => QueueKeepsReserve
  <2> SUFFICES ASSUME Init PROVE QueueKeepsReserve
    OBVIOUS
  <2>1. {w \in Workers : worker[w].job \in Roots} = {}
    BY PoolAssumption DEF PoolAssumption, Init, NoWorker, Jobs
  <2> QED BY <2>1, FS_EmptySet, PoolAssumption
          DEF PoolAssumption, QueueKeepsReserve, Reserved
<1> QED BY <1>1, ReserveStep, Invariance, PTL DEF Spec

-----------------------------------------------------------------------------
(* Executions and their workers *)

\* An execution that runs is on one worker, and a worker's execution runs.
RunsInv ==
  /\ \A w \in Workers : worker[w].job # NoJob => status[worker[w].job] = "running"
  /\ \A v, w \in Workers : worker[v].job # NoJob /\ worker[v].job = worker[w].job => v = w
  /\ \A j \in Jobs : status[j] = "running" => \E w \in Workers : worker[w].job = j

\* The queue has each waiting root once.
Lists(q, S) == /\ \A i \in 1..Len(q) : q[i] \in S
               /\ \A i, k \in 1..Len(q) : q[i] = q[k] => i = k
               /\ \A r \in S : \E i \in 1..Len(q) : q[i] = r
Waiting == {r \in Roots : status[r] = "queued"}
QueueInv == Lists(queue, Waiting)

SetJob(w, j) == /\ worker'[w].job = j
                /\ \A v \in Workers \ {w} : worker'[v].job = worker[v].job
SetStatus(j, st) == /\ status'[j] = st
                    /\ \A k \in Jobs \ {j} : status'[k] = status[k]

\* Worker w takes execution j, which is on no worker.
LEMMA RunTaken ==
  ASSUME IInv, RunsInv, NEW w \in Workers, NEW j \in Jobs,
         worker[w].job = NoJob, status[j] # "running", SetJob(w, j), SetStatus(j, "running")
  PROVE  RunsInv'
<1>1. j # NoJob /\ \A v \in Workers : worker[v].job # j
  BY PoolAssumption DEF PoolAssumption, RunsInv
<1>2. \A v \in Workers : worker[v].job \in Jobs \union {NoJob}
  BY WorkerKnown DEF Worker
<1>3. worker'[w].job = j /\ \A v \in Workers : v # w => worker'[v].job = worker[v].job
  BY DEF SetJob
<1>4. status'[j] = "running" /\ \A k \in Jobs : k # j => status'[k] = status[k]
  BY DEF SetStatus
<1>5. ASSUME NEW v \in Workers, worker'[v].job # NoJob
      PROVE  status'[worker'[v].job] = "running"
  BY <1>1, <1>2, <1>3, <1>4, <1>5 DEF RunsInv
<1>6. ASSUME NEW u \in Workers, NEW v \in Workers, worker'[u].job # NoJob,
             worker'[u].job = worker'[v].job
      PROVE  u = v
  BY <1>1, <1>3, <1>6 DEF RunsInv
<1>7. ASSUME NEW k \in Jobs, status'[k] = "running"
      PROVE  \E v \in Workers : worker'[v].job = k
  <2>1. CASE k = j
    BY <1>3, <2>1
  <2>2. CASE k # j
    <3>1. PICK v \in Workers : worker[v].job = k
      BY <1>4, <1>7, <2>2 DEF RunsInv
    <3>2. v # w /\ k # NoJob
      BY <3>1, PoolAssumption DEF PoolAssumption
    <3> QED BY <1>3, <3>1, <3>2
  <2> QED BY <2>1, <2>2
<1> QED BY <1>5, <1>6, <1>7 DEF RunsInv

\* Worker w gives its execution up, which ends.
LEMMA RunGivenUp ==
  ASSUME IInv, RunsInv, NEW w \in Workers, NEW st, worker[w].job # NoJob,
         st # "running", SetJob(w, NoJob), SetStatus(worker[w].job, st)
  PROVE  RunsInv'
<1>1. \A v \in Workers : worker[v].job \in Jobs \union {NoJob}
  BY WorkerKnown DEF Worker
<1>2. NoJob \notin Jobs
  BY PoolAssumption DEF PoolAssumption
<1> QED BY <1>1, <1>2 DEF RunsInv, SetJob, SetStatus

\* No worker takes or gives up an execution.
LEMMA RunsStay ==
  ASSUME IInv, RunsInv, \A w \in Workers : worker'[w].job = worker[w].job,
         \A j \in Jobs : \/ status'[j] = status[j]
                         \/ status[j] # "running" /\ status'[j] # "running"
  PROVE  RunsInv'
<1>1. \A v \in Workers : worker[v].job \in Jobs \union {NoJob}
  BY WorkerKnown DEF Worker
<1> QED BY <1>1 DEF RunsInv

LEMMA QueueStays ==
  ASSUME QueueInv, queue' = queue,
         \A r \in Roots : status'[r] = "queued" <=> status[r] = "queued"
  PROVE  QueueInv'
<1>1. Waiting' = Waiting
  BY DEF Waiting
<1> QED BY <1>1 DEF QueueInv, Lists

LEMMA NothingRuns ==
  ASSUME IInv, RunsInv, QueueInv, \A w \in Workers : worker'[w].job = worker[w].job,
         status' = status \/ (\A j \in Jobs : status'[j] = status[j]), queue' = queue
  PROVE  RunsInv' /\ QueueInv'
<1>1. \A j \in Jobs : status'[j] = status[j]
  OBVIOUS
<1>2. \A r \in Roots : status'[r] = "queued" <=> status[r] = "queued"
  BY <1>1 DEF Jobs
<1>3. \A j \in Jobs : \/ status'[j] = status[j]
                      \/ status[j] # "running" /\ status'[j] # "running"
  BY <1>1
<1> QED BY <1>2, <1>3, RunsStay, QueueStays

\* An execution changes its status without a worker.
LEMMA RunsElsewhere ==
  ASSUME IInv, RunsInv, NEW j \in Jobs, NEW st, status[j] # "running", st # "running",
         SetStatus(j, st), worker' = worker
  PROVE  RunsInv'
<1>1. ASSUME NEW k \in Jobs
      PROVE  \/ status'[k] = status[k]
             \/ status[k] # "running" /\ status'[k] # "running"
  BY DEF SetStatus
<1>2. \A w \in Workers : worker'[w].job = worker[w].job
  OBVIOUS
<1> QED BY <1>1, <1>2, RunsStay

LEMMA CheckoutTakes ==
  ASSUME IInv, NEW j \in Jobs, Checkout(j)
  PROVE  /\ \E w \in Workers : worker[w].job = NoJob /\ SetJob(w, j)
         /\ SetStatus(j, "running")
<1>1. SetStatus(j, "running")
  BY DEF Checkout, SetStatus, IInv, TypeOK
<1>2. PICK w \in Workers : CheckoutWarm(w, j) \/ CheckoutFork(w, j)
  BY DEF Checkout
<1>3. CASE CheckoutWarm(w, j)
  <2>1. worker[w].state = "idle" /\ worker[w].job = NoJob
    BY <1>3, WorkerKnown DEF CheckoutWarm, Usable, Kept
  <2>2. SetJob(w, j)
    BY <1>3, WorkerKnown DEF CheckoutWarm, SetJob, Worker
  <2> QED BY <1>1, <2>1, <2>2
<1>4. CASE CheckoutFork(w, j)
  <2>1. worker[w].state = "none" /\ worker[w].job = NoJob
    BY <1>4, WorkerKnown DEF CheckoutFork, Forks, Kept
  <2>2. SetJob(w, j)
    BY <1>4, WorkerKnown DEF CheckoutFork, SetJob, NoWorker
  <2> QED BY <1>1, <2>1, <2>2
<1> QED BY <1>2, <1>3, <1>4

(* Sequences without repetition *)

LEMMA ListsAppend ==
  ASSUME NEW q \in Seq(Roots), NEW S, NEW r \in Roots, Lists(q, S), r \notin S
  PROVE  Lists(Append(q, r), S \union {r})
<1>1. /\ Len(Append(q, r)) = Len(q) + 1 /\ Append(q, r)[Len(q) + 1] = r /\ Len(q) \in Nat
      /\ \A i \in 1..Len(q) : Append(q, r)[i] = q[i]
  OBVIOUS
<1>2. \A i \in 1..Len(Append(q, r)) : i \in 1..Len(q) \/ i = Len(q) + 1
  BY <1>1
<1>3. \A i \in 1..Len(Append(q, r)) : Append(q, r)[i] \in S \union {r}
  BY <1>1, <1>2 DEF Lists
<1>4. \A i, k \in 1..Len(Append(q, r)) : Append(q, r)[i] = Append(q, r)[k] => i = k
  BY <1>1, <1>2 DEF Lists
<1>5. \A s \in S \union {r} : \E i \in 1..Len(Append(q, r)) : Append(q, r)[i] = s
  <2>1. Len(q) + 1 \in 1..Len(Append(q, r)) /\ 1..Len(q) \subseteq 1..Len(Append(q, r))
    BY <1>1
  <2> QED BY <1>1, <2>1 DEF Lists
<1> QED BY <1>3, <1>4, <1>5 DEF Lists

LEMMA ListsRemove ==
  ASSUME NEW q \in Seq(Roots), NEW S, Lists(q, S), NEW n \in 1..Len(q)
  PROVE  Lists(RemoveAt(q, n), S \ {q[n]})
<1> DEFINE p == RemoveAt(q, n)
<1>1. /\ Len(q) \in Nat /\ Len(p) = Len(q) - 1
      /\ \A i \in 1..Len(p) : p[i] = IF i < n THEN q[i] ELSE q[i + 1]
  <2> DEFINE a == SubSeq(q, 1, n - 1)
             b == SubSeq(q, n + 1, Len(q))
  <2>1. /\ a \in Seq(Roots) /\ Len(a) = n - 1 /\ Len(q) \in Nat
        /\ \A i \in 1..(n - 1) : a[i] = q[i]
    OBVIOUS
  <2>2. /\ b \in Seq(Roots) /\ Len(b) = Len(q) - n
        /\ \A i \in 1..(Len(q) - n) : b[i] = q[n + i]
    OBVIOUS
  <2>3. p = a \o b
    BY DEF RemoveAt
  <2> HIDE DEF a, b, p
  <2>4. /\ Len(p) = Len(a) + Len(b)
        /\ \A i \in 1..Len(p) : p[i] = IF i <= Len(a) THEN a[i] ELSE b[i - Len(a)]
    BY <2>1, <2>2, <2>3
  <2>5. ASSUME NEW i \in 1..Len(p) PROVE p[i] = IF i < n THEN q[i] ELSE q[i + 1]
    <3>1. CASE i < n
      BY <2>1, <2>4, <3>1
    <3>2. CASE ~(i < n)
      <4>1. i - (n - 1) \in 1..(Len(q) - n) /\ n + (i - (n - 1)) = i + 1
        BY <2>1, <2>2, <2>4, <3>2
      <4> QED BY <2>1, <2>2, <2>4, <3>2, <4>1
    <3> QED BY <3>1, <3>2
  <2> QED BY <2>1, <2>2, <2>4, <2>5
<1> HIDE DEF p
<1>2. ASSUME NEW i \in 1..Len(p)
      PROVE  i \in 1..Len(q) /\ i + 1 \in 1..Len(q)
  BY <1>1
<1>3. \A i \in 1..Len(p) : p[i] \in S \ {q[n]}
  BY <1>1, <1>2 DEF Lists
<1>4. ASSUME NEW i \in 1..Len(p), NEW k \in 1..Len(p), p[i] = p[k] PROVE i = k
  <2> DEFINE at(m) == IF m < n THEN m ELSE m + 1
  <2>1. p[i] = q[at(i)] /\ p[k] = q[at(k)] /\ at(i) \in 1..Len(q) /\ at(k) \in 1..Len(q)
    BY <1>1, <1>2
  <2>2. at(i) = at(k)
    BY <1>4, <2>1 DEF Lists
  <2> QED BY <1>1, <2>2
<1>5. ASSUME NEW r \in S \ {q[n]} PROVE \E i \in 1..Len(p) : p[i] = r
  <2>1. PICK k \in 1..Len(q) : q[k] = r
    BY DEF Lists
  <2>2. k # n
    BY <2>1
  <2>3. CASE k < n
    <3>1. k \in 1..Len(p) /\ p[k] = r
      BY <1>1, <2>1, <2>3
    <3> QED BY <3>1
  <2>4. CASE k > n
    <3>1. k - 1 \in 1..Len(p) /\ ~(k - 1 < n) /\ k - 1 + 1 = k
      BY <1>1, <2>4
    <3>2. p[k - 1] = r
      BY <1>1, <2>1, <3>1
    <3> QED BY <3>1, <3>2
  <2> QED BY <2>2, <2>3, <2>4
<1> QED BY <1>3, <1>4, <1>5 DEF Lists, p

LEMMA ListsTail ==
  ASSUME NEW q \in Seq(Roots), q # <<>>, NEW S, Lists(q, S)
  PROVE  Lists(Tail(q), S \ {Head(q)}) /\ Head(q) = q[1] /\ 1 \in 1..Len(q)
<1>1. /\ Len(q) \in Nat \ {0} /\ Len(Tail(q)) = Len(q) - 1 /\ Head(q) = q[1]
      /\ \A i \in 1..Len(Tail(q)) : Tail(q)[i] = q[i + 1]
  OBVIOUS
<1>2. \A i \in 1..Len(Tail(q)) : i + 1 \in 1..Len(q) /\ i + 1 # 1
  BY <1>1
<1>3. 1 \in 1..Len(q)
  BY <1>1
<1>4. \A i \in 1..Len(Tail(q)) : Tail(q)[i] \in S \ {Head(q)}
  BY <1>1, <1>2, <1>3 DEF Lists
<1>5. \A i, k \in 1..Len(Tail(q)) : Tail(q)[i] = Tail(q)[k] => i = k
  BY <1>1, <1>2 DEF Lists
<1>6. ASSUME NEW r \in S \ {Head(q)} PROVE \E i \in 1..Len(Tail(q)) : Tail(q)[i] = r
  <2>1. PICK k \in 1..Len(q) : q[k] = r
    BY DEF Lists
  <2>2. k - 1 \in 1..Len(Tail(q)) /\ k - 1 + 1 = k
    BY <1>1, <2>1
  <2> QED BY <1>1, <2>1, <2>2
<1> QED BY <1>1, <1>3, <1>4, <1>5, <1>6 DEF Lists

(* The steps *)

\* A root that waits no more, by deadline or by name.
LEMMA LeavingKeeps ==
  ASSUME IInv, QueueInv, NEW i \in DOMAIN queue, NEW st \in {"refused", "cancelled"},
         LeavesQueue(i, st)
  PROVE  /\ QueueInv' /\ queue[i] \in Roots /\ status[queue[i]] = "queued"
         /\ SetStatus(queue[i], st)
<1>1. queue \in Seq(Roots) /\ i \in 1..Len(queue) /\ Lists(queue, Waiting)
  BY DEF IInv, TypeOK, QueueInv
<1>2. queue[i] \in Roots /\ status[queue[i]] = "queued"
  BY <1>1 DEF Lists, Waiting
<1>3. SetStatus(queue[i], st) /\ queue' = RemoveAt(queue, i)
  BY <1>2 DEF LeavesQueue, SetStatus, IInv, TypeOK, Jobs
<1>4. Waiting' = Waiting \ {queue[i]}
  BY <1>3 DEF Waiting, SetStatus, Jobs
<1>5. Lists(queue', Waiting')
  BY <1>1, <1>3, <1>4, ListsRemove
<1> QED BY <1>2, <1>3, <1>5 DEF QueueInv, Lists

LEMMA AdmittingKeeps ==
  ASSUME IInv, QueueInv, AdmitNext
  PROVE  /\ QueueInv' /\ Head(queue) \in Roots /\ status[Head(queue)] = "queued"
         /\ Head(queue) = queue[1] /\ 1 \in 1..Len(queue)
         /\ SetStatus(Head(queue), "running")
<1>1. queue \in Seq(Roots) /\ queue # <<>> /\ Lists(queue, Waiting)
  BY DEF IInv, TypeOK, QueueInv, AdmitNext
<1>2. /\ Lists(Tail(queue), Waiting \ {Head(queue)})
      /\ Head(queue) = queue[1] /\ 1 \in 1..Len(queue)
  BY <1>1, ListsTail
<1>3. Head(queue) \in Roots /\ status[Head(queue)] = "queued"
  BY <1>1, <1>2 DEF Lists, Waiting
<1>4. SetStatus(Head(queue), "running") /\ queue' = Tail(queue)
  BY <1>3, CheckoutTakes DEF AdmitNext, Jobs
<1>5. Waiting' = Waiting \ {Head(queue)}
  BY <1>4 DEF Waiting, SetStatus, Jobs
<1>6. Lists(queue', Waiting')
  BY <1>2, <1>4, <1>5
<1> QED BY <1>2, <1>3, <1>4, <1>6 DEF QueueInv, Lists

LEMMA StoppingKeepsJobs ==
  ASSUME IInv, worker' = Stopped(warm)
  PROVE  \A w \in Workers : worker'[w].job = worker[w].job
BY WorkerKnown DEF Stopped, Worker

\* What a message or an exit does to the execution of its worker.
LEMMA WorkerStepRuns ==
  ASSUME IInv, NEW w \in Workers, WorkerStep(w)
  PROVE  \/ /\ \A v \in Workers : worker'[v].job = worker[v].job
            /\ \A j \in Jobs : status'[j] = status[j]
         \/ /\ worker[w].job \in Jobs /\ SetJob(w, NoJob)
            /\ \E st \in {"done", "failed", "cancelled"} : SetStatus(worker[w].job, st)
<1>1. worker \in [Workers -> Worker] /\ worker[w].job \in Jobs \union {NoJob}
  BY WorkerKnown DEF Worker
<1>2. status \in [Jobs -> Statuses]
  BY DEF IInv, TypeOK
<1>3. CASE Replies(w)
  <2>1. PICK m \in {"result", "error"} : worker' = [worker EXCEPT ![w].mail = m]
    BY <1>3 DEF Replies
  <2>2. worker'[w].job = worker[w].job
    BY <1>1, <2>1 DEF Worker
  <2> QED BY <1>1, <1>3, <2>1, <2>2 DEF Replies
<1>4. CASE WorkerReady(w)
  <2>1. worker' = [worker EXCEPT ![w] = [worker[w] EXCEPT !.state = "idle", !.ready = TRUE]]
    BY <1>1, <1>4 DEF WorkerReady
  <2>2. worker'[w].job = worker[w].job
    BY <1>1, <2>1 DEF Worker
  <2> QED BY <1>1, <1>4, <2>1, <2>2 DEF WorkerReady
<1>5. CASE ResultArrives(w) \/ ErrorArrives(w)
  <2>1. worker[w].job \in Jobs
    BY <1>1, <1>5, WorkerKnown DEF ResultArrives, ErrorArrives, Kept
  <2>2. SetJob(w, NoJob)
    <3>1. CASE ErrorArrives(w)
      BY <1>1, <3>1 DEF ErrorArrives, Freed, SetJob, Worker
    <3>2. CASE ResultArrives(w)
      <4> DEFINE u(s) == [worker[w] EXCEPT !.job = NoJob, !.mail = "none",
                                           !.uses = worker[w].uses + 1, !.state = s]
      <4>1. u("idle").job = NoJob /\ u("stopping").job = NoJob
        BY <1>1 DEF Worker
      <4>2. \/ worker' = [worker EXCEPT ![w] = u("idle")]
            \/ worker' = [worker EXCEPT ![w] = u("stopping")]
        BY <1>1, <3>2 DEF ResultArrives, Freed, Worker
      <4> HIDE DEF u
      <4> QED BY <1>1, <4>1, <4>2 DEF SetJob
    <3> QED BY <1>5, <3>1, <3>2
  <2>3. \E st \in {"done", "failed"} : SetStatus(worker[w].job, st)
    BY <1>2, <1>5, <2>1 DEF ResultArrives, ErrorArrives, SetStatus
  <2> QED BY <2>1, <2>2, <2>3
<1>6. CASE WorkerExits(w)
  <2>1. worker' = [worker EXCEPT ![w] = NoWorker] /\ NoWorker.job = NoJob
    BY <1>6 DEF WorkerExits, NoWorker
  <2>2. SetJob(w, NoJob)
    BY <1>1, <2>1 DEF SetJob
  <2>3. \A j \in Jobs : j # worker[w].job => status'[j] = status[j]
    BY <1>6 DEF WorkerExits
  <2>4. worker[w].job \in Jobs => status'[worker[w].job] \in {"failed", "cancelled"}
    BY <1>6 DEF WorkerExits
  <2>5. CASE worker[w].job = NoJob
    <3>1. NoJob \notin Jobs
      BY PoolAssumption DEF PoolAssumption
    <3> QED BY <1>1, <2>2, <2>3, <2>5, <3>1 DEF SetJob
  <2>6. CASE worker[w].job \in Jobs
    BY <2>2, <2>3, <2>4, <2>6 DEF SetStatus
  <2> QED BY <1>1, <2>5, <2>6
<1> QED BY <1>3, <1>4, <1>5, <1>6 DEF WorkerStep

LEMMA RunsStep == IInv /\ RunsInv /\ QueueInv /\ [Next]_vars => RunsInv' /\ QueueInv'
<1> SUFFICES ASSUME IInv, RunsInv, QueueInv, [Next]_vars PROVE RunsInv' /\ QueueInv'
  OBVIOUS
<1>1. /\ status \in [Jobs -> Statuses] /\ Roots \subseteq Jobs /\ Calls \subseteq Jobs
      /\ Roots \intersect Calls = {} /\ queue \in Seq(Roots) /\ NoJob \notin Jobs
  BY PoolAssumption DEF PoolAssumption, IInv, TypeOK, Jobs
<1>2. ASSUME NEW j \in Jobs, Checkout(j), status[j] = "new" \/ status[j] = "queued"
      PROVE  RunsInv'
  BY <1>2, CheckoutTakes, RunTaken
<1>3. ASSUME NEW r \in Roots, RootStarts(r) PROVE RunsInv' /\ QueueInv'
  <2>1. Checkout(r) /\ status[r] = "new" /\ queue' = queue /\ SetStatus(r, "running")
    BY <1>1, <1>3, CheckoutTakes DEF RootStarts
  <2> QED BY <1>1, <1>2, <2>1, QueueStays DEF SetStatus
<1>4. ASSUME NEW r \in Roots, RootQueues(r) PROVE RunsInv' /\ QueueInv'
  <2>1. /\ queue' = Append(queue, r) /\ worker' = worker /\ status[r] = "new"
        /\ SetStatus(r, "queued")
    BY <1>1, <1>4 DEF RootQueues, SetStatus
  <2>2. Waiting' = Waiting \union {r} /\ r \notin Waiting
    BY <1>1, <2>1 DEF Waiting, SetStatus
  <2>3. QueueInv'
    <3>1. Lists(Append(queue, r), Waiting \union {r})
      BY <1>1, <2>2, ListsAppend DEF QueueInv
    <3> QED BY <2>1, <2>2, <3>1 DEF QueueInv, Lists
  <2>4. RunsInv'
    BY <1>1, <2>1, RunsElsewhere
  <2> QED BY <2>3, <2>4
<1>5. ASSUME NEW c \in Calls, CallStarts(c) PROVE RunsInv' /\ QueueInv'
  <2>1. Checkout(c) /\ status[c] = "new" /\ queue' = queue /\ SetStatus(c, "running")
    BY <1>1, <1>5, CheckoutTakes DEF CallStarts
  <2> QED BY <1>1, <1>2, <2>1, QueueStays DEF SetStatus
<1>6. ASSUME NEW c \in Calls, CallRefused(c) PROVE RunsInv' /\ QueueInv'
  <2>1. /\ status[c] = "new" /\ queue' = queue /\ worker' = worker
        /\ SetStatus(c, "refused")
    BY <1>1, <1>6 DEF CallRefused, SetStatus
  <2>2. RunsInv'
    BY <1>1, <2>1, RunsElsewhere
  <2>3. QueueInv'
    BY <1>1, <2>1, QueueStays DEF SetStatus
  <2> QED BY <2>2, <2>3
<1>7. ASSUME NEW i \in DOMAIN queue, NEW st \in {"refused", "cancelled"},
             LeavesQueue(i, st)
      PROVE  RunsInv' /\ QueueInv'
  <2>1. /\ QueueInv' /\ queue[i] \in Roots /\ status[queue[i]] = "queued"
        /\ SetStatus(queue[i], st) /\ worker' = worker
    BY <1>7, LeavingKeeps DEF LeavesQueue
  <2> QED BY <1>1, <2>1, RunsElsewhere
<1>8. ASSUME NEW w \in Workers, Cancel(w) PROVE RunsInv' /\ QueueInv'
  <2>1. \A v \in Workers : worker'[v].job = worker[v].job
    BY <1>8, WorkerKnown DEF Cancel, Worker
  <2> QED BY <1>8, <2>1, NothingRuns DEF Cancel
<1>9. CASE LifeStep
  <2>1. \A w \in Workers : worker'[w].job = worker[w].job
    BY <1>9, StoppingKeepsJobs DEF LifeStep, StartPool, StopPool, RestartPool, RestartDone
  <2>2. status' = status /\ queue' = queue
    BY <1>9 DEF LifeStep, StartPool, StopPool, RestartPool, RestartDone
  <2> QED BY <2>1, <2>2, NothingRuns
<1>10. CASE AdmitNext
  <2>1. QueueInv' /\ Checkout(Head(queue)) /\ Head(queue) \in Roots
        /\ status[Head(queue)] = "queued"
    BY <1>10, AdmittingKeeps DEF AdmitNext
  <2> QED BY <1>1, <1>2, <2>1
<1>11. CASE RefillNext
  <2>1. \A v \in Workers : worker'[v].job = worker[v].job
    <3> DEFINE u == [NoWorker EXCEPT !.state = "starting", !.pooled = TRUE,
                                     !.gen = generation]
    <3>1. PICK w \in Workers : Forks(w) /\ worker' = [worker EXCEPT ![w] = u]
      BY <1>11 DEF RefillNext
    <3>2. u.job = NoJob /\ worker[w].job = NoJob
      BY <3>1, WorkerKnown DEF NoWorker, Forks, Kept
    <3> HIDE DEF u
    <3> QED BY <3>1, <3>2, WorkerKnown
  <2> QED BY <1>11, <2>1, NothingRuns DEF RefillNext
<1>12. CASE AdmitHeld \/ AdmitDone \/ RefillDone \/ RecheckFires \/ UNCHANGED vars
  BY <1>12, NothingRuns
     DEF AdmitHeld, AdmitDone, RefillDone, RecheckFires, vars
<1>13. ASSUME NEW w \in Workers, WorkerStep(w) PROVE RunsInv' /\ QueueInv'
  <2>1. queue' = queue
    BY <1>13 DEF WorkerStep, Replies, WorkerReady, ResultArrives, ErrorArrives, WorkerExits
  <2>2. CASE /\ \A v \in Workers : worker'[v].job = worker[v].job
             /\ \A j \in Jobs : status'[j] = status[j]
    BY <2>1, <2>2, NothingRuns
  <2>3. CASE /\ worker[w].job \in Jobs /\ SetJob(w, NoJob)
             /\ \E st \in {"done", "failed", "cancelled"} : SetStatus(worker[w].job, st)
    <3>1. PICK st \in {"done", "failed", "cancelled"} : SetStatus(worker[w].job, st)
      BY <2>3
    <3>2. worker[w].job # NoJob /\ status[worker[w].job] = "running"
      BY <1>1, <2>3 DEF RunsInv
    <3>3. RunsInv'
      BY <2>3, <3>1, <3>2, RunGivenUp
    <3>4. QueueInv'
      BY <1>1, <2>1, <2>3, <3>1, <3>2, QueueStays DEF SetStatus
    <3> QED BY <3>3, <3>4
  <2> QED BY <1>13, <2>2, <2>3, WorkerStepRuns
<1> QED
  BY <1>3, <1>4, <1>5, <1>6, <1>7, <1>8, <1>9, <1>10, <1>11, <1>12, <1>13
  DEF Next, CallerStep, LoopStep

LEMMA InitRuns == Init => RunsInv /\ QueueInv
<1> SUFFICES ASSUME Init PROVE RunsInv /\ QueueInv
  OBVIOUS
<1>1. /\ \A w \in Workers : worker[w].job = NoJob
      /\ \A j \in Jobs : status[j] = "new"
      /\ queue = <<>>
  BY DEF Init, NoWorker
<1>2. RunsInv
  BY <1>1 DEF RunsInv
<1>3. \A r \in Roots : status[r] = "new"
  BY <1>1 DEF Jobs
<1>4. Waiting = {}
  BY <1>3 DEF Waiting
<1>5. 1..Len(queue) = {}
  BY <1>1
<1>6. QueueInv
  BY <1>4, <1>5 DEF QueueInv, Lists
<1> QED BY <1>2, <1>6

LEMMA RunsInvariance == Spec => [](IInv /\ RunsInv /\ QueueInv)
<1>1. Init => IInv /\ RunsInv /\ QueueInv
  BY InitIInv, InitRuns
<1>2. IInv /\ RunsInv /\ QueueInv /\ [Next]_vars => (IInv /\ RunsInv /\ QueueInv)'
  BY StepIInv, RunsStep
<1> QED BY <1>1, <1>2, PTL DEF Spec

\* Every execution that runs is on exactly one worker, and a worker's execution
\* has a caller that waits: messages, exits, cancellations and restarts of the
\* pool lose none (engine.ts, executeInSubprocess()).
THEOREM RunsAreOnOneWorker == Spec => []EveryRunHasAWorker
<1>1. ASSUME IInv, RunsInv PROVE EveryRunHasAWorker
  <2> SUFFICES ASSUME NEW j \in Jobs
               PROVE  Cardinality({w \in Workers : worker[w].job = j}) =
                        IF status[j] = "running" THEN 1 ELSE 0
    BY DEF EveryRunHasAWorker
  <2>1. j # NoJob
    BY PoolAssumption DEF PoolAssumption
  <2>2. CASE status[j] = "running"
    <3>1. PICK w \in Workers : worker[w].job = j
      BY <1>1, <2>2 DEF RunsInv
    <3>2. {v \in Workers : worker[v].job = j} = {w}
      BY <1>1, <2>1, <3>1 DEF RunsInv
    <3> QED BY <2>2, <3>2, FS_Singleton
  <2>3. CASE status[j] # "running"
    <3>1. {v \in Workers : worker[v].job = j} = {}
      BY <1>1, <2>1, <2>3 DEF RunsInv
    <3> QED BY <2>3, <3>1, FS_EmptySet
  <2> QED BY <2>2, <2>3
<1>2. IInv /\ RunsInv /\ QueueInv => EveryRunHasAWorker
  BY <1>1
<1> QED BY <1>2, RunsInvariance, PTL

\* Which execution a step may start.
LEMMA OnlyTheseStart ==
  ASSUME IInv, RunsInv, QueueInv, [Next]_vars, NEW s \in Roots,
         status[s] # "running", status'[s] = "running"
  PROVE  \/ status[s] = "new" /\ queue = <<>>
         \/ status[s] = "queued" /\ s = queue[1] /\ 1 \in 1..Len(queue)
<1>1. /\ status \in [Jobs -> Statuses] /\ s \in Jobs /\ Roots \subseteq Jobs
      /\ Roots \intersect Calls = {} /\ Calls \subseteq Jobs
  BY PoolAssumption DEF PoolAssumption, IInv, TypeOK, Jobs
<1>2. ASSUME NEW r \in Roots, RootStarts(r)
      PROVE  status[s] = "new" /\ queue = <<>>
  <2>1. SetStatus(r, "running") /\ status[r] = "new" /\ queue = <<>>
    BY <1>1, <1>2, CheckoutTakes DEF RootStarts
  <2> QED BY <1>1, <2>1 DEF SetStatus
<1>3. ASSUME NEW r \in Roots, RootQueues(r) PROVE FALSE
  BY <1>1, <1>3 DEF RootQueues
<1>4. ASSUME NEW c \in Calls, CallStarts(c) \/ CallRefused(c) PROVE FALSE
  <2>1. SetStatus(c, "running") \/ SetStatus(c, "refused")
    BY <1>1, <1>4, CheckoutTakes DEF CallStarts, CallRefused, SetStatus
  <2> QED BY <1>1, <2>1 DEF SetStatus
<1>5. ASSUME NEW i \in DOMAIN queue, NEW st \in {"refused", "cancelled"},
             LeavesQueue(i, st)
      PROVE  FALSE
  <2>1. SetStatus(queue[i], st) /\ queue[i] \in Roots
    BY <1>5, LeavingKeeps
  <2> QED BY <1>1, <2>1 DEF SetStatus
<1>6. CASE AdmitNext
  <2>1. /\ SetStatus(Head(queue), "running") /\ Head(queue) \in Roots
        /\ status[Head(queue)] = "queued" /\ Head(queue) = queue[1] /\ 1 \in 1..Len(queue)
    BY <1>6, AdmittingKeeps
  <2> QED BY <1>1, <2>1 DEF SetStatus
<1>7. ASSUME NEW w \in Workers, WorkerStep(w) PROVE FALSE
  BY <1>1, <1>7, WorkerStepRuns DEF SetStatus
<1>8. CASE status' = status
  BY <1>8
<1>9. ASSUME NEW w \in Workers, Cancel(w) PROVE status' = status
  BY <1>9 DEF Cancel
<1>10. CASE \/ LifeStep \/ AdmitHeld \/ AdmitDone \/ RefillNext \/ RefillDone
            \/ RecheckFires \/ UNCHANGED vars
  <2>1. status' = status
    BY <1>10 DEF LifeStep, StartPool, StopPool, RestartPool, RestartDone, AdmitHeld,
                 AdmitDone, RefillNext, RefillDone, RecheckFires, vars
  <2> QED BY <2>1, <1>8
<1> QED
  BY <1>2, <1>3, <1>4, <1>5, <1>6, <1>7, <1>8, <1>9, <1>10 DEF Next, CallerStep, LoopStep

\* A root starts only when none that came before it waits: at once with an empty
\* queue, or from its front (engine.ts, waitForRootWorker() and
\* admitQueuedRoots()).
THEOREM RootsStartInOrder == Spec => NoOvertaking
<1> DEFINE Overtakes(r, s) ==
             /\ status[r] = "queued" /\ status'[r] = "queued"
             /\ \/ status[s] = "new"
                \/ \E a, b \in 1..Len(queue) : a < b /\ queue[a] = r /\ queue[b] = s
             /\ status'[s] = "running"
<1>1. ASSUME IInv, RunsInv, QueueInv, [Next]_vars, NEW r \in Roots, NEW s \in Roots,
             Overtakes(r, s)
      PROVE  FALSE
  <2>1. Lists(queue, Waiting) /\ r \in Waiting /\ queue \in Seq(Roots)
    BY <1>1 DEF QueueInv, Waiting, IInv, TypeOK
  <2>2. queue # <<>>
    BY <2>1 DEF Lists
  <2>3. CASE status[s] = "new"
    BY <1>1, <2>2, <2>3, OnlyTheseStart
  <2>4. CASE \E a, b \in 1..Len(queue) : a < b /\ queue[a] = r /\ queue[b] = s
    <3>1. PICK a \in 1..Len(queue), b \in 1..Len(queue) :
            a < b /\ queue[a] = r /\ queue[b] = s
      BY <2>4
    <3>2. status[s] = "queued"
      BY <2>1, <3>1 DEF Lists, Waiting
    <3>3. s = queue[1] /\ 1 \in 1..Len(queue)
      BY <1>1, <3>2, OnlyTheseStart
    <3>4. b = 1
      BY <2>1, <3>1, <3>3 DEF Lists
    <3> QED BY <3>1, <3>4
  <2> QED BY <1>1, <2>3, <2>4
<1> DEFINE Fair == \A r, s \in Roots :
             /\ status[r] = "queued" /\ status'[r] = "queued"
             /\ status[s] = "new" \/ (\E a, b \in 1..Len(queue) :
                                        a < b /\ queue[a] = r /\ queue[b] = s)
             => status'[s] # "running"
<1>2. IInv /\ RunsInv /\ QueueInv /\ [Next]_vars => [Fair]_vars
  BY <1>1
<1> HIDE DEF Fair
<1>3. Spec => [][Fair]_vars
  BY <1>2, RunsInvariance, PTL DEF Spec
<1> QED BY <1>3 DEF NoOvertaking, Fair
=============================================================================
