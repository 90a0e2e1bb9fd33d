-------------------------- MODULE ActionWorkerPool --------------------------
(***************************************************************************)
(* The main process's pool of action workers: ActionEngine's worker cap,   *)
(* warm pool, queue of roots and cancellation, and the worker processes as *)
(* main sees them, through their messages and exits.                       *)
(*                                                                         *)
(* Main runs one handler at a time. A handler that ends in a loop, over    *)
(* the queue of roots (admitQueuedRoots) or over the missing warm workers  *)
(* (ensureWorkerWarmPool), leaves `pc` at that loop, and no other handler  *)
(* runs until it is through.                                               *)
(***************************************************************************)
EXTENDS Naturals, FiniteSets, Sequences, SequencesExt

CONSTANTS
  Workers,      \* slots a worker process may occupy, more than the cap
  Roots,        \* root executions that ask to be queued when workers are busy
  Calls,        \* agent tool calls, nested delegations: refused when busy
  NoJob,        \* no execution
  MaxWorkers,   \* maxWorkerProcesses, the cap
  WarmSize,     \* workerWarmPoolSize
  MaxUses,      \* workerMaxUses, runs a worker serves before it is replaced
  MaxRestarts   \* bound: restarts of the warm pool

Jobs == Roots \union Calls

ASSUME PoolAssumption ==
  /\ IsFiniteSet(Workers)
  /\ Roots \intersect Calls = {} /\ NoJob \notin Jobs
  /\ MaxWorkers \in Nat \ {0} /\ WarmSize \in Nat \ {0}
  /\ MaxUses \in Nat \ {0} /\ MaxRestarts \in Nat

VARIABLES
  worker,      \* what main knows of each worker, and the worker's own state
  live,        \* liveWorkers
  warm,        \* warmWorkers
  queue,       \* queuedRoots
  recheck,     \* queueRecheckTimer is running
  started,     \* workerWarmPoolStarted
  phase,       \* of the main process: it starts the pool once and stops it once
  generation,  \* workerPoolGeneration
  restarting,  \* restartWorkerWarmPool calls waiting for workers to stop
  pc,          \* the loop the running handler is in, "idle" between handlers
  status       \* each execution, as its caller sees it

vars == <<worker, live, warm, queue, recheck, started, phase, generation,
          restarting, pc, status>>
poolVars == <<started, phase, generation, restarting>>

Statuses == {"new", "queued", "running", "done", "failed", "cancelled", "refused"}
Worker == [state : {"none", "starting", "idle", "running", "stopping"},
           pooled : BOOLEAN,
           ready : BOOLEAN,               \* hasBeenReady
           gen : 0..MaxRestarts,          \* the pool generation it was forked in
           uses : 0..MaxUses,             \* useCount
           job : Jobs \union {NoJob},
           mail : {"none", "result", "error"},  \* sent by it, not yet handled
           doomed : Jobs \union {NoJob}]  \* whose cancellation signalled it
NoWorker == [state |-> "none", pooled |-> FALSE, ready |-> FALSE, gen |-> 0,
             uses |-> 0, job |-> NoJob, mail |-> "none", doomed |-> NoJob]

Reserved == IF MaxWorkers > 2 THEN 2 ELSE MaxWorkers - 1
Usable == {w \in warm : worker[w].state = "idle" /\ worker[w].gen = generation}
\* liveWorkers.size - warmWorkers.size: starting and idle warm ones are spare.
Busy == Cardinality(live) - Cardinality(warm)
\* canAdmitQueuedRoot()
CanAdmitFull == Cardinality(live) < MaxWorkers \/ Usable # {}
CanAdmit == /\ Busy < MaxWorkers - Reserved
            /\ Cardinality(live) < MaxWorkers \/ Usable # {}
-----------------------------------------------------------------------------
Init ==
  /\ worker = [w \in Workers |-> NoWorker]
  /\ live = {} /\ warm = {}
  /\ queue = <<>> /\ recheck = FALSE
  /\ started = FALSE /\ phase = "booting" /\ generation = 0 /\ restarting = 0
  /\ pc = "idle"
  /\ status = [j \in Jobs |-> "new"]

\* A new process takes a free slot.
ForksUncapped(w) == w \notin live /\ live' = live \union {w}
Forks(w) ==
  /\ Cardinality(live) < MaxWorkers
  /\ w \notin live /\ live' = live \union {w}

\* checkoutWorker(): a usable warm worker, else a process of its own.
CheckoutWarm(w, j) ==
  /\ w \in Usable
  /\ worker' = [worker EXCEPT ![w].state = "running", ![w].job = j]
  /\ warm' = warm \ {w} /\ UNCHANGED live

CheckoutFork(w, j) ==
  /\ Usable = {} /\ Forks(w)
  /\ worker' = [worker EXCEPT ![w] = [NoWorker EXCEPT !.state = "running",
                                                      !.gen = generation,
                                                      !.job = j]]
  /\ UNCHANGED warm

Checkout(j) ==
  /\ \E w \in Workers : CheckoutWarm(w, j) \/ CheckoutFork(w, j)
  /\ status' = [status EXCEPT ![j] = "running"]

\* stopWorker() on each of S: it keeps its slot until it exits.
Stopped(S) == [w \in Workers |-> IF w \in S THEN [worker[w] EXCEPT !.state = "stopping"]
                                            ELSE worker[w]]
-----------------------------------------------------------------------------
(* Callers *)

RootStartsAtOnce(r) ==
  /\ pc = "idle" /\ status[r] = "new"
  /\ CanAdmit /\ Checkout(r)
  /\ UNCHANGED <<queue, recheck, poolVars, pc>>

\* waitForRootWorker(): memory may be short whenever it is read, and then a
\* free slot makes the queue look again later.
RootStarts(r) ==
  /\ pc = "idle" /\ status[r] = "new"
  /\ queue = <<>> /\ CanAdmit /\ Checkout(r)
  /\ UNCHANGED <<queue, recheck, poolVars, pc>>

RootQueues(r) ==
  /\ pc = "idle" /\ status[r] = "new"
  /\ queue' = Append(queue, r)
  /\ recheck' = (recheck \/ CanAdmit)
  /\ status' = [status EXCEPT ![r] = "queued"]
  /\ UNCHANGED <<worker, live, warm, poolVars, pc>>

\* A call that cannot wait: startDelegatedAction(), or a root run fail-fast.
CallStarts(c) ==
  /\ pc = "idle" /\ status[c] = "new"
  /\ Checkout(c)
  /\ UNCHANGED <<queue, recheck, poolVars, pc>>

CallRefused(c) ==
  /\ pc = "idle" /\ status[c] = "new"
  /\ Usable = {} /\ Cardinality(live) >= MaxWorkers
  /\ status' = [status EXCEPT ![c] = "refused"]
  /\ UNCHANGED <<worker, live, warm, queue, recheck, poolVars, pc>>

\* A queued root's deadline passes, or cancel() names it.
LeavesQueue(i, st) ==
  /\ pc = "idle"
  /\ queue' = RemoveAt(queue, i)
  /\ status' = [status EXCEPT ![queue[i]] = st]
  /\ UNCHANGED <<worker, live, warm, recheck, poolVars, pc>>

\* cancel() of a running execution: SIGTERM to its worker.
Cancel(w) ==
  /\ pc = "idle" /\ worker[w].state = "running" /\ worker[w].doomed = NoJob
  /\ worker' = [worker EXCEPT ![w].doomed = worker[w].job]
  /\ UNCHANGED <<live, warm, queue, recheck, poolVars, pc, status>>

-----------------------------------------------------------------------------
(* The worker processes (external): a reply is sent, main has not seen it *)

Replies(w) ==
  /\ worker[w].state = "running" /\ worker[w].mail = "none"
  /\ worker[w].doomed = NoJob
  /\ \E m \in {"result", "error"} : worker' = [worker EXCEPT ![w].mail = m]
  /\ UNCHANGED <<live, warm, queue, recheck, poolVars, pc, status>>

-----------------------------------------------------------------------------
(* Main's handlers *)

\* markReady
WorkerReady(w) ==
  /\ pc = "idle" /\ worker[w].state = "starting"
  /\ worker' = [worker EXCEPT ![w].state = "idle", ![w].ready = TRUE]
  /\ pc' = "admit"
  /\ UNCHANGED <<live, warm, queue, recheck, poolVars, status>>

Freed(w) == [worker[w] EXCEPT !.job = NoJob, !.mail = "none"]
ReturnsWorn(w) == started /\ worker[w].pooled /\ worker[w].gen = generation
ReturnsToPool(w) == /\ started /\ worker[w].pooled
                    /\ worker[w].gen = generation
                    /\ worker[w].uses + 1 < MaxUses

\* onMessage "result", finishWorkerRun(): back to the warm pool, or stopped.
ResultArrives(w) ==
  /\ pc = "idle" /\ worker[w].mail = "result"
  /\ LET used == [Freed(w) EXCEPT !.uses = @ + 1]
     IN IF ReturnsToPool(w)
        THEN /\ worker' = [worker EXCEPT ![w] = [used EXCEPT !.state = "idle"]]
             /\ warm' = warm \union {w}
             /\ pc' = "admit+refill"
        ELSE /\ worker' = [worker EXCEPT ![w] = [used EXCEPT !.state = "stopping"]]
             /\ UNCHANGED <<warm, pc>>
  /\ status' = [status EXCEPT ![worker[w].job] = "done"]
  /\ UNCHANGED <<live, queue, recheck, poolVars>>

\* onMessage "error": the worker is not reused.
ErrorArrives(w) ==
  /\ pc = "idle" /\ worker[w].mail = "error"
  /\ worker' = [worker EXCEPT ![w] = [Freed(w) EXCEPT !.state = "stopping"]]
  /\ status' = [status EXCEPT ![worker[w].job] = "failed"]
  /\ UNCHANGED <<live, warm, queue, recheck, poolVars, pc>>

WorkerExitsStayingWarm(w) ==
  /\ pc = "idle" /\ w \in live
  /\ live' = live \ {w} /\ worker' = [worker EXCEPT ![w] = NoWorker]
  /\ pc' = "admit"
  /\ UNCHANGED <<warm, queue, recheck, poolVars, status>>

WorkerExitsQuietly(w) ==
  /\ pc = "idle" /\ w \in live
  /\ live' = live \ {w} /\ warm' = warm \ {w}
  /\ worker' = [worker EXCEPT ![w] = NoWorker]
  /\ pc' = "admit"
  /\ UNCHANGED <<queue, recheck, poolVars, status>>

\* "exit", or "error" of a fork that never got a process: the slot is free,
\* and an execution still on it was cancelled or has failed.
WorkerExits(w) ==
  /\ pc = "idle" /\ w \in live
  /\ live' = live \ {w} /\ warm' = warm \ {w}
  /\ worker' = [worker EXCEPT ![w] = NoWorker]
  /\ pc' = IF worker[w].pooled /\ worker[w].ready /\ started
           THEN "admit+refill" ELSE "admit"
  /\ status' = [j \in Jobs |->
                  IF j # worker[w].job THEN status[j]
                  ELSE IF worker[w].doomed = j THEN "cancelled" ELSE "failed"]
  /\ UNCHANGED <<queue, recheck, poolVars>>

RecheckFires ==
  /\ pc = "idle" /\ recheck
  /\ recheck' = FALSE /\ pc' = "admit"
  /\ UNCHANGED <<worker, live, warm, queue, poolVars, status>>

-----------------------------------------------------------------------------
(* The warm pool's life *)

StartPool ==
  /\ pc = "idle" /\ phase = "booting"
  /\ phase' = "up" /\ started' = TRUE /\ pc' = "refill"
  /\ UNCHANGED <<worker, live, warm, queue, recheck, generation, restarting, status>>

StopPool ==
  /\ pc = "idle" /\ phase = "up"
  /\ phase' = "down" /\ started' = FALSE
  /\ worker' = Stopped(warm) /\ warm' = {}
  /\ UNCHANGED <<live, queue, recheck, generation, restarting, pc, status>>

\* restartWorkerWarmPool() up to its await: the spare workers stop, a running
\* one is of an old generation from here on.
RestartPool ==
  /\ pc = "idle" /\ generation < MaxRestarts
  /\ generation' = generation + 1
  /\ restarting' = IF started THEN restarting + 1 ELSE restarting
  /\ worker' = Stopped(warm) /\ warm' = {}
  /\ UNCHANGED <<live, queue, recheck, started, phase, pc, status>>

\* They have exited, or five seconds have passed.
RestartDone ==
  /\ pc = "idle" /\ restarting > 0
  /\ restarting' = restarting - 1
  /\ started' = TRUE /\ pc' = "refill"
  /\ UNCHANGED <<worker, live, warm, queue, recheck, phase, generation, status>>

-----------------------------------------------------------------------------
(* The loops a handler ends in *)

Admitting == pc \in {"admit", "admit+refill"}
AfterAdmission == IF pc = "admit+refill" THEN "refill" ELSE "idle"

\* admitQueuedRoots(): the oldest root takes a worker, while memory allows.
AdmitNext ==
  /\ Admitting /\ queue # <<>> /\ CanAdmit
  /\ Checkout(Head(queue)) /\ queue' = Tail(queue)
  /\ UNCHANGED <<recheck, poolVars, pc>>

AdmitHeldSilently ==
  /\ Admitting /\ queue # <<>> /\ CanAdmit
  /\ pc' = AfterAdmission
  /\ UNCHANGED <<worker, live, warm, queue, recheck, poolVars, status>>

AdmitHeld ==
  /\ Admitting /\ queue # <<>> /\ CanAdmit
  /\ recheck' = TRUE /\ pc' = AfterAdmission
  /\ UNCHANGED <<worker, live, warm, queue, poolVars, status>>

AdmitDone ==
  /\ Admitting /\ ~(queue # <<>> /\ CanAdmit)
  /\ recheck' = (recheck /\ queue # <<>>) /\ pc' = AfterAdmission
  /\ UNCHANGED <<worker, live, warm, queue, poolVars, status>>

\* ensureWorkerWarmPool()
Missing == /\ started /\ Cardinality(live) < MaxWorkers
           /\ Cardinality({w \in warm : worker[w].gen = generation}) < WarmSize

RefillNext ==
  /\ pc = "refill" /\ Missing
  /\ \E w \in Workers :
       /\ Forks(w)
       /\ worker' = [worker EXCEPT ![w] = [NoWorker EXCEPT !.state = "starting",
                                                           !.pooled = TRUE,
                                                           !.gen = generation]]
       /\ warm' = warm \union {w}
  /\ UNCHANGED <<queue, recheck, poolVars, pc, status>>

RefillDone ==
  /\ pc = "refill" /\ ~Missing
  /\ pc' = "idle"
  /\ UNCHANGED <<worker, live, warm, queue, recheck, poolVars, status>>

-----------------------------------------------------------------------------
CallerStep == \/ \E r \in Roots : RootStarts(r) \/ RootQueues(r)
              \/ \E c \in Calls : CallStarts(c) \/ CallRefused(c)
              \/ \E i \in DOMAIN queue, st \in {"refused", "cancelled"} : LeavesQueue(i, st)
              \/ \E w \in Workers : Cancel(w)
LifeStep == StartPool \/ StopPool \/ RestartPool \/ RestartDone
LoopStep == AdmitNext \/ AdmitHeld \/ AdmitDone \/ RefillNext \/ RefillDone
WorkerStep(w) == \/ Replies(w) \/ WorkerReady(w)
                 \/ ResultArrives(w) \/ ErrorArrives(w) \/ WorkerExits(w)

Next == \/ CallerStep \/ LifeStep \/ LoopStep \/ RecheckFires
        \/ \E w \in Workers : WorkerStep(w)

Spec == Init /\ [][Next]_vars

\* Loops run, messages and timers are handled, executions end, a process that
\* is told to stop or was signalled exits (SIGKILL follows), and memory is not
\* short at every reading for ever. Nothing is assumed of the callers.
Told(w) == worker[w].state = "stopping" \/ worker[w].doomed # NoJob
Finishes(w) == \/ Replies(w) \/ ResultArrives(w) \/ ErrorArrives(w)
               \/ Told(w) /\ WorkerExits(w)
FairSpec ==
  /\ Spec
  /\ WF_vars(LoopStep) /\ SF_vars(AdmitNext) /\ SF_vars(RecheckFires)
  /\ \A w \in Workers : SF_vars(Finishes(w))
-----------------------------------------------------------------------------
(* Properties *)

TypeOK ==
  /\ worker \in [Workers -> Worker]
  /\ live \subseteq Workers /\ warm \subseteq Workers
  /\ queue \in Seq(Roots)
  /\ recheck \in BOOLEAN /\ started \in BOOLEAN
  /\ phase \in {"booting", "up", "down"}
  /\ generation \in 0..MaxRestarts /\ restarting \in Nat
  /\ pc \in {"idle", "admit", "admit+refill", "refill"}
  /\ status \in [Jobs -> Statuses]

\* There are never more worker processes than the cap, those that are being
\* replaced or told to stop included.
CapRespected == Cardinality(live) <= MaxWorkers

\* The warm set, which admission counts as spare, is exactly the live workers
\* that carry no execution and have not been told to stop.
WarmIsSpare ==
  /\ live = {w \in Workers : worker[w].state # "none"}
  /\ warm = {w \in Workers : worker[w].state \in {"starting", "idle"}}

\* An execution runs on exactly one worker, and a worker that runs has an
\* execution whose caller still waits: no result is lost with its worker.
EveryRunHasAWorker ==
  \A j \in Jobs :
    Cardinality({w \in Workers : worker[w].job = j}) = IF status[j] = "running" THEN 1 ELSE 0

\* A root never waits on nothing: while it could be given a worker, the
\* admission loop is running or the recheck timer will run it.
NoLostWakeup == queue # <<>> /\ CanAdmit => Admitting \/ recheck

\* Queued roots never hold the reserved slots: a backlog of them leaves room
\* for the calls that cannot wait.
QueueKeepsReserve ==
  Cardinality({w \in Workers : worker[w].job \in Roots}) <= MaxWorkers - Reserved

\* A root does not start while one that came before it waits.
NoOvertaking ==
  [][\A r, s \in Roots :
       /\ status[r] = "queued" /\ status'[r] = "queued"
       /\ status[s] = "new" \/ (\E a, b \in 1..Len(queue) :
                                  a < b /\ queue[a] = r /\ queue[b] = s)
       => status'[s] # "running"]_vars

\* A queued root starts without the help of its deadline.
QueuedRootsStart == \A r \in Roots : status[r] = "queued" ~> status[r] # "queued"
=============================================================================
