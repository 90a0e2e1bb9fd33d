# A verification project for Rome

Rome is an agent operating system: a main process that keeps agent sessions,
runs actions in worker processes, fires routines and talks to a cloud service.
This directory models the parts of it whose correctness depends on order:
who may act while somebody else is waiting, what a crash or a lost answer
leaves behind, and what must happen in the end. The reference is the code
under `src/packages/core/src/`; paths below are relative to it.

Each module names the code it models in its header comment, and `PROJECT.json`
maps each of its definitions to source lines.

## 1. The system

| Component | State | Operations | What is hard | Correct when |
|---|---|---|---|---|
| System upgrade (`system-upgrade/`, `api/routes/system-upgrade.ts`) | hub phase, target, one timer; pending relay | nightly probe, update now, defer, deadline, restart window; the manual route's apply | state read before an await; a timer that fires during a relay; answers that never come; a second sender of apply requests | offer, timer and relay agree; one cutover of the service at a time; every countdown ends |
| Chat input lane (`core/agent-input-queue.ts`) | active turn, queued, carried, each input's status and write chain | submit (next, now), steer, observe, seal, finish, cancel, close | callbacks of three actors (caller, turn, events loop) between every two awaits; late and lost answers | each input is read at most once, in order, and ends in a status that is true |
| Agent session (`core/agent-session.ts`) | turn mutex, current sink, model session, status | sendTurn, submitInput, interrupt, close, events loop, backend turns | a sink that is replaced while an event is handled; interrupt before, during and after the send | one terminal per turn; events reach the turn they belong to |
| Model providers (`agent/infrastructure/model/`) | native turn, message queue, retained messages | send, steer, interrupt, close, event stream | messages that outlive the native turn; reopening a dead session | a message is read once; status events are true |
| Action worker pool (`actions/engine.ts`) | live and warm workers, queue of roots, generation, recheck timer | run, queue, cancel, start/stop/restart the pool, worker messages and exits | a cap shared by three kinds of worker; slots that open without anyone asking; a signal racing a result | the cap and the reserve hold; no waiter is forgotten; no run loses its worker silently |
| Action replay and approvals (`actions/replay.ts`, `approval-handler.ts`, `restart-recovery.ts`) | journal of calls, pending approvals, execution rows | run, replay, approve, reject, retry, recover | replays of one root that overlap; a crash between a claim and its end; calls that throw and are caught; journals that diverge | a decision brings one call past its gate; a finished effect is not repeated; no row runs without a run |
| Delegated actions (`actions/action-subprocess.ts`, `ipc.ts`) | executions by id, owner and root | run, cancel root, cancel owner, dispatch | a call issued while its root is being cancelled | nothing outlives its root |
| Relay drain (`relay/drainer.ts`) | socket generation, frame queue, delivery, blocked delivery, backoff | connect, deliver, retry, block, resume, stop | frames of an old socket; retries across reconnects | deliveries are handed over in order, again until they are over, acknowledged after (one exception: section 5) |
| Routines (`routines/`) | runs, triggers, scheduled jobs | fire, retry, cancel, schedule, one-off | a cancel racing the end of a run; re-registration while firing | one run at a time; a one-off fires once |
| Events (`events/`) | handlers, event rows | publish, subscribe | handlers that unsubscribe while being called | |
| Host execution (`host-execution/service.ts`) | jobs by execution id | start, poll, recover | a start whose answer is lost | started at most once per execution |
| App lifecycle (`apps/`) | installed apps, lock file, catalog | install, update, remove | sequences that fail half way | files, catalog and database agree afterwards |
| Concierge, favors, sync, participation, usage | follow-ups, favours, repositories, buffers, batches | timers and loops of their own | restarts, duplicated work | |
| Connections, people, chats, webchat, API, database, daemon | rows and platform sessions | I/O and SQL | | not modelled: translation and queries |

They interact by direct calls inside the main process, by IPC messages with the
workers, by callbacks (`onDeadline`, `onInputStatus`, child-process events) and
through the database. The main process is one event loop: code between two
awaits is atomic, and everything hard happens at an await.

## 2. Modules

| Module | Models |
|---|---|
| `UpgradeConsent` | abstract: what the upgrade hub promises a dashboard |
| `SystemUpgrade` | hub and service, the manual upgrade route, with Rome Cloud as the external; implements `UpgradeConsent` |
| `SystemUpgradeProofs` | theorems about `SystemUpgrade` |
| `AgentInputQueue` | the lane, the turn's way through the session, the events loop, the provider |
| `AgentInputQueueFacts` | what its operators do: the filter, sequences, each method on a lane |
| `AgentInputQueueSteps` | the lane's inductive invariant, and that every step keeps it |
| `AgentInputQueueProofs` | what the lane promises: what follows from the invariant, and the order of reading |
| `AgentInputQueueCalm` | theorems about sessions without interrupting inputs |
| `ActionWorkerPool` | cap, warm pool, queue of roots, cancellation, worker processes |
| `ActionWorkerPoolProofs` | theorems about `ActionWorkerPool` |
| `OrderedDelivery` | abstract: what the relay drain promises of the buffered events |
| `RelayDrain` | one drain connection, its sockets, and the relay as the external; implements `OrderedDelivery` |
| `RelayDrainProofs` | theorems about `RelayDrain`, the refinement among them |
| `ApprovalReplay` | one root with gated nested calls: journal, approvals, replays, crash and recovery |
| `ApprovalReplayProofs` | theorems about `ApprovalReplay` |
| `MC*` | values for the constants, nothing else |

A definition whose name extends another's and that no action uses
(`ResetKeepsTimer`, `PromptWithoutEntry`, `ForksUncapped`, ...) is a faulty
variant of it: `PROJECT.json` pairs it with the property that detects it.

### SystemUpgrade

One action is one macrotask: what the code does up to the next await of I/O or
a timer, together with the microtasks it settles (so everyone awaiting a relay
is answered in the step that ends it). The hub has one timer field but the
runtime may hold more timers than the hub remembers; `armed` is what the
runtime holds, `timer` what the hub can still clear, and `NoStrayTimer` says
that they agree. `offers` numbers the countdowns so that a timer knows which one
it belongs to. A lost answer is `RelayFailed` while `reply = "accepted"`.

`POST /system/upgrade` (api/routes/system-upgrade.ts) sends the same apply
request to Rome Cloud and asks neither the hub nor `pendingRelay`. That is
`AppliedByHand`, possible at every moment; `byHand` is the upgrade it started,
which Rome Cloud gives up (`HandGivesUp`) or which ends the process
(`ProcessRestarts`, also a crash). `cloud` is the upgrade the *service* asked for.
So `CommittedRestartShown` and `NoSecondCutover` are properties of the service's
own two entry points, the deadline and the guardians, with the manual route
running beside them: a restart it asked for is not shown by the hub, and it may
ask while another upgrade is under way. `lost` says that this process never got
the answer that accepted the upgrade under way: it was lost, or the process
restarted meanwhile; both properties except it.

Abstracted: versions are model values, the gate and the check are choices, a
probe result other than "offer" is one action. `RestartWindowElapsed` waits for
Rome Cloud to be done with the upgrade, which is what
`UPGRADE_RESTART_WINDOW_MS` (service.ts:24-28) is chosen for.

### AgentInputQueue

The queue's fields are one record (`lane`), and every method is a function on
it, composed the way the methods call each other (`Flush`, `Finish`,
`StartNext`, ...). The active turn carries the stage the session is at:
waiting for the mutex, current, binding (beforeSend's write), sending, sent,
running, or answered by the middleware. Each steered input has a dispatch with
a stage of its own, because `flush` starts it and does not wait.

The provider is one model with two settings, chosen at the start: a `local` one
(Claude: steering is a push onto a queue, unread messages outlive the native
turn, their ids are retained) and a `remote` one (Codex: steering is a call
that may time out on either side of its delivery, nothing is retained). What
the model has really read is the history variable `context`; the properties
compare it with the statuses the lane shows.

Writes of an input's status are asynchronous, in order per input, and may fail
(then every later await of that input fails, as chaining on `Entry.writes`
does). With the default SQLite driver such a write takes only microtasks; the
other supported database and the `onInputStatus` contract make it a real await,
and that is what is modelled. Left out: the 256-entry deduplication window, a
provider that takes a message after the call for it has been given up as failed
in `sendUserInput`, the writes of bound inputs as seen by the events loop
(only the observed input's own write may end it), failing `touchSession` and
`persistTurn` writes at a turn's end, and turns outside the lane. `Close` ends
lane and model session in one step, where the code interrupts the subagents in
between (agent-session.ts:3590-3606). `ProviderErrs` is the end of a stream with an
error; a result that only says error keeps the pending messages
(provider.ts:870-878), and is `ProviderCompletes` here, once the prompt was read.

### ActionWorkerPool

A handler of the main process is one action, and if it ends in one of the two
loops (`admitQueuedRoots`, `ensureWorkerWarmPool`) it leaves `pc` there; no
other handler runs before the loop is through, because the code has no await in
it. A worker record holds what main knows (state, pooled, generation, uses) and
what only the process knows (a sent and unread message, the execution it was
signalled for). Memory is a choice at each admission. A worker may exit at any
time; a fork that never gets a process is an exit before readiness. Workers are
interchangeable slots, and which usable warm worker is taken is a choice (the
code takes the oldest).

Left out: the five-second SIGKILL as a step of its own (it is why a stopping or
signalled worker is assumed to exit, and why `RestartDone` need not wait for
every exit), the in-process actions, and what the execution itself does.
`Cancel` looks its worker up and signals it in one step; the code awaits
`markCancelRequested` in between (engine.ts:629-637), so that the worker may by then
be running another root. No property is about whom a signal hits.

### RelayDrain

`DrainConnection` has one socket (`sock`, this.ws), one reconnect timer, one
promise queue of frames and one `delivery` that owns the queue until its event
is settled. `handler` is the frame handler at its await: at the target's
request, in a retry wait, or at the gate of a blocked event. `cur` says whether
`isCurrentSocket()` still holds for a frame or handler. Every early return after
an await is a guard or an action of its own (`FrameIgnored`, `FailsLate`,
`ResumeLate`), because that is where a stale socket could do harm. The relay
replays everything unacknowledged on each open (`Opens`), and what an old socket
had not yet handed over is lost.

`Settling` is the microtask queue: while the handler is idle and frames wait, a
resolved promise continues before the next socket callback, so only the relay
and a crash may come between. Backoff, `Retry-After` and deadlines are durations,
and a wait ends whenever it may. `failures`, `settled` and `skipped` are history.
`failures` counts every failed attempt of an event since the guardian last resumed
it, those included that end on a dead socket and that the code does not examine
(`FailsLate`, drainer.ts:503); `BoundedRetries` compares it with the retry the
code schedules. The abstract `OrderedDelivery` has the blocked event as `stuck`,
and one way of losing one: `Drop`, when a stuck event is resumed. Only
`ResumeLate` maps to it.

Left out: several connections and overlapping reloads, the heartbeat beyond its
closing the socket, settings and the wire format. A connection whose drain is
"off" still has the frames it had, which is what `FrameIgnored` deals with.

### ApprovalReplay

Run 0 is the first execution of the root; run *a* is the replay that the
handler starts for approval *a* (`Claim`), from the journal snapshot the
approval was created with. `pc` is the call the body makes next, `index` is
`store.replayIndex`, and `replay` is `store.mode`. A nested call is one of six
actions, the branches of `handleNestedCall`: the journal answers it
(`ReturnsCached`), its pending entry lets it through and it returns (`OpensGate`)
or throws (`ThrowsAtGate`), it asks (`AsksApproval`), or it runs and returns
(`Executes`) or throws (`ThrowsExecuting`); a divergence is journaled in front of
the last three (`Noted`). A call that throws leaves no entry, and one that throws
behind its gate leaves the entry pending and the replay where it is. The body may
let the exception end it (`Dies`), or catch it and make the call again, go on
with a later one, or end (`GoesOn`). The execution row is one for all runs of
the root, as in the code, so overlapping replays write over each other's status.
History: `tried`, the gated calls each run was let through to; `opened`, how often
one of them came to a result; `replayed`, what replays executed outside gates;
`gaps`, the calls that threw in the first run and that it passed over.

The body is deterministic, as a replay requires, but for what it does about an
exception, and otherwise stops early only once a call was pending. Nested calls run in the caller's process. Left out: a gated
call inside a delegated worker, the journal table (nothing reads it back), the
resolution observers, and the agent's continuation beyond its outcome.

## 3. Runs

Twelve runs, each asking one question. `symmetry` is used only where no
liveness property is checked.

| Run | Instance | Shows |
|---|---|---|
| `upgrade` | 2 versions, 2 probes, 2 guardians, 3 offers, the manual route and restarts at any time (33,958 states) | all safety, `UpgradeConsent`, every countdown and restart window ends |
| `input_safety` | 3 inputs, both priorities and providers, failing writes | at most once, in order, recorded before handed over, statuses final |
| `input_settles` | 2 inputs, failing writes (38,856 states) | each input settles |
| `input_unread` | 4 inputs, local provider | violated: an input shown as consumed that was never sent |
| `input_unknown` | 3 inputs, remote provider | violated: an unknown delivery is sent again |
| `input_stop` | 3 inputs | violated: a stopped turn's input is sent again |
| `pool` | cap 3, 4 slots, 2 roots, 1 call, 1 warm, 2 uses, 1 restart | cap, reserve, order, no forgotten waiter or execution |
| `pool_starts` | cap 2, 2 roots, 1 call | queued roots start without their deadline |
| `relay` | 3 events, 2 attempts, 3 queued frames (146,734 states) | in-order delivery, failures counted over reconnects, every event settles |
| `relay_resume` | 2 events, 1 attempt, 2 queued frames | violated: the relay forgets a resumed event that was never handled |
| `approvals` | 3 calls, any of them or the root gated, any of them throwing, 2 approvals, 2 grants each (327,460 states) | one call past its gate for each decision, nothing repeated before the first gate, no stranded row |
| `approvals_undecided` | 2 calls, 2 approvals, 1 grant each | violated: a gated call runs on the approval of another |

Why the bounds are enough. *Upgrade*: two probes and two guardians give every
pair of racing callers, a third offer comes after one that ended. *Input*: three
inputs are a turn's first, one steered and one waiting; a second supersede needs
no fourth. `input_safety` has also been run with four inputs (6.8 million
states, without write failures) with the same verdicts. The one behaviour that needs a fourth input has a run
of its own. *Pool*: the cap of three is the smallest at which the reserve is two
and a queued root may still run; four slots make it possible to exceed the cap;
two roots overtake or wait for each other; two uses make a worker wear out.
*Relay*: a poison event, one behind it that may overtake it, and one to overtake
that; with two attempts a budget is partly used when a socket closes; three
frames are a whole replay queued behind an event. Connections, crashes and stops
are not bounded. *Approvals*: with three calls there is work before, between and
after two gates, in every arrangement; two approvals are two gates of one run,
whose replays overlap, or one and what its diverged replay asks for; two grants
are a decision and a retry. Crashes and repeated exceptions are not bounded. The
theorems have no bounds.

The runs of the upgrade, the lane and the pool say `CHECK_DEADLOCK FALSE`: all
inputs submitted, all offers made, all executions ended, the system may rest.
`relay` and `approvals` are checked for deadlock: they always have a step left,
a crash and the restart after it included.

### The properties limited to `next`

`NextConsumedWasRead`, `NextUnknownNeverReplayed` and `NextStopNeverReplays` say
for sessions without interrupting inputs what the three `input_` violation runs refute
for sessions with them. `OneSteerAtATime` counts the messages of the running
turn: a message retained from an earlier turn may still wait beside one, when the
turn that was to adopt it failed.

### Fairness

*Upgrade*: armed timers fire, the apply request ends (its `AbortSignal` bounds
it), Rome Cloud answers and finishes. *Input*: promises settle, the mutex is
granted, the events loop runs, a native turn ends. *Pool*: loops run (the code
has no await in them), executions end, unread messages and exits are handled, a
stopping or signalled process exits (SIGKILL follows), the recheck timer fires,
and memory is not short at every reading for ever (strong fairness of
`AdmitNext`). *Relay*: the promise queue runs, a request of the target ends
(it has a timeout), waits elapse, an armed timer fires, a connection attempt
ends, a closing socket closes, and the relay sends what it holds. That the network
eventually holds is the antecedent of `EveryEventSettles`, not an assumption of
the specification. `ApprovalReplay` has safety only. Nothing is assumed of
guardians, probes, callers, targets, crashes or the manual route.

## 4. Proofs

Checked by TLAPS for every value of the constants.

`SystemUpgradeProofs` proves type correctness, `RelayMatchesOffer`,
`NoStrayTimer`, `NeverStuck`, `VerdictMatchesHub`, `CommittedRestartShown`,
`NoSecondCutover` and that `SystemUpgrade` implements `UpgradeConsent`. The
inductive invariant joins the first four with what ties `reply` to `relay`
(a request has a fate exactly while it is pending), the deadline to the relay it
adopted, guardians who wait to a pending relay, and the cloud to the phase;
alone, `NeverStuck` is not inductive, since a failed relay is harmless only
because the timer of a countdown that nobody adopts is still armed.
The manual route and the process's restarts disturb the hub nowhere or end it
altogether; what they cost is the exception `lost`, for an upgrade that outlives the
process that asked for it. The only assumption is `UpgradeAssumption`.

`ActionWorkerPoolProofs` proves type correctness, `WarmIsSpare`, `CapRespected`,
`NoLostWakeup`, `QueueKeepsReserve`, `EveryRunHasAWorker` and `NoOvertaking`, from
`PoolAssumption` alone, so for any
cap, any pool and any number of restarts. The inductive invariant is `TypeOK`,
`WarmIsSpare` and what ties a worker's state to its execution, its unread message
and its wear. The rest is counting. `NoLostWakeup` holds because every step that
can turn "not admissible" into "admissible" ends in the admission loop: a step
that does not is shown to leave no more room than there was (`Narrower`), a
checkout because a spare worker becomes a busy one, a stop because a stopped
worker keeps its slot. `QueueKeepsReserve` holds because the workers with a root
are some of the busy ones, and admission bounds those.
`EveryRunHasAWorker` rests on `RunsInv` (a worker's execution runs, is on no other
worker, and each that runs is on one), and `NoOvertaking` on `QueueInv` (the queue
lists each waiting root once), so that the root at its front is the only one that
admission can start, and a root that finds the queue empty overtakes nobody.

`RelayDrainProofs` proves type correctness, `BoundedRetries` and the refinement
`DeliverySpec`, from `DrainAssumption`. In-order delivery is not inductive: that
the target is never given an event out of turn rests on who owns the queue. The
inductive invariant says which sockets, timers and handlers go together
(`LifeInv`, `HandlerInv`), that current frames are a run of consecutive events
ending where the relay is (`FrameInv`), that the delivery or the blocked event
owns the queue (`OwnerInv`), that acknowledgements and pruning stay behind what
is over (`RelayInv`, `AckInv`), that everything before the first current frame
is over unless an owner holds it back (`OrderInv`), and that the delivery's count is
never behind what has failed, on live sockets or dead ones (`RetryInv`); from this
`BoundedRetries` follows, because a retry is scheduled only after a comparison of
that count. Each action then maps to one of `OrderedDelivery`, or to a stutter;
`ResumeLate` is the only one that maps to `Drop`.

`ApprovalReplayProofs` proves type correctness and all four properties of the
run, from `ReplayAssumption`. The argument has four parts. `FlowInv`: a replay is
the running execution of its approval, until it opens a gate its journal is
the approval's, which ends with the call asked about, and everything it has gone
past is done; so `replayIndex` cannot run off its end. `GrantInv`: a queued
approval, and a replay that has opened nothing, still owe one result from behind
a gate, and results and debts together never exceed the grants. What a replay
lets through is always the journal's first entry that is not done (`IsGate`),
and a journal has only one such entry, so a body that catches what the call throws
comes to the same call again and to no other. `FirstInv`: every journal has the
calls before the first gate and before the first gap (`PreGate`), done and in their
places, so no run but the first ever executes one; the first run records them
because without a gap its journal is as long as its way. `CleanInv`: a journal
without a divergence, a gap, a second pending entry or a repeated call lists the
calls from the first on, so its replay meets each in its place and must come to
its own gate before it can end.

`AgentInputQueueSteps` proves the lane's invariant `LaneInv` inductive, and
`AgentInputQueueProofs`, over it, type correctness, `PlacedOnce`, `NoDuplicate`,
`OneSteerAtATime`, `NothingStranded`, `EventsHaveATurn`, `HandedIsDurable`,
`ConsumedIsFinal` and `ReadInOrder`, from `LaneAssumption`: for any inputs, any
priorities, either provider and any write that fails. None of them is inductive. That a message
is not sent twice rests on where its input may be at each stage of the turn,
which rests on what the loop has yet to tell the queue, which rests on what the
provider did when the native turn ended. `LaneInv` says this in four parts:

- `Shape(L)`, of a lane alone. `TurnShape` and `QueueShape`: the turn's fields
  agree, queue, carried inputs, prompt and steers hold each input once, and only
  a sealed turn has a steer back in the queue. `DispatchShape`: a dispatch that is
  not over belongs to the running turn's last steer, or the lane is closed, or the
  input is already consumed. `StatusShape`: what waits is not shown as consumed.
- `Env(L)`, of a lane and what surrounds it. `NativeInv`: native turn, events and
  loop belong to the lane's turn, and the terminal comes last. `EventInv`: a
  status on its way is true. `InboxInv`, `RetainedInv`: the provider's messages
  are disjoint, and one that outlives its native turn is the input the lane puts
  first. `ContextInv`: what was read is not going to be sent. `SaveInv`: what is
  about to be handed over is written.
- `EnvType`, the types.
- `StreamInv`: a returned input is the last thing said before the terminal.
  Without it, a status still in flight could name the input that the queue has
  just taken back.

`Shape` is a predicate on lanes, not on the variable, because the methods compose:
`FinishShape` shows that `Finish` keeps it, through `StartNext` and `Start`, and is
used by the five actions that end a turn. `Kept` says what a step must leave to
the environment, and `KeepEnv` carries all of `Env` over any step that does; only
the steps that move a message or an event are argued one by one. TLC agrees:
`LaneInv` holds in the 680,044 states of `input_safety`.

`ReadInOrder` speaks of what was read, so its invariant `OrderInv` follows an
input from the queue to the model's context. `Ranks` asks only of two `next`
inputs that the first arrived before the second (`Arrived`).

- `LineUp`: the turn's prompt, then its steers, then the queue, are in order.
- `Served`: the context, then the provider's messages, then whatever the lane
  still has, are in order.
- `Rides`: why what comes back may go first. Of a turn's steers all but the last
  were read, so a steer put back at the head of the queue, or returned by the
  provider, is older than all behind it; and a prompt leaves no `next` input
  behind while the provider may take a steer or keeps one.
- `Listed`: what an open lane and its provider have was submitted, so that an
  input just submitted comes after all of it.

`Rides` is what makes it inductive: without it a turn could end with a prompt
input unread and a later steer at the provider, and the next turn would start
with the wrong one. TLC finds `OrderInv` and `Arrivals` (what was submitted is
not new) true in the same 680,044 states.

`AgentInputQueueCalm` proves `NextConsumedWasRead`, `NextUnknownNeverReplayed`
and `NextStopNeverReplays`. Their invariant `Calm`, over `LaneInv`, says of a
session whose inputs all wait their turn that a turn prompts for one input and is
not superseded (`Single`), that what is consumed was read or answered (`Read`),
that nothing stopped rides in a turn (`Dropped`), and what keeps a doubtful input
from being sent (`Doubt`): it is not being steered or sent; and unless a write of
its status failed it is not queued, not about to be sent, and not with a provider
that could give it back (`GivesBack`). The exception is needed: a failed write
leaves an input doubtful on its way, and the same failure stops it before the
provider. `Fresh` makes the restriction to `next` workable, since a priority never
changes once an input is accepted. Again most steps only have to be shown to bring
nothing nearer to the provider (`Calmly`, `CalmlyKeeps`). TLC finds `Calm` true
in the same states.

`Only` is `filter()`; its recursion is opened by `Least` (a set of naturals has a
least member), so that `OnlyIs` holds for sequences of any length.

Only model-checked: liveness (`CountdownEnds`, `UpdatingEnds`,
`EveryInputSettles`, `QueuedRootsStart`, `EveryEventSettles`), which is beyond the
prover. Every other property of a passing run is a theorem.

## 5. What the runs found

1. `input_unread`: a turn that starts with a retained input adopts it by id and
   never sends the rest of its prompt; the inputs bound to it are shown as
   consumed. It takes a `now` input steered in from the queue behind a `next`
   one, or carried inputs in front of a retained one.
2. `input_unknown`: a superseded turn carries inputs of unknown delivery forward.
3. `input_stop`: a `now` input between a Stop and the turn's end turns the Stop
   into a supersede.
4. `relay_resume` (`drainer.ts:284`, `:520`): `resumeBlocked` clears the block
   before the handler looks at its socket. If that socket has begun to close, the
   handler returns without delivering, and the frame behind it takes the queue
   over. After the reconnect the replay of the resumed event is turned away, the
   later one is delivered, and its acknowledgement prunes both, although
   `drainer.ts:213` has "it never discards the un-acked event" and
   `api/routes/integrations.ts:33` "the relay never loses the payload".
   `OrderedDelivery` has this one loss as `Drop`.
5. `approvals_undecided` (`engine.ts:838`): a replay lets its *first* pending entry
   through. When a root had two gated calls pending, approving the later one runs
   the earlier one, also when that is undecided or was rejected, and may report the
   later one as succeeded; `docs/concepts/messaging.md:55` has "a rejection means
   the action never runs". `OneRunPerGrant` therefore does not say which call a
   decision lets through, and `ApprovedGateRuns` is about journals with one pending
   entry.

These behaviours are in the models too, and are why a property is stated with an
exception or not at all; no run of their own shows them.

6. Upgrade (`service.ts:112`, `:139`): a probe awaiting Rome Cloud while the
   guardian defers another probe's offer reopens it at once, against the comment at
   `status-hub.ts:107`. It takes two probes at a time, the nightly routine and a
   manual start of the action.
7. Upgrade (`api/routes/system-upgrade.ts:97`): the manual route does not tell
   the hub what it asked for, and may ask while an upgrade of the service is under
   way. Whether Rome Cloud refuses the second request is not in this repository.
8. Pool (`engine.ts:1733`): a cancel that crosses its worker's result puts the
   dying worker back into the warm pool, and the next root fails with it.
9. Relay (`drainer.ts:503`): a failure that ends on a socket that has closed or is
   closing is counted, but the handler returns before it is compared with the
   budget. Every reconnect may then try the event once more, however often it has
   failed, although `drainer.ts:434-437` has the block keep "a flapping relay" from
   "an unbounded loop". `BoundedRetries` is about the retries that are scheduled.
10. Approvals (`engine.ts:937-961`): a nested call that throws is not journaled. If
   the body catches it and goes on, every replay diverges at that call, executes
   it again, and asks again for what was approved; the approval then ends
   succeeded though its call never ran. `NothingRepeatedBeforeGate` excepts what
   follows such a gap, `ApprovedGateRuns` journals that have one.
11. Approvals (`engine.ts:843-855`): if the call behind the gate throws, its entry
   stays pending. A body that catches it may call it again on the same approval,
   as often as it throws; the first result closes the gate.
12. A call let through is journaled a second time, so the replay of another
   approval that was created later meets it twice, diverges and asks again.
13. A gated root with gated nested calls records from the start when its own
   approval is claimed, and its later replays run the whole body again
   (`NothingRepeatedBeforeGate` excepts gated roots).
14. An agent turn that fails after the action has run marks the approval's
   execution failed, and Retry runs the action again (`approval-handler.ts:211`).
15. A crash leaves an approval queued or running; nothing starts it again, and
   Retry takes failed ones only (`Restart`).
16. An approval granted while the first run is still going lets that run's end
   write over the row of the replay.

## 6. Not modelled, and the plan

Done: `SystemUpgrade`, `AgentInputQueue`, `ActionWorkerPool`, `RelayDrain`,
`ApprovalReplay`. Next, in this order:

1. `RoutineRuns`: runs, the single retry, cancel against the end of a run,
   one-off triggers.
2. `ActionTree`: delegated executions over `ActionWorkerPool`'s workers, and
   "cancelling a root cancels everything under it"; with it the gated call of a
   delegated worker, which enters `handleRootCall` and asks a second time.
3. `HostExecution`; the app lifecycle; backend turns of `AgentSession`.

Platform adapters, SQL, the HTTP API, the daemon and the dashboards are left out:
they translate and store, and their own concurrency is the database's. The API's
manual upgrade route is the exception, and is in `SystemUpgrade`.
