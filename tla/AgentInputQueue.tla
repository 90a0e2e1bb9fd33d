-------------------------- MODULE AgentInputQueue ---------------------------
(***************************************************************************)
(* The chat input lane of one agent session: AgentInputQueue, the part of  *)
(* AgentSession that drives it (a turn's way from the turn mutex through   *)
(* beforeSend, sendUserInput and ready to its terminal event, the events   *)
(* loop, stop and close), and the model provider it talks to.              *)
(*                                                                         *)
(* The queue's fields are one record, the lane, and each of its methods a  *)
(* function on lanes; an action is the code between two awaits. Entries    *)
(* are named by their input id.                                            *)
(***************************************************************************)
EXTENDS Naturals, FiniteSets, Sequences, SequencesExt

CONSTANTS
  Inputs,      \* ids of the user messages that may be submitted
  NoInput,     \* no pending steer
  Priorities,  \* the priorities a submit may carry: "next", "now"
  Providers,   \* "local": steering is a local call, and a message not read by
               \* the end of a native turn is kept for the next (Claude);
               \* "remote": it is a call with a timeout, nothing is kept (Codex)
  WritesFail   \* may persisting an input's status fail?

ASSUME LaneAssumption ==
  /\ NoInput \notin Inputs
  /\ Priorities \subseteq {"next", "now"}
  /\ Providers \subseteq {"local", "remote"}
  /\ WritesFail \in BOOLEAN

VARIABLES
  lane,      \* AgentInputQueue, with the active turn's sink and stage
  loop,      \* runEventsLoop: what it is awaiting
  stream,    \* events the provider has emitted and the loop not yet taken
  inbox,     \* messages the provider holds and has not read
  context,   \* history: the inputs the model has read, in reading order
  retained,  \* ids of steered messages held across the end of a turn
  open,      \* a native turn is running
  arrival    \* history: the submitted inputs in submission order

providerVars == <<stream, inbox, context, retained, open>>
vars == <<lane, loop, stream, inbox, context, retained, open, arrival>>

Settled == {"consumed", "unknown", "failed", "cancelled"}
States == {"new", "queued", "submitted", "accepted"} \union Settled
NoTurn == [id |-> 0]
Idle == [pc |-> "idle"]
-----------------------------------------------------------------------------
(* AgentInputQueue, as functions on lanes *)

\* update(entry, st) for every entry of S. The status is set at once; a new
\* "queued" or "unknown" is remembered by the two histories.
Update(L, S, st) ==
  [L EXCEPT !.state = [i \in Inputs |-> IF i \in S THEN st ELSE L.state[i]],
            !.durable = IF st = "queued" THEN @ \ S ELSE @,
            !.doubtful = IF st = "unknown" THEN @ \union S ELSE @]

Retains == lane.provider = "local"
HasTurn(L) == L.active # NoTurn
First(L) == L.active.first
Bound(L) == ToSet(L.active.prompted) \ {First(L)}

\* filter(): the members of s that are in S, in their order. (SelectSeq, spelt
\* out so that a proof can open it.)
Only(s, S) ==
  LET f[n \in 0..Len(s)] == IF n = 0 THEN <<>>
                            ELSE IF s[n] \in S THEN Append(f[n - 1], s[n])
                            ELSE f[n - 1]
  IN f[Len(s)]

\* start(e) takes the carried inputs and, when e is a `now` input, every other
\* queued `now` input.
Urgent(L) == {i \in Inputs : L.priority[i] = "now"}
Absorbed(L, e) == IF e \in Urgent(L) THEN Only(L.queued, Urgent(L)) ELSE <<>>
Rest(L, e) == Only(L.queued, Inputs \ ToSet(Absorbed(L, e)))

PromptWithoutEntry(L, e) == L.carried \o Absorbed(L, e)
Prompt(L, e) == L.carried \o <<e>> \o Absorbed(L, e)

Start(L, e) ==
  LET parts == Prompt(L, e)
      turn == [id |-> L.turns + 1, first |-> e, prompted |-> parts,
               steered |-> <<>>, ready |-> FALSE, pending |-> NoInput,
               last |-> NoInput, sealed |-> FALSE, superseded |-> FALSE,
               stage |-> "waiting", interrupted |-> FALSE, stopped |-> FALSE]
  IN Update([L EXCEPT !.active = turn, !.turns = @ + 1, !.carried = <<>>,
                      !.queued = Rest(L, e)],
            ToSet(parts), "queued")

StartNothing(L) == L
StartNext(L) ==
  IF HasTurn(L) \/ L.closed THEN L
  ELSE IF L.queued # <<>>
       THEN Start([L EXCEPT !.queued = Tail(@)], Head(L.queued))
       ELSE IF L.carried # <<>>
            THEN Start([L EXCEPT !.carried = Tail(@)], Head(L.carried))
            ELSE L

MaySteerAnother(L) == /\ HasTurn(L) /\ L.active.ready /\ ~L.active.sealed
                      /\ L.queued # <<>>
MaySteer(L) == /\ HasTurn(L) /\ L.active.ready
               /\ L.active.pending = NoInput /\ ~L.active.sealed
               /\ L.queued # <<>>

\* flush(): dispatch the oldest queued input, one at a time.
Flush(L) ==
  IF ~MaySteer(L) THEN L
  ELSE LET e == Head(L.queued)
           turn == [L.active EXCEPT !.pending = e, !.steered = Append(@, e), !.last = e]
       IN Update([L EXCEPT !.queued = Tail(@), !.active = turn,
                           !.dispatch[e] = "saving", !.owner[e] = turn.id],
                 {e}, "submitted")

RequeueLast(L, e) == Update([L EXCEPT !.queued = Append(@, e)], {e}, "queued")
Requeue(L, e) == Update([L EXCEPT !.queued = <<e>> \o @], {e}, "queued")

\* cancel(): seal the turn and cancel everything the provider does not have.
Cancel(L) ==
  LET waiting == ToSet(L.queued) \union ToSet(L.carried)
                   \union ({L.active.pending} \ {NoInput})
  IN Update([L EXCEPT !.active.sealed = TRUE, !.queued = <<>>, !.carried = <<>>],
            waiting, "cancelled")

\* close(): refuse new inputs, cancel the active turn's waiting ones.
CloseLane(L) ==
  LET C == [L EXCEPT !.closed = TRUE] IN IF HasTurn(L) THEN Cancel(C) ELSE C

\* finish(): a superseded turn hands its unread inputs on; any other turn
\* leaves them unknown, or failed when they were never sent.
UnreadOrConsumed(L, i) == L.state[i] # "cancelled" /\ i \notin ToSet(L.queued)
UnreadOrQueued(L, i) == L.state[i] \notin {"consumed", "cancelled"}
Unread(L, i) ==
  L.state[i] \notin {"consumed", "cancelled"} /\ i \notin ToSet(L.queued)

AlwaysHandsOn(L) == TRUE
HandsOn(L) == L.active.superseded

UnsurePending(L) == {i \in {L.active.pending} \ {NoInput} :
                       L.state[i] \in {"accepted", "submitted"}}
Unsure(L) == {i \in ToSet(L.active.prompted) \union ({L.active.pending} \ {NoInput}) :
                L.state[i] \in {"accepted", "submitted"}}
Unsent(L) == {i \in ToSet(L.active.prompted) : L.state[i] = "queued" /\ Unread(L, i)}

All(L) == L.active.prompted \o L.active.steered
Remaining(L) == Only(All(L), {i \in Inputs : Unread(L, i)})

Finish(L) ==
  LET dropped == {i \in ToSet(All(L)) : L.active.stopped /\ Unread(L, i)}
      ended == [L EXCEPT !.active = NoTurn, !.stopped = @ \union dropped]
  IN StartNext(IF HandsOn(L)
               THEN [ended EXCEPT !.carried = Remaining(L)]
               ELSE Update(Update(ended, Unsure(L), "unknown"), Unsent(L), "failed"))

-----------------------------------------------------------------------------
Init ==
  /\ \E p \in Providers :
     lane = [provider |-> p, active |-> NoTurn, queued |-> <<>>, carried |-> <<>>,
             closed |-> FALSE, turns |-> 0,
             state |-> [i \in Inputs |-> "new"],
             priority |-> [i \in Inputs |-> "next"],
             dispatch |-> [i \in Inputs |-> "none"],
             owner |-> [i \in Inputs |-> 0],
             durable |-> {},   \* inputs whose "submitted" status is written
             broken |-> {},    \* inputs whose chain of writes has failed
             answered |-> {},  \* history: inputs of turns the chain answered
             doubtful |-> {},  \* history: inputs that were ever "unknown"
             stopped |-> {}]   \* history: unread inputs of a stopped turn
  /\ loop = Idle
  /\ stream = <<>> /\ inbox = <<>> /\ context = <<>>
  /\ retained = {} /\ open = FALSE
  /\ arrival = <<>>

\* Awaiting entries' writes: they all succeed, or one fails and its chain
\* stays rejected.
Written(S) == lane.broken \intersect S = {}
WriteFailsFor(S) == WritesFail \/ ~Written(S)
Broken(L, S) == [L EXCEPT !.broken = @ \union S]
Saved(L, S) == [L EXCEPT !.durable = @ \union S]

Stage == lane.active.stage
AtStage(s) == HasTurn(lane) /\ Stage = s
\* currentSink is the lane's turn.
Current == HasTurn(lane) /\ Stage # "waiting"
-----------------------------------------------------------------------------
(* The provider's side of an interrupt and of a close *)

\* modelSession.interrupt(): the native turn ends with a terminal event and
\* what it had not read is dropped; with no native turn there is nothing to
\* end, and a provider may also be too early to be interrupted (Codex before
\* its turn has an id, Claude while it reopens).
InterruptProvider ==
  /\ \/ /\ open' = FALSE /\ inbox' = <<>> /\ retained' = {}
        /\ stream' = IF open THEN Append(stream, [kind |-> "terminal"])
                             ELSE stream
     \/ open /\ UNCHANGED <<open, inbox, retained, stream>>
  /\ UNCHANGED context

ProviderCloses == /\ open' = FALSE /\ inbox' = <<>> /\ retained' = {}
                  /\ stream' = <<>> /\ UNCHANGED context

-----------------------------------------------------------------------------
(* Callers: submit, stop, close *)

Accepted(i, p) == [lane EXCEPT !.priority[i] = p, !.state[i] = "queued"]

\* submit() with no turn running starts one at once.
SubmitFirst(i, p) ==
  /\ ~HasTurn(lane)
  /\ lane' = Start(Accepted(i, p), i)
  /\ UNCHANGED providerVars

\* submit() during a turn: steer it in, or wait.
SubmitNext(i) ==
  /\ HasTurn(lane)
  /\ lane' = Flush([Accepted(i, "next") EXCEPT !.queued = Append(@, i)])
  /\ UNCHANGED providerVars

\* submit() of a `now` input: seal and interrupt the turn, once.
SubmitNow(i) ==
  /\ HasTurn(lane)
  /\ LET L == [Accepted(i, "now") EXCEPT !.queued = Append(@, i)]
     IN IF lane.active.superseded THEN lane' = L /\ UNCHANGED providerVars
        ELSE /\ lane' = [L EXCEPT !.active = [@ EXCEPT !.superseded = TRUE,
                                               !.sealed = TRUE, !.interrupted = TRUE]]
             /\ IF Current THEN InterruptProvider ELSE UNCHANGED providerVars

Submit(i, p) ==
  /\ ~lane.closed /\ lane.state[i] = "new"
  /\ SubmitFirst(i, p) \/ (p = "next" /\ SubmitNext(i)) \/ (p = "now" /\ SubmitNow(i))
  /\ arrival' = Append(arrival, i)
  /\ UNCHANGED loop

\* The guardian's Stop: interrupt, nothing superseded.
Stop ==
  /\ HasTurn(lane) /\ ~lane.active.stopped
  /\ lane' = [lane EXCEPT !.active = [@ EXCEPT !.interrupted = TRUE, !.stopped = TRUE]]
  /\ IF Current THEN InterruptProvider ELSE UNCHANGED providerVars
  /\ UNCHANGED <<loop, arrival>>

Close == /\ ~lane.closed
         /\ lane' = CloseLane(lane) /\ ProviderCloses
         /\ UNCHANGED <<loop, arrival>>

-----------------------------------------------------------------------------
(* AgentSession.runOneTurn of the lane's turn *)

\* The turn mutex is free: make the sink current, or end a turn that was
\* interrupted while it waited.
TakeMutex ==
  /\ AtStage("waiting")
  /\ IF lane.active.interrupted \/ lane.closed
     THEN /\ lane' = Finish(lane)
          /\ inbox' = <<>> /\ retained' = {} /\ UNCHANGED <<stream, context, open>>
     ELSE /\ lane' = [lane EXCEPT !.active.stage = "current"]
          /\ UNCHANGED providerVars
  /\ UNCHANGED <<loop, arrival>>

\* The middleware chain ends the turn itself: observe() records the verdict on
\* the turn's input, then on the inputs bound to it.
MiddlewareAnswers(st) ==
  /\ AtStage("current")
  /\ lane' = [Update(lane, {First(lane)}, st)
                EXCEPT !.active.stage = "answering",
                       !.answered = @ \union ToSet(lane.active.prompted)]
  /\ UNCHANGED <<loop, providerVars, arrival>>

AnswerSaved ==
  /\ AtStage("answering") /\ Written({First(lane)})
  /\ lane' = [Update(lane, Bound(lane), lane.state[First(lane)])
                EXCEPT !.active.stage = "answered"]
  /\ UNCHANGED <<loop, providerVars, arrival>>

\* runModelTerminal: an interrupted turn never reaches the model.
SkipModel ==
  /\ \/ AtStage("current") /\ lane.active.interrupted
     \/ AtStage("answered")
  /\ lane' = Finish(lane)
  /\ UNCHANGED <<loop, providerVars, arrival>>

\* beforeSend(): record the dispatch boundary and wait for it to be written.
BeforeSendUnawaited ==
  /\ AtStage("current") /\ ~lane.active.interrupted
  /\ lane' = [Update(lane, ToSet(lane.active.prompted), "submitted")
                EXCEPT !.active.stage = "sending"]
  /\ UNCHANGED <<loop, providerVars, arrival>>

BeforeSend ==
  /\ AtStage("current") /\ ~lane.active.interrupted
  /\ lane' = [Update(lane, ToSet(lane.active.prompted), "submitted")
                EXCEPT !.active.stage = "binding"]
  /\ UNCHANGED <<loop, providerVars, arrival>>

BeforeSendSaved ==
  /\ AtStage("binding") /\ Written(ToSet(lane.active.prompted))
  /\ lane' = [Saved(lane, ToSet(lane.active.prompted)) EXCEPT !.active.stage = "sending"]
  /\ UNCHANGED <<loop, providerVars, arrival>>

\* sendUserInput(): one message for the whole prompt, unless the provider
\* holds a message of that id already and adopts it.
SendInput ==
  /\ AtStage("sending") /\ ~lane.closed
  /\ lane' = [lane EXCEPT !.active.stage = "sent"]
  /\ open' = TRUE
  /\ IF First(lane) \in retained
     THEN retained' = retained \ {First(lane)} /\ UNCHANGED inbox
     ELSE /\ inbox' = Append(inbox, [id |-> First(lane), parts |-> lane.active.prompted])
          /\ UNCHANGED retained
  /\ UNCHANGED <<loop, stream, context, arrival>>

\* beforeSend() or sendUserInput() rejects: failTurn(). A provider that rejects
\* an input has lost its native session, and what that held.
TurnFails ==
  /\ \/ AtStage("sending")
     \/ AtStage("binding") /\ WriteFailsFor(ToSet(lane.active.prompted))
     \/ AtStage("answering") /\ WriteFailsFor({First(lane)})
  /\ LET waited == IF Stage = "binding" THEN ToSet(lane.active.prompted)
                   ELSE IF Stage = "answering" THEN {First(lane)} ELSE {}
     IN IF waited = {} THEN lane' = Finish(lane)
        ELSE \E i \in waited : /\ ~Written(waited) => i \in lane.broken
                               /\ lane' = Finish(Broken(lane, {i}))
  /\ IF Stage = "sending" THEN inbox' = <<>> /\ retained' = {}
                          ELSE UNCHANGED <<inbox, retained>>
  /\ UNCHANGED <<loop, stream, context, open, arrival>>

Ready ==
  /\ AtStage("sent")
  /\ lane' = Flush([lane EXCEPT !.active = [@ EXCEPT !.stage = "running", !.ready = TRUE]])
  /\ UNCHANGED <<loop, providerVars, arrival>>

-----------------------------------------------------------------------------
(* The dispatch started by flush(), for input i *)

OwnTurn(i) == HasTurn(lane) /\ lane.active.id = lane.owner[i]
Done(L, i) == [L EXCEPT !.dispatch[i] = "none"]
SealOwn(L, i) ==
  IF OwnTurn(i) THEN [L EXCEPT !.active = [@ EXCEPT !.sealed = TRUE, !.pending = NoInput]]
                ELSE L

\* The "submitted" status is written. A turn that was sealed or ended
\* meanwhile takes no more input: put it back.
DispatchSaved(i) ==
  /\ lane.dispatch[i] = "saving" /\ Written({i})
  /\ LET L == Saved(lane, {i})
     IN lane' = IF OwnTurn(i) /\ ~lane.active.sealed
                THEN [L EXCEPT !.dispatch[i] = "steering"]
                ELSE IF lane.state[i] = "cancelled" THEN Done(L, i)
                ELSE [Requeue(L, i) EXCEPT !.dispatch[i] = "requeued"]
  /\ UNCHANGED <<loop, providerVars, arrival>>

\* The write of the requeued status came through.
DispatchRequeued(i) ==
  /\ lane.dispatch[i] \in {"requeued", "deferred"} /\ Written({i})
  /\ lane' = IF lane.dispatch[i] = "deferred" /\ OwnTurn(i)
             THEN Done(lane, i) ELSE StartNext(Done(lane, i))
  /\ UNCHANGED <<loop, providerVars, arrival>>

\* The provider takes the steered message.
SteerDelivered(i) ==
  /\ lane.dispatch[i] = "steering" /\ open
  /\ inbox' = Append(inbox, [id |-> i, parts |-> <<i>>])
  /\ lane' = [lane EXCEPT !.dispatch[i] = "delivered"]
  /\ UNCHANGED <<loop, stream, context, retained, open, arrival>>

\* It definitely did not take it.
SteerDeferred(i) ==
  /\ lane.dispatch[i] = "steering"
  /\ lane' = IF lane.state[i] \in {"consumed", "cancelled", "queued"}
             THEN Done(lane, i)
             ELSE [Requeue(SealOwn(lane, i), i) EXCEPT !.dispatch[i] = "deferred"]
  /\ UNCHANGED <<loop, providerVars, arrival>>

SteerAcceptedLate(i) ==
  /\ lane.dispatch[i] = "delivered"
  /\ lane' = Done(Update(lane, {i}, "accepted"), i)
  /\ UNCHANGED <<loop, providerVars, arrival>>

SteerAcceptedIsConsumed(i) ==
  /\ lane.dispatch[i] = "delivered"
  /\ lane' = Done(Update(lane, {i}, "consumed"), i)
  /\ UNCHANGED <<loop, providerVars, arrival>>

SteerAccepted(i) ==
  /\ lane.dispatch[i] = "delivered"
  /\ lane' = IF lane.state[i] \in {"consumed", "cancelled", "queued"}
             THEN Done(lane, i)
             ELSE Done(Update(lane, {i}, "accepted"), i)
  /\ UNCHANGED <<loop, providerVars, arrival>>

\* The call fails: a remote one times out, delivered or not, a local one
\* finds the native session ended. Or a write of the dispatch fails.
CallFails(i) == \/ ~Retains /\ lane.dispatch[i] \in {"steering", "delivered"}
                \/ ~open /\ lane.dispatch[i] = "steering"
DispatchWriteFails(i) ==
  lane.dispatch[i] \in {"saving", "requeued", "deferred"} /\ WriteFailsFor({i})

DispatchRetries(i) ==
  /\ CallFails(i)
  /\ lane' = Requeue(Done(Update(lane, {i}, "unknown"), i), i)
  /\ UNCHANGED <<loop, providerVars, arrival>>

DispatchFails(i) ==
  /\ CallFails(i) \/ DispatchWriteFails(i)
  /\ LET L == Done(IF CallFails(i) THEN lane ELSE Broken(lane, {i}), i)
     IN lane' = IF lane.state[i] \in {"consumed", "cancelled"} THEN L
                ELSE Update(L, {i}, "unknown")
  /\ UNCHANGED <<loop, providerVars, arrival>>

-----------------------------------------------------------------------------
(* runEventsLoop *)

\* The next event, for the sink that is current now. (The code drops an event
\* that finds none; EventsHaveATurn says that it never has to.)
TakeEvent ==
  /\ loop = Idle /\ stream # <<>> /\ Current
  /\ LET ev == Head(stream)
     IN IF ev.kind = "terminal"
        THEN /\ lane' = [lane EXCEPT !.active.sealed = TRUE]
             /\ loop' = [pc |-> "sealing", turn |-> lane.active.id]
        ELSE /\ lane' = Update(lane, {ev.input}, ev.kind)
             /\ loop' = [pc |-> "observing", turn |-> lane.active.id, event |-> ev]
  /\ stream' = Tail(stream)
  /\ UNCHANGED <<inbox, context, retained, open, arrival>>

\* observe(), after its write.
Observed(L, i, kind) ==
  LET seen ==
        IF kind = "queued"
        THEN [L EXCEPT !.active = [L.active EXCEPT !.sealed = TRUE,
                                                   !.pending = IF @ = i THEN NoInput ELSE @],
                       !.queued = IF i \in ToSet(@) THEN @ ELSE <<i>> \o @]
        ELSE IF L.active.pending = i
             THEN Flush([L EXCEPT !.active.pending = NoInput]) ELSE L
  IN IF i = First(L) /\ kind = "consumed" THEN Update(seen, Bound(L), kind) ELSE seen

ObserveSaved ==
  /\ loop.pc = "observing" /\ Written({loop.event.input})
  /\ lane' = IF HasTurn(lane) /\ lane.active.id = loop.turn
             THEN Observed(lane, loop.event.input, loop.event.kind) ELSE lane
  /\ loop' = Idle
  /\ UNCHANGED <<providerVars, arrival>>

\* seal() awaits the last dispatch, then the terminal closes the sink.
LoopFinishes ==
  /\ loop.pc = "sealing"
  /\ IF HasTurn(lane) /\ lane.active.id = loop.turn
     THEN /\ lane.active.last # NoInput => lane.dispatch[lane.active.last] = "none"
          /\ lane' = Finish(lane)
     ELSE UNCHANGED lane
  /\ loop' = Idle
  /\ UNCHANGED <<providerVars, arrival>>

\* The loop ends with the provider's events, or on a write that failed: the
\* lane closes and the running turn fails.
LoopEnds ==
  /\ \/ lane.closed /\ loop = Idle /\ Current
     \/ loop.pc = "observing" /\ WriteFailsFor({loop.event.input})
  /\ LET L == CloseLane(IF loop.pc = "observing"
                        THEN Broken(lane, {loop.event.input}) ELSE lane)
     IN lane' = IF Current THEN Finish(L) ELSE L
  /\ loop' = Idle /\ ProviderCloses
  /\ UNCHANGED arrival

-----------------------------------------------------------------------------
(* The provider *)

Status(kind, i) == [kind |-> kind, input |-> i]

\* It takes the oldest message into the model's context and says so.
ProviderReads ==
  /\ open /\ inbox # <<>>
  /\ context' = context \o Head(inbox).parts
  /\ inbox' = Tail(inbox)
  /\ stream' = Append(stream, Status("consumed", Head(inbox).id))
  /\ UNCHANGED <<lane, loop, retained, open, arrival>>

ClosingTerminalFirst(kept) ==
  <<[kind |-> "terminal"]>> \o [k \in 1..Len(kept) |-> Status("queued", kept[k].id)]

\* A native turn's last events: the messages it keeps, then its result.
Closing(kept) ==
  [k \in 1..Len(kept) |-> Status("queued", kept[k].id)] \o <<[kind |-> "terminal"]>>

\* The native turn completes, having read its prompt. A retaining provider
\* keeps the steered messages it has not read for the next turn, and says so
\* before the result; a remote one first answers the calls it has taken.
ProviderCompletes ==
  /\ open /\ HasTurn(lane)
  /\ \A k \in 1..Len(inbox) : inbox[k].id # First(lane)
  /\ Retains \/ \A i \in Inputs : lane.dispatch[i] # "delivered"
  /\ LET kept == IF Retains THEN inbox ELSE <<>>
     IN /\ inbox' = kept
        /\ retained' = {kept[k].id : k \in 1..Len(kept)}
        /\ stream' = stream \o Closing(kept)
  /\ open' = FALSE
  /\ UNCHANGED <<lane, loop, context, arrival>>

\* The native turn fails, and with it what it had not read.
ProviderErrs ==
  /\ open
  /\ open' = FALSE /\ inbox' = <<>>
  /\ stream' = Append(stream, [kind |-> "terminal"])
  /\ UNCHANGED <<lane, loop, context, retained, arrival>>

-----------------------------------------------------------------------------
CallerStep == Stop \/ Close \/ \E i \in Inputs, p \in Priorities : Submit(i, p)
TurnStep == \/ TakeMutex \/ SkipModel \/ BeforeSend \/ BeforeSendSaved
            \/ SendInput \/ TurnFails \/ Ready \/ AnswerSaved
            \/ \E st \in {"consumed", "failed"} : MiddlewareAnswers(st)
DispatchStep(i) == \/ DispatchSaved(i) \/ DispatchRequeued(i)
                   \/ SteerDelivered(i) \/ SteerDeferred(i) \/ SteerAccepted(i)
                   \/ DispatchFails(i)
LoopStep == TakeEvent \/ ObserveSaved \/ LoopFinishes \/ LoopEnds
ProviderStep == ProviderReads \/ ProviderCompletes \/ ProviderErrs

Next == \/ CallerStep \/ TurnStep \/ LoopStep \/ ProviderStep
        \/ \E i \in Inputs : DispatchStep(i)

Spec == Init /\ [][Next]_vars

\* Promises settle, the mutex is granted, the loop runs and a native turn
\* ends; nothing is assumed of the guardian.
FairSpec == /\ Spec
            /\ WF_vars(TurnStep) /\ WF_vars(LoopStep) /\ WF_vars(ProviderStep)
            /\ \A i \in Inputs : WF_vars(DispatchStep(i))
-----------------------------------------------------------------------------
(* Properties *)

Count(s, i) == Cardinality({k \in 1..Len(s) : s[k] = i})
Held(i) == Cardinality({k \in 1..Len(inbox) : i \in ToSet(inbox[k].parts)})

TypeOK ==
  /\ lane.state \in [Inputs -> States]
  /\ lane.priority \in [Inputs -> {"next", "now"}]
  /\ lane.queued \in Seq(Inputs) /\ lane.carried \in Seq(Inputs)
  /\ lane.dispatch \in [Inputs -> {"none", "saving", "steering", "delivered",
                                   "requeued", "deferred"}]
  /\ HasTurn(lane) => /\ First(lane) \in ToSet(lane.active.prompted)
                      /\ lane.active.pending \in Inputs \union {NoInput}
  /\ loop.pc \in {"idle", "observing", "sealing"}
  /\ context \in Seq(Inputs) /\ retained \subseteq Inputs

\* The model never gets a message twice: at most one copy of an input is in
\* its context or waiting to be read, however steering, adoption, supersedes
\* and failed calls interleave.
NoDuplicate == \A i \in Inputs : Count(context, i) + Held(i) <= 1

\* An input waits in one place only: it is not queued twice, nor queued while
\* it rides in a prompt that is still to be sent.
PlacedOnce ==
  \A i \in Inputs :
    Count(lane.queued, i) + Count(lane.carried, i)
      + (IF HasTurn(lane) /\ Stage \in {"waiting", "current", "binding", "sending"}
         THEN Count(lane.active.prompted, i) ELSE 0) <= 1

\* "Only one unconsumed steering input is dispatched at a time": of what the
\* provider has not read, at most one was steered in by the running turn.
OneSteerAtATime ==
  HasTurn(lane) =>
    Cardinality({k \in 1..Len(inbox) : inbox[k].id \in ToSet(lane.active.steered)}) <= 1

\* Inputs without priority are read in the order they were submitted.
ReadInOrder ==
  \A k, m \in 1..Len(context) :
    LET i == context[k]
        j == context[m]
    IN k < m /\ {lane.priority[i], lane.priority[j]} = {"next"} =>
         \E a, b \in 1..Len(arrival) : a <= b /\ arrival[a] = i /\ arrival[b] = j

\* An idle lane has nothing waiting: no input is left behind with no turn to
\* carry it, and none is carried past the next start.
NothingStranded ==
  ~lane.closed /\ ~HasTurn(lane) => lane.queued = <<>> /\ lane.carried = <<>>

\* "Should not happen": the provider never has an event out while no turn is
\* there to take it, so none is dropped or credited to a later turn.
EventsHaveATurn == stream # <<>> => Current

\* What a step hands to the provider.
Sent == IF Len(inbox') > Len(inbox) THEN ToSet(Last(inbox').parts) ELSE {}
OnlyNext == \A i \in Inputs : lane.priority[i] = "next"

\* The provider cannot observe an input before its "submitted" status is
\* written, so that a restart finds it as possibly delivered.
HandedIsDurable == [][Sent \subseteq lane.durable]_vars

\* A status of consumed is not taken back while the session lives, neither by
\* a late answer to the dispatch nor by the turn's end.
ConsumedIsFinal ==
  [][\A i \in Inputs :
       lane.state[i] = "consumed" /\ ~lane'.closed => lane'.state[i] = "consumed"]_vars

\* What is shown as consumed has been read by the model, or was answered by
\* the middleware in its place.
ConsumedWasRead ==
  \A i \in Inputs : lane.state[i] = "consumed" => i \in ToSet(context) \union lane.answered

\* An input whose delivery was ever unknown is not sent again.
UnknownNeverReplayed == [][Sent \intersect lane.doubtful = {}]_vars

\* Nothing an explicitly stopped turn left unread is sent again.
StopNeverReplays == [][Sent \intersect lane.stopped = {}]_vars

\* The same three for a session in which no input interrupts.
NextConsumedWasRead == OnlyNext => ConsumedWasRead
NextUnknownNeverReplayed == [][OnlyNext => Sent \intersect lane.doubtful = {}]_vars
NextStopNeverReplays == [][OnlyNext => Sent \intersect lane.stopped = {}]_vars

\* Every submitted input reaches a status a guardian can act on, unless the
\* session closes over a superseded turn whose inputs nobody will carry on.
EveryInputSettles ==
  \A i \in Inputs :
    lane.state[i] = "queued" ~>
      lane.state[i] \in Settled \/ (lane.closed /\ i \in ToSet(lane.carried))
=============================================================================
