----------------------- MODULE AgentInputQueueProofs ------------------------
(***************************************************************************)
(* Proofs about the chat input lane, for any inputs, any provider and any  *)
(* failing write: with its inductive invariant the lane keeps its promises,*)
(* and the model reads inputs in the order they were submitted.            *)
(***************************************************************************)
EXTENDS AgentInputQueueSteps
-----------------------------------------------------------------------------
(* What the invariant says of the properties *)

\* A set whose members are all equal has at most one.
LEMMA AtMostOne ==
  ASSUME NEW S, \A x, y \in S : x = y
  PROVE  Cardinality(S) \in {0, 1} /\ (S = {} => Cardinality(S) = 0)
<1>1. CASE S = {}
  BY <1>1, FS_EmptySet
<1>2. CASE S # {}
  <2>1. PICK x : x \in S
    BY <1>2
  <2>2. S = {x}
    BY <2>1
  <2> QED BY <1>2, <2>2, FS_Singleton
<1> QED BY <1>1, <1>2

\* How often an input occurs in a sequence that names none twice.
LEMMA CountIs ==
  ASSUME NEW s \in Seq(Inputs), NEW i
  PROVE  /\ Distinct(s) => Count(s, i) \in {0, 1}
         /\ i \notin ToSet(s) => Count(s, i) = 0
<1> DEFINE S == {k \in 1..Len(s) : s[k] = i}
<1>1. Count(s, i) = Cardinality(S)
  BY DEF Count
<1>2. Distinct(s) => \A x, y \in S : x = y
  BY DEF Distinct
<1>3. i \notin ToSet(s) => S = {}
  BY InSet
<1> HIDE DEF S
<1>4. Distinct(s) => Cardinality(S) \in {0, 1}
  BY <1>2, AtMostOne
<1>5. S = {} => Cardinality(S) = 0
  BY FS_EmptySet
<1> QED BY <1>1, <1>3, <1>4, <1>5

\* The invariant implies the types.
LEMMA TypeOKIs == ASSUME LaneInv PROVE TypeOK
<1>1. /\ Shape(lane) /\ EnvType /\ lane \in Lane /\ TurnShape(lane)
  BY DEF LaneInv, Inv, Shape
<1>2. lane.dispatch \in [Inputs -> {"none", "saving", "steering", "delivered",
                                    "requeued", "deferred"}]
  BY <1>1, LaneIs DEF Dispatches
<1>3. HasTurn(lane) => /\ First(lane) \in ToSet(lane.active.prompted)
                       /\ lane.active.pending \in Inputs \union {NoInput}
  BY <1>1, LaneIs DEF TurnShape
<1>4. loop.pc \in {"idle", "observing", "sealing"}
  BY <1>1 DEF EnvType, Loops, Idle
<1>5. context \in Seq(Inputs) /\ retained \subseteq Inputs
  BY <1>1 DEF EnvType
<1> QED BY <1>1, <1>2, <1>3, <1>4, <1>5, LaneIs DEF TypeOK

\* And that an input waits in one place only.
LEMMA PlacedOnceIs == ASSUME LaneInv PROVE PlacedOnce
<1>1. /\ Shape(lane) /\ lane \in Lane /\ TurnShape(lane) /\ QueueShape(lane)
  BY DEF LaneInv, Inv, Shape
<1> SUFFICES ASSUME NEW i \in Inputs
             PROVE  Count(lane.queued, i) + Count(lane.carried, i)
                      + (IF HasTurn(lane) /\ Stage \in {"waiting", "current", "binding", "sending"}
                         THEN Count(lane.active.prompted, i) ELSE 0) <= 1
  BY DEF PlacedOnce
<1> DEFINE q == Count(lane.queued, i)
           c == Count(lane.carried, i)
           r == Count(lane.active.prompted, i)
<1>2. /\ q \in {0, 1} /\ (i \notin ToSet(lane.queued) => q = 0)
      /\ c \in {0, 1} /\ (i \notin ToSet(lane.carried) => c = 0)
  BY <1>1, LaneIs, CountIs DEF QueueShape
<1>3. HasTurn(lane) => r \in {0, 1} /\ (i \notin ToSet(lane.active.prompted) => r = 0)
  BY <1>1, LaneIs, CountIs DEF TurnShape
<1>4. q = 0 \/ c = 0
  BY <1>1, <1>2 DEF QueueShape
<1>5. HasTurn(lane) => c = 0 /\ (q = 0 \/ r = 0)
  <2>1. HasTurn(lane) => i \notin ToSet(lane.carried)
    BY <1>1, NoneIs DEF QueueShape
  <2>2. HasTurn(lane) => i \notin ToSet(lane.queued) \/ i \notin ToSet(lane.active.prompted)
    BY <1>1 DEF QueueShape
  <2> QED BY <1>2, <1>3, <2>1, <2>2
<1> HIDE DEF q, c, r
<1>6. CASE HasTurn(lane)
  BY <1>2, <1>3, <1>5, <1>6 DEF q, c, r
<1>7. CASE ~HasTurn(lane)
  BY <1>2, <1>4, <1>7 DEF q, c, r
<1> QED BY <1>6, <1>7

\* And that the model has one copy of an input at most.
LEMMA NoDuplicateIs == ASSUME LaneInv PROVE NoDuplicate
<1>1. EnvType /\ InboxInv(lane)
  BY DEF LaneInv, Inv, Env
<1> SUFFICES ASSUME NEW i \in Inputs PROVE Count(context, i) + Held(i) <= 1
  BY DEF NoDuplicate
<1> DEFINE c == Count(context, i)
           H == {k \in 1..Len(inbox) : i \in ToSet(inbox[k].parts)}
<1>2. c \in {0, 1} /\ (i \notin ToSet(context) => c = 0)
  BY <1>1, CountIs DEF EnvType, InboxInv
<1>3. \A x, y \in H : x = y
  BY <1>1 DEF InboxInv, Parts
<1>4. i \in ToSet(context) => H = {}
  BY <1>1 DEF InboxInv, Parts
<1>5. Held(i) = Cardinality(H)
  BY DEF Held
<1> HIDE DEF c, H
<1>6. Cardinality(H) \in {0, 1} /\ (H = {} => Cardinality(H) = 0)
  BY <1>3, AtMostOne
<1>7. c + Cardinality(H) <= 1
  BY <1>2, <1>4, <1>6
<1> QED BY <1>5, <1>7 DEF c

\* And that one steer at most is unread.
LEMMA OneSteerIs == ASSUME LaneInv PROVE OneSteerAtATime
<1>1. EnvType /\ InboxInv(lane)
  BY DEF LaneInv, Inv, Env
<1> SUFFICES ASSUME HasTurn(lane)
             PROVE  Cardinality({k \in 1..Len(inbox) : inbox[k].id \in ToSet(lane.active.steered)}) <= 1
  BY DEF OneSteerAtATime
<1> DEFINE S == {k \in 1..Len(inbox) : inbox[k].id \in ToSet(lane.active.steered)}
<1>2. ASSUME NEW k \in S, NEW m \in S PROVE k = m
  <2>1. inbox[k].id = lane.active.last /\ inbox[m].id = lane.active.last
    BY <1>1 DEF InboxInv, Ids
  <2>2. inbox[k].id \in Parts(k) /\ inbox[m].id \in Parts(m)
    BY <1>1 DEF InboxInv
  <2> QED BY <1>1, <2>1, <2>2 DEF InboxInv
<1> HIDE DEF S
<1>3. Cardinality(S) \in {0, 1}
  BY <1>2, AtMostOne
<1>4. Cardinality(S) <= 1
  BY <1>3
<1> QED BY <1>4 DEF S

\* And that an idle lane has nothing waiting.
LEMMA NothingStrandedIs == ASSUME LaneInv PROVE NothingStranded
BY DEF LaneInv, Inv, Shape, QueueShape, NothingStranded

\* And that events have a turn.
LEMMA EventsHaveATurnIs == ASSUME LaneInv PROVE EventsHaveATurn
BY DEF LaneInv, Inv, Env, NativeInv, InNative, Native, EventsHaveATurn, Current, Stage

\* What a step hands to the provider rides in the prompt it sends, or is the
\* steer it takes.
SentPrompt ==
  AtStage("sending") /\ ~lane.closed /\ Sent \subseteq ToSet(lane.active.prompted)
SentSteer ==
  open /\ \E i \in Inputs : lane.dispatch[i] = "steering" /\ Sent \subseteq {i}

LEMMA SentIs == ASSUME LaneInv, [Next]_vars PROVE Sent = {} \/ SentPrompt \/ SentSteer
<1>1. Shape(lane) /\ EnvType
  BY DEF LaneInv, Inv
<1>2. inbox \in Seq(Message) /\ Len(inbox) \in Nat
  BY <1>1 DEF EnvType
<1>3. inbox' = inbox \/ inbox' = <<>> => Sent = {}
  BY <1>2 DEF Sent
<1>4. CASE UNCHANGED vars
  BY <1>3, <1>4 DEF vars, providerVars
<1>5. CASE CallerStep
  <2>1. inbox' = inbox \/ inbox' = <<>>
    BY <1>5 DEF CallerStep, Stop, Close, Submit, SubmitFirst, SubmitNext, SubmitNow,
                InterruptProvider, ProviderCloses, providerVars
  <2> QED BY <1>3, <2>1
<1>6. CASE TurnStep
  <2>1. CASE SendInput
    <3>1. AtStage("sending") /\ ~lane.closed
      BY <2>1 DEF SendInput
    <3>3. CASE First(lane) \in retained
      BY <1>3, <2>1, <3>3 DEF SendInput
    <3>4. CASE First(lane) \notin retained
      <4> DEFINE m == [id |-> First(lane), parts |-> lane.active.prompted]
      <4>1. m \in Message
        BY <1>1, <3>1, EnvIs, LaneIs DEF Message, AtStage
      <4>2. inbox' = Append(inbox, m)
        BY <2>1, <3>4 DEF SendInput
      <4>3. m.parts = lane.active.prompted
        OBVIOUS
      <4> HIDE DEF m
      <4>4. Last(inbox') = m
        BY <1>2, <4>1, <4>2 DEF Last
      <4>5. Sent \subseteq ToSet(lane.active.prompted)
        BY <4>3, <4>4 DEF Sent
      <4> QED BY <3>1, <4>5 DEF SentPrompt
    <3> QED BY <3>3, <3>4
  <2>2. CASE ~SendInput
    <3>1. inbox' = inbox \/ inbox' = <<>>
      BY <1>6, <2>2 DEF TurnStep, TakeMutex, SkipModel, BeforeSend, BeforeSendSaved, TurnFails,
                Ready, AnswerSaved, MiddlewareAnswers, providerVars
    <3> QED BY <1>3, <3>1
  <2> QED BY <2>1, <2>2
<1>7. CASE \E i \in Inputs : DispatchStep(i)
  <2>1. PICK i \in Inputs : DispatchStep(i)
    BY <1>7
  <2>2. CASE SteerDelivered(i)
    <3>1. lane.dispatch[i] = "steering" /\ open
      BY <2>2 DEF SteerDelivered
    <3> DEFINE m == [id |-> i, parts |-> <<i>>]
    <3>3. m \in Message
      BY OneIs DEF Message
    <3>4. inbox' = Append(inbox, m) /\ m.parts = <<i>>
      BY <2>2 DEF SteerDelivered
    <3> HIDE DEF m
    <3>5. Last(inbox') = m
      BY <1>2, <3>3, <3>4 DEF Last
    <3>6. ToSet(<<i>>) = {i}
      BY OneIs
    <3>7. Sent \subseteq {i}
      BY <3>4, <3>5, <3>6 DEF Sent
    <3> QED BY <3>1, <3>7 DEF SentSteer
  <2>3. CASE ~SteerDelivered(i)
    <3>1. inbox' = inbox
      BY <2>1, <2>3 DEF DispatchStep, DispatchSaved, DispatchRequeued, SteerDeferred,
                SteerAccepted, DispatchFails, providerVars
    <3> QED BY <1>3, <3>1
  <2> QED BY <2>2, <2>3
<1>8. CASE LoopStep
  <2>1. inbox' = inbox \/ inbox' = <<>>
    BY <1>8 DEF LoopStep, TakeEvent, ObserveSaved, LoopFinishes, LoopEnds, ProviderCloses, providerVars
  <2> QED BY <1>3, <2>1
<1>9. CASE ProviderStep
  <2>1. inbox' = inbox \/ inbox' = <<>> \/ (inbox # <<>> /\ inbox' = Tail(inbox))
    BY <1>9 DEF ProviderStep, ProviderReads, ProviderCompletes, ProviderErrs
  <2>2. inbox # <<>> => Len(Tail(inbox)) = Len(inbox) - 1
    BY <1>2
  <2> QED BY <1>2, <1>3, <2>1, <2>2 DEF Sent
<1> QED BY <1>4, <1>5, <1>6, <1>7, <1>8, <1>9 DEF Next

\* In both cases the status that makes it durable is written.
LEMMA HandedIs == ASSUME LaneInv, [Next]_vars PROVE Sent \subseteq lane.durable
<1>1. NativeInv(lane) /\ SaveInv(lane)
  BY DEF LaneInv, Inv, Env
<1>2. SentPrompt => Sent \subseteq lane.durable
  BY <1>1 DEF SaveInv, AtStage, Stage, SentPrompt
<1>3. SentSteer => Sent \subseteq lane.durable
  BY <1>1 DEF SaveInv, NativeInv, SentSteer
<1> QED BY <1>2, <1>3, SentIs
-----------------------------------------------------------------------------
(* A status of consumed stays *)

\* From L to M, no consumed status is taken back, unless the lane closes, and no
\* input becomes new again.
Stays(L, M) == \A i \in Inputs :
  /\ L.state[i] = "consumed" /\ ~M.closed => M.state[i] = "consumed"
  /\ L.state[i] # "new" => M.state[i] # "new"

\* flush() takes none back.
LEMMA StaysFlush == ASSUME NEW L, Shape(L) PROVE Stays(L, Flush(L))
<1>1. L \in Lane /\ TurnShape(L) /\ StatusShape(L)
  BY DEF Shape
<1>2. CASE ~MaySteer(L)
  <2>1. Flush(L) = L
    BY <1>1, <1>2, FlushIs
  <2> QED BY <2>1 DEF Stays
<1>3. CASE MaySteer(L)
  <2> DEFINE q == L.queued
  <2>1. PICK F : F = Flush(L)
    OBVIOUS
  <2>2. Flushed(L, F)
    BY <1>1, <1>3, <2>1, FlushIs
  <2>3. q \in Seq(Inputs) /\ q # <<>> /\ ~L.closed
    BY <1>1, <1>3, LaneIs DEF MaySteer, TurnShape
  <2> HIDE DEF q
  <2>4. ToSet(q) = {Head(q)} \union ToSet(Tail(q))
    BY <2>3, TailIs
  <2>5. L.state[Head(q)] \in {"queued", "unknown"}
    BY <1>1, <2>3, <2>4 DEF StatusShape, q
  <2>6. \A i \in Inputs : F.state[i] = IF i = Head(q) THEN "submitted" ELSE L.state[i]
    BY <2>2 DEF Flushed, q
  <2> QED BY <2>1, <2>5, <2>6 DEF Stays
<1> QED BY <1>2, <1>3

\* Nor does finish().
LEMMA StaysFinish ==
  ASSUME NEW L, Shape(L), HasTurn(L), L.closed \/ Quiet(L)
  PROVE  Stays(L, Finish(L))
<1>1. Finished(L, Finish(L))
  BY FinishShape
<1> QED BY <1>1 DEF Finished, Stays

\* Nor an update() of inputs that are not consumed.
LEMMA StaysUpdate ==
  ASSUME NEW L \in Lane, NEW S \in SUBSET Inputs, NEW st \in States \ {"new"},
         L.closed \/ st = "consumed" \/ \A i \in S : L.state[i] # "consumed"
  PROVE  Stays(L, Update(L, S, st))
<1>1. Updated(L, S, st, Update(L, S, st))
  BY UpdateIs
<1>2. Update(L, S, st).closed = L.closed
  BY <1>1 DEF Updated
<1>3. \A i \in Inputs : Update(L, S, st).state[i] = IF i \in S THEN st ELSE L.state[i]
  BY <1>1 DEF Updated
<1> QED BY <1>2, <1>3 DEF Stays

\* Nor does submit().
LEMMA SubmitStays ==
  ASSUME Inv, NEW j \in Inputs, NEW p \in Priorities, Submit(j, p)
  PROVE  Stays(lane, lane')
<1>1. /\ lane \in Lane /\ ~lane.closed /\ lane.state[j] = "new" /\ p \in {"next", "now"}
      /\ Shape(lane) /\ EnvType /\ QueueShape(lane)
      /\ SubmitFirst(j, p) \/ (p = "next" /\ SubmitNext(j)) \/ (p = "now" /\ SubmitNow(j))
  BY LaneAssumption DEF Inv, Shape, Submit
<1>2. CASE SubmitFirst(j, p)
  <2> DEFINE A == Accepted(j, p)
  <2>1. AcceptedAs(j, A)
    BY <1>1, AcceptedIs
  <2>2. lane' = Start(A, j) /\ ~HasTurn(lane)
    BY <1>2 DEF SubmitFirst
  <2> HIDE DEF A
  <2>3. A \in Lane /\ A.queued = <<>> /\ A.carried = <<>>
    BY <1>1, <2>1, <2>2 DEF AcceptedAs, QueueShape
  <2>4. Started(A, j, lane')
    BY <2>2, <2>3, StartIs
  <2>5. /\ ToSet(Prompt(A, j)) = ToSet(A.carried) \union {j} \union ToSet(Absorbed(A, j))
        /\ ToSet(Absorbed(A, j)) \subseteq ToSet(A.queued)
    BY <2>3, PromptIs
  <2>6. ToSet(Prompt(A, j)) = {j}
    BY <2>3, <2>5, NoneIs
  <2> QED BY <1>1, <2>1, <2>4, <2>6 DEF Stays, AcceptedAs, Started
<1>3. CASE SubmitNext(j)
  <2> DEFINE L == [Accepted(j, "next") EXCEPT !.queued = Append(@, j)]
  <2>1. Joined(j, L)
    BY <1>1, JoinedIs
  <2>2. HasTurn(lane) /\ lane' = Flush(L)
    BY <1>3 DEF SubmitNext
  <2> HIDE DEF L
  <2>3. Shape(L)
    BY <1>1, <2>1, <2>2, JoinedInv
  <2>4. Stays(L, lane')
    BY <2>2, <2>3, StaysFlush
  <2> QED BY <1>1, <2>1, <2>4 DEF Stays, Joined
<1>4. CASE SubmitNow(j)
  <2> DEFINE L == [Accepted(j, "now") EXCEPT !.queued = Append(@, j)]
  <2>1. Joined(j, L)
    BY <1>1, JoinedIs
  <2>2. \/ lane' = L
        \/ lane' = [L EXCEPT !.active = [@ EXCEPT !.superseded = TRUE,
                                               !.sealed = TRUE, !.interrupted = TRUE]]
    BY <1>4 DEF SubmitNow
  <2> HIDE DEF L
  <2>3. lane'.state = L.state
    BY <2>1, <2>2 DEF Joined, Lane
  <2> QED BY <1>1, <2>1, <2>3 DEF Stays, Joined
<1> QED BY <1>1, <1>2, <1>3, <1>4

\* Nor a step of the turn.
LEMMA TurnStays == ASSUME Inv, TurnStep PROVE Stays(lane, lane')
<1>1. /\ Shape(lane) /\ lane \in Lane /\ EnvType /\ Env(lane) /\ TurnShape(lane)
      /\ QueueShape(lane) /\ StatusShape(lane)
  BY DEF Inv, Shape
<1>2. CASE TakeMutex
  <2>1. HasTurn(lane) /\ InEarly(lane)
    BY <1>2 DEF TakeMutex, AtStage, Stage, InEarly, Early
  <2>2. lane.closed \/ Quiet(lane)
    BY <1>1, <2>1, EarlyIs
  <2>3. lane' = Finish(lane) \/ lane' = [lane EXCEPT !.active.stage = "current"]
    BY <1>2 DEF TakeMutex
  <2>4. CASE lane' = Finish(lane)
    BY <1>1, <2>1, <2>2, <2>4, StaysFinish
  <2>5. CASE lane' = [lane EXCEPT !.active.stage = "current"]
    <3>1. lane'.state = lane.state
      BY <1>1, <2>5 DEF Lane
    <3> QED BY <3>1 DEF Stays
  <2> QED BY <2>3, <2>4, <2>5
<1>3. CASE SkipModel
  <2>1. HasTurn(lane) /\ InEarly(lane) /\ lane' = Finish(lane)
    BY <1>3 DEF SkipModel, AtStage, Stage, InEarly, Early
  <2>2. lane.closed \/ Quiet(lane)
    BY <1>1, <2>1, EarlyIs
  <2> QED BY <1>1, <2>1, <2>2, StaysFinish
<1>4. CASE BeforeSend
  <2>1. /\ HasTurn(lane) /\ lane.active.stage = "current"
        /\ lane' = [Update(lane, ToSet(lane.active.prompted), "submitted")
                      EXCEPT !.active.stage = "binding"]
    BY <1>4 DEF BeforeSend, AtStage, Stage
  <2> DEFINE U == Update(lane, ToSet(lane.active.prompted), "submitted")
  <2>2. ToSet(lane.active.prompted) \subseteq Inputs /\ "submitted" \in States \ {"new"}
    BY <1>1, <2>1, EnvIs DEF States
  <2>3. lane.closed \/ \A i \in ToSet(lane.active.prompted) : lane.state[i] # "consumed"
    BY <1>1, <2>1 DEF StatusShape
  <2>4. Stays(lane, U) /\ Updated(lane, ToSet(lane.active.prompted), "submitted", U)
    BY <1>1, <2>2, <2>3, StaysUpdate, UpdateIs
  <2> HIDE DEF U
  <2>5. U \in Lane /\ lane' = [U EXCEPT !.active.stage = "binding"]
    BY <2>1, <2>4 DEF U, Updated
  <2>6. lane'.state = U.state /\ lane'.closed = U.closed
    BY <2>5 DEF Lane
  <2> QED BY <2>4, <2>6 DEF Stays
<1>5. CASE BeforeSendSaved
  <2>1. HasTurn(lane) /\ lane' = [Saved(lane, ToSet(lane.active.prompted)) EXCEPT !.active.stage = "sending"]
    BY <1>5 DEF BeforeSendSaved, AtStage
  <2>2. lane'.state = lane.state
    BY <1>1, <2>1 DEF Saved, Lane
  <2> QED BY <2>2 DEF Stays
<1>6. CASE SendInput
  <2>1. lane' = [lane EXCEPT !.active.stage = "sent"]
    BY <1>6 DEF SendInput
  <2>2. lane'.state = lane.state
    BY <1>1, <2>1 DEF Lane
  <2> QED BY <2>2 DEF Stays
<1>7. CASE TurnFails
  <2>1. InEarly(lane) /\ HasTurn(lane)
    BY <1>7 DEF TurnFails, AtStage, InEarly, Early, Stage
  <2>2. lane.closed \/ Quiet(lane)
    BY <1>1, <2>1, EarlyIs
  <2>3. First(lane) \in Inputs /\ ToSet(lane.active.prompted) \subseteq Inputs
    BY <1>1, <2>1, EnvIs
  <2>4. \/ lane' = Finish(lane)
        \/ \E i \in Inputs : lane' = Finish(Broken(lane, {i}))
    <3> DEFINE waited == IF Stage = "binding" THEN ToSet(lane.active.prompted)
                         ELSE IF Stage = "answering" THEN {First(lane)} ELSE {}
    <3>1. waited \subseteq Inputs
      BY <2>3
    <3>2. \/ lane' = Finish(lane)
          \/ \E i \in waited : lane' = Finish(Broken(lane, {i}))
      BY <1>7 DEF TurnFails
    <3> QED BY <3>1, <3>2
  <2>5. CASE lane' = Finish(lane)
    BY <1>1, <2>1, <2>2, <2>5, StaysFinish
  <2>6. ASSUME NEW i \in Inputs, lane' = Finish(Broken(lane, {i})) PROVE Stays(lane, lane')
    <3> DEFINE B == Broken(lane, {i})
    <3>1. /\ Shape(B) /\ B.active = lane.active /\ B.closed = lane.closed
          /\ B.state = lane.state /\ B.dispatch = lane.dispatch
      BY BrokenInv
    <3>2. lane' = Finish(B)
      BY <2>6
    <3> HIDE DEF B
    <3>3. HasTurn(B) /\ (B.closed \/ Quiet(B))
      BY <2>1, <2>2, <3>1 DEF HasTurn, Quiet
    <3>4. Stays(B, lane')
      BY <3>1, <3>2, <3>3, StaysFinish
    <3> QED BY <3>1, <3>4 DEF Stays
  <2> QED BY <2>4, <2>5, <2>6
<1>8. CASE Ready
  <2> DEFINE t == [lane.active EXCEPT !.stage = "running", !.ready = TRUE]
             M == [lane EXCEPT !.active = t]
  <2>1. HasTurn(lane) /\ lane.active.stage = "sent" /\ lane.active \in Turn /\ lane' = Flush(M)
    BY <1>1, <1>8, LaneIs DEF Ready, AtStage, Stage
  <2>2. Marked(lane, t) /\ t \in Turn
    BY <1>1, <2>1 DEF Turn, Marked, Native, Stages, TurnShape, QueueShape
  <2> HIDE DEF t
  <2>3. Turned(lane, t, M)
    BY <1>1, <2>2, TurnedIs
  <2> HIDE DEF M
  <2>4. Shape(M) /\ M.state = lane.state
    BY <1>1, <2>1, <2>2, <2>3, MarkedKeeps DEF Turned
  <2>5. Stays(M, lane')
    BY <2>1, <2>4, StaysFlush
  <2> QED BY <2>4, <2>5 DEF Stays
<1>9. CASE AnswerSaved
  <2>1. /\ HasTurn(lane) /\ lane.active.stage = "answering"
        /\ lane' = [Update(lane, Bound(lane), lane.state[First(lane)]) EXCEPT !.active.stage = "answered"]
    BY <1>9 DEF AnswerSaved, AtStage, Stage
  <2> DEFINE st == lane.state[First(lane)]
             U == Update(lane, Bound(lane), st)
  <2>2. Bound(lane) \subseteq Inputs /\ st \in States \ {"new"}
    <3>1. First(lane) \in Live(lane) /\ First(lane) \in Inputs /\ Bound(lane) \subseteq Inputs
      BY <1>1, <2>1, EnvIs DEF Bound, TurnShape, Live, Ridden
    <3> QED BY <1>1, <3>1, LaneIs DEF QueueShape
  <2> HIDE DEF st
  <2>3. lane.closed \/ \A i \in Bound(lane) : lane.state[i] # "consumed"
    BY <1>1, <2>1 DEF StatusShape
  <2>4. Stays(lane, U) /\ Updated(lane, Bound(lane), st, U)
    BY <1>1, <2>2, <2>3, StaysUpdate, UpdateIs
  <2>5. lane' = [U EXCEPT !.active.stage = "answered"]
    BY <2>1 DEF st
  <2> HIDE DEF U
  <2>6. lane'.state = U.state /\ lane'.closed = U.closed
    BY <2>4, <2>5 DEF Lane, Updated
  <2> QED BY <2>4, <2>6 DEF Stays
<1>10. ASSUME NEW st \in {"consumed", "failed"}, MiddlewareAnswers(st) PROVE Stays(lane, lane')
  <2>1. /\ HasTurn(lane) /\ lane.active.stage = "current"
        /\ lane' = [Update(lane, {First(lane)}, st)
                      EXCEPT !.active.stage = "answering",
                             !.answered = @ \union ToSet(lane.active.prompted)]
    BY <1>10 DEF MiddlewareAnswers, AtStage, Stage
  <2> DEFINE U == Update(lane, {First(lane)}, st)
  <2>2. {First(lane)} \subseteq Inputs /\ st \in States \ {"new"}
    BY <1>1, <2>1, EnvIs DEF States, Settled
  <2>3. lane.closed \/ \A i \in {First(lane)} : lane.state[i] # "consumed"
    BY <1>1, <2>1 DEF StatusShape, TurnShape
  <2>4. Stays(lane, U) /\ Updated(lane, {First(lane)}, st, U)
    BY <1>1, <2>2, <2>3, StaysUpdate, UpdateIs
  <2> DEFINE a == ToSet(lane.active.prompted)
  <2>5. lane' = [U EXCEPT !.active.stage = "answering", !.answered = @ \union a]
    BY <2>1
  <2> HIDE DEF U, a
  <2>6. lane'.state = U.state /\ lane'.closed = U.closed
    BY <2>4, <2>5 DEF Lane, Updated
  <2> QED BY <2>4, <2>6 DEF Stays
<1> QED BY <1>2, <1>3, <1>4, <1>5, <1>6, <1>7, <1>8, <1>9, <1>10 DEF TurnStep
-----------------------------------------------------------------------------
\* Nor a step of a dispatch, however late its answer.
LEMMA DispatchStays ==
  ASSUME Inv, NEW i \in Inputs, DispatchStep(i)
  PROVE  Stays(lane, lane')
<1>1. /\ lane \in Lane /\ DispatchShape(lane)
  BY DEF Inv, Shape
<1>2. CASE DispatchSaved(i)
  <2> DEFINE L == Saved(lane, {i})
  <2>1. L \in Lane /\ L.state = lane.state /\ lane.dispatch[i] = "saving"
    BY <1>1, <1>2, BooksAre DEF DispatchSaved
  <2>2. \/ lane' = [L EXCEPT !.dispatch[i] = "steering"] \/ lane' = [L EXCEPT !.dispatch[i] = "none"]
        \/ lane' = [Requeue(L, i) EXCEPT !.dispatch[i] = "requeued"] /\ lane.state[i] # "cancelled"
    BY <1>2 DEF DispatchSaved, Done
  <2>3. lane.state[i] # "consumed"
    BY <1>1, <2>1 DEF DispatchShape
  <2> HIDE DEF L
  <2>4. CASE lane' = [L EXCEPT !.dispatch[i] = "steering"] \/ lane' = [L EXCEPT !.dispatch[i] = "none"]
    <3>1. lane'.state = lane.state
      BY <2>1, <2>4 DEF Lane
    <3> QED BY <3>1 DEF Stays
  <2>5. CASE lane' = [Requeue(L, i) EXCEPT !.dispatch[i] = "requeued"]
    <3>1. Requeued(L, i, "requeued", lane')
      BY <2>1, <2>5, RequeueIs DEF RequeuedAs, Dispatches
    <3> QED BY <2>1, <2>3, <3>1 DEF Requeued, Stays
  <2> QED BY <2>2, <2>4, <2>5
<1>3. CASE DispatchRequeued(i)
  <2> DEFINE D == Done(lane, i)
  <2>1. D \in Lane /\ D.active = lane.active /\ D.closed = lane.closed /\ D.state = lane.state
    BY <1>1, DoneIs DEF Done, Dispatches
  <2>2. lane.dispatch[i] \in {"requeued", "deferred"} /\ (lane' = D \/ lane' = StartNext(D))
    BY <1>3 DEF DispatchRequeued
  <2> HIDE DEF D
  <2>3. HasTurn(D) \/ D.closed
    BY <1>1, <2>1, <2>2 DEF DispatchShape, HasTurn
  <2>4. lane'.state = lane.state
    BY <2>1, <2>2, <2>3, StartNextIs
  <2> QED BY <2>4 DEF Stays
<1>4. CASE SteerDelivered(i)
  <2>1. lane'.state = lane.state
    BY <1>1, <1>4 DEF SteerDelivered, Lane
  <2> QED BY <2>1 DEF Stays
<1>5. CASE SteerDeferred(i)
  <2>1. CASE lane.state[i] \in {"consumed", "cancelled", "queued"}
    <3>1. lane'.state = lane.state
      BY <1>1, <1>5, <2>1 DEF SteerDeferred, Done, Lane
    <3> QED BY <3>1 DEF Stays
  <2>2. CASE lane.state[i] \notin {"consumed", "cancelled", "queued"}
    <3> DEFINE L == SealOwn(lane, i)
    <3>1. L \in Lane /\ L.state = lane.state
      <4>1. CASE OwnTurn(i)
        BY <1>1, <4>1, SealOwnIs
      <4>2. CASE ~OwnTurn(i)
        BY <1>1, <4>2 DEF SealOwn
      <4> QED BY <4>1, <4>2
    <3>2. lane' = [Requeue(L, i) EXCEPT !.dispatch[i] = "deferred"]
      BY <1>5, <2>2 DEF SteerDeferred
    <3> HIDE DEF L
    <3>3. Requeued(L, i, "deferred", lane')
      BY <3>1, <3>2, RequeueIs DEF RequeuedAs, Dispatches
    <3> QED BY <2>2, <3>1, <3>3 DEF Requeued, Stays
  <2> QED BY <2>1, <2>2
<1>6. CASE SteerAccepted(i)
  <2>1. CASE lane.state[i] \in {"consumed", "cancelled", "queued"}
    <3>1. lane'.state = lane.state
      BY <1>1, <1>6, <2>1 DEF SteerAccepted, Done, Lane
    <3> QED BY <3>1 DEF Stays
  <2>2. CASE lane.state[i] \notin {"consumed", "cancelled", "queued"}
    <3> DEFINE U == Update(lane, {i}, "accepted")
    <3>1. Updated(lane, {i}, "accepted", U)
      BY <1>1, UpdateIs DEF States
    <3>2. lane' = [U EXCEPT !.dispatch[i] = "none"]
      BY <1>6, <2>2 DEF SteerAccepted, Done
    <3> HIDE DEF U
    <3>3. U \in Lane /\ lane'.state = U.state
      BY <3>1, <3>2 DEF Updated, Lane
    <3> QED BY <2>2, <3>1, <3>3 DEF Updated, Stays
  <2> QED BY <2>1, <2>2
<1>7. CASE DispatchFails(i)
  <2> DEFINE B == IF CallFails(i) THEN lane ELSE Broken(lane, {i})
             L == Done(B, i)
  <2>1. B \in Lane /\ B.state = lane.state
    BY <1>1, BooksAre
  <2>2. lane' = IF lane.state[i] \in {"consumed", "cancelled"} THEN L
                ELSE Update(L, {i}, "unknown")
    BY <1>7 DEF DispatchFails
  <2> HIDE DEF B
  <2>3. L \in Lane /\ L.state = lane.state
    BY <2>1, DoneIs DEF Done, Dispatches
  <2> HIDE DEF L
  <2>4. CASE lane.state[i] \in {"consumed", "cancelled"}
    BY <2>2, <2>3, <2>4 DEF Stays
  <2>5. CASE lane.state[i] \notin {"consumed", "cancelled"}
    <3>1. Updated(L, {i}, "unknown", lane')
      BY <2>2, <2>3, <2>5, UpdateIs DEF States, Settled
    <3> QED BY <2>3, <2>5, <3>1 DEF Updated, Stays
  <2> QED BY <2>4, <2>5
<1> QED BY <1>2, <1>3, <1>4, <1>5, <1>6, <1>7 DEF DispatchStep

\* Nor the event the loop takes.
LEMMA TakeStays == ASSUME Inv, TakeEvent PROVE Stays(lane, lane')
<1>1. /\ lane \in Lane /\ EnvType /\ NativeInv(lane) /\ EventInv(lane) /\ TurnShape(lane)
      /\ ContextInv(lane)
  BY DEF Inv, Env, Shape
<1>2. PICK ev : ev = Head(stream)
  OBVIOUS
<1>3. stream # <<>> /\ HasTurn(lane) /\ stream \in Seq(Event)
  BY <1>1 DEF TakeEvent, Current, EnvType
<1>4. ev \in Event /\ ev \in ToSet(stream)
  <2> DEFINE s == stream
  <2>1. s \in Seq(Event) /\ s # <<>> /\ ev = Head(s)
    BY <1>2, <1>3
  <2> HIDE DEF s
  <2>2. Head(s) \in Event /\ ToSet(s) = {Head(s)} \union ToSet(Tail(s))
    BY <2>1, TailIs
  <2> QED BY <2>1, <2>2 DEF s
<1>5. CASE ev.kind = "terminal"
  <2>1. lane' = [lane EXCEPT !.active.sealed = TRUE]
    BY <1>2, <1>5 DEF TakeEvent
  <2>2. lane'.state = lane.state
    BY <1>1, <2>1 DEF Lane
  <2> QED BY <2>2 DEF Stays
<1>6. CASE ev.kind # "terminal"
  <2>1. PICK kind \in {"consumed", "queued"}, i \in Inputs : ev = Status(kind, i)
    BY <1>4, <1>6 DEF Event, Terminal
  <2>2. ev.kind = kind /\ ev.input = i
    BY <2>1 DEF Status
  <2>3. lane' = Update(lane, {i}, kind)
    BY <1>2, <1>6, <2>2 DEF TakeEvent
  <2>4. InFlight(kind, i)
    BY <1>4, <2>1 DEF InFlight
  <2>5. InNative(lane)
    BY <1>1, <1>3 DEF NativeInv
  <2>6. lane.closed \/ kind = "consumed" \/ lane.state[i] # "consumed"
    <3> SUFFICES ASSUME ~lane.closed, kind = "queued" PROVE lane.state[i] # "consumed"
      BY <2>1
    <3>1. i = lane.active.last /\ i \notin ToSet(context)
      BY <1>1, <2>1, <2>4 DEF EventInv
    <3>2. i \in ToSet(lane.active.steered)
      BY <1>1, <1>3, <2>1, <3>1, LaneAssumption DEF TurnShape
    <3> QED BY <1>1, <1>3, <2>1, <3>1, <3>2 DEF ContextInv
  <2>7. kind \in States \ {"new"} /\ {i} \in SUBSET Inputs
    BY <2>1 DEF States, Settled
  <2> QED BY <1>1, <2>3, <2>6, <2>7, StaysUpdate
<1> QED BY <1>5, <1>6

\* Nor observe() after its write.
LEMMA ObserveStays == ASSUME Inv, ObserveSaved PROVE Stays(lane, lane')
<1>1. /\ Shape(lane) /\ EnvType /\ Env(lane) /\ NativeInv(lane) /\ EventInv(lane) /\ TurnShape(lane)
      /\ lane \in Lane /\ QueueShape(lane) /\ DispatchShape(lane) /\ StatusShape(lane) /\ ContextInv(lane)
  BY DEF Inv, Env, Shape
<1>2. loop.pc = "observing"
  BY DEF ObserveSaved
<1>3. /\ InNative(lane) /\ HasTurn(lane) /\ loop.turn = lane.active.id
  BY <1>1, <1>2, ObservingIs
<1>4. PICK kind \in {"consumed", "queued"}, i \in Inputs :
        loop.event = Status(kind, i) /\ loop.event.kind = kind /\ loop.event.input = i
        /\ InFlight(kind, i)
  BY <1>1, <1>2, ObservingIs
<1>5. lane' = Observed(lane, i, kind)
  BY <1>3, <1>4 DEF ObserveSaved
<1>6. CASE kind = "queued"
  <2>1. PICK t, q : t = SealedTurn(i) /\ q = WithHead(i)
    OBVIOUS
  <2>2. lane' = [lane EXCEPT !.active = t, !.queued = q]
    <3> DEFINE seen == [lane EXCEPT
                 !.active = [lane.active EXCEPT !.sealed = TRUE,
                                                !.pending = IF @ = i THEN NoInput ELSE @],
                 !.queued = IF i \in ToSet(@) THEN @ ELSE <<i>> \o @]
    <3>1. lane' = seen
      BY <1>5, <1>6 DEF Observed
    <3>2. seen = [lane EXCEPT !.active = SealedTurn(i), !.queued = WithHead(i)]
      BY DEF SealedTurn, WithHead
    <3> QED BY <2>1, <3>1, <3>2
  <2>3. lane'.state = lane.state
    BY <1>1, <2>2 DEF Lane
  <2> QED BY <2>3 DEF Stays
<1>7. CASE kind = "consumed" /\ lane.active.pending = i
  <2>1. i # First(lane)
    BY <1>1, <1>3, <1>7, LaneAssumption DEF TurnShape
  <2> DEFINE t == [lane.active EXCEPT !.pending = NoInput]
             M == [lane EXCEPT !.active = t]
  <2>2. lane' = Flush([lane EXCEPT !.active.pending = NoInput])
    BY <1>5, <1>7, <2>1 DEF Observed
  <2>3. lane' = Flush(M)
    BY <2>2
  <2>4. lane.active \in Turn /\ i # NoInput
    BY <1>1, <1>3, <1>4, LaneIs, LaneAssumption
  <2>5. /\ t \in Turn /\ t.pending = NoInput
        /\ t.sealed = lane.active.sealed /\ t.ready = lane.active.ready
    BY <2>4 DEF Turn
  <2> HIDE DEF t
  <2>6. Turned(lane, t, M)
    BY <1>1, <2>5, TurnedIs
  <2> HIDE DEF M
  <2>7. M \in Lane /\ M.queued = lane.queued /\ M.state = lane.state /\ M.closed = lane.closed
    BY <2>6 DEF Turned
  <2> DEFINE q == lane.queued
  <2>8. CASE ~MaySteer(M)
    BY <2>3, <2>7, <2>8, FlushIs DEF Stays
  <2>9. CASE MaySteer(M)
    <3>1. Flushed(M, lane')
      BY <2>3, <2>7, <2>9, FlushIs
    <3>2. q \in Seq(Inputs) /\ q # <<>>
      BY <1>1, <2>7, <2>9, LaneIs DEF MaySteer
    <3> HIDE DEF q
    <3>3. ToSet(q) = {Head(q)} \union ToSet(Tail(q))
      BY <3>2, TailIs
    <3>4. lane.closed \/ lane.state[Head(q)] # "consumed"
      BY <1>1, <3>3 DEF StatusShape, q
    <3>5. \A j \in Inputs : lane'.state[j] = IF j = Head(q) THEN "submitted" ELSE lane.state[j]
      BY <2>7, <3>1 DEF Flushed, q
    <3>6. lane'.closed = lane.closed
      BY <2>7, <3>1 DEF Flushed
    <3> QED BY <3>4, <3>5, <3>6 DEF Stays
  <2> QED BY <2>8, <2>9
<1>8. CASE kind = "consumed" /\ lane.active.pending # i
  <2>1. lane' = lane \/ lane' = Update(lane, Bound(lane), "consumed")
    BY <1>5, <1>8 DEF Observed
  <2>2. Bound(lane) \in SUBSET Inputs /\ "consumed" \in States \ {"new"}
    BY <1>1, <1>3, EnvIs DEF Bound, States, Settled
  <2>3. Stays(lane, lane)
    BY DEF Stays
  <2> QED BY <1>1, <2>1, <2>2, <2>3, StaysUpdate
<1> QED BY <1>4, <1>6, <1>7, <1>8

\* Nor a step of the loop.
LEMMA LoopStays == ASSUME Inv, LoopStep PROVE Stays(lane, lane')
<1>1. /\ Shape(lane) /\ EnvType /\ Env(lane) /\ NativeInv(lane) /\ DispatchShape(lane)
  BY DEF Inv, Shape, Env
<1>2. CASE TakeEvent
  BY <1>2, TakeStays
<1>3. CASE ObserveSaved
  BY <1>3, ObserveStays
<1>4. CASE LoopFinishes
  <2>1. loop.pc = "sealing" /\ loop # Idle
    BY <1>4 DEF LoopFinishes, Idle
  <2>2. HasTurn(lane) /\ lane.active.id = loop.turn
    BY <1>1, <2>1 DEF NativeInv, InNative
  <2>3. /\ lane.active.last # NoInput => lane.dispatch[lane.active.last] = "none"
        /\ lane' = Finish(lane)
    BY <1>4, <2>2 DEF LoopFinishes
  <2>4. lane.closed \/ Quiet(lane)
    BY <1>1, <2>3, LaneAssumption DEF DispatchShape, Quiet
  <2> QED BY <1>1, <2>2, <2>3, <2>4, StaysFinish
<1>5. CASE LoopEnds
  <2> DEFINE B == IF loop.pc = "observing" THEN Broken(lane, {loop.event.input}) ELSE lane
             L == CloseLane(B)
  <2>1. /\ lane' = IF Current THEN Finish(L) ELSE L
        /\ Current \/ loop.pc = "observing"
    BY <1>5 DEF LoopEnds
  <2>2. Shape(B) /\ B.active = lane.active /\ B.state = lane.state
    <3>1. CASE loop.pc = "observing"
      <4>1. loop.event.input \in Inputs
        BY <1>1, <3>1 DEF EnvType, Loops, Idle, Event, Terminal, Status
      <4> QED BY <3>1, <4>1, BrokenInv
    <3>2. CASE loop.pc # "observing"
      BY <1>1, <3>2
    <3> QED BY <3>1, <3>2
  <2> HIDE DEF B
  <2>3. /\ Shape(L) /\ L.closed /\ (HasTurn(L) <=> HasTurn(B))
        /\ \A i \in Inputs : lane.state[i] # "new" => L.state[i] # "new"
    BY <2>2, CloseShape
  <2> HIDE DEF L
  <2>4. Current => HasTurn(L)
    BY <2>2, <2>3 DEF Current, HasTurn
  <2>5. lane'.closed /\ \A i \in Inputs : lane.state[i] # "new" => lane'.state[i] # "new"
    <3>1. CASE Current
      <4>1. Finished(L, Finish(L))
        BY <2>3, <2>4, <3>1, FinishShape
      <4> QED BY <2>1, <2>3, <3>1, <4>1 DEF Finished
    <3>2. CASE ~Current
      BY <2>1, <2>3, <3>2
    <3> QED BY <3>1, <3>2
  <2> QED BY <2>5 DEF Stays
<1> QED BY <1>2, <1>3, <1>4, <1>5 DEF LoopStep

\* No step takes back a consumed status, or makes an input new again.
LEMMA StatusStays == ASSUME LaneInv, [Next]_vars PROVE Stays(lane, lane')
<1>1. Inv /\ lane \in Lane /\ Shape(lane)
  BY DEF LaneInv, Inv, Shape
<1>2. CASE UNCHANGED vars
  BY <1>2 DEF vars, Stays
<1>3. CASE CallerStep
  <2>1. CASE Stop
    <3>1. lane' = [lane EXCEPT !.active = [@ EXCEPT !.interrupted = TRUE, !.stopped = TRUE]]
      BY <2>1 DEF Stop
    <3>2. lane'.state = lane.state
      BY <1>1, <3>1 DEF Lane
    <3> QED BY <3>2 DEF Stays
  <2>2. CASE Close
    <3>1. lane' = CloseLane(lane)
      BY <2>2 DEF Close
    <3>2. lane'.closed /\ \A i \in Inputs : lane.state[i] # "new" => lane'.state[i] # "new"
      BY <1>1, <3>1, CloseShape
    <3> QED BY <3>2 DEF Stays
  <2>3. ASSUME NEW i \in Inputs, NEW p \in Priorities, Submit(i, p) PROVE Stays(lane, lane')
    BY <1>1, <2>3, SubmitStays
  <2> QED BY <1>3, <2>1, <2>2, <2>3 DEF CallerStep
<1>4. CASE TurnStep
  BY <1>1, <1>4, TurnStays
<1>5. CASE LoopStep
  BY <1>1, <1>5, LoopStays
<1>6. CASE ProviderStep
  <2>1. lane' = lane
    BY <1>6 DEF ProviderStep, ProviderReads, ProviderCompletes, ProviderErrs
  <2> QED BY <2>1 DEF Stays
<1>7. CASE \E i \in Inputs : DispatchStep(i)
  BY <1>1, <1>7, DispatchStays
<1> QED BY <1>2, <1>3, <1>4, <1>5, <1>6, <1>7 DEF Next

\* So consumed is final.
LEMMA ConsumedIs ==
  ASSUME LaneInv, [Next]_vars
  PROVE  \A i \in Inputs :
           lane.state[i] = "consumed" /\ ~lane'.closed => lane'.state[i] = "consumed"
BY StatusStays DEF Stays
-----------------------------------------------------------------------------
(* What the runs check, for every instance *)

\* The lane's fields, the loop and the provider's books keep their types.
THEOREM LaneTypes == Spec => []TypeOK
<1>1. LaneInv => TypeOK
  BY TypeOKIs
<1> QED BY <1>1, LaneSafe, PTL

\* No input is queued twice, nor queued while it rides in a prompt still to be
\* sent.
THEOREM LanePlacedOnce == Spec => []PlacedOnce
<1>1. LaneInv => PlacedOnce
  BY PlacedOnceIs
<1> QED BY <1>1, LaneSafe, PTL

\* No message reaches the model twice, however steering, adoption, supersedes
\* and failed calls interleave.
THEOREM LaneNoDuplicate == Spec => []NoDuplicate
<1>1. LaneInv => NoDuplicate
  BY NoDuplicateIs
<1> QED BY <1>1, LaneSafe, PTL

\* The provider holds at most one unread input steered in by the running turn.
THEOREM LaneOneSteer == Spec => []OneSteerAtATime
<1>1. LaneInv => OneSteerAtATime
  BY OneSteerIs
<1> QED BY <1>1, LaneSafe, PTL

\* A lane with no turn has nothing waiting.
THEOREM LaneNothingStranded == Spec => []NothingStranded
<1>1. LaneInv => NothingStranded
  BY NothingStrandedIs
<1> QED BY <1>1, LaneSafe, PTL

\* An event is only out while the turn it belongs to is there to take it.
THEOREM LaneEventsHaveATurn == Spec => []EventsHaveATurn
<1>1. LaneInv => EventsHaveATurn
  BY EventsHaveATurnIs
<1> QED BY <1>1, LaneSafe, PTL

\* What is handed to the provider has its "submitted" status written.
THEOREM LaneHandedIsDurable == Spec => HandedIsDurable
<1>1. LaneInv /\ [Next]_vars => [Sent \subseteq lane.durable]_vars
  BY HandedIs
<1> QED BY <1>1, LaneSafe, PTL DEF Spec, HandedIsDurable

\* A consumed input stays consumed while the lane is open.
THEOREM LaneConsumedIsFinal == Spec => ConsumedIsFinal
<1>1. LaneInv /\ [Next]_vars =>
        [\A i \in Inputs :
           lane.state[i] = "consumed" /\ ~lane'.closed => lane'.state[i] = "consumed"]_vars
  BY ConsumedIs
<1> QED BY <1>1, LaneSafe, PTL DEF Spec, ConsumedIsFinal
-----------------------------------------------------------------------------
(* The order of the inputs *)

\* If j was submitted, so was i, and no later.
Arrived(i, j) ==
  \A b \in 1..Len(arrival) : arrival[b] = j =>
    \E a \in 1..Len(arrival) : a <= b /\ arrival[a] = i

\* With the priorities p, i may be read before j.
Ranks(p, i, j) == p[i] = "next" /\ p[j] = "next" /\ i # j => Arrived(i, j)

\* A sequence in which nothing is read too early.
InOrder(p, s) == \A a, b \in 1..Len(s) : a < b => Ranks(p, s[a], s[b])

\* Whatever is in X may be read before what is in Y.
Before(p, X, Y) == \A i \in X, j \in Y : Ranks(p, i, j)

\* What the provider holds and has not read.
HeldNow == UNION {Parts(k) : k \in 1..Len(inbox)}

\* What the provider was handed, read or not.
Handed == ToSet(context) \union HeldNow

\* The turn's inputs are in order and stand before the queue.
LineUp(L) ==
  ~L.closed =>
    /\ InOrder(L.priority, L.queued)
    /\ HasTurn(L) =>
         /\ InOrder(L.priority, L.active.prompted) /\ InOrder(L.priority, L.active.steered)
         /\ Before(L.priority, ToSet(L.active.prompted), ToSet(L.active.steered))
         /\ Before(L.priority, Ridden(L), ToSet(L.queued))

\* What was read is in order, the messages are, and what the lane still has is
\* after them.
Served(L) ==
  /\ InOrder(L.priority, context)
  /\ \A k \in 1..Len(inbox) : /\ InOrder(L.priority, inbox[k].parts)
                              /\ Before(L.priority, ToSet(context), Parts(k))
  /\ \A k, m \in 1..Len(inbox) : k < m => Before(L.priority, Parts(k), Parts(m))
  /\ ~L.closed => Before(L.priority, Handed, Live(L) \ Handed)

\* Of a turn's steers all but the last were read, and of its prompt nothing
\* stays behind while the provider may take a steer, or keeps one.
Rides(L) ==
  HasTurn(L) /\ ~L.closed =>
    /\ \A i \in ToSet(L.active.steered) :
         \/ i \in ToSet(context)
         \/ i = L.active.last /\ (L.active.pending = i \/ L.active.sealed)
    /\ \A i \in ToSet(L.active.prompted) : L.priority[i] = "next" =>
         /\ open => i \in Handed
         /\ ~open /\ InNative(L) /\ retained \intersect Live(L) # {} => i \in ToSet(context)
         /\ InEarly(L) /\ First(L) \in retained => i = First(L)

\* What was read, and what an open lane and its provider have, was submitted.
Listed(L) ==
  /\ ToSet(context) \subseteq ToSet(arrival)
  /\ ~L.closed => Live(L) \union Handed \subseteq ToSet(arrival)

\* What the order asks of a lane, whatever was submitted so far.
Ordered(L) == LineUp(L) /\ Served(L) /\ Rides(L)

\* The order of the inputs in a lane and at its provider: the invariant that
\* ReadInOrder needs beside LaneInv.
OrderInv(L) == LineUp(L) /\ Served(L) /\ Rides(L) /\ Listed(L)

\* A step from L to M that leaves the queue and the turn's inputs where they are.
AlikeTurn(L, M) ==
  /\ First(M) = First(L) /\ M.active.last = L.active.last
  /\ M.active.prompted = L.active.prompted /\ M.active.steered = L.active.steered
  /\ M.active.pending = L.active.pending \/ M.active.sealed
  /\ L.active.sealed => M.active.sealed
  /\ InNative(M) => InNative(L)
  /\ InEarly(M) => InEarly(L)

\* The same for the lane as a whole, of which a close asks nothing.
Alike(L, M) ==
  /\ M.priority = L.priority
  /\ L.closed => M.closed
  /\ ~M.closed => /\ M.queued = L.queued /\ M.carried = L.carried
                  /\ HasTurn(M) <=> HasTurn(L)
                  /\ HasTurn(L) => AlikeTurn(L, M)

\* Such a step keeps the order.
LEMMA AlikeOrdered ==
  ASSUME NEW L, NEW M, Ordered(L), Alike(L, M)
  PROVE  Ordered(M) /\ (Listed(L) => Listed(M))
<1>1. CASE M.closed
  <2>1. Served(M)
    BY <1>1 DEF Ordered, Served, Alike
  <2> QED BY <1>1, <2>1 DEF Ordered, LineUp, Rides, Listed
<1>2. CASE ~M.closed
  <2>1. ~L.closed /\ Ridden(M) = Ridden(L) /\ Live(M) = Live(L)
    BY <1>2 DEF Alike, AlikeTurn, Live, Ridden
  <2>2. LineUp(M)
    BY <1>2, <2>1 DEF Ordered, LineUp, Alike, AlikeTurn
  <2>3. Served(M)
    BY <1>2, <2>1 DEF Ordered, Served, Alike
  <2>4. Rides(M)
    <3>1. Rides(L) /\ M.priority = L.priority /\ (HasTurn(M) <=> HasTurn(L))
          /\ (HasTurn(L) => AlikeTurn(L, M))
      BY <1>2 DEF Ordered, Alike
    <3> QED BY <2>1, <3>1 DEF Rides, AlikeTurn
  <2> QED BY <1>2, <2>1, <2>2, <2>3, <2>4 DEF Ordered, Listed
<1> QED BY <1>1, <1>2

\* And the invariant.
LEMMA AlikeKeeps ==
  ASSUME NEW L, NEW M, OrderInv(L), Alike(L, M)
  PROVE  OrderInv(M)
BY AlikeOrdered DEF OrderInv, Ordered

\* Nothing moves but the lane.
LEMMA OrderStill ==
  ASSUME OrderInv(lane'), UNCHANGED <<inbox, context, retained, open, arrival>>
  PROVE  OrderInv(lane)'
<1>1. \A i, j : Arrived(i, j)' <=> Arrived(i, j)
  BY DEF Arrived
<1>2. Handed' = Handed
  BY DEF Handed, HeldNow, Parts
<1>3. LineUp(lane)'
  BY <1>1 DEF OrderInv, LineUp, InOrder, Before, Ranks, HasTurn, Ridden
<1>4. Served(lane)'
  <2>1. Served(lane')
    BY DEF OrderInv
  <2>2. InOrder(lane.priority, context)'
    BY <1>1, <2>1 DEF Served, InOrder, Ranks
  <2>3. (Served(lane)!2)'
    BY <1>1, <2>1 DEF Served, InOrder, Before, Ranks, Parts
  <2>4. (Served(lane)!3)'
    BY <1>1, <2>1 DEF Served, Before, Ranks, Parts
  <2>5. (~lane.closed => Before(lane.priority, Handed, Live(lane) \ Handed))'
    BY <1>1, <1>2, <2>1 DEF Served, Before, Ranks, Live, Ridden, HasTurn
  <2> QED BY <2>2, <2>3, <2>4, <2>5 DEF Served
<1>5. Rides(lane)'
  BY <1>2 DEF OrderInv, Rides, HasTurn, First, InEarly, InNative, Live, Ridden
<1>6. Listed(lane)'
  BY <1>2 DEF OrderInv, Listed, Live, Ridden, HasTurn
<1> QED BY <1>3, <1>4, <1>5, <1>6 DEF OrderInv

\* So does an action that is such a step and leaves the provider alone.
LEMMA AlikeStep ==
  ASSUME OrderInv(lane), Alike(lane, lane'),
         UNCHANGED <<inbox, context, retained, open, arrival>>
  PROVE  OrderInv(lane)'
<1>1. OrderInv(lane')
  BY AlikeKeeps
<1> QED BY <1>1, OrderStill
-----------------------------------------------------------------------------
\* Two sequences in a row are in order when each is and the first comes before
\* the second.
LEMMA OrderJoin ==
  ASSUME NEW X, NEW s \in Seq(X), NEW t \in Seq(X), NEW p
  PROVE  InOrder(p, s \o t) <=>
           InOrder(p, s) /\ InOrder(p, t) /\ Before(p, ToSet(s), ToSet(t))
<1> DEFINE j == s \o t
<1>1. /\ j \in Seq(X) /\ Len(j) = Len(s) + Len(t) /\ Len(s) \in Nat /\ Len(t) \in Nat
      /\ \A a \in 1..Len(s) : j[a] = s[a]
      /\ \A a \in 1..Len(t) : j[Len(s) + a] = t[a]
  BY JoinIs
<1> HIDE DEF j
<1>2. /\ \A a \in 1..Len(j) : a \in 1..Len(s) \/ (a - Len(s) \in 1..Len(t) /\ Len(s) + (a - Len(s)) = a)
      /\ \A a \in 1..Len(s) : a \in 1..Len(j)
      /\ \A a \in 1..Len(t) : Len(s) + a \in 1..Len(j)
  BY <1>1
<1>3. ASSUME InOrder(p, j)
      PROVE  InOrder(p, s) /\ InOrder(p, t) /\ Before(p, ToSet(s), ToSet(t))
  <2>1. InOrder(p, s)
    <3> SUFFICES ASSUME NEW a \in 1..Len(s), NEW b \in 1..Len(s), a < b
                 PROVE  Ranks(p, s[a], s[b])
      BY DEF InOrder
    <3>1. j[a] = s[a] /\ j[b] = s[b] /\ a \in 1..Len(j) /\ b \in 1..Len(j)
      BY <1>1, <1>2
    <3> QED BY <1>3, <3>1 DEF InOrder
  <2>2. InOrder(p, t)
    <3> SUFFICES ASSUME NEW a \in 1..Len(t), NEW b \in 1..Len(t), a < b
                 PROVE  Ranks(p, t[a], t[b])
      BY DEF InOrder
    <3>1. /\ j[Len(s) + a] = t[a] /\ j[Len(s) + b] = t[b]
          /\ Len(s) + a \in 1..Len(j) /\ Len(s) + b \in 1..Len(j)
      BY <1>1, <1>2
    <3>2. Len(s) + a < Len(s) + b
      BY <1>1
    <3> HIDE DEF Ranks
    <3>3. Ranks(p, j[Len(s) + a], j[Len(s) + b])
      BY <1>3, <3>1, <3>2 DEF InOrder
    <3> QED BY <3>1, <3>3
  <2>3. ASSUME NEW x \in ToSet(s), NEW y \in ToSet(t) PROVE Ranks(p, x, y)
    <3>1. PICK a \in 1..Len(s) : s[a] = x
      BY InSet
    <3>2. PICK b \in 1..Len(t) : t[b] = y
      BY InSet
    <3>3. /\ j[a] = x /\ j[Len(s) + b] = y
          /\ a \in 1..Len(j) /\ Len(s) + b \in 1..Len(j) /\ a < Len(s) + b
      BY <1>1, <1>2, <3>1, <3>2
    <3>4. Ranks(p, j[a], j[Len(s) + b])
      BY <1>3, <3>3 DEF InOrder
    <3> QED BY <3>3, <3>4
  <2> QED BY <2>1, <2>2, <2>3 DEF Before
<1>4. ASSUME InOrder(p, s), InOrder(p, t), Before(p, ToSet(s), ToSet(t))
      PROVE  InOrder(p, j)
  <2> SUFFICES ASSUME NEW a \in 1..Len(j), NEW b \in 1..Len(j), a < b
               PROVE  Ranks(p, j[a], j[b])
    BY DEF InOrder
  <2>1. CASE a \in 1..Len(s) /\ b \in 1..Len(s)
    BY <1>1, <1>4, <2>1 DEF InOrder
  <2>2. CASE a \in 1..Len(s) /\ b \notin 1..Len(s)
    <3>1. b - Len(s) \in 1..Len(t) /\ Len(s) + (b - Len(s)) = b
      BY <1>2, <2>2
    <3>2. j[a] = s[a] /\ j[b] = t[b - Len(s)]
      BY <1>1, <2>2, <3>1
    <3>3. j[a] \in ToSet(s) /\ j[b] \in ToSet(t)
      BY <2>2, <3>1, <3>2, InSet
    <3> QED BY <1>4, <3>3 DEF Before
  <2>3. CASE a \notin 1..Len(s)
    <3>1. /\ a - Len(s) \in 1..Len(t) /\ Len(s) + (a - Len(s)) = a
          /\ b \notin 1..Len(s)
      BY <1>1, <1>2, <2>3
    <3>2. b - Len(s) \in 1..Len(t) /\ Len(s) + (b - Len(s)) = b /\ a - Len(s) < b - Len(s)
      BY <1>1, <1>2, <3>1
    <3>3. j[a] = t[a - Len(s)] /\ j[b] = t[b - Len(s)]
      BY <1>1, <3>1, <3>2
    <3>4. Ranks(p, t[a - Len(s)], t[b - Len(s)])
      BY <1>4, <3>1, <3>2 DEF InOrder
    <3> QED BY <3>3, <3>4
  <2> QED BY <2>1, <2>2, <2>3
<1> QED BY <1>3, <1>4 DEF j

\* Nothing, or one input, is in order.
LEMMA OrderOne == ASSUME NEW x, NEW p PROVE InOrder(p, <<>>) /\ InOrder(p, <<x>>)
<1>1. Len(<<>>) = 0 /\ Len(<<x>>) = 1
  OBVIOUS
<1>2. InOrder(p, <<>>)
  BY <1>1 DEF InOrder
<1>3. \A a, b \in 1..Len(<<x>>) : ~(a < b)
  BY <1>1
<1> QED BY <1>2, <1>3 DEF InOrder

\* Without its head a sequence stays in order, and the head comes before it.
LEMMA OrderTail ==
  ASSUME NEW X, NEW s \in Seq(X), s # <<>>, NEW p, InOrder(p, s)
  PROVE  InOrder(p, Tail(s)) /\ Before(p, {Head(s)}, ToSet(Tail(s)))
<1> DEFINE h == Head(s)
           one == <<h>>
           t == Tail(s)
<1>1. h \in X /\ t \in Seq(X) /\ s = one \o t
  BY TailIs
<1>2. one \in Seq(X) /\ ToSet(one) = {h}
  BY <1>1, OneIs
<1> HIDE DEF h, one, t
<1>3. InOrder(p, t) /\ Before(p, ToSet(one), ToSet(t))
  BY <1>1, <1>2, OrderJoin
<1> QED BY <1>2, <1>3 DEF h, t

\* So does what a filter leaves.
LEMMA OrderOnly ==
  ASSUME NEW X, NEW s \in Seq(X), NEW S, NEW p, InOrder(p, s)
  PROVE  InOrder(p, Only(s, S))
<1> DEFINE o == Only(s, S)
<1>1. \A k, m \in 1..Len(o) : k < m => \E a, b \in 1..Len(s) : a < b /\ o[k] = s[a] /\ o[m] = s[b]
  BY OnlyProperties
<1> HIDE DEF o
<1> SUFFICES ASSUME NEW k \in 1..Len(o), NEW m \in 1..Len(o), k < m PROVE Ranks(p, o[k], o[m])
  BY DEF InOrder, o
<1>2. PICK a \in 1..Len(s), b \in 1..Len(s) : a < b /\ o[k] = s[a] /\ o[m] = s[b]
  BY <1>1
<1> QED BY <1>2 DEF InOrder

\* Inputs that interrupt stand in no order to others.
LEMMA OrderUrgent ==
  ASSUME NEW X, NEW Y, NEW p, (\A i \in X : p[i] # "next") \/ (\A i \in Y : p[i] # "next")
  PROVE  Before(p, X, Y)
BY DEF Before, Ranks

\* Nor among themselves.
LEMMA OrderUrgents ==
  ASSUME NEW X, NEW s \in Seq(X), NEW p, \A i \in ToSet(s) : p[i] # "next"
  PROVE  InOrder(p, s)
<1>1. \A a \in 1..Len(s) : s[a] \in ToSet(s)
  BY InSet
<1> QED BY <1>1 DEF InOrder, Ranks

\* flush() moves the head of the queue behind the turn's steers.
LEMMA FlushOrdered ==
  ASSUME NEW L \in Lane, TurnShape(L), Ordered(L)
  PROVE  /\ Ordered(Flush(L)) /\ (Listed(L) => Listed(Flush(L)))
         /\ Live(Flush(L)) = Live(L) /\ Flush(L).closed = L.closed
<1>1. L \in Lane /\ L.queued \in Seq(Inputs) /\ TurnShape(L)
  BY LaneIs
<1>2. CASE ~MaySteer(L)
  BY <1>1, <1>2, FlushIs
<1>3. CASE MaySteer(L)
  <2> DEFINE F == Flush(L)
             q == L.queued
             s == L.active.steered
             h == Head(q)
             one == <<h>>
             p == L.priority
             f == F.active.steered
             u == F.queued
  <2>1. Flushed(L, F)
    BY <1>1, <1>3, FlushIs
  <2>2. /\ q \in Seq(Inputs) /\ q # <<>> /\ HasTurn(L) /\ L.active.ready /\ s \in Seq(Inputs)
        /\ L.active.pending = NoInput /\ ~L.active.sealed /\ L.active.stage = "running"
        /\ ~L.closed /\ L.active.prompted \in Seq(Inputs)
    BY <1>1, <1>3, LaneIs DEF MaySteer, TurnShape
  <2>3. /\ HasTurn(F) /\ F.closed = L.closed /\ u = Tail(q) /\ F.carried = L.carried
        /\ F.priority = p /\ First(F) = First(L) /\ F.active.prompted = L.active.prompted
        /\ F.active.stage = L.active.stage /\ F.active.pending = h /\ F.active.last = h
        /\ f = Append(s, h)
    BY <2>1 DEF Flushed, First
  <2> HIDE DEF F, f, q, s, u
  <2>4. /\ h \in Inputs /\ Tail(q) \in Seq(Inputs) /\ ToSet(q) = {h} \union ToSet(Tail(q))
    BY <2>2, TailIs
  <2> HIDE DEF h
  <2>5. /\ one \in Seq(Inputs) /\ ToSet(one) = {h} /\ Append(s, h) = s \o one
    <3>1. Append(s, h) = s \o one
      BY <2>2, <2>4
    <3> QED BY <2>4, <3>1, OneIs
  <2> HIDE DEF one, p
  <2>6. ToSet(f) = ToSet(s) \union {h}
    BY <2>2, <2>3, <2>5, JoinIs
  <2>7. Ridden(F) = Ridden(L) \union {h}
    BY <2>2, <2>3, <2>6 DEF Ridden, f, s
  <2>8. Live(F) = Live(L)
    BY <2>3, <2>4, <2>7 DEF Live, u, q
  <2>9. /\ InOrder(p, q) /\ InOrder(p, s) /\ InOrder(p, L.active.prompted)
        /\ Before(p, ToSet(L.active.prompted), ToSet(s)) /\ Before(p, Ridden(L), ToSet(q))
    BY <2>2 DEF Ordered, LineUp, p, q, s
  <2>10. InOrder(p, Tail(q)) /\ Before(p, {h}, ToSet(Tail(q)))
    BY <2>2, <2>9, OrderTail DEF h
  <2>11. ToSet(s) \subseteq Ridden(L) /\ ToSet(L.active.prompted) \subseteq Ridden(L)
    BY <2>2 DEF Ridden, s
  <2>12. InOrder(p, f)
    <3>1. InOrder(p, one)
      BY OrderOne DEF one
    <3>2. Before(p, ToSet(s), ToSet(one))
      BY <2>4, <2>5, <2>9, <2>11 DEF Before
    <3>3. InOrder(p, s \o one)
      BY <2>2, <2>5, <2>9, <3>1, <3>2, OrderJoin
    <3> QED BY <2>3, <2>5, <3>3
  <2>13. LineUp(F)
    <3>1. Before(p, ToSet(L.active.prompted), ToSet(f))
      BY <2>4, <2>6, <2>9, <2>11 DEF Before
    <3>2. Before(p, Ridden(F), ToSet(Tail(q)))
      BY <2>4, <2>7, <2>9, <2>10 DEF Before
    <3> QED BY <2>3, <2>9, <2>10, <2>12, <3>1, <3>2 DEF LineUp, f, u
  <2>14. Served(F)
    BY <2>3, <2>8 DEF Ordered, Served, p
  <2>15. Rides(F)
    <3>1. Rides(L)
      BY DEF Ordered
    <3>2. InNative(F) /\ InNative(L) /\ ~InEarly(F)
      BY <2>2, <2>3 DEF InNative, InEarly, Early, Native
    <3>3. ASSUME NEW i \in ToSet(f)
          PROVE  i \in ToSet(context) \/ (i = F.active.last /\ F.active.pending = i)
      <4>1. CASE i = h
        BY <2>3, <4>1
      <4>2. CASE i \in ToSet(s)
        <5>1. i \in ToSet(context) \/ (i = L.active.last /\ L.active.pending = i)
          BY <2>2, <3>1, <4>2 DEF Rides, s
        <5>2. i \in Inputs
          BY <2>2, <4>2, InSet
        <5> QED BY <2>2, <5>1, <5>2, LaneAssumption
      <4> QED BY <2>6, <3>3, <4>1, <4>2
    <3>4. ASSUME NEW i \in ToSet(F.active.prompted), F.priority[i] = "next"
          PROVE  /\ open => i \in Handed
                 /\ ~open /\ retained \intersect Live(F) # {} => i \in ToSet(context)
      BY <2>2, <2>3, <2>8, <3>1, <3>2, <3>4 DEF Rides, p
    <3> QED BY <3>2, <3>3, <3>4 DEF Rides, f
  <2>16. Listed(L) => Listed(F)
    BY <2>3, <2>8 DEF Listed
  <2> QED BY <2>3, <2>8, <2>13, <2>14, <2>15, <2>16 DEF Ordered, F
<1> QED BY <1>2, <1>3

\* So it keeps the order.
LEMMA FlushOrder ==
  ASSUME NEW L \in Lane, TurnShape(L), OrderInv(L)
  PROVE  OrderInv(Flush(L))
BY FlushOrdered DEF OrderInv, Ordered
-----------------------------------------------------------------------------
\* The turn's last steer, not read, goes back to the head of the queue: the rest
\* of the turn was read before it.
LEMMA PutBackOrder ==
  ASSUME NEW L \in Lane, NEW M, NEW i \in Inputs, ~L.closed, HasTurn(L), OrderInv(L),
         i \in ToSet(L.active.steered), i = L.active.last, i \notin ToSet(context),
         M.priority = L.priority, M.closed = L.closed, M.queued = <<i>> \o L.queued,
         M.carried = L.carried, HasTurn(M), AlikeTurn(L, M)
  PROVE  OrderInv(M)
<1> DEFINE p == L.priority
           q == L.queued
           one == <<i>>
           u == M.queued
<1>1. LineUp(L) /\ Served(L) /\ Rides(L) /\ Listed(L)
  BY DEF OrderInv
<1>2. q \in Seq(Inputs) /\ one \in Seq(Inputs) /\ ToSet(one) = {i} /\ u = one \o q
  BY LaneIs, OneIs
<1>3. /\ InOrder(p, q) /\ Before(p, Ridden(L), ToSet(q))
      /\ Before(p, ToSet(L.active.prompted), ToSet(L.active.steered))
      /\ Before(p, Handed, Live(L) \ Handed)
  BY <1>1 DEF LineUp, Served
<1>4. i \in Ridden(L) /\ i \in Live(L) /\ Ridden(M) = Ridden(L)
  BY DEF Ridden, Live, AlikeTurn
<1> HIDE DEF q, one, u
<1>5. ToSet(u) = {i} \union ToSet(q)
  BY <1>2, JoinIs
<1>6. Live(M) = Live(L)
  BY <1>4, <1>5 DEF Live, q, u
<1>7. InOrder(p, u)
  <2>1. InOrder(p, one)
    BY OrderOne DEF one
  <2>2. Before(p, ToSet(one), ToSet(q))
    BY <1>2, <1>3, <1>4 DEF Before
  <2> HIDE DEF p
  <2> QED BY <1>2, <1>3, <2>1, <2>2, OrderJoin DEF p
<1>8. ASSUME NEW x \in Ridden(L) PROVE Ranks(p, x, i)
  <2>1. CASE x \in ToSet(L.active.prompted)
    BY <1>3, <2>1 DEF Before
  <2>2. CASE x = i
    BY <2>2 DEF Ranks
  <2>3. CASE x \in ToSet(L.active.steered) /\ x # i
    <3>1. x \in ToSet(context)
      BY <1>1, <2>3 DEF Rides
    <3>2. CASE i \in Handed
      <4>1. PICK k \in 1..Len(inbox) : i \in Parts(k)
        BY <3>2 DEF Handed, HeldNow
      <4> QED BY <1>1, <3>1, <4>1 DEF Served, Before
    <3>3. CASE i \notin Handed
      BY <1>3, <1>4, <3>1, <3>3 DEF Before, Handed
    <3> QED BY <3>2, <3>3
  <2> QED BY <2>1, <2>2, <2>3 DEF Ridden
<1>9. LineUp(M)
  <2>1. Before(p, Ridden(M), ToSet(u))
    BY <1>3, <1>4, <1>5, <1>8 DEF Before
  <2>2. /\ InOrder(p, L.active.prompted) /\ InOrder(p, L.active.steered)
        /\ M.active.prompted = L.active.prompted /\ M.active.steered = L.active.steered
        /\ M.priority = p
    BY <1>1 DEF LineUp, AlikeTurn
  <2> QED BY <1>3, <1>7, <2>1, <2>2 DEF LineUp, u
<1>10. Served(M)
  BY <1>1, <1>6 DEF Served
<1>11. Rides(M)
  BY <1>1, <1>6 DEF Rides, AlikeTurn
<1>12. Listed(M)
  BY <1>1, <1>6 DEF Listed
<1> QED BY <1>9, <1>10, <1>11, <1>12 DEF OrderInv

\* A superseded turn's unread inputs go on before the head of the queue, which
\* is in order unless the provider keeps that head: then none of them may be without
\* priority.
LEMMA FinishOrder ==
  ASSUME NEW L, Shape(L), HasTurn(L), L.closed \/ Quiet(L), OrderInv(L), L.closed \/ ~open,
         /\ ~L.closed /\ L.active.superseded /\ L.queued # <<>> /\ Head(L.queued) \in retained
         => \A i \in ToSet(Remaining(L)) : L.priority[i] # "next"
  PROVE  OrderInv(Finish(L))
<1> DEFINE F == Finish(L)
           p == L.priority
           q == L.queued
<1>1. LineUp(L) /\ Served(L) /\ Rides(L) /\ Listed(L) /\ L \in Lane /\ QueueShape(L)
  BY DEF OrderInv, Shape
<1>2. Finished(L, F)
  BY FinishShape
<1>3. /\ F.closed = L.closed /\ F.priority = p
      /\ ~L.closed /\ ~HasTurn(F) => F.queued = <<>> /\ F.carried = <<>>
      /\ HasTurn(F) =>
          /\ ~L.closed /\ q # <<>> /\ First(F) = Head(q)
          /\ F.active.stage = "waiting" /\ F.active.steered = <<>>
  BY <1>2 DEF Finished
<1>4. Live(F) \subseteq Live(L)
  BY <1>2 DEF Finished, Live
<1> HIDE DEF F
<1>5. CASE L.closed
  <2>1. Alike(L, F)
    BY <1>3, <1>5 DEF Alike
  <2> QED BY <2>1, AlikeKeeps DEF F
<1>6. CASE ~L.closed /\ ~HasTurn(F)
  <2>1. InOrder(p, <<>>)
    BY OrderOne
  <2>2. LineUp(F)
    BY <1>3, <1>6, <2>1 DEF LineUp
  <2>3. Served(F)
    BY <1>1, <1>3, <1>4, <1>6 DEF Served, Before
  <2>4. Rides(F) /\ Listed(F)
    BY <1>1, <1>3, <1>4, <1>6 DEF Rides, Listed
  <2> QED BY <2>2, <2>3, <2>4 DEF OrderInv, F
<1>7. CASE HasTurn(F)
  <2> DEFINE e == Head(q)
             E == Ended(L)
  <2>1. ~L.closed /\ q # <<>> /\ q \in Seq(Inputs)
    BY <1>1, <1>3, <1>7, LaneIs
  <2>2. EndedAs(L, E) /\ F = StartNext(E)
    BY <1>1, EndedIs DEF F
  <2> HIDE DEF E
  <2>3. /\ E \in Lane /\ ~HasTurn(E) /\ E.queued = q /\ ~E.closed /\ E.priority = p
        /\ L.active.superseded => E.carried = Remaining(L)
        /\ ~L.active.superseded => E.carried = L.carried
    BY <2>1, <2>2 DEF EndedAs
  <2>4. PICK M \in Lane : /\ Started(M, e, F)
                          /\ M.queued = Tail(q) /\ M.carried = E.carried /\ M.priority = p
    BY <2>1, <2>2, <2>3, StartNextIs
  <2> DEFINE c == E.carried
             one == <<e>>
             a == Absorbed(M, e)
             t == Tail(q)
             r == F.active.prompted
             s == F.queued
  <2>5. r = (c \o one) \o a /\ s = Rest(M, e)
    BY <2>4 DEF Started, Prompt
  <2>6. /\ e \in Inputs /\ t \in Seq(Inputs) /\ ToSet(q) = {e} \union ToSet(t)
    BY <2>1, TailIs
  <2>7. /\ a \in Seq(Inputs) /\ ToSet(a) \subseteq ToSet(t)
        /\ ToSet(s) \subseteq ToSet(t)
    BY <2>4, <2>5, <2>6, PromptIs
  <2>8. one \in Seq(Inputs) /\ ToSet(one) = {e}
    BY <2>6, OneIs
  <2>9. \A i \in ToSet(a) : p[i] # "next"
    <3>1. CASE e \in Urgent(M)
      <4>1. a = Only(t, Urgent(M))
        BY <2>4, <3>1 DEF Absorbed
      <4> HIDE DEF a, t
      <4>2. ToSet(a) \subseteq Urgent(M)
        BY <2>6, <4>1, OnlyIs
      <4> QED BY <2>4, <4>2 DEF Urgent
    <3>2. CASE e \notin Urgent(M)
      BY <3>2, NoneIs DEF Absorbed
    <3> QED BY <3>1, <3>2
  <2>10. /\ InOrder(p, q) /\ Before(p, Ridden(L), ToSet(q))
         /\ InOrder(p, L.active.prompted) /\ InOrder(p, L.active.steered)
         /\ Before(p, ToSet(L.active.prompted), ToSet(L.active.steered))
    BY <1>1, <2>1 DEF LineUp
  <2>11. /\ c \in Seq(Inputs) /\ InOrder(p, c) /\ ToSet(c) \subseteq Ridden(L)
         /\ ~L.active.superseded => c = <<>>
    <3>1. CASE L.active.superseded
      <4> DEFINE x == L.active.prompted
                 y == L.active.steered
      <4>1. x \in Seq(Inputs) /\ y \in Seq(Inputs)
        BY <1>1, LaneIs
      <4>2. ToSet(Remaining(L)) \subseteq Ridden(L) /\ Remaining(L) \in Seq(Inputs)
        BY <1>1, RemainingIs DEF Ridden
      <4>3. Remaining(L) = Only(x \o y, {i \in Inputs : Unread(L, i)})
        BY DEF Remaining, All
      <4>4. InOrder(p, x) /\ InOrder(p, y) /\ Before(p, ToSet(x), ToSet(y))
        BY <2>10
      <4> HIDE DEF x, y, p
      <4>5. InOrder(p, x \o y) /\ x \o y \in Seq(Inputs)
        BY <4>1, <4>4, OrderJoin, JoinIs
      <4>6. InOrder(p, Remaining(L))
        BY <4>3, <4>5, OrderOnly
      <4> QED BY <2>3, <3>1, <4>2, <4>6
    <3>2. CASE ~L.active.superseded
      <4>1. c = <<>>
        BY <1>1, <2>1, <2>3, <3>2 DEF QueueShape
      <4> QED BY <3>2, <4>1, NoneIs, OrderOne
    <3> QED BY <3>1, <3>2
  <2>12. InOrder(p, t) /\ Before(p, {e}, ToSet(t))
    BY <2>1, <2>10, OrderTail
  <2>13. InOrder(p, s)
    <3>1. s = Only(t, Inputs \ ToSet(a))
      BY <2>4, <2>5 DEF Rest
    <3> HIDE DEF s, t, a, p
    <3> QED BY <2>6, <2>12, <3>1, OrderOnly
  <2>14. e \in ToSet(q) /\ ToSet(s) \subseteq ToSet(q)
    BY <2>6, <2>7
  <2> HIDE DEF c, one, a, t, r, s, e, q, p
  <2>15. ToSet(r) = ToSet(c) \union {e} \union ToSet(a) /\ InOrder(p, r)
    <3> DEFINE d == c \o one
    <3>1. d \in Seq(Inputs) /\ ToSet(d) = ToSet(c) \union {e}
      BY <2>8, <2>11, JoinIs
    <3>2. InOrder(p, d)
      <4>1. InOrder(p, one)
        BY OrderOne DEF one
      <4>2. Before(p, ToSet(c), ToSet(one))
        BY <2>8, <2>10, <2>11, <2>14 DEF Before
      <4> QED BY <2>8, <2>11, <4>1, <4>2, OrderJoin
    <3> HIDE DEF d
    <3>3. InOrder(p, a)
      BY <2>7, <2>9, OrderUrgents
    <3>4. Before(p, ToSet(d), ToSet(a))
      BY <2>9, OrderUrgent
    <3>5. r = d \o a
      BY <2>5 DEF d
    <3>6. a \in Seq(Inputs)
      BY <2>7
    <3>7. InOrder(p, d \o a)
      BY <3>1, <3>2, <3>3, <3>4, <3>6, OrderJoin
    <3>8. ToSet(d \o a) = ToSet(d) \union ToSet(a)
      BY <3>1, <3>6, JoinIs
    <3> QED BY <3>1, <3>5, <3>7, <3>8
  <2>16. Ridden(F) = ToSet(r) /\ F.active.steered = <<>>
    BY <1>3, <1>7, NoneIs DEF Ridden, r
  <2>17. LineUp(F)
    <3>1. Before(p, Ridden(F), ToSet(s))
      <4> SUFFICES ASSUME NEW x \in Ridden(F), NEW y \in ToSet(s) PROVE Ranks(p, x, y)
        BY DEF Before
      <4>1. CASE x \in ToSet(c)
        BY <2>10, <2>11, <2>14, <4>1 DEF Before
      <4>2. CASE x = e
        BY <2>7, <2>12, <4>2 DEF Before
      <4>3. CASE x \in ToSet(a)
        BY <2>9, <4>3 DEF Ranks
      <4> QED BY <2>15, <2>16, <4>1, <4>2, <4>3
    <3>2. InOrder(p, <<>>) /\ Before(p, ToSet(r), {})
      BY OrderOne DEF Before
    <3> QED BY <1>3, <2>13, <2>15, <2>16, <3>1, <3>2, NoneIs DEF LineUp, r, s
  <2>18. Served(F)
    BY <1>1, <1>3, <1>4, <2>1 DEF Served, Before, p
  <2>19. Rides(F)
    <3>1. ~InNative(F) /\ ~open
      BY <1>3, <1>7, <2>1 DEF InNative, Native
    <3>2. First(F) = e
      BY <1>3, <1>7 DEF e
    <3>3. ASSUME NEW i \in ToSet(r), p[i] = "next", e \in retained PROVE i = e
      <4>1. i \notin ToSet(a)
        BY <2>9, <3>3
      <4>2. i \notin ToSet(c)
        <5>1. CASE L.active.superseded
          <6>1. c = Remaining(L)
            BY <2>3, <5>1 DEF c
          <6>2. \A j \in ToSet(Remaining(L)) : p[j] # "next"
            BY <2>1, <3>3, <5>1 DEF e, q, p
          <6> QED BY <3>3, <6>1, <6>2
        <5>2. CASE ~L.active.superseded
          BY <2>11, <5>2, NoneIs
        <5> QED BY <5>1, <5>2
      <4> QED BY <2>15, <4>1, <4>2
    <3> QED BY <1>3, <2>16, <3>1, <3>2, <3>3, NoneIs DEF Rides, r
  <2>20. Listed(F)
    BY <1>1, <1>3, <1>4 DEF Listed
  <2> QED BY <2>17, <2>18, <2>19, <2>20 DEF OrderInv, F
<1> QED BY <1>3, <1>5, <1>6, <1>7

\* What was read comes before whatever is still to come.
LEMMA ReadFirst ==
  ASSUME NEW L, Served(L), ~L.closed
  PROVE  Before(L.priority, ToSet(context), Live(L) \ ToSet(context))
<1> SUFFICES ASSUME NEW i \in ToSet(context), NEW j \in Live(L) \ ToSet(context)
             PROVE  Ranks(L.priority, i, j)
  BY DEF Before
<1>1. CASE j \in Handed
  <2>1. PICK k \in 1..Len(inbox) : j \in Parts(k)
    BY <1>1 DEF Handed, HeldNow
  <2> QED BY <2>1 DEF Served, Before
<1>2. CASE j \notin Handed
  <2>1. i \in Handed
    BY DEF Handed
  <2> QED BY <1>2, <2>1 DEF Served, Before
<1> QED BY <1>1, <1>2

\* With nothing at the provider a turn asks for little.
LEMMA DropRides ==
  ASSUME Rides(lane'), TurnShape(lane'), context' = context, ~open',
         retained' \intersect Live(lane') = {}
  PROVE  Rides(lane)'
<1>1. Live(lane)' = Live(lane')
  BY DEF Live, Ridden, HasTurn
<1>2. HasTurn(lane') => First(lane') \in Live(lane')
  BY DEF TurnShape, Live, Ridden
<1>3. HasTurn(lane') /\ ~lane'.closed =>
        \A i \in ToSet(lane'.active.steered) :
           \/ i \in ToSet(context)
           \/ i = lane'.active.last /\ (lane'.active.pending = i \/ lane'.active.sealed)
  BY DEF Rides
<1> QED BY <1>1, <1>2, <1>3 DEF Rides, HasTurn, First

\* The provider drops what it holds: what is left is in order.
LEMMA DropBooks ==
  ASSUME OrderInv(lane'), TurnShape(lane'), arrival' = arrival,
         inbox' = <<>>, context' = context, ~open',
         retained' = {} \/ (retained' = retained /\ retained \intersect Live(lane') = {})
  PROVE  OrderInv(lane)'
<1>1. \A i, j : Arrived(i, j)' <=> Arrived(i, j)
  BY DEF Arrived
<1>2. LineUp(lane') /\ Served(lane') /\ Rides(lane') /\ Listed(lane')
  BY DEF OrderInv
<1>3. Handed' = ToSet(context) /\ ToSet(context) \subseteq Handed /\ Len(inbox') = 0
  BY DEF Handed, HeldNow, Parts
<1>4. Live(lane)' = Live(lane')
  BY DEF Live, Ridden, HasTurn
<1>5. LineUp(lane)'
  BY <1>1, <1>2 DEF LineUp, InOrder, Before, Ranks, HasTurn, Ridden
<1>6. Served(lane)'
  <2>1. InOrder(lane.priority, context)'
    BY <1>1, <1>2 DEF Served, InOrder, Ranks
  <2>2. ~lane'.closed => Before(lane'.priority, ToSet(context), Live(lane') \ ToSet(context))
    BY <1>2, ReadFirst
  <2>3. (~lane.closed => Before(lane.priority, Handed, Live(lane) \ Handed))'
    BY <1>1, <1>3, <1>4, <2>2 DEF Before, Ranks
  <2>4. (Served(lane)!2)' /\ (Served(lane)!3)'
    BY <1>3
  <2> QED BY <2>1, <2>3, <2>4 DEF Served
<1>7. Rides(lane)'
  <2>1. retained' \intersect Live(lane') = {}
    OBVIOUS
  <2> QED BY <1>2, <2>1, DropRides
<1>8. Listed(lane)'
  BY <1>2, <1>3, <1>4 DEF Listed
<1> QED BY <1>5, <1>6, <1>7, <1>8 DEF OrderInv
-----------------------------------------------------------------------------
\* A lane with the same queue and turn.
LEMMA AlikeSame ==
  ASSUME NEW L, NEW M, M.priority = L.priority, M.active = L.active, M.queued = L.queued,
         M.carried = L.carried, M.closed = L.closed
  PROVE  Alike(L, M)
BY DEF Alike, AlikeTurn, HasTurn, InNative, InEarly, First

\* A turn that moved from stage to stage.
LEMMA AlikeStaged ==
  ASSUME NEW L, HasTurn(L), NEW s, NEW M, Staged(L, s, M), M.priority = L.priority,
         s \in Early => InEarly(L), s \in Native => InNative(L)
  PROVE  Alike(L, M)
BY DEF Alike, AlikeTurn, HasTurn, InNative, InEarly, First, Staged

\* A turn that was marked.
LEMMA AlikeMarked ==
  ASSUME NEW L, HasTurn(L), NEW t, Marked(L, t), NEW M, Turned(L, t, M), M.priority = L.priority
  PROVE  Alike(L, M)
<1>1. t.stage \in Native => L.active.stage \in Native
  BY DEF Marked
<1>2. t.stage \in Early => L.active.stage \in Early
  BY DEF Marked, Early, Native
<1> QED BY <1>1, <1>2 DEF Alike, AlikeTurn, InNative, InEarly, First, Marked, Turned

\* A turn that ends before its message is sent keeps the order.
LEMMA EarlyEnds ==
  ASSUME NEW L, Shape(L), EnvType, Env(L), OrderInv(L), InEarly(L)
  PROVE  OrderInv(Finish(L)) /\ Shape(Finish(L)) /\ ~open
<1>1. HasTurn(L) /\ ~open /\ (L.closed \/ Quiet(L))
  BY EarlyIs
<1>2. ~(L.queued # <<>> /\ Head(L.queued) \in retained)
  <2> SUFFICES ASSUME L.queued # <<>>, Head(L.queued) \in retained PROVE FALSE
    OBVIOUS
  <2> DEFINE q == L.queued
  <2>1. q \in Seq(Inputs) /\ q # <<>> /\ TurnShape(L) /\ QueueShape(L) /\ RetainedInv(L)
    BY LaneIs DEF Shape, Env
  <2>2. Head(q) \in Live(L) /\ Head(q) \in ToSet(L.queued)
    <3> HIDE DEF q
    <3>1. q \in Seq(Inputs) /\ q # <<>>
      BY <2>1
    <3>2. ToSet(q) = {Head(q)} \union ToSet(Tail(q))
      BY <3>1, TailIs
    <3> QED BY <3>2 DEF Live, q
  <2>3. Head(q) = First(L)
    BY <1>1, <2>1, <2>2 DEF RetainedInv
  <2> QED BY <1>1, <2>1, <2>2, <2>3 DEF TurnShape, QueueShape
<1> QED BY <1>1, <1>2, FinishOrder, FinishShape

\* And so does its action, which may drop what the provider kept.
LEMMA EndOrder ==
  ASSUME OrderInv(lane'), Shape(lane'), ~open', UNCHANGED <<context, arrival>>,
         (inbox' = <<>> /\ retained' = {}) \/ (UNCHANGED <<inbox, retained, open>>)
  PROVE  OrderInv(lane)'
<1>1. CASE inbox' = <<>> /\ retained' = {}
  BY <1>1, DropBooks DEF Shape
<1>2. CASE UNCHANGED <<inbox, retained, open>>
  BY <1>2, OrderStill
<1> QED BY <1>1, <1>2

\* A write that fails moves nothing.
LEMMA BrokenOrder ==
  ASSUME NEW L \in Lane, OrderInv(L), NEW S \in SUBSET Inputs
  PROVE  OrderInv(Broken(L, S))
<1> DEFINE B == Broken(L, S)
<1>1. /\ B.priority = L.priority /\ B.active = L.active /\ B.queued = L.queued
      /\ B.carried = L.carried /\ B.closed = L.closed
  BY DEF Broken, Lane
<1> HIDE DEF B
<1>2. Alike(L, B)
  BY <1>1, AlikeSame
<1> QED BY <1>2, AlikeKeeps DEF B

\* An action that moves a turn from stage to stage.
LEMMA StagedOrder ==
  ASSUME Inv, OrderInv(lane), NEW U \in Lane, HasTurn(lane), NEW s \in Stages, NEW A \in SUBSET Inputs,
         U.active = lane.active, U.queued = lane.queued, U.carried = lane.carried,
         U.closed = lane.closed, U.priority = lane.priority,
         \/ lane' = [U EXCEPT !.active.stage = s]
         \/ lane' = [U EXCEPT !.active.stage = s, !.answered = @ \union A],
         s \in Early => InEarly(lane), s \in Native => InNative(lane),
         UNCHANGED providerVars, arrival' = arrival
  PROVE  OrderInv(lane)'
<1>1. HasTurn(U)
  BY DEF HasTurn
<1>2. Staged(U, s, lane')
  <2>1. A \subseteq Inputs
    OBVIOUS
  <2>2. /\ Staged(U, s, [U EXCEPT !.active.stage = s])
        /\ Staged(U, s, [U EXCEPT !.active.stage = s, !.answered = @ \union A])
    BY <1>1, <2>1, StageIs
  <2>3. CASE lane' = [U EXCEPT !.active.stage = s]
    BY <2>2, <2>3
  <2>4. CASE lane' = [U EXCEPT !.active.stage = s, !.answered = @ \union A]
    BY <2>2, <2>4
  <2> QED BY <2>3, <2>4
<1>3. lane'.priority = U.priority
  BY DEF Lane
<1>4. Alike(lane, U)
  BY AlikeSame
<1>5. OrderInv(U)
  BY <1>4, AlikeKeeps
<1>6. Alike(U, lane')
  <2>1. (s \in Early => InEarly(U)) /\ (s \in Native => InNative(U))
    BY <1>1 DEF InEarly, InNative
  <2> QED BY <1>1, <1>2, <1>3, <2>1, AlikeStaged
<1>7. OrderInv(lane')
  BY <1>5, <1>6, AlikeKeeps
<1> QED BY <1>7, OrderStill DEF providerVars

\* The turn mutex.
LEMMA TakeMutexOrder == ASSUME Inv, OrderInv(lane), TakeMutex PROVE OrderInv(lane)'
<1>1. /\ Shape(lane) /\ EnvType /\ Env(lane) /\ lane \in Lane /\ HasTurn(lane) /\ InEarly(lane)
      /\ arrival' = arrival
  BY DEF Inv, Shape, TakeMutex, AtStage, Stage, InEarly, Early
<1>2. CASE lane' = Finish(lane) /\ inbox' = <<>> /\ retained' = {} /\ UNCHANGED <<context, open>>
  <2>1. OrderInv(Finish(lane)) /\ Shape(Finish(lane)) /\ ~open
    BY <1>1, EarlyEnds
  <2>2. OrderInv(lane') /\ Shape(lane') /\ ~open'
    BY <1>2, <2>1
  <2> QED BY <1>1, <1>2, <2>2, EndOrder
<1>3. CASE lane' = [lane EXCEPT !.active.stage = "current"] /\ UNCHANGED providerVars
  BY <1>1, <1>3, StagedOrder DEF Stages, Native
<1> QED BY <1>2, <1>3 DEF TakeMutex

\* A turn that never reaches the model.
LEMMA SkipModelOrder == ASSUME Inv, OrderInv(lane), SkipModel PROVE OrderInv(lane)'
<1>1. /\ Shape(lane) /\ EnvType /\ Env(lane) /\ InEarly(lane)
      /\ lane' = Finish(lane) /\ UNCHANGED providerVars /\ arrival' = arrival
  BY DEF Inv, SkipModel, AtStage, Stage, InEarly, Early
<1>2. OrderInv(Finish(lane)) /\ Shape(Finish(lane)) /\ ~open
  BY <1>1, EarlyEnds
<1>3. OrderInv(lane') /\ Shape(lane') /\ ~open'
  BY <1>1, <1>2 DEF providerVars
<1> QED BY <1>1, <1>3, EndOrder DEF providerVars

\* A turn that fails.
LEMMA TurnFailsOrder == ASSUME Inv, OrderInv(lane), TurnFails PROVE OrderInv(lane)'
<1>1. /\ Shape(lane) /\ EnvType /\ Env(lane) /\ InEarly(lane) /\ HasTurn(lane) /\ lane \in Lane
      /\ UNCHANGED <<context, open, arrival>>
      /\ (inbox' = <<>> /\ retained' = {}) \/ (UNCHANGED <<inbox, retained>>)
  BY DEF Inv, Shape, TurnFails, AtStage, Stage, InEarly, Early
<1>2. First(lane) \in Inputs /\ ToSet(lane.active.prompted) \subseteq Inputs
  BY <1>1, EnvIs
<1>3. \/ lane' = Finish(lane)
      \/ \E i \in Inputs : lane' = Finish(Broken(lane, {i}))
  <2> DEFINE waited == IF Stage = "binding" THEN ToSet(lane.active.prompted)
                       ELSE IF Stage = "answering" THEN {First(lane)} ELSE {}
  <2>1. waited \subseteq Inputs
    BY <1>2
  <2>2. \/ lane' = Finish(lane)
        \/ \E i \in waited : lane' = Finish(Broken(lane, {i}))
    BY DEF TurnFails
  <2> QED BY <2>1, <2>2
<1>4. OrderInv(lane') /\ Shape(lane') /\ ~open
  <2>1. CASE lane' = Finish(lane)
    BY <1>1, <2>1, EarlyEnds
  <2>2. ASSUME NEW i \in Inputs, lane' = Finish(Broken(lane, {i}))
        PROVE  OrderInv(lane') /\ Shape(lane') /\ ~open
    <3> DEFINE B == Broken(lane, {i})
    <3>1. Shape(B) /\ Env(B) /\ B.active = lane.active
      BY BrokenInv
    <3>2. OrderInv(B)
      BY <1>1, BrokenOrder
    <3>3. lane' = Finish(B)
      BY <2>2
    <3> HIDE DEF B
    <3>4. InEarly(B)
      BY <1>1, <3>1 DEF InEarly, HasTurn
    <3> QED BY <1>1, <3>1, <3>2, <3>3, <3>4, EarlyEnds
  <2> QED BY <1>3, <2>1, <2>2
<1>5. ~open'
  BY <1>1, <1>4
<1> QED BY <1>1, <1>4, <1>5, EndOrder
-----------------------------------------------------------------------------
\* The stages before the message is sent.
LEMMA StagesOrder ==
  ASSUME Inv, OrderInv(lane),
         \/ \E st \in {"consumed", "failed"} : MiddlewareAnswers(st)
         \/ AnswerSaved \/ BeforeSend \/ BeforeSendSaved
  PROVE  OrderInv(lane)'
<1>1. /\ Shape(lane) /\ EnvType /\ Env(lane) /\ lane \in Lane /\ HasTurn(lane) /\ InEarly(lane)
      /\ UNCHANGED providerVars /\ arrival' = arrival
  BY DEF Inv, Shape, MiddlewareAnswers, AnswerSaved, BeforeSend, BeforeSendSaved, AtStage,
         Stage, InEarly, Early
<1>2. /\ First(lane) \in Inputs /\ ToSet(lane.active.prompted) \subseteq Inputs
      /\ Bound(lane) \subseteq Inputs
  BY <1>1, EnvIs DEF Bound
<1>3. ASSUME NEW U \in Lane, NEW s \in Stages \ Native, NEW A \in SUBSET Inputs,
             U.active = lane.active, U.queued = lane.queued, U.carried = lane.carried,
             U.closed = lane.closed, U.priority = lane.priority,
             \/ lane' = [U EXCEPT !.active.stage = s]
             \/ lane' = [U EXCEPT !.active.stage = s, !.answered = @ \union A]
      PROVE  OrderInv(lane)'
  <2>1. (s \in Early => InEarly(lane)) /\ (s \in Native => InNative(lane))
    BY <1>1
  <2> QED BY <1>1, <1>3, <2>1, StagedOrder
<1>4. ASSUME NEW S \in SUBSET Inputs, NEW st \in States, NEW s \in Stages \ Native,
             NEW A \in SUBSET Inputs,
             \/ lane' = [Update(lane, S, st) EXCEPT !.active.stage = s]
             \/ lane' = [Update(lane, S, st) EXCEPT !.active.stage = s, !.answered = @ \union A]
      PROVE  OrderInv(lane)'
  <2> DEFINE U == Update(lane, S, st)
  <2>1. Updated(lane, S, st, U)
    BY <1>1, UpdateIs
  <2>2. \/ lane' = [U EXCEPT !.active.stage = s]
        \/ lane' = [U EXCEPT !.active.stage = s, !.answered = @ \union A]
    BY <1>4
  <2> HIDE DEF U
  <2>3. /\ U \in Lane /\ U.active = lane.active /\ U.queued = lane.queued
        /\ U.carried = lane.carried /\ U.closed = lane.closed /\ U.priority = lane.priority
    BY <2>1 DEF Updated
  <2> QED BY <1>3, <2>2, <2>3
<1>5. CASE \E st \in {"consumed", "failed"} : MiddlewareAnswers(st)
  <2>1. PICK st \in {"consumed", "failed"} : MiddlewareAnswers(st)
    BY <1>5
  <2>2. lane' = [Update(lane, {First(lane)}, st)
                   EXCEPT !.active.stage = "answering",
                          !.answered = @ \union ToSet(lane.active.prompted)]
    BY <2>1 DEF MiddlewareAnswers
  <2>3. {First(lane)} \in SUBSET Inputs /\ st \in States /\ "answering" \in Stages \ Native
    BY <1>2 DEF States, Settled, Stages, Native
  <2> QED BY <1>2, <1>4, <2>2, <2>3
<1>6. CASE AnswerSaved
  <2>1. lane' = [Update(lane, Bound(lane), lane.state[First(lane)])
                   EXCEPT !.active.stage = "answered"]
    BY <1>6 DEF AnswerSaved
  <2>2. lane.state[First(lane)] \in States /\ "answered" \in Stages \ Native
    BY <1>1, <1>2, LaneIs DEF Stages, Native
  <2> QED BY <1>2, <1>4, <2>1, <2>2
<1>7. CASE BeforeSend
  <2>1. lane' = [Update(lane, ToSet(lane.active.prompted), "submitted")
                   EXCEPT !.active.stage = "binding"]
    BY <1>7 DEF BeforeSend
  <2>2. "submitted" \in States /\ "binding" \in Stages \ Native
    BY DEF States, Stages, Native
  <2> QED BY <1>2, <1>4, <2>1, <2>2
<1>8. CASE BeforeSendSaved
  <2> DEFINE U == Saved(lane, ToSet(lane.active.prompted))
  <2>1. lane' = [U EXCEPT !.active.stage = "sending"]
    BY <1>8 DEF BeforeSendSaved
  <2>2. U \in Lane
    BY <1>1, <1>2, BooksAre
  <2>3. /\ U.active = lane.active /\ U.queued = lane.queued
        /\ U.carried = lane.carried /\ U.closed = lane.closed /\ U.priority = lane.priority
    BY <1>1 DEF Saved, Lane
  <2> HIDE DEF U
  <2>4. "sending" \in Stages \ Native
    BY DEF Stages, Native
  <2> QED BY <1>2, <1>3, <2>1, <2>2, <2>3, <2>4
<1> QED BY <1>5, <1>6, <1>7, <1>8

\* Marking a turn keeps the order.
LEMMA MarkOrder ==
  ASSUME NEW L, L \in Lane, OrderInv(L), HasTurn(L), NEW t \in Turn, Marked(L, t)
  PROVE  OrderInv([L EXCEPT !.active = t])
<1> DEFINE M == [L EXCEPT !.active = t]
<1>1. Turned(L, t, M)
  BY TurnedIs
<1>2. M.priority = L.priority
  BY DEF Lane
<1> HIDE DEF M
<1>3. Alike(L, M)
  BY <1>1, <1>2, AlikeMarked
<1> QED BY <1>3, AlikeKeeps DEF M

\* ready() may flush.
LEMMA ReadyOrder == ASSUME Inv, OrderInv(lane), Ready PROVE OrderInv(lane)'
<1> DEFINE t == [lane.active EXCEPT !.stage = "running", !.ready = TRUE]
           M == [lane EXCEPT !.active = t]
<1>1. /\ Shape(lane) /\ EnvType /\ Env(lane) /\ lane \in Lane /\ TurnShape(lane)
      /\ QueueShape(lane) /\ HasTurn(lane) /\ lane.active.stage = "sent" /\ lane.active \in Turn
  BY LaneIs DEF Inv, Shape, Ready, AtStage, Stage
<1>2. lane' = Flush(M) /\ UNCHANGED providerVars /\ arrival' = arrival
  BY DEF Ready
<1>3. Marked(lane, t) /\ t \in Turn
  BY <1>1 DEF Turn, Marked, Native, Stages, TurnShape, QueueShape
<1> HIDE DEF t
<1>4. OrderInv(M)
  BY <1>1, <1>3, MarkOrder
<1>5. Shape(M)
  BY <1>1, <1>3, TurnedIs, MarkedKeeps
<1> HIDE DEF M
<1>6. OrderInv(Flush(M))
  BY <1>4, <1>5, FlushOrder DEF Shape
<1>7. OrderInv(lane')
  BY <1>2, <1>6
<1> QED BY <1>2, <1>7, OrderStill DEF providerVars

\* An interrupt leaves what the provider holds, or drops all of it.
LEMMA InterruptOrder ==
  ASSUME OrderInv(lane'), Shape(lane'), InterruptProvider \/ UNCHANGED providerVars,
         arrival' = arrival
  PROVE  OrderInv(lane)'
<1>1. CASE open' = FALSE /\ inbox' = <<>> /\ retained' = {} /\ context' = context
  BY <1>1, DropBooks DEF Shape
<1>2. CASE UNCHANGED <<inbox, context, retained, open>>
  BY <1>2, OrderStill
<1> QED BY <1>1, <1>2 DEF InterruptProvider, providerVars

\* The guardian's Stop.
LEMMA StopOrder == ASSUME Inv, OrderInv(lane), Stop PROVE OrderInv(lane)'
<1> DEFINE t == [lane.active EXCEPT !.interrupted = TRUE, !.stopped = TRUE]
           M == [lane EXCEPT !.active = t]
<1>1. /\ Shape(lane) /\ EnvType /\ Env(lane) /\ lane \in Lane /\ TurnShape(lane)
      /\ QueueShape(lane) /\ HasTurn(lane) /\ lane.active \in Turn
  BY LaneIs DEF Inv, Shape, Stop
<1>2. lane' = M /\ (InterruptProvider \/ UNCHANGED providerVars) /\ arrival' = arrival
  BY DEF Stop
<1>3. Marked(lane, t) /\ t \in Turn
  BY <1>1 DEF Turn, Marked, TurnShape, QueueShape
<1> HIDE DEF t
<1>4. OrderInv(M)
  BY <1>1, <1>3, MarkOrder
<1>5. Shape(M)
  BY <1>1, <1>3, TurnedIs, MarkedKeeps
<1> HIDE DEF M
<1>6. OrderInv(lane') /\ Shape(lane')
  BY <1>2, <1>4, <1>5
<1> QED BY <1>2, <1>6, InterruptOrder

\* close() asks no order of what it cancels.
LEMMA ShutOrder ==
  ASSUME NEW L, Shape(L), OrderInv(L)
  PROVE  OrderInv(CloseLane(L)) /\ Shape(CloseLane(L)) /\ CloseLane(L).closed
<1> DEFINE C == CloseLane(L)
<1>1. Shape(C) /\ C.closed
  BY CloseShape
<1>2. LineUp(C) /\ Rides(C) /\ Listed(C)
  BY <1>1 DEF OrderInv, LineUp, Rides, Listed
<1>3. C.priority = L.priority
  <2>1. L \in Lane
    BY DEF Shape
  <2> DEFINE D == [L EXCEPT !.closed = TRUE]
             W == ToSet(D.queued) \union ToSet(D.carried)
                    \union ({D.active.pending} \ {NoInput})
             K == [D EXCEPT !.active.sealed = TRUE, !.queued = <<>>, !.carried = <<>>]
  <2>2. C = IF HasTurn(L) THEN Update(K, W, "cancelled") ELSE D
    BY DEF CloseLane, Cancel
  <2>3. D.priority = L.priority /\ K.priority = L.priority /\ K.state = L.state
    BY <2>1 DEF Lane
  <2>4. Update(K, W, "cancelled").priority = K.priority
    <3>1. K = [L EXCEPT !.closed = TRUE, !.active.sealed = TRUE, !.queued = <<>>, !.carried = <<>>]
      BY <2>1 DEF Lane
    <3> QED BY <2>1, <3>1 DEF Update, Lane
  <2> QED BY <2>2, <2>3, <2>4
<1> HIDE DEF C
<1>4. Served(C)
  BY <1>1, <1>3 DEF Served, OrderInv
<1> QED BY <1>1, <1>2, <1>4 DEF OrderInv, C

\* And its action ends what the provider had.
LEMMA CloseOrder == ASSUME Inv, OrderInv(lane), Close PROVE OrderInv(lane)'
<1>1. OrderInv(CloseLane(lane)) /\ Shape(CloseLane(lane))
  BY ShutOrder DEF Inv
<1>2. OrderInv(lane') /\ Shape(lane')
  BY <1>1 DEF Close
<1>3. inbox' = <<>> /\ retained' = {} /\ context' = context /\ ~open' /\ arrival' = arrival
  BY DEF Close, ProviderCloses
<1> QED BY <1>2, <1>3, DropBooks DEF Shape
-----------------------------------------------------------------------------
\* Only statuses and writes change.
LEMMA SameStep ==
  ASSUME OrderInv(lane), lane'.priority = lane.priority, lane'.active = lane.active,
         lane'.queued = lane.queued, lane'.carried = lane.carried, lane'.closed = lane.closed,
         UNCHANGED <<inbox, context, retained, open, arrival>>
  PROVE  OrderInv(lane)'
<1>1. Alike(lane, lane')
  BY AlikeSame
<1> QED BY <1>1, AlikeStep

\* Of an open lane's dispatches on their way out, the input is the turn's last
\* steer and was not read.
LEMMA OutgoingIs ==
  ASSUME Inv, NEW i \in Inputs, lane.dispatch[i] \in {"saving", "steering"}, ~lane.closed
  PROVE  /\ HasTurn(lane) /\ i = lane.active.last /\ i \in ToSet(lane.active.steered)
         /\ i \notin ToSet(context) /\ OwnTurn(i)
<1>1. TurnShape(lane) /\ DispatchShape(lane) /\ ContextInv(lane)
  BY DEF Inv, Shape, Env
<1>2. HasTurn(lane) /\ lane.owner[i] = lane.active.id /\ i = lane.active.last
  BY <1>1 DEF DispatchShape
<1>3. i \notin ToSet(context)
  BY <1>1 DEF ContextInv
<1> QED BY <1>1, <1>2, <1>3, LaneAssumption DEF TurnShape, OwnTurn

\* An unread steer is put back.
LEMMA RequeueOrder ==
  ASSUME Inv, OrderInv(lane), NEW i \in Inputs, lane.dispatch[i] \in {"saving", "steering"},
         NEW L \in Lane, L.queued = lane.queued, L.carried = lane.carried,
         L.closed = lane.closed, L.priority = lane.priority, HasTurn(L) <=> HasTurn(lane),
         lane.closed \/ AlikeTurn(lane, L),
         NEW d \in Dispatches, lane' = [Requeue(L, i) EXCEPT !.dispatch[i] = d],
         UNCHANGED providerVars, arrival' = arrival
  PROVE  OrderInv(lane)'
<1>1. Requeued(L, i, d, lane')
  BY RequeueIs DEF RequeuedAs
<1>2. lane'.priority = L.priority
  BY DEF Requeue, Update, Lane
<1>3. /\ lane'.queued = <<i>> \o lane.queued /\ lane'.carried = lane.carried
      /\ lane'.closed = lane.closed /\ lane'.priority = lane.priority /\ lane'.active = L.active
  BY <1>1, <1>2 DEF Requeued
<1>4. CASE lane.closed
  <2>1. Alike(lane, lane')
    BY <1>3, <1>4 DEF Alike
  <2> QED BY <2>1, AlikeStep DEF providerVars
<1>5. CASE ~lane.closed
  <2>1. /\ HasTurn(lane) /\ i = lane.active.last /\ i \in ToSet(lane.active.steered)
        /\ i \notin ToSet(context)
    BY <1>5, OutgoingIs
  <2>2. HasTurn(lane') /\ AlikeTurn(lane, lane')
    BY <1>3, <1>5, <2>1 DEF HasTurn, AlikeTurn, First, InNative, InEarly
  <2>3. lane \in Lane
    BY DEF Inv, Shape
  <2> DEFINE M == lane'
  <2>4. /\ M.priority = lane.priority /\ M.closed = lane.closed /\ M.queued = <<i>> \o lane.queued
        /\ M.carried = lane.carried /\ HasTurn(M) /\ AlikeTurn(lane, M)
    BY <1>3, <2>2
  <2>5. OrderInv(M)
    <3> HIDE DEF M
    <3> QED BY <1>5, <2>1, <2>3, <2>4, PutBackOrder
  <2> QED BY <2>5, OrderStill DEF providerVars
<1> QED BY <1>4, <1>5

\* The steps of a dispatch but the delivery.
LEMMA DispatchOrder ==
  ASSUME Inv, OrderInv(lane), NEW i \in Inputs,
         \/ DispatchSaved(i) \/ DispatchRequeued(i) \/ SteerDeferred(i)
         \/ SteerAccepted(i) \/ DispatchFails(i)
  PROVE  OrderInv(lane)'
<1>1. /\ lane \in Lane /\ DispatchShape(lane) /\ UNCHANGED providerVars /\ arrival' = arrival
  BY DEF Inv, Shape, DispatchSaved, DispatchRequeued, SteerDeferred, SteerAccepted, DispatchFails
<1>2. ASSUME NEW L \in Lane, L.priority = lane.priority, L.active = lane.active,
             L.queued = lane.queued, L.carried = lane.carried, L.closed = lane.closed,
             NEW d \in Dispatches, lane' = [L EXCEPT !.dispatch[i] = d]
      PROVE  OrderInv(lane)'
  <2>1. /\ lane'.priority = L.priority /\ lane'.active = L.active
        /\ lane'.queued = L.queued /\ lane'.carried = L.carried /\ lane'.closed = L.closed
    BY <1>2 DEF Lane
  <2> QED BY <1>1, <1>2, <2>1, SameStep DEF providerVars
<1>3. {"none", "steering", "requeued", "deferred"} \subseteq Dispatches
  BY DEF Dispatches
<1>4. CASE DispatchSaved(i)
  <2> DEFINE L == Saved(lane, {i})
  <2>1. /\ L \in Lane /\ L.active = lane.active /\ L.queued = lane.queued
        /\ L.carried = lane.carried /\ L.closed = lane.closed
    BY <1>1, BooksAre
  <2>2. L.priority = lane.priority
    BY <1>1 DEF Saved, Lane
  <2>3. /\ lane.dispatch[i] = "saving"
        /\ \/ lane' = [L EXCEPT !.dispatch[i] = "steering"] \/ lane' = [L EXCEPT !.dispatch[i] = "none"]
           \/ lane' = [Requeue(L, i) EXCEPT !.dispatch[i] = "requeued"]
    BY <1>4 DEF DispatchSaved, Done
  <2> HIDE DEF L
  <2>4. CASE lane' = [Requeue(L, i) EXCEPT !.dispatch[i] = "requeued"]
    <3>1. AlikeTurn(lane, L) /\ (HasTurn(L) <=> HasTurn(lane))
      BY <2>1 DEF AlikeTurn, HasTurn, First, InNative, InEarly
    <3> QED BY <1>1, <1>3, <2>1, <2>2, <2>3, <2>4, <3>1, RequeueOrder
  <2> QED BY <1>2, <1>3, <2>1, <2>2, <2>3, <2>4
<1>5. CASE DispatchRequeued(i)
  <2> DEFINE D == Done(lane, i)
  <2>1. D \in Lane /\ D.active = lane.active /\ D.closed = lane.closed /\ D = [lane EXCEPT !.dispatch[i] = "none"]
    BY <1>1, DoneIs DEF Done, Dispatches
  <2>2. lane.dispatch[i] \in {"requeued", "deferred"} /\ (lane' = D \/ lane' = StartNext(D))
    BY <1>5 DEF DispatchRequeued
  <2> HIDE DEF D
  <2>3. HasTurn(D) \/ D.closed
    BY <1>1, <2>1, <2>2 DEF DispatchShape, HasTurn
  <2>4. lane' = D
    BY <2>1, <2>2, <2>3, StartNextIs
  <2> QED BY <1>1, <1>2, <1>3, <2>1, <2>4
<1>6. CASE SteerDeferred(i)
  <2>1. CASE lane.state[i] \in {"consumed", "cancelled", "queued"}
    <3>1. lane' = [lane EXCEPT !.dispatch[i] = "none"]
      BY <1>6, <2>1 DEF SteerDeferred, Done
    <3> QED BY <1>1, <1>2, <1>3, <3>1
  <2>2. CASE lane.state[i] \notin {"consumed", "cancelled", "queued"}
    <3> DEFINE L == SealOwn(lane, i)
    <3>1. lane.dispatch[i] = "steering" /\ lane' = [Requeue(L, i) EXCEPT !.dispatch[i] = "deferred"]
      BY <1>6, <2>2 DEF SteerDeferred
    <3>2. /\ L \in Lane /\ L.queued = lane.queued /\ L.carried = lane.carried
          /\ L.closed = lane.closed /\ L.priority = lane.priority
          /\ HasTurn(L) <=> HasTurn(lane)
          /\ OwnTurn(i) => AlikeTurn(lane, L)
      <4>1. CASE OwnTurn(i)
        <5>1. L.priority = lane.priority
          BY <1>1, <4>1 DEF SealOwn, Lane
        <5>2. /\ L \in Lane /\ HasTurn(L)
              /\ L.queued = lane.queued /\ L.carried = lane.carried /\ L.closed = lane.closed
              /\ L.active.first = lane.active.first
              /\ L.active.prompted = lane.active.prompted /\ L.active.steered = lane.active.steered
              /\ L.active.last = lane.active.last /\ L.active.sealed
              /\ L.active.stage = lane.active.stage
          BY <1>1, <4>1, SealOwnIs
        <5> HIDE DEF L
        <5> QED BY <4>1, <5>1, <5>2 DEF AlikeTurn, First, InNative, InEarly, OwnTurn
      <4>2. CASE ~OwnTurn(i)
        BY <1>1, <4>2 DEF SealOwn
      <4> QED BY <4>1, <4>2
    <3>3. lane.closed \/ OwnTurn(i)
      BY <3>1, OutgoingIs
    <3> HIDE DEF L
    <3> QED BY <1>1, <1>3, <3>1, <3>2, <3>3, RequeueOrder
  <2> QED BY <2>1, <2>2
<1>7. CASE SteerAccepted(i)
  <2>1. CASE lane.state[i] \in {"consumed", "cancelled", "queued"}
    <3>1. lane' = [lane EXCEPT !.dispatch[i] = "none"]
      BY <1>7, <2>1 DEF SteerAccepted, Done
    <3> QED BY <1>1, <1>2, <1>3, <3>1
  <2>2. CASE lane.state[i] \notin {"consumed", "cancelled", "queued"}
    <3> DEFINE U == Update(lane, {i}, "accepted")
    <3>1. Updated(lane, {i}, "accepted", U)
      BY <1>1, UpdateIs DEF States
    <3>2. lane' = [U EXCEPT !.dispatch[i] = "none"]
      BY <1>7, <2>2 DEF SteerAccepted, Done
    <3> HIDE DEF U
    <3>3. /\ U \in Lane /\ U.active = lane.active /\ U.queued = lane.queued
          /\ U.carried = lane.carried /\ U.closed = lane.closed /\ U.priority = lane.priority
      BY <3>1 DEF Updated
    <3> QED BY <1>2, <1>3, <3>2, <3>3
  <2> QED BY <2>1, <2>2
<1>8. CASE DispatchFails(i)
  <2> DEFINE B == IF CallFails(i) THEN lane ELSE Broken(lane, {i})
             L == Done(B, i)
  <2>1. /\ B \in Lane /\ B.active = lane.active /\ B.queued = lane.queued
        /\ B.carried = lane.carried /\ B.closed = lane.closed
    BY <1>1, BooksAre
  <2>2. B.priority = lane.priority
    BY <1>1 DEF Broken, Lane
  <2>3. lane' = IF lane.state[i] \in {"consumed", "cancelled"} THEN L
                ELSE Update(L, {i}, "unknown")
    BY <1>8 DEF DispatchFails
  <2> HIDE DEF B
  <2>4. L = [B EXCEPT !.dispatch[i] = "none"]
    BY DEF Done
  <2>5. CASE lane' = L
    BY <1>2, <1>3, <2>1, <2>2, <2>4, <2>5
  <2>6. CASE lane' = Update(L, {i}, "unknown")
    <3>1. /\ L \in Lane /\ L.active = B.active /\ L.queued = B.queued
          /\ L.carried = B.carried /\ L.closed = B.closed
      BY <1>3, <2>1, <2>4, DoneIs
    <3>2. L.priority = B.priority
      BY <2>1, <2>4 DEF Lane
    <3> HIDE DEF L
    <3>3. Updated(L, {i}, "unknown", lane')
      BY <2>6, <3>1, UpdateIs DEF States, Settled
    <3>4. /\ lane'.priority = lane.priority /\ lane'.active = lane.active
          /\ lane'.queued = lane.queued /\ lane'.carried = lane.carried /\ lane'.closed = lane.closed
      BY <2>1, <2>2, <3>1, <3>2, <3>3 DEF Updated
    <3> QED BY <1>1, <3>4, SameStep DEF providerVars
  <2> QED BY <2>3, <2>5, <2>6
<1> QED BY <1>4, <1>5, <1>6, <1>7, <1>8
-----------------------------------------------------------------------------
\* The steer the turn waited for was read.
LEMMA PendingReadOrder ==
  ASSUME NEW L \in Lane, HasTurn(L), OrderInv(L), NEW i, L.active.pending = i, i \in ToSet(context),
         NEW M, M.priority = L.priority, M.queued = L.queued, M.carried = L.carried,
         M.closed = L.closed, HasTurn(M), First(M) = First(L),
         M.active.prompted = L.active.prompted, M.active.steered = L.active.steered,
         M.active.last = L.active.last, M.active.sealed = L.active.sealed,
         M.active.stage = L.active.stage
  PROVE  OrderInv(M)
<1>1. LineUp(L) /\ Served(L) /\ Rides(L) /\ Listed(L)
  BY DEF OrderInv
<1>2. /\ Ridden(M) = Ridden(L) /\ Live(M) = Live(L)
      /\ InNative(M) <=> InNative(L)
      /\ InEarly(M) <=> InEarly(L)
  BY DEF Live, Ridden, InNative, InEarly
<1>3. LineUp(M)
  BY <1>1, <1>2 DEF LineUp
<1>4. Served(M)
  BY <1>1, <1>2 DEF Served
<1>5. Rides(M)
  <2>1. ASSUME ~L.closed, NEW j \in ToSet(L.active.steered)
        PROVE  j \in ToSet(context) \/ (j = L.active.last /\ L.active.sealed)
    BY <1>1, <2>1 DEF Rides
  <2> QED BY <1>1, <1>2, <2>1 DEF Rides
<1>6. Listed(M)
  BY <1>1, <1>2 DEF Listed
<1> QED BY <1>3, <1>4, <1>5, <1>6 DEF OrderInv

\* An event is taken.
LEMMA TakeOrder == ASSUME Inv, OrderInv(lane), TakeEvent PROVE OrderInv(lane)'
<1>1. /\ Shape(lane) /\ EnvType /\ NativeInv(lane) /\ lane \in Lane
      /\ TurnShape(lane) /\ QueueShape(lane)
  BY DEF Inv, Env, Shape
<1>2. /\ stream # <<>> /\ HasTurn(lane) /\ UNCHANGED <<inbox, context, retained, open, arrival>>
  BY DEF TakeEvent, Current
<1>3. /\ InNative(lane) /\ ~lane.closed /\ lane.active \in Turn /\ stream \in Seq(Event)
  BY <1>1, <1>2, LaneIs DEF NativeInv, EnvType
<1>4. CASE Head(stream).kind = "terminal"
  <2> DEFINE t == [lane.active EXCEPT !.sealed = TRUE]
             M == [lane EXCEPT !.active = t]
  <2>1. lane' = M
    BY <1>4 DEF TakeEvent
  <2>2. Marked(lane, t) /\ t \in Turn
    BY <1>1, <1>2, <1>3 DEF Turn, Marked, TurnShape, QueueShape
  <2> HIDE DEF t
  <2>3. OrderInv(M)
    BY <1>1, <1>2, <2>2, MarkOrder
  <2> HIDE DEF M
  <2>4. OrderInv(lane')
    BY <2>1, <2>3
  <2> QED BY <1>2, <2>4, OrderStill
<1>5. CASE Head(stream).kind # "terminal"
  <2> DEFINE s == stream
             ev == Head(stream)
  <2>1. s \in Seq(Event) /\ s # <<>>
    BY <1>2, <1>3
  <2> HIDE DEF s
  <2>2. Head(s) \in Event
    BY <2>1, TailIs
  <2>3. PICK kind \in {"consumed", "queued"}, i \in Inputs : ev = Status(kind, i)
    BY <1>5, <2>2 DEF Event, Terminal, s
  <2>4. lane' = Update(lane, {ev.input}, ev.kind)
    BY <1>5 DEF TakeEvent
  <2> HIDE DEF ev
  <2>5. lane' = Update(lane, {i}, kind)
    BY <2>3, <2>4 DEF Status
  <2>6. {i} \in SUBSET Inputs /\ kind \in States
    BY DEF States, Settled
  <2>7. Updated(lane, {i}, kind, lane')
    BY <1>1, <2>5, <2>6, UpdateIs
  <2>8. /\ lane'.priority = lane.priority /\ lane'.active = lane.active
        /\ lane'.queued = lane.queued /\ lane'.carried = lane.carried /\ lane'.closed = lane.closed
    BY <2>7 DEF Updated
  <2> QED BY <1>2, <2>8, SameStep
<1> QED BY <1>4, <1>5

\* And observed.
LEMMA ObserveOrder == ASSUME Inv, OrderInv(lane), ObserveSaved PROVE OrderInv(lane)'
<1>1. /\ Shape(lane) /\ EnvType /\ Env(lane) /\ NativeInv(lane) /\ EventInv(lane) /\ TurnShape(lane)
      /\ lane \in Lane
  BY DEF Inv, Env, Shape
<1>2. /\ loop.pc = "observing" /\ UNCHANGED <<inbox, context, retained, open, arrival>>
  BY DEF ObserveSaved, providerVars
<1>3. /\ InNative(lane) /\ HasTurn(lane) /\ loop.turn = lane.active.id
  BY <1>1, <1>2, ObservingIs
<1>4. PICK kind \in {"consumed", "queued"}, i \in Inputs :
        /\ loop.event = Status(kind, i) /\ loop.event.kind = kind /\ loop.event.input = i
        /\ InFlight(kind, i)
  BY <1>1, <1>2, ObservingIs
<1>5. lane' = Observed(lane, i, kind)
  BY <1>3, <1>4 DEF ObserveSaved
<1>6. /\ lane.active \in Turn /\ lane.active.pending \in Inputs \union {NoInput}
      /\ i # NoInput /\ lane.queued \in Seq(Inputs)
      /\ ToSet(lane.active.prompted) \subseteq Inputs
  BY <1>1, <1>3, LaneIs, EnvIs, LaneAssumption
<1>7. CASE kind = "queued"
  <2> DEFINE t == SealedTurn(i)
             q == WithHead(i)
  <2>1. lane' = [lane EXCEPT !.active = t, !.queued = q]
    <3> DEFINE seen == [lane EXCEPT
                 !.active = [lane.active EXCEPT !.sealed = TRUE,
                                                !.pending = IF @ = i THEN NoInput ELSE @],
                 !.queued = IF i \in ToSet(@) THEN @ ELSE <<i>> \o @]
    <3>1. lane' = seen
      BY <1>5, <1>7 DEF Observed
    <3>2. seen = [lane EXCEPT !.active = t, !.queued = q]
      BY DEF SealedTurn, WithHead
    <3> QED BY <3>1, <3>2
  <2>2. /\ t \in Turn /\ t.first = lane.active.first
        /\ t.prompted = lane.active.prompted /\ t.steered = lane.active.steered
        /\ t.last = lane.active.last /\ t.sealed /\ t.stage = lane.active.stage
    BY <1>6 DEF Turn, SealedTurn
  <2> HIDE DEF t, q
  <2>3. /\ lane'.active = t /\ lane'.queued = q /\ lane'.carried = lane.carried
        /\ lane'.closed = lane.closed /\ lane'.priority = lane.priority
    BY <1>1, <2>1 DEF Lane
  <2>4. HasTurn(lane')
    BY <2>2, <2>3, NoTurnIsNone DEF HasTurn
  <2>5. AlikeTurn(lane, lane')
    BY <1>3, <2>2, <2>3, <2>4 DEF AlikeTurn, First, InNative, InEarly
  <2>6. CASE lane.closed
    <3>1. Alike(lane, lane')
      BY <2>3, <2>6 DEF Alike
    <3> QED BY <1>2, <3>1, AlikeStep
  <2>7. CASE ~lane.closed
    <3>1. i = lane.active.last /\ i \notin ToSet(context) /\ i \notin ToSet(lane.queued)
      BY <1>1, <1>4, <1>7, <2>7 DEF EventInv
    <3>2. i \in ToSet(lane.active.steered)
      BY <1>1, <1>3, <1>6, <3>1 DEF TurnShape
    <3>3. q = <<i>> \o lane.queued
      BY <3>1 DEF q, WithHead
    <3> DEFINE M == lane'
    <3>4. /\ M.priority = lane.priority /\ M.closed = lane.closed /\ M.queued = <<i>> \o lane.queued
          /\ M.carried = lane.carried /\ HasTurn(M) /\ AlikeTurn(lane, M)
      BY <2>3, <2>4, <2>5, <3>3
    <3>5. OrderInv(M)
      <4> HIDE DEF M
      <4> QED BY <1>1, <1>3, <2>7, <3>1, <3>2, <3>4, PutBackOrder
    <3> QED BY <1>2, <3>5, OrderStill
  <2> QED BY <2>6, <2>7
<1>8. CASE kind = "consumed" /\ lane.active.pending = i
  <2> DEFINE t == [lane.active EXCEPT !.pending = NoInput]
             M == [lane EXCEPT !.active = t]
  <2>1. i # First(lane)
    BY <1>1, <1>3, <1>6, <1>8 DEF TurnShape
  <2>2. lane' = Flush(M)
    <3>1. M = [lane EXCEPT !.active.pending = NoInput]
      BY <1>1 DEF Lane
    <3> QED BY <1>5, <1>8, <2>1, <3>1 DEF Observed
  <2>3. /\ t \in Turn /\ t.first = lane.active.first /\ t.id = lane.active.id
        /\ t.prompted = lane.active.prompted /\ t.steered = lane.active.steered
        /\ t.last = lane.active.last /\ t.sealed = lane.active.sealed
        /\ t.stage = lane.active.stage /\ t.ready = lane.active.ready
        /\ t.superseded = lane.active.superseded /\ t.interrupted = lane.active.interrupted
        /\ t.stopped = lane.active.stopped /\ t.pending = NoInput
    BY <1>6 DEF Turn
  <2> HIDE DEF t
  <2>4. Turned(lane, t, M)
    BY <1>1, <1>3, <2>3, TurnedIs
  <2>5. M.priority = lane.priority
    BY <1>1 DEF Lane
  <2> HIDE DEF M
  <2>6. /\ M \in Lane /\ HasTurn(M) /\ M.active = t
        /\ M.queued = lane.queued /\ M.carried = lane.carried /\ M.closed = lane.closed
        /\ M.turns = lane.turns
    BY <2>4 DEF Turned
  <2>7. TurnShape(M)
    BY <1>1, <1>3, <2>3, <2>6 DEF TurnShape, First
  <2>8. i \in ToSet(context)
    BY <1>1, <1>4, <1>8 DEF EventInv
  <2>9. OrderInv(M)
    <3>1. First(M) = First(lane)
      BY <2>3, <2>6 DEF First
    <3>2. /\ M.active.prompted = lane.active.prompted /\ M.active.steered = lane.active.steered
          /\ M.active.last = lane.active.last /\ M.active.sealed = lane.active.sealed
          /\ M.active.stage = lane.active.stage
      BY <2>3, <2>6
    <3> QED BY <1>1, <1>3, <1>8, <2>5, <2>6, <2>8, <3>1, <3>2, PendingReadOrder
  <2>10. OrderInv(Flush(M))
    BY <2>6, <2>7, <2>9, FlushOrder
  <2>11. OrderInv(lane')
    BY <2>2, <2>10
  <2> QED BY <1>2, <2>11, OrderStill
<1>9. CASE kind = "consumed" /\ lane.active.pending # i
  <2>1. lane' = lane \/ lane' = Update(lane, Bound(lane), "consumed")
    BY <1>5, <1>9 DEF Observed
  <2>2. CASE lane' = lane
    BY <1>2, <2>2, SameStep
  <2>3. CASE lane' = Update(lane, Bound(lane), "consumed")
    <3>1. Bound(lane) \in SUBSET Inputs /\ "consumed" \in States
      BY <1>6 DEF Bound, States, Settled
    <3>2. Updated(lane, Bound(lane), "consumed", lane')
      BY <1>1, <2>3, <3>1, UpdateIs
    <3>3. /\ lane'.priority = lane.priority /\ lane'.active = lane.active
          /\ lane'.queued = lane.queued /\ lane'.carried = lane.carried /\ lane'.closed = lane.closed
      BY <3>2 DEF Updated
    <3> QED BY <1>2, <3>3, SameStep
  <2> QED BY <2>1, <2>2, <2>3
<1> QED BY <1>4, <1>7, <1>8, <1>9
-----------------------------------------------------------------------------
\* When the turn ends with a message kept for the next, what the turn hands on
\* without priority was read: none of it is left.
LEMMA NextWereRead ==
  ASSUME Inv, OrderInv(lane), HasTurn(lane), ~lane.closed, InNative(lane), ~open,
         \A k, i : ~InFlight(k, i), lane.queued # <<>>, Head(lane.queued) \in retained,
         NEW i \in ToSet(Remaining(lane))
  PROVE  lane.priority[i] # "next"
<1> SUFFICES ASSUME lane.priority[i] = "next" PROVE FALSE
  OBVIOUS
<1> DEFINE q == lane.queued
           h == Head(q)
<1>1. /\ lane \in Lane /\ Rides(lane) /\ RetainedInv(lane) /\ ContextInv(lane)
      /\ q \in Seq(Inputs) /\ q # <<>>
  BY LaneIs DEF Inv, Env, Shape, OrderInv
<1>2. i \in Ridden(lane) /\ Unread(lane, i)
  BY <1>1, RemainingIs DEF Ridden
<1>3. i \in Live(lane)
  BY <1>2 DEF Live
<1>4. h \in ToSet(q)
  <2> HIDE DEF q
  <2>1. ToSet(q) = {Head(q)} \union ToSet(Tail(q))
    BY <1>1, TailIs
  <2> QED BY <2>1
<1>5. h \in retained \intersect Live(lane)
  BY <1>4 DEF Live
<1>6. h = lane.active.last
  BY <1>1, <1>5 DEF RetainedInv
<1>7. i # lane.active.last
  BY <1>2, <1>4, <1>6 DEF Unread
<1>8. i \in ToSet(context)
  <2>1. CASE i \in ToSet(lane.active.prompted)
    BY <1>1, <1>5, <2>1 DEF Rides
  <2>2. CASE i \in ToSet(lane.active.steered)
    BY <1>1, <1>7, <2>2 DEF Rides
  <2> QED BY <1>2, <2>1, <2>2 DEF Ridden
<1>9. lane.state[i] = "consumed"
  BY <1>1, <1>3, <1>8 DEF ContextInv
<1> QED BY <1>2, <1>9 DEF Unread

\* The terminal event ends the turn.
LEMMA LoopFinishesOrder == ASSUME Inv, OrderInv(lane), LoopFinishes PROVE OrderInv(lane)'
<1>1. /\ Shape(lane) /\ EnvType /\ Env(lane) /\ NativeInv(lane) /\ DispatchShape(lane)
      /\ loop.pc = "sealing" /\ loop # Idle
      /\ UNCHANGED <<inbox, context, retained, open, arrival>>
  BY DEF Inv, Shape, Env, LoopFinishes, Idle, providerVars
<1>2. /\ HasTurn(lane) /\ lane.active.id = loop.turn /\ InNative(lane)
      /\ ~open /\ stream = <<>>
  BY <1>1 DEF NativeInv, InNative
<1>3. /\ lane.active.last # NoInput => lane.dispatch[lane.active.last] = "none"
      /\ lane' = Finish(lane)
  BY <1>2 DEF LoopFinishes
<1>4. lane.closed \/ Quiet(lane)
  BY <1>1, <1>3, LaneAssumption DEF DispatchShape, Quiet
<1>5. \A k, i : ~InFlight(k, i)
  BY <1>1, <1>2, NoneIs DEF InFlight
<1>6. ~lane.closed /\ lane.queued # <<>> /\ Head(lane.queued) \in retained
      => \A i \in ToSet(Remaining(lane)) : lane.priority[i] # "next"
  BY <1>2, <1>5, NextWereRead
<1>7. OrderInv(Finish(lane))
  BY <1>1, <1>2, <1>4, <1>6, FinishOrder
<1>8. OrderInv(lane')
  BY <1>3, <1>7
<1> QED BY <1>1, <1>8, OrderStill

\* The loop ends.
LEMMA LoopEndsOrder == ASSUME Inv, OrderInv(lane), LoopEnds PROVE OrderInv(lane)'
<1> DEFINE B == IF loop.pc = "observing" THEN Broken(lane, {loop.event.input}) ELSE lane
           L == CloseLane(B)
<1>1. /\ Shape(lane) /\ EnvType /\ Env(lane) /\ lane \in Lane
  BY DEF Inv, Shape
<1>2. /\ lane' = IF Current THEN Finish(L) ELSE L
      /\ open' = FALSE /\ inbox' = <<>> /\ retained' = {} /\ context' = context
      /\ arrival' = arrival
  BY DEF LoopEnds, ProviderCloses
<1>3. Shape(B) /\ OrderInv(B) /\ B.active = lane.active
  <2>1. CASE loop.pc = "observing"
    <3>1. loop.event.input \in Inputs
      BY <1>1, <2>1 DEF EnvType, Loops, Idle, Event, Terminal, Status
    <3>2. {loop.event.input} \in SUBSET Inputs
      BY <3>1
    <3>3. Shape(B) /\ B.active = lane.active
      BY <2>1, <3>1, BrokenInv
    <3>4. OrderInv(Broken(lane, {loop.event.input}))
      BY <1>1, <3>2, BrokenOrder
    <3> QED BY <2>1, <3>3, <3>4
  <2>2. CASE loop.pc # "observing"
    BY <1>1, <2>2
  <2> QED BY <2>1, <2>2
<1> HIDE DEF B
<1>4. Shape(L) /\ L.closed /\ OrderInv(L)
  BY <1>3, ShutOrder
<1>5. Current => HasTurn(L)
  <2>1. Current => HasTurn(B)
    BY <1>3 DEF Current, HasTurn
  <2> QED BY <1>3, <2>1, CloseShape
<1> HIDE DEF L
<1>6. OrderInv(lane') /\ Shape(lane')
  <2>1. CASE Current
    <3>1. OrderInv(Finish(L)) /\ Shape(Finish(L))
      BY <1>4, <1>5, <2>1, FinishOrder, FinishShape
    <3> QED BY <1>2, <2>1, <3>1
  <2>2. CASE ~Current
    BY <1>2, <1>4, <2>2
  <2> QED BY <2>1, <2>2
<1> QED BY <1>2, <1>6, DropBooks DEF Shape
-----------------------------------------------------------------------------
\* The messages of the box c is followed by, each in order and after c and the
\* ones before it.
Orderly(p, c, box) ==
  /\ InOrder(p, c)
  /\ \A k \in 1..Len(box) : /\ InOrder(p, box[k].parts)
                            /\ Before(p, ToSet(c), ToSet(box[k].parts))
  /\ \A k, m \in 1..Len(box) : k < m => Before(p, ToSet(box[k].parts), ToSet(box[m].parts))

\* A step of the provider's books.
LEMMA BooksOrder ==
  ASSUME ~lane.closed, LineUp(lane), lane'.priority = lane.priority, lane'.closed = lane.closed,
         lane'.queued = lane.queued, lane'.carried = lane.carried,
         HasTurn(lane') <=> HasTurn(lane),
         HasTurn(lane) => /\ lane'.active.prompted = lane.active.prompted
                          /\ lane'.active.steered = lane.active.steered,
         arrival' = arrival, Orderly(lane.priority, context', inbox'),
         Before(lane.priority, Handed', Live(lane) \ Handed'),
         Rides(lane)', Live(lane) \union Handed' \subseteq ToSet(arrival)
  PROVE  OrderInv(lane)'
<1>1. \A i, j : Arrived(i, j)' <=> Arrived(i, j)
  BY DEF Arrived
<1>2. Ridden(lane)' = Ridden(lane) /\ Live(lane)' = Live(lane) /\ (HasTurn(lane)' <=> HasTurn(lane))
  BY DEF Ridden, Live, HasTurn
<1>3. LineUp(lane)'
  BY <1>1, <1>2 DEF LineUp, InOrder, Before, Ranks
<1>4. Served(lane)'
  <2>1. InOrder(lane.priority, context)'
    BY <1>1 DEF Orderly, InOrder, Ranks
  <2>2. (Served(lane)!2)'
    BY <1>1 DEF Orderly, InOrder, Before, Ranks, Parts
  <2>3. (Served(lane)!3)'
    BY <1>1 DEF Orderly, Before, Ranks, Parts
  <2>4. (~lane.closed => Before(lane.priority, Handed, Live(lane) \ Handed))'
    BY <1>1, <1>2 DEF Before, Ranks
  <2> QED BY <2>1, <2>2, <2>3, <2>4 DEF Served
<1>5. Listed(lane)'
  BY <1>2 DEF Listed, Handed
<1> QED BY <1>3, <1>4, <1>5 DEF OrderInv

\* The provider reads its oldest message, which comes before all others.
LEMMA ReadsOrder == ASSUME Inv, OrderInv(lane), ProviderReads PROVE OrderInv(lane)'
<1> DEFINE p == lane.priority
           b == inbox
           c == context
           h == Head(b)
           P == ToSet(h.parts)
           u == Tail(b)
           d == c \o h.parts
<1>1. /\ Shape(lane) /\ EnvType /\ NativeInv(lane)
      /\ LineUp(lane) /\ Served(lane) /\ Rides(lane) /\ Listed(lane)
  BY DEF Inv, Env, OrderInv
<1>2. /\ open /\ b # <<>> /\ context' = d /\ inbox' = u
      /\ lane' = lane /\ retained' = retained /\ open' = open /\ arrival' = arrival
  BY DEF ProviderReads
<1>3. InNative(lane) /\ ~lane.closed /\ ~InEarly(lane)
  BY <1>1, <1>2 DEF NativeInv, InNative, InEarly, Native, Early
<1>4. b \in Seq(Message) /\ c \in Seq(Inputs)
  BY <1>1 DEF EnvType
<1> HIDE DEF b, c
<1>5. /\ h \in Message /\ u \in Seq(Message) /\ Len(u) = Len(b) - 1 /\ Len(b) \in Nat \ {0}
      /\ h = b[1] /\ \A k \in 1..Len(u) : u[k] = b[k + 1]
  BY <1>2, <1>4, TailIs
<1>6. h.parts \in Seq(Inputs)
  BY <1>5 DEF Message
<1>7. /\ 1 \in 1..Len(b) /\ \A k \in 1..Len(u) : k + 1 \in 1..Len(b) /\ 1 < k + 1
      /\ \A k, m \in 1..Len(u) : k < m => k + 1 < m + 1
      /\ \A k \in 1..Len(b) : k = 1 \/ (k - 1 \in 1..Len(u) /\ (k - 1) + 1 = k)
  BY <1>5
<1> HIDE DEF h, u, d, p
<1>8. ToSet(d) = ToSet(c) \union P
  BY <1>4, <1>6, JoinIs DEF d
<1>9. /\ InOrder(p, c)
      /\ \A k \in 1..Len(b) : InOrder(p, b[k].parts) /\ Before(p, ToSet(c), ToSet(b[k].parts))
      /\ \A k, m \in 1..Len(b) : k < m => Before(p, ToSet(b[k].parts), ToSet(b[m].parts))
  BY <1>1 DEF Served, Parts, p, b, c
<1>10. Orderly(p, d, u)
  <2>1. InOrder(p, d)
    BY <1>4, <1>5, <1>6, <1>7, <1>9, OrderJoin DEF d
  <2>2. ASSUME NEW k \in 1..Len(u)
        PROVE  InOrder(p, u[k].parts) /\ Before(p, ToSet(d), ToSet(u[k].parts))
    <3>1. u[k] = b[k + 1] /\ k + 1 \in 1..Len(b) /\ 1 < k + 1 /\ 1 \in 1..Len(b) /\ h = b[1]
      BY <1>5, <1>7
    <3>2. Before(p, ToSet(c), ToSet(u[k].parts)) /\ Before(p, P, ToSet(u[k].parts))
      BY <1>9, <3>1
    <3>3. Before(p, ToSet(d), ToSet(u[k].parts))
      BY <1>8, <3>2 DEF Before
    <3> QED BY <1>9, <3>1, <3>3
  <2>3. ASSUME NEW k \in 1..Len(u), NEW m \in 1..Len(u), k < m
        PROVE  Before(p, ToSet(u[k].parts), ToSet(u[m].parts))
    <3>1. /\ u[k] = b[k + 1] /\ k + 1 \in 1..Len(b)
          /\ u[m] = b[m + 1] /\ m + 1 \in 1..Len(b) /\ k + 1 < m + 1
      BY <1>5, <1>7, <2>3
    <3> QED BY <1>9, <3>1
  <2> QED BY <2>1, <2>2, <2>3 DEF Orderly
<1>11. Handed' = Handed
  <2>1. Handed = ToSet(c) \union UNION {ToSet(b[k].parts) : k \in 1..Len(b)}
    BY DEF Handed, HeldNow, Parts, b, c
  <2>2. Handed' = ToSet(d) \union UNION {ToSet(u[k].parts) : k \in 1..Len(u)}
    BY <1>2 DEF Handed, HeldNow, Parts
  <2>3. UNION {ToSet(b[k].parts) : k \in 1..Len(b)}
          = P \union UNION {ToSet(u[k].parts) : k \in 1..Len(u)}
    <3>1. ASSUME NEW k \in 1..Len(b)
          PROVE  ToSet(b[k].parts) \subseteq P \union UNION {ToSet(u[m].parts) : m \in 1..Len(u)}
      <4>1. CASE k = 1
        BY <1>5, <4>1
      <4>2. CASE k # 1
        <5>1. k - 1 \in 1..Len(u) /\ u[k - 1] = b[k]
          BY <1>5, <1>7, <4>2
        <5> QED BY <5>1
      <4> QED BY <4>1, <4>2
    <3>2. P \subseteq UNION {ToSet(b[k].parts) : k \in 1..Len(b)}
      BY <1>5, <1>7
    <3>3. ASSUME NEW k \in 1..Len(u)
          PROVE  ToSet(u[k].parts) \subseteq UNION {ToSet(b[m].parts) : m \in 1..Len(b)}
      <4>1. k + 1 \in 1..Len(b) /\ u[k] = b[k + 1]
        BY <1>5, <1>7
      <4> QED BY <4>1
    <3> QED BY <3>1, <3>2, <3>3
  <2> QED BY <1>8, <2>1, <2>2, <2>3
<1>12. Rides(lane)'
  <2>1. ToSet(context) \subseteq ToSet(d)
    BY <1>8 DEF c
  <2>2. ASSUME NEW i \in ToSet(lane.active.steered)
        PROVE  i \in ToSet(d) \/ (i = lane.active.last /\ (lane.active.pending = i \/ lane.active.sealed))
    BY <1>1, <1>3, <2>1 DEF Rides, InNative
  <2>3. ASSUME NEW i \in ToSet(lane.active.prompted), lane.priority[i] = "next"
        PROVE  i \in Handed
    BY <1>1, <1>2, <1>3, <2>3 DEF Rides, InNative
  <2>4. ~InEarly(lane)' /\ InNative(lane)'
    BY <1>2, <1>3 DEF InEarly, InNative, HasTurn
  <2> QED BY <1>2, <1>11, <2>2, <2>3, <2>4 DEF Rides
<1>13. Before(lane.priority, Handed', Live(lane) \ Handed')
  BY <1>1, <1>3, <1>11 DEF Served
<1>14. Live(lane) \union Handed' \subseteq ToSet(arrival)
  BY <1>1, <1>3, <1>11 DEF Listed
<1>15. Orderly(lane.priority, context', inbox')
  BY <1>2, <1>10 DEF p
<1> QED BY <1>1, <1>2, <1>3, <1>12, <1>13, <1>14, <1>15, BooksOrder

\* A native turn that fails drops its messages.
LEMMA ErrsOrder == ASSUME Inv, OrderInv(lane), ProviderErrs PROVE OrderInv(lane)'
<1>1. /\ open /\ ~open' /\ inbox' = <<>> /\ lane' = lane /\ context' = context
      /\ retained' = retained /\ arrival' = arrival
  BY DEF ProviderErrs
<1>2. TurnShape(lane) /\ RetainedInv(lane)
  BY DEF Inv, Shape, Env
<1>3. OrderInv(lane') /\ TurnShape(lane') /\ retained \intersect Live(lane') = {}
  BY <1>1, <1>2 DEF RetainedInv
<1> QED BY <1>1, <1>3, DropBooks

\* One that completes keeps what a retaining provider holds.
LEMMA CompletesOrder == ASSUME Inv, OrderInv(lane), ProviderCompletes PROVE OrderInv(lane)'
<1>0. PICK kept : Completes(kept) /\ Ends(kept)
  BY CompletesIs
<1>1. /\ Shape(lane) /\ EnvType /\ NativeInv(lane) /\ InboxInv(lane) /\ TurnShape(lane)
      /\ LineUp(lane) /\ Served(lane) /\ Rides(lane) /\ Listed(lane)
  BY DEF Inv, Env, Shape, OrderInv
<1>2. /\ open /\ open' = FALSE /\ HasTurn(lane) /\ inbox' = kept
      /\ lane' = lane /\ context' = context /\ arrival' = arrival
      /\ \A k \in 1..Len(inbox) : inbox[k].id # First(lane)
      /\ kept = inbox \/ kept = <<>>
  BY <1>0 DEF ProviderCompletes, Completes
<1>3. InNative(lane) /\ ~lane.closed /\ ~InEarly(lane)
  BY <1>1, <1>2 DEF NativeInv, InNative, InEarly, Native, Early
<1>4. Handed' = Handed \/ (kept = <<>> /\ Handed' = ToSet(context))
  <2>1. CASE kept = inbox
    BY <1>2, <2>1 DEF Handed, HeldNow, Parts
  <2>2. CASE kept = <<>>
    <3>1. Len(inbox') = 0
      BY <1>2, <2>2
    <3>2. HeldNow' = {}
      BY <3>1 DEF HeldNow
    <3> QED BY <1>2, <2>2, <3>2 DEF Handed
  <2> QED BY <1>2, <2>1, <2>2
<1>5. Handed' \subseteq Handed
  BY <1>4 DEF Handed
<1>6. Orderly(lane.priority, context', inbox')
  <2>1. CASE kept = inbox
    BY <1>1, <1>2, <2>1 DEF Served, Orderly, Parts
  <2>2. CASE kept = <<>>
    <3>1. Len(inbox') = 0
      BY <1>2, <2>2
    <3> QED BY <1>1, <1>2, <3>1 DEF Served, Orderly
  <2> QED BY <1>2, <2>1, <2>2
<1>7. Before(lane.priority, Handed', Live(lane) \ Handed')
  <2>1. CASE Handed' = Handed
    BY <1>1, <1>3, <2>1 DEF Served
  <2>2. CASE Handed' = ToSet(context)
    <3> SUFFICES ASSUME NEW i \in ToSet(context), NEW j \in Live(lane) \ ToSet(context)
                 PROVE  Ranks(lane.priority, i, j)
      BY <2>2 DEF Before
    <3>1. CASE j \in Handed
      <4>1. PICK k \in 1..Len(inbox) : j \in Parts(k)
        BY <3>1 DEF Handed, HeldNow
      <4> QED BY <1>1, <4>1 DEF Served, Before
    <3>2. CASE j \notin Handed
      BY <1>1, <1>3, <3>2 DEF Served, Before, Handed
    <3> QED BY <3>1, <3>2
  <2> QED BY <1>4, <2>1, <2>2
<1>8. ASSUME NEW i \in ToSet(lane.active.prompted), lane.priority[i] = "next"
      PROVE  i \in ToSet(context)
  <2> SUFFICES ASSUME i \notin ToSet(context) PROVE FALSE
    OBVIOUS
  <2>1. i \in Handed
    BY <1>1, <1>2, <1>3, <1>8 DEF Rides
  <2>2. PICK k \in 1..Len(inbox) : i \in Parts(k)
    BY <2>1 DEF Handed, HeldNow
  <2>3. inbox[k].parts = <<inbox[k].id>> /\ inbox[k].id \in Inputs
    BY <1>1, <1>2, EnvIs DEF InboxInv
  <2>4. i = inbox[k].id
    BY <2>2, <2>3, OneIs DEF Parts
  <2>5. i \in Live(lane) /\ i \notin ToSet(lane.active.steered)
    BY <1>1, <1>2 DEF Live, Ridden, TurnShape
  <2> QED BY <1>1, <1>2, <2>4, <2>5 DEF InboxInv
<1>9. Rides(lane)'
  <2>1. ~InEarly(lane)' /\ InNative(lane)'
    BY <1>2, <1>3 DEF InEarly, InNative, HasTurn
  <2>2. ASSUME NEW i \in ToSet(lane.active.steered)
        PROVE  i \in ToSet(context) \/ (i = lane.active.last /\ (lane.active.pending = i \/ lane.active.sealed))
    BY <1>1, <1>2, <1>3 DEF Rides
  <2> QED BY <1>2, <1>8, <2>1, <2>2 DEF Rides
<1>10. Live(lane) \union Handed' \subseteq ToSet(arrival)
  BY <1>1, <1>3, <1>5 DEF Listed
<1> QED BY <1>1, <1>2, <1>3, <1>6, <1>7, <1>9, <1>10, BooksOrder
-----------------------------------------------------------------------------
\* A message m joins what the provider holds.
LEMMA HandsOver ==
  ASSUME inbox \in Seq(Message), NEW m \in Message, NEW p, Orderly(p, context, inbox),
         inbox' = Append(inbox, m), context' = context,
         InOrder(p, m.parts), Before(p, Handed, ToSet(m.parts))
  PROVE  Orderly(p, context', inbox') /\ Handed' = Handed \union ToSet(m.parts)
<1> DEFINE b == inbox
           u == Append(b, m)
<1>1. b \in Seq(Message) /\ inbox' = u
  OBVIOUS
<1> HIDE DEF b
<1>2. /\ Len(b) \in Nat /\ Len(u) = Len(b) + 1 /\ u[Len(b) + 1] = m
      /\ \A k \in 1..Len(b) : u[k] = b[k] /\ k \in 1..Len(u) /\ k # Len(b) + 1
      /\ \A k \in 1..Len(u) : k \in 1..Len(b) \/ k = Len(b) + 1
      /\ Len(b) + 1 \in 1..Len(u)
      /\ \A k, l \in 1..Len(u) : k < l => k \in 1..Len(b)
  BY <1>1
<1> HIDE DEF u
<1>3. /\ ToSet(context) \subseteq Handed
      /\ \A k \in 1..Len(b) : ToSet(b[k].parts) \subseteq Handed
  BY DEF Handed, HeldNow, Parts, b
<1>4. /\ InOrder(p, context)
      /\ \A k \in 1..Len(b) : InOrder(p, b[k].parts) /\ Before(p, ToSet(context), ToSet(b[k].parts))
      /\ \A k, l \in 1..Len(b) : k < l => Before(p, ToSet(b[k].parts), ToSet(b[l].parts))
  BY DEF Orderly, b
<1>5. ASSUME NEW k \in 1..Len(u)
      PROVE  InOrder(p, u[k].parts) /\ Before(p, ToSet(context), ToSet(u[k].parts))
  <2>1. CASE k \in 1..Len(b)
    BY <1>2, <1>4, <2>1
  <2>2. CASE k = Len(b) + 1
    BY <1>2, <1>3, <2>2 DEF Before
  <2> QED BY <1>2, <2>1, <2>2
<1>6. ASSUME NEW k \in 1..Len(u), NEW l \in 1..Len(u), k < l
      PROVE  Before(p, ToSet(u[k].parts), ToSet(u[l].parts))
  <2>1. k \in 1..Len(b) /\ u[k] = b[k]
    BY <1>2, <1>6
  <2>2. CASE l \in 1..Len(b)
    BY <1>2, <1>4, <1>6, <2>1, <2>2
  <2>3. CASE l = Len(b) + 1
    BY <1>2, <1>3, <2>1, <2>3 DEF Before
  <2> QED BY <1>2, <2>2, <2>3
<1>7. Orderly(p, context, u)
  BY <1>4, <1>5, <1>6 DEF Orderly
<1>8. Handed' = Handed \union ToSet(m.parts)
  <2>1. \A x : x \in Handed <=> x \in ToSet(context) \/ \E k \in 1..Len(b) : x \in ToSet(b[k].parts)
    BY DEF Handed, HeldNow, Parts, b
  <2>2. \A x : x \in Handed' <=> x \in ToSet(context) \/ \E k \in 1..Len(u) : x \in ToSet(u[k].parts)
    BY <1>1 DEF Handed, HeldNow, Parts
  <2>3. ASSUME NEW x, NEW k \in 1..Len(u), x \in ToSet(u[k].parts)
        PROVE  x \in ToSet(m.parts) \/ \E l \in 1..Len(b) : x \in ToSet(b[l].parts)
    <3>1. CASE k \in 1..Len(b)
      <4>1. u[k] = b[k]
        BY <1>2, <3>1
      <4> QED BY <2>3, <3>1, <4>1
    <3>2. CASE k = Len(b) + 1
      <4>1. u[k] = m
        BY <1>2, <3>2
      <4> QED BY <2>3, <4>1
    <3> QED BY <1>2, <3>1, <3>2
  <2>4. ASSUME NEW x \in ToSet(m.parts) PROVE x \in Handed'
    BY <1>2, <2>2
  <2>5. ASSUME NEW x, NEW k \in 1..Len(b), x \in ToSet(b[k].parts)
        PROVE  x \in Handed'
    <3>1. u[k] = b[k] /\ k \in 1..Len(u)
      BY <1>2
    <3> QED BY <2>2, <2>5, <3>1
  <2>6. \A x : x \in Handed' <=> x \in Handed \/ x \in ToSet(m.parts)
    BY <2>1, <2>2, <2>3, <2>4, <2>5
  <2> QED BY <2>6
<1> QED BY <1>1, <1>7, <1>8

\* A steer comes after what was handed over before it.
LEMMA SteerDeliveredOrder ==
  ASSUME Inv, OrderInv(lane), NEW i \in Inputs, SteerDelivered(i)
  PROVE  OrderInv(lane)'
<1> DEFINE m == [id |-> i, parts |-> <<i>>]
           p == lane.priority
<1>1. /\ Shape(lane) /\ EnvType /\ NativeInv(lane) /\ InboxInv(lane) /\ TurnShape(lane)
      /\ QueueShape(lane) /\ DispatchShape(lane) /\ ContextInv(lane) /\ lane \in Lane
      /\ LineUp(lane) /\ Served(lane) /\ Rides(lane) /\ Listed(lane)
  BY DEF Inv, Env, Shape, OrderInv
<1>2. /\ lane.dispatch[i] = "steering" /\ open /\ open' = open /\ context' = context
      /\ retained' = retained /\ arrival' = arrival
      /\ inbox' = Append(inbox, m) /\ lane' = [lane EXCEPT !.dispatch[i] = "delivered"]
  BY DEF SteerDelivered
<1>3. /\ lane'.priority = p /\ lane'.active = lane.active /\ lane'.queued = lane.queued
      /\ lane'.carried = lane.carried /\ lane'.closed = lane.closed
  BY <1>1, <1>2 DEF Lane
<1>4. InNative(lane) /\ HasTurn(lane) /\ ~lane.closed /\ ~InEarly(lane)
  BY <1>1, <1>2 DEF NativeInv, InNative, InEarly, Native, Early
<1>5. /\ i = lane.active.last /\ i \in ToSet(lane.active.steered)
      /\ i \notin ToSet(context)
  BY <1>2, <1>4, OutgoingIs
<1>6. i \notin ToSet(lane.active.prompted) /\ i \in Live(lane) /\ i \in Ridden(lane)
  BY <1>1, <1>4, <1>5 DEF TurnShape, Live, Ridden
<1>7. i \notin Ids
  BY <1>1, <1>2, <1>4 DEF ContextInv
<1>8. i \notin Handed
  <2> SUFFICES ASSUME NEW k \in 1..Len(inbox), i \in Parts(k) PROVE FALSE
    BY <1>5 DEF Handed, HeldNow
  <2>1. inbox[k].id \in Inputs /\ inbox[k].id \in Ids
    BY <1>1, EnvIs DEF Ids
  <2>2. CASE inbox[k].parts = <<inbox[k].id>>
    <3>1. Parts(k) = {inbox[k].id}
      BY <2>1, <2>2, OneIs DEF Parts
    <3> QED BY <1>7, <2>1, <3>1
  <2>3. CASE inbox[k].parts = lane.active.prompted
    BY <1>6, <2>3 DEF Parts
  <2> QED BY <1>1, <2>2, <2>3 DEF InboxInv
<1>9. m \in Message /\ m.parts = <<i>> /\ ToSet(m.parts) = {i}
  BY OneIs DEF Message
<1> HIDE DEF m
<1>10. Orderly(p, context', inbox') /\ Handed' = Handed \union {i}
  <2>1. Orderly(p, context, inbox)
    BY <1>1 DEF Served, Orderly, Parts
  <2>2. InOrder(p, m.parts)
    BY <1>9, OrderOne
  <2>3. Before(p, Handed, ToSet(m.parts))
    BY <1>1, <1>4, <1>6, <1>8, <1>9 DEF Served, Before
  <2>4. inbox \in Seq(Message)
    BY <1>1 DEF EnvType
  <2> QED BY <1>2, <1>9, <2>1, <2>2, <2>3, <2>4, HandsOver
<1>11. Before(p, Handed', Live(lane) \ Handed')
  <2> SUFFICES ASSUME NEW x \in Handed \union {i}, NEW y \in Live(lane) \ (Handed \union {i}) PROVE Ranks(p, x, y)
    BY <1>10 DEF Before
  <2>1. CASE x \in Handed
    BY <1>1, <1>4, <2>1 DEF Served, Before
  <2>2. CASE x = i
    <3>1. CASE y \in ToSet(lane.queued)
      BY <1>1, <1>4, <1>6, <2>2, <3>1 DEF LineUp, Before
    <3>2. CASE y \in ToSet(lane.carried)
      BY <1>1, <1>4, <3>2, NoneIs DEF QueueShape
    <3>3. CASE y \in ToSet(lane.active.prompted)
      BY <1>1, <1>2, <1>4, <3>3 DEF Rides, Ranks
    <3>4. CASE y \in ToSet(lane.active.steered)
      BY <1>1, <1>4, <1>5, <3>4 DEF Rides, Handed
    <3> QED BY <1>4, <3>1, <3>2, <3>3, <3>4 DEF Live, Ridden
  <2> QED BY <2>1, <2>2
<1>12. Rides(lane)'
  <2>1. ~InEarly(lane)' /\ InNative(lane)'
    BY <1>3, <1>4 DEF InEarly, InNative, HasTurn
  <2>2. ASSUME NEW j \in ToSet(lane.active.steered)
        PROVE  j \in ToSet(context) \/ (j = lane.active.last /\ (lane.active.pending = j \/ lane.active.sealed))
    BY <1>1, <1>4 DEF Rides
  <2>3. ASSUME NEW j \in ToSet(lane.active.prompted), p[j] = "next" PROVE j \in Handed'
    BY <1>1, <1>2, <1>4, <1>10, <2>3 DEF Rides
  <2> QED BY <1>2, <1>3, <2>1, <2>2, <2>3 DEF Rides
<1>13. Live(lane) \union Handed' \subseteq ToSet(arrival)
  BY <1>1, <1>4, <1>6, <1>10 DEF Listed
<1>14. HasTurn(lane') <=> HasTurn(lane)
  BY <1>3 DEF HasTurn
<1> QED BY <1>1, <1>2, <1>3, <1>4, <1>10, <1>11, <1>12, <1>13, <1>14, BooksOrder

\* So does a prompt, adopted or not.
LEMMA SendInputOrder == ASSUME Inv, OrderInv(lane), SendInput PROVE OrderInv(lane)'
<1> DEFINE m == [id |-> First(lane), parts |-> lane.active.prompted]
           p == lane.priority
           P == ToSet(lane.active.prompted)
<1>1. /\ Shape(lane) /\ EnvType /\ NativeInv(lane) /\ InboxInv(lane) /\ TurnShape(lane)
      /\ QueueShape(lane) /\ RetainedInv(lane) /\ ContextInv(lane) /\ lane \in Lane
      /\ LineUp(lane) /\ Served(lane) /\ Rides(lane) /\ Listed(lane)
  BY DEF Inv, Env, Shape, OrderInv
<1>2. /\ HasTurn(lane) /\ Stage = "sending" /\ ~lane.closed
      /\ lane' = [lane EXCEPT !.active.stage = "sent"] /\ open' = TRUE
      /\ context' = context /\ arrival' = arrival
      /\ \/ First(lane) \in retained /\ inbox' = inbox
         \/ First(lane) \notin retained /\ retained' = retained /\ inbox' = Append(inbox, m)
  BY DEF SendInput, AtStage
<1>3. Staged(lane, "sent", lane') /\ lane'.priority = p
  <2>1. Staged(lane, "sent", lane')
    BY <1>1, <1>2, StageIs DEF Stages
  <2>2. lane'.priority = p
    BY <1>1, <1>2 DEF Lane
  <2> QED BY <2>1, <2>2
<1>4. /\ HasTurn(lane') /\ InNative(lane') /\ ~InEarly(lane') /\ InEarly(lane)
      /\ lane'.active.prompted = lane.active.prompted /\ lane'.active.steered = lane.active.steered
      /\ lane'.queued = lane.queued /\ lane'.carried = lane.carried /\ lane'.closed = lane.closed
  BY <1>2, <1>3 DEF Staged, InNative, InEarly, Native, Early, Stage
<1>5. ~open /\ lane.active.steered = <<>> /\ ToSet(lane.active.steered) = {}
  BY <1>1, <1>2, <1>4, NoneIs DEF NativeInv, InNative, InEarly, Early, Native, TurnShape, Stage
<1>6. /\ First(lane) \in Inputs /\ First(lane) \in P /\ P \subseteq Live(lane)
      /\ P \subseteq Inputs /\ lane.active.prompted \in Seq(Inputs) /\ P \subseteq Ridden(lane)
  BY <1>1, <1>2, EnvIs, LaneIs DEF TurnShape, Live, Ridden
<1>7. Orderly(p, context, inbox)
  BY <1>1 DEF Served, Orderly, Parts
<1>8. LineUp(lane) /\ arrival' = arrival /\ (HasTurn(lane') <=> HasTurn(lane))
  BY <1>1, <1>2, <1>4
<1>9. Live(lane) \union Handed \subseteq ToSet(arrival) /\ Before(p, Handed, Live(lane) \ Handed)
  BY <1>1, <1>2 DEF Listed, Served
<1>10. CASE First(lane) \in retained /\ inbox' = inbox
  <2>1. Handed' = Handed
    BY <1>2, <1>10 DEF Handed, HeldNow, Parts
  <2>2. ASSUME NEW i \in P, p[i] = "next" PROVE i \in Handed
    <3>1. i = First(lane)
      BY <1>1, <1>2, <1>4, <1>10, <2>2 DEF Rides
    <3>2. First(lane) \in Ids
      BY <1>1, <1>5, <1>6, <1>10 DEF RetainedInv
    <3>3. PICK k \in 1..Len(inbox) : inbox[k].id = i
      BY <3>1, <3>2 DEF Ids
    <3>4. i \in Parts(k)
      BY <1>1, <3>3 DEF InboxInv
    <3> QED BY <3>4 DEF Handed, HeldNow
  <2>3. Rides(lane)'
    BY <1>2, <1>3, <1>4, <1>5, <2>1, <2>2 DEF Rides
  <2>4. Orderly(p, context', inbox')
    BY <1>2, <1>7, <1>10
  <2> QED BY <1>2, <1>3, <1>4, <1>8, <1>9, <2>1, <2>3, <2>4, BooksOrder
<1>11. CASE First(lane) \notin retained /\ inbox' = Append(inbox, m)
  <2>1. ASSUME NEW k \in 1..Len(inbox)
        PROVE  Parts(k) \intersect Live(lane) = {}
    <3>1. inbox # <<>>
      BY <2>1
    <3>2. Len(inbox) = 1 /\ inbox[1].id \in retained
      BY <1>1, <1>5, <3>1 DEF InboxInv
    <3>3. inbox[k].parts = <<inbox[k].id>> /\ inbox[k].id \in Inputs
      BY <1>1, <1>5, <2>1, EnvIs DEF InboxInv
    <3>4. inbox[k].id \in retained
      BY <3>2
    <3>5. Parts(k) = {inbox[k].id} /\ inbox[k].id \in Ids
      BY <3>3, OneIs DEF Parts, Ids
    <3>6. inbox[k].id \notin Live(lane)
      BY <1>1, <1>4, <1>5, <1>11, <3>4, <3>5 DEF RetainedInv
    <3> QED BY <3>5, <3>6
  <2>2. P \intersect Handed = {}
    <3>1. P \intersect ToSet(context) = {}
      BY <1>1, <1>2, <1>4 DEF ContextInv
    <3>2. P \intersect HeldNow = {}
      BY <1>6, <2>1 DEF HeldNow
    <3> QED BY <3>1, <3>2 DEF Handed
  <2>3. m \in Message /\ m.parts = lane.active.prompted
    BY <1>6 DEF Message
  <2> HIDE DEF m
  <2>4. InOrder(p, m.parts)
    BY <1>1, <1>2, <2>3 DEF LineUp
  <2>5. Before(p, Handed, P)
    BY <1>6, <1>9, <2>2 DEF Before
  <2>6. Orderly(p, context', inbox') /\ Handed' = Handed \union P
    <3>1. inbox \in Seq(Message)
      BY <1>1 DEF EnvType
    <3> QED BY <1>2, <1>7, <1>11, <2>3, <2>4, <2>5, <3>1, HandsOver
  <2>7. Before(p, Handed', Live(lane) \ Handed')
    <3> SUFFICES ASSUME NEW x \in Handed \union P, NEW y \in Live(lane) \ (Handed \union P)
                 PROVE  Ranks(p, x, y)
      BY <2>6 DEF Before
    <3>1. CASE x \in Handed
      BY <1>9, <3>1 DEF Before
    <3>2. CASE x \in P
      <4>1. CASE y \in ToSet(lane.queued)
        BY <1>1, <1>2, <1>6, <3>2, <4>1 DEF LineUp, Before
      <4>2. CASE y \in ToSet(lane.carried)
        BY <1>1, <1>2, <4>2, NoneIs DEF QueueShape
      <4> QED BY <1>2, <1>5, <4>1, <4>2 DEF Live, Ridden
    <3> QED BY <3>1, <3>2
  <2>8. Rides(lane)'
    BY <1>2, <1>3, <1>4, <1>5, <2>6 DEF Rides
  <2>9. Live(lane) \union Handed' \subseteq ToSet(arrival)
    BY <1>6, <1>9, <2>6
  <2> QED BY <1>2, <1>3, <1>4, <1>8, <2>6, <2>7, <2>8, <2>9, BooksOrder
<1> QED BY <1>2, <1>10, <1>11
-----------------------------------------------------------------------------
\* The elements of a sequence.
LEMMA MemberIs ==
  ASSUME NEW X, NEW s \in Seq(X)
  PROVE  \A a \in 1..Len(s) : s[a] \in ToSet(s) /\ s[a] \in X
BY InSet

\* The arrival of i takes back no order among the inputs that were submitted.
LEMMA ArrivedGrows ==
  ASSUME arrival \in Seq(Inputs), NEW i \in Inputs, arrival' = Append(arrival, i)
  PROVE  \A x \in ToSet(arrival') : \A y : Arrived(x, y) => Arrived(x, y)'
<1> DEFINE s == arrival
           t == Append(s, i)
<1>1. s \in Seq(Inputs) /\ arrival' = t
  OBVIOUS
<1> HIDE DEF s
<1>2. /\ t \in Seq(Inputs) /\ Len(t) = Len(s) + 1 /\ Len(s) \in Nat
      /\ \A a \in 1..Len(s) : t[a] = s[a] /\ a \in 1..Len(t)
      /\ \A a \in 1..Len(t) : a \in 1..Len(s) \/ \A b \in 1..Len(t) : b <= a
  BY <1>1
<1> HIDE DEF t
<1> SUFFICES ASSUME NEW x \in ToSet(t), NEW y, Arrived(x, y),
                    NEW b \in 1..Len(t), t[b] = y
             PROVE  \E a \in 1..Len(t) : a <= b /\ t[a] = x
  BY <1>1 DEF Arrived
<1>3. CASE b \in 1..Len(s)
  <2>1. \E a \in 1..Len(s) : a <= b /\ s[a] = x
    BY <1>2, <1>3 DEF Arrived, s
  <2> QED BY <1>2, <2>1
<1>4. CASE \A a \in 1..Len(t) : a <= b
  <2>1. PICK a \in 1..Len(t) : t[a] = x
    BY <1>2, InSet
  <2> QED BY <1>4, <2>1
<1> QED BY <1>2, <1>3, <1>4

\* What is in order before the arrival of i is so after it.
LEMMA ArrivesOrder ==
  ASSUME Inv', arrival \in Seq(Inputs), NEW i \in Inputs, arrival' = Append(arrival, i),
         LineUp(lane'), Orderly(lane'.priority, context', inbox'),
         ~lane'.closed => Before(lane'.priority, Handed', Live(lane') \ Handed'),
         Rides(lane)', Listed(lane)', ~lane'.closed
  PROVE  OrderInv(lane)'
<1>1. \A x \in ToSet(arrival') : \A y : Arrived(x, y) => Arrived(x, y)'
  BY ArrivedGrows
<1>2. /\ Live(lane)' = Live(lane') /\ Ridden(lane)' = Ridden(lane')
      /\ HasTurn(lane)' <=> HasTurn(lane')
  BY DEF Live, Ridden, HasTurn
<1> DEFINE M == lane'
<1>3. M \in Lane /\ inbox' \in Seq(Message) /\ context' \in Seq(Inputs)
  BY DEF Inv, Shape, EnvType
<1> HIDE DEF M
<1>4. /\ M.queued \in Seq(Inputs)
      /\ HasTurn(M) => M.active.prompted \in Seq(Inputs) /\ M.active.steered \in Seq(Inputs)
  BY <1>3, LaneIs
<1>5. \A a \in 1..Len(M.queued) : M.queued[a] \in ToSet(M.queued)
  <2> DEFINE s == M.queued
  <2>1. s \in Seq(Inputs)
    BY <1>4
  <2> HIDE DEF s
  <2>2. \A a \in 1..Len(s) : s[a] \in ToSet(s)
    BY <2>1, MemberIs
  <2> QED BY <2>2 DEF s
<1>6. ASSUME HasTurn(M)
      PROVE  \A a \in 1..Len(M.active.prompted) : M.active.prompted[a] \in ToSet(M.active.prompted)
  <2> DEFINE s == M.active.prompted
  <2>1. s \in Seq(Inputs)
    BY <1>4, <1>6
  <2> HIDE DEF s
  <2>2. \A a \in 1..Len(s) : s[a] \in ToSet(s)
    BY <2>1, MemberIs
  <2> QED BY <2>2 DEF s
<1>7. ASSUME HasTurn(M)
      PROVE  \A a \in 1..Len(M.active.steered) : M.active.steered[a] \in ToSet(M.active.steered)
  <2> DEFINE s == M.active.steered
  <2>1. s \in Seq(Inputs)
    BY <1>4, <1>7
  <2> HIDE DEF s
  <2>2. \A a \in 1..Len(s) : s[a] \in ToSet(s)
    BY <2>1, MemberIs
  <2> QED BY <2>2 DEF s
<1>8. \A k \in 1..Len(inbox') : inbox'[k].parts \in Seq(Inputs)
  <2> DEFINE b == inbox'
  <2>1. b \in Seq(Message)
    BY <1>3
  <2> HIDE DEF b
  <2>2. \A k \in 1..Len(b) : b[k].parts \in Seq(Inputs)
    <3>1. \A k \in 1..Len(b) : b[k] \in Message
      BY <2>1, MemberIs
    <3> QED BY <3>1 DEF Message
  <2> QED BY <2>2 DEF b
<1> USE DEF M
<1>9. Live(lane') \union Handed' \subseteq ToSet(arrival')
  BY <1>2 DEF Listed
<1>10. /\ ToSet(lane'.queued) \subseteq ToSet(arrival') /\ Ridden(lane') \subseteq ToSet(arrival')
       /\ HasTurn(lane') => /\ ToSet(lane'.active.prompted) \subseteq ToSet(arrival')
                            /\ ToSet(lane'.active.steered) \subseteq ToSet(arrival')
       /\ ToSet(context') \subseteq ToSet(arrival')
       /\ \A k \in 1..Len(inbox') : ToSet(inbox'[k].parts) \subseteq ToSet(arrival')
  BY <1>9 DEF Live, Ridden, Handed, HeldNow, Parts
<1>11. LineUp(lane)'
  <2>1. InOrder(lane.priority, lane.queued)'
    <3> SUFFICES ASSUME NEW a \in 1..Len(lane'.queued), NEW b \in 1..Len(lane'.queued), a < b
                 PROVE  Ranks(lane.priority, lane.queued[a], lane.queued[b])'
      BY DEF InOrder
    <3>1. Ranks(lane'.priority, lane'.queued[a], lane'.queued[b])
      BY DEF LineUp, InOrder
    <3>2. lane'.queued[a] \in ToSet(arrival')
      BY <1>10, <1>5
    <3> QED BY <1>1, <3>1, <3>2 DEF Ranks
  <2>2. ASSUME HasTurn(lane') PROVE InOrder(lane.priority, lane.active.prompted)'
    <3> SUFFICES ASSUME NEW a \in 1..Len(lane'.active.prompted), NEW b \in 1..Len(lane'.active.prompted), a < b
                 PROVE  Ranks(lane.priority, lane.active.prompted[a], lane.active.prompted[b])'
      BY DEF InOrder
    <3>1. Ranks(lane'.priority, lane'.active.prompted[a], lane'.active.prompted[b])
      BY <2>2 DEF LineUp, InOrder
    <3>2. lane'.active.prompted[a] \in ToSet(arrival')
      BY <1>10, <1>6, <2>2
    <3> QED BY <1>1, <3>1, <3>2 DEF Ranks
  <2>3. ASSUME HasTurn(lane') PROVE InOrder(lane.priority, lane.active.steered)'
    <3> SUFFICES ASSUME NEW a \in 1..Len(lane'.active.steered), NEW b \in 1..Len(lane'.active.steered), a < b
                 PROVE  Ranks(lane.priority, lane.active.steered[a], lane.active.steered[b])'
      BY DEF InOrder
    <3>1. Ranks(lane'.priority, lane'.active.steered[a], lane'.active.steered[b])
      BY <2>3 DEF LineUp, InOrder
    <3>2. lane'.active.steered[a] \in ToSet(arrival')
      BY <1>10, <1>7, <2>3
    <3> QED BY <1>1, <3>1, <3>2 DEF Ranks
  <2>4. ASSUME HasTurn(lane')
        PROVE  /\ Before(lane.priority, ToSet(lane.active.prompted), ToSet(lane.active.steered))'
               /\ Before(lane.priority, Ridden(lane), ToSet(lane.queued))'
    BY <1>1, <1>2, <1>10, <2>4 DEF LineUp, Before, Ranks
  <2> QED BY <1>2, <2>1, <2>2, <2>3, <2>4 DEF LineUp
<1>12. Served(lane)'
  <2>1. InOrder(lane.priority, context)'
    <3> SUFFICES ASSUME NEW a \in 1..Len(context'), NEW b \in 1..Len(context'), a < b
                 PROVE  Ranks(lane.priority, context[a], context[b])'
      BY DEF InOrder
    <3>1. Ranks(lane'.priority, context'[a], context'[b])
      BY DEF Orderly, InOrder
    <3>2. context'[a] \in ToSet(arrival')
      BY <1>3, <1>10, InSet
    <3> QED BY <1>1, <3>1, <3>2 DEF Ranks
  <2>2. (Served(lane)!2)'
    <3> SUFFICES ASSUME NEW k \in 1..Len(inbox')
                 PROVE  /\ InOrder(lane.priority, inbox[k].parts)'
                        /\ Before(lane.priority, ToSet(context), Parts(k))'
      OBVIOUS
    <3>1. InOrder(lane.priority, inbox[k].parts)'
      <4> SUFFICES ASSUME NEW a \in 1..Len(inbox'[k].parts), NEW b \in 1..Len(inbox'[k].parts), a < b
                   PROVE  Ranks(lane.priority, inbox[k].parts[a], inbox[k].parts[b])'
        BY DEF InOrder
      <4>1. Ranks(lane'.priority, inbox'[k].parts[a], inbox'[k].parts[b])
        BY DEF Orderly, InOrder
      <4>2. inbox'[k].parts[a] \in ToSet(arrival')
        <5> DEFINE u == inbox'[k].parts
        <5>1. u \in Seq(Inputs) /\ a \in 1..Len(u) /\ ToSet(u) \subseteq ToSet(arrival')
          BY <1>10, <1>8
        <5> HIDE DEF u
        <5>2. u[a] \in ToSet(arrival')
          BY <5>1, InSet
        <5> QED BY <5>2 DEF u
      <4> QED BY <1>1, <4>1, <4>2 DEF Ranks
    <3>2. Before(lane.priority, ToSet(context), Parts(k))'
      <4>1. Before(lane'.priority, ToSet(context'), ToSet(inbox'[k].parts))
        BY DEF Orderly
      <4> QED BY <1>1, <1>10, <4>1 DEF Before, Ranks, Parts
    <3> QED BY <3>1, <3>2
  <2>3. (Served(lane)!3)'
    BY <1>1, <1>10 DEF Orderly, Before, Ranks, Parts
  <2>4. (~lane.closed => Before(lane.priority, Handed, Live(lane) \ Handed))'
    BY <1>1, <1>2, <1>9 DEF Before, Ranks
  <2> QED BY <2>1, <2>2, <2>3, <2>4 DEF Served
<1> QED BY <1>11, <1>12 DEF OrderInv
-----------------------------------------------------------------------------
\* An input arrives and its lane is in order: with what the provider holds, or
\* with what is left of it after an interrupt.
LEMMA SubmitBooks ==
  ASSUME Inv', arrival \in Seq(Inputs), NEW i \in Inputs, arrival' = Append(arrival, i),
         ~lane'.closed, Ordered(lane'), Live(lane') \subseteq ToSet(arrival) \union {i},
         Handed \subseteq ToSet(arrival), InterruptProvider \/ UNCHANGED providerVars
  PROVE  OrderInv(lane)'
<1>1. LineUp(lane') /\ Served(lane') /\ Rides(lane')
  BY DEF Ordered
<1>2. ToSet(arrival') = ToSet(arrival) \union {i}
  BY AppendIs
<1>3. context' = context /\ ToSet(context) \subseteq Handed
  BY DEF InterruptProvider, providerVars, Handed
<1>4. Live(lane)' = Live(lane')
  BY DEF Live, Ridden, HasTurn
<1>5. TurnShape(lane')
  BY DEF Inv, Shape
<1>6. CASE UNCHANGED <<inbox, retained, open>>
  <2>1. Handed' = Handed
    BY <1>3, <1>6 DEF Handed, HeldNow, Parts
  <2>2. Orderly(lane'.priority, context', inbox')
    BY <1>1, <1>3, <1>6 DEF Served, Orderly, Parts
  <2>3. Before(lane'.priority, Handed', Live(lane') \ Handed')
    BY <1>1, <2>1 DEF Served
  <2>4. Rides(lane)'
    BY <1>1, <1>3, <1>6, <2>1 DEF Rides, HasTurn, First, InEarly, InNative, Live, Ridden
  <2>5. Listed(lane)'
    BY <1>2, <1>3, <1>4, <2>1 DEF Listed
  <2> QED BY <1>1, <2>2, <2>3, <2>4, <2>5, ArrivesOrder
<1>7. CASE inbox' = <<>> /\ retained' = {} /\ ~open'
  <2>1. Handed' = ToSet(context)
    <3>1. Len(inbox') = 0
      BY <1>7
    <3> QED BY <1>3, <3>1 DEF Handed, HeldNow
  <2>2. Orderly(lane'.priority, context', inbox')
    <3>1. Len(inbox') = 0
      BY <1>7
    <3> QED BY <1>1, <1>3, <3>1 DEF Served, Orderly
  <2>3. Before(lane'.priority, Handed', Live(lane') \ Handed')
    BY <1>1, <2>1, ReadFirst
  <2>4. Rides(lane)'
    BY <1>1, <1>3, <1>5, <1>7, DropRides
  <2>5. Listed(lane)'
    BY <1>2, <1>3, <1>4, <2>1 DEF Listed
  <2> QED BY <1>1, <2>2, <2>3, <2>4, <2>5, ArrivesOrder
<1> QED BY <1>6, <1>7 DEF InterruptProvider, providerVars
-----------------------------------------------------------------------------
\* Nothing has arrived that the lane has not taken.
Arrivals == arrival \in Seq(Inputs) /\ \A i \in ToSet(arrival) : lane.state[i] # "new"

\* An input that has not arrived comes after whatever has.
LEMMA LatestIs ==
  ASSUME Inv, Arrivals, NEW i \in Inputs, lane.state[i] = "new"
  PROVE  /\ i \notin ToSet(arrival) /\ i \notin Handed
         /\ \A p, x : Ranks(p, x, i)
<1>1. i \notin ToSet(arrival)
  BY DEF Arrivals
<1>2. \A b \in 1..Len(arrival) : arrival[b] # i
  BY <1>1, MemberIs DEF Arrivals
<1>3. \A p, x : Ranks(p, x, i)
  BY <1>2 DEF Ranks, Arrived
<1>4. i \notin Handed
  BY FreshIs DEF Inv, Env, KnownInv, Handed, HeldNow
<1> QED BY <1>1, <1>3, <1>4

\* A new input joins the queue as its last.
LEMMA JoinedOrder ==
  ASSUME Inv, Arrivals, OrderInv(lane), NEW i \in Inputs, lane.state[i] = "new", ~lane.closed,
         HasTurn(lane), NEW L, Joined(i, L),
         \A x \in Inputs : x # i => L.priority[x] = lane.priority[x]
  PROVE  Ordered(L) /\ Live(L) = Live(lane) \union {i}
<1> DEFINE p == lane.priority
           r == L.priority
           q == lane.queued
           one == <<i>>
<1>1. /\ Shape(lane) /\ EnvType /\ LineUp(lane) /\ Served(lane) /\ Rides(lane)
  BY DEF Inv, OrderInv
<1>2. /\ q \in Seq(Inputs) /\ lane.active.prompted \in Seq(Inputs)
      /\ lane.active.steered \in Seq(Inputs) /\ context \in Seq(Inputs)
      /\ Live(lane) \subseteq Inputs /\ Ridden(lane) \subseteq Live(lane)
      /\ Ridden(lane) = ToSet(lane.active.prompted) \union ToSet(lane.active.steered)
      /\ ToSet(q) \subseteq Live(lane) /\ inbox \in Seq(Message)
  BY <1>1, EnvIs, LaneIs DEF Shape, EnvType, Live, Ridden
<1>3. \A k \in 1..Len(inbox) : inbox[k].parts \in Seq(Inputs) /\ Parts(k) \subseteq Handed
  BY <1>1, EnvIs DEF Handed, HeldNow
<1>4. /\ ToSet(context) \subseteq Handed /\ Handed \subseteq Inputs
  BY <1>1, EnvIs DEF Handed, HeldNow
<1>5. i \notin Live(lane) /\ i \notin retained
  BY FreshIs
<1>6. i \notin Handed /\ \A t, x : Ranks(t, x, i)
  BY LatestIs
<1>7. \A x \in Inputs \ {i}, y \in Inputs : Ranks(p, x, y) => Ranks(r, x, y)
  BY <1>6 DEF Ranks
<1>8. /\ L.active = lane.active /\ L.queued = Append(q, i) /\ L.carried = lane.carried
      /\ L.closed = lane.closed
  BY DEF Joined
<1>9. /\ HasTurn(L) /\ First(L) = First(lane) /\ Ridden(L) = Ridden(lane)
      /\ InNative(L) <=> InNative(lane)
      /\ InEarly(L) <=> InEarly(lane)
  BY <1>8 DEF HasTurn, First, Ridden, InNative, InEarly
<1> HIDE DEF p, r, q
<1>10. one \in Seq(Inputs) /\ ToSet(one) = {i} /\ Append(q, i) = q \o one
  <2>1. Append(q, i) = q \o one
    BY <1>2
  <2> QED BY <2>1, OneIs
<1>11. InOrder(r, one)
  BY OrderOne
<1> HIDE DEF one
<1>12. ToSet(L.queued) = ToSet(q) \union {i}
  BY <1>2, <1>8, <1>10, JoinIs
<1>13. Live(L) = Live(lane) \union {i}
  BY <1>8, <1>9, <1>12 DEF Live, q
<1>14. ASSUME NEW s \in Seq(Inputs), i \notin ToSet(s), InOrder(p, s) PROVE InOrder(r, s)
  <2>1. \A a \in 1..Len(s) : s[a] \in Inputs \ {i}
    BY <1>14, MemberIs
  <2> QED BY <1>7, <1>14, <2>1 DEF InOrder
<1>15. ASSUME NEW X \in SUBSET Inputs, i \notin X, NEW Y \in SUBSET Inputs, Before(p, X, Y)
       PROVE  Before(r, X, Y \union {i}) /\ Before(r, X, Y)
  BY <1>6, <1>7, <1>15 DEF Before
<1>16. LineUp(L)
  <2>1. /\ InOrder(p, q) /\ InOrder(p, lane.active.prompted) /\ InOrder(p, lane.active.steered)
        /\ Before(p, ToSet(lane.active.prompted), ToSet(lane.active.steered))
        /\ Before(p, Ridden(lane), ToSet(q))
    BY <1>1 DEF LineUp, p, q
  <2>2. /\ InOrder(r, q) /\ InOrder(r, lane.active.prompted) /\ InOrder(r, lane.active.steered)
    BY <1>2, <1>5, <1>14, <2>1
  <2>3. Before(r, ToSet(q), ToSet(one))
    BY <1>6, <1>10 DEF Before
  <2>4. InOrder(r, L.queued)
    <3>1. InOrder(r, q \o one)
      BY <1>2, <1>10, <1>11, <2>2, <2>3, OrderJoin
    <3> QED BY <1>8, <1>10, <3>1
  <2>5. Before(r, ToSet(lane.active.prompted), ToSet(lane.active.steered))
    <3>1. /\ ToSet(lane.active.prompted) \in SUBSET Inputs /\ i \notin ToSet(lane.active.prompted)
          /\ ToSet(lane.active.steered) \in SUBSET Inputs
      BY <1>2, <1>5
    <3> QED BY <1>15, <2>1, <3>1
  <2>6. Before(r, Ridden(L), ToSet(L.queued))
    <3>1. /\ Ridden(lane) \in SUBSET Inputs /\ i \notin Ridden(lane) /\ ToSet(q) \in SUBSET Inputs
      BY <1>2, <1>5
    <3> QED BY <1>9, <1>12, <1>15, <2>1, <3>1
  <2> QED BY <1>8, <2>2, <2>4, <2>5, <2>6 DEF LineUp, r
<1>17. Served(L)
  <2>1. /\ InOrder(p, context)
        /\ \A k \in 1..Len(inbox) : InOrder(p, inbox[k].parts) /\ Before(p, ToSet(context), Parts(k))
        /\ \A k, m \in 1..Len(inbox) : k < m => Before(p, Parts(k), Parts(m))
        /\ Before(p, Handed, Live(lane) \ Handed)
    BY <1>1 DEF Served, p
  <2>2. i \notin ToSet(context) /\ \A k \in 1..Len(inbox) : i \notin Parts(k) /\ Parts(k) \in SUBSET Inputs
    BY <1>3, <1>4, <1>6
  <2>3. InOrder(r, context)
    BY <1>2, <1>14, <2>1, <2>2
  <2>4. ASSUME NEW k \in 1..Len(inbox)
        PROVE  InOrder(r, inbox[k].parts) /\ Before(r, ToSet(context), Parts(k))
    <3>1. InOrder(r, inbox[k].parts)
      BY <1>3, <1>14, <2>1, <2>2 DEF Parts
    <3>2. ToSet(context) \in SUBSET Inputs
      BY <1>4
    <3> QED BY <1>15, <2>1, <2>2, <3>1, <3>2
  <2>5. ASSUME NEW k \in 1..Len(inbox), NEW m \in 1..Len(inbox), k < m
        PROVE  Before(r, Parts(k), Parts(m))
    BY <1>15, <2>1, <2>2, <2>5
  <2>6. Before(r, Handed, Live(L) \ Handed)
    <3>1. /\ Handed \in SUBSET Inputs /\ (Live(lane) \ Handed) \in SUBSET Inputs
          /\ Live(L) \ Handed = (Live(lane) \ Handed) \union {i}
      BY <1>2, <1>4, <1>6, <1>13
    <3> QED BY <1>6, <1>15, <2>1, <3>1
  <2> QED BY <2>3, <2>4, <2>5, <2>6 DEF Served, r
<1>18. Rides(L)
  <2>1. \A j \in ToSet(lane.active.prompted) : L.priority[j] = lane.priority[j]
    BY <1>2, <1>5
  <2>2. retained \intersect Live(L) = retained \intersect Live(lane)
    BY <1>5, <1>13
  <2>3. Rides(lane)
    BY <1>1
  <2> QED BY <1>8, <1>9, <2>1, <2>2, <2>3 DEF Rides
<1> QED BY <1>13, <1>16, <1>17, <1>18 DEF Ordered
-----------------------------------------------------------------------------
\* submit() with no turn.
LEMMA SubmitFirstOrder ==
  ASSUME Inv, Inv', Arrivals, OrderInv(lane), NEW i \in Inputs, NEW p \in {"next", "now"},
         lane.state[i] = "new", ~lane.closed, SubmitFirst(i, p), arrival' = Append(arrival, i)
  PROVE  OrderInv(lane)' /\ i \in Live(lane')
<1> DEFINE A == Accepted(i, p)
           M == lane'
<1>1. /\ lane \in Lane /\ ~HasTurn(lane) /\ QueueShape(lane) /\ NativeInv(lane) /\ InboxInv(lane)
      /\ Shape(lane) /\ EnvType
  BY DEF Inv, Shape, Env, SubmitFirst
<1>2. AcceptedAs(i, A)
  BY <1>1, AcceptedIs
<1>3. lane.queued = <<>> /\ lane.carried = <<>> /\ Live(lane) = {}
  BY <1>1, NoneIs DEF QueueShape, Live, Ridden
<1>4. M = Start(A, i) /\ UNCHANGED providerVars
  BY DEF SubmitFirst
<1>5. \A x \in Inputs : x # i => A.priority[x] = lane.priority[x]
  BY <1>1 DEF Accepted, Lane
<1> HIDE DEF A
<1>6. A \in Lane /\ A.queued = <<>> /\ A.carried = <<>> /\ A.closed = lane.closed
  BY <1>2, <1>3 DEF AcceptedAs
<1>7. Started(A, i, Start(A, i))
  BY <1>6, StartIs
<1> HIDE DEF M
<1>8. Started(A, i, M)
  BY <1>4, <1>7
<1>9. /\ Absorbed(A, i) \in Seq(Inputs) /\ ToSet(Absorbed(A, i)) = {}
      /\ Rest(A, i) \in Seq(Inputs) /\ ToSet(Rest(A, i)) = {}
  <2>1. /\ Absorbed(A, i) \in Seq(Inputs) /\ Rest(A, i) \in Seq(Inputs)
        /\ ToSet(Absorbed(A, i)) \subseteq ToSet(A.queued)
        /\ ToSet(Rest(A, i)) = ToSet(A.queued) \ ToSet(Absorbed(A, i))
    BY <1>6, PromptIs
  <2> QED BY <1>6, <2>1, NoneIs
<1>10. Absorbed(A, i) = <<>> /\ Rest(A, i) = <<>>
  BY <1>9, InSet
<1>11. Prompt(A, i) = <<i>>
  BY <1>6, <1>10 DEF Prompt
<1>12. /\ HasTurn(M) /\ M.active.prompted = <<i>> /\ M.active.steered = <<>>
       /\ M.active.stage = "waiting" /\ M.queued = <<>> /\ M.carried = <<>>
       /\ ~M.closed /\ M.priority = A.priority /\ First(M) = i
  BY <1>6, <1>8, <1>10, <1>11 DEF Started, First
<1>13. /\ ToSet(M.active.prompted) = {i} /\ ToSet(M.active.steered) = {} /\ ToSet(M.queued) = {}
       /\ ToSet(M.carried) = {} /\ Ridden(M) = {i} /\ Live(M) = {i}
  <2>1. ToSet(<<i>>) = {i}
    BY OneIs
  <2> QED BY <1>12, <2>1, NoneIs DEF Live, Ridden
<1>14. ~open /\ InEarly(M) /\ ~InNative(M)
  BY <1>1, <1>12 DEF NativeInv, InNative, InEarly, Early, Native
<1>15. /\ i \notin Handed /\ \A t, x : Ranks(t, x, i)
  BY LatestIs
<1>16. Handed \subseteq Inputs /\ ToSet(context) \subseteq Handed
       /\ context \in Seq(Inputs)
       /\ \A k \in 1..Len(inbox) : inbox[k].parts \in Seq(Inputs) /\ Parts(k) \subseteq Handed
  BY <1>1, EnvIs DEF Handed, HeldNow, EnvType
<1>17. \A x \in Handed, y \in Handed : Ranks(lane.priority, x, y) => Ranks(M.priority, x, y)
  BY <1>5, <1>12, <1>15, <1>16 DEF Ranks
<1>18. Served(M)
  <2>1. Served(lane)
    BY DEF OrderInv
  <2>2. InOrder(M.priority, context)
    <3>1. \A a \in 1..Len(context) : context[a] \in Handed
      BY <1>16, MemberIs
    <3> QED BY <1>17, <2>1, <3>1 DEF Served, InOrder
  <2>3. ASSUME NEW k \in 1..Len(inbox)
        PROVE  InOrder(M.priority, inbox[k].parts) /\ Before(M.priority, ToSet(context), Parts(k))
    <3> DEFINE s == inbox[k].parts
    <3>1. s \in Seq(Inputs) /\ InOrder(lane.priority, s) /\ ToSet(s) \subseteq Handed
      BY <1>16, <2>1 DEF Served, Parts
    <3> HIDE DEF s
    <3>2. \A a \in 1..Len(s) : s[a] \in Handed
      BY <3>1, MemberIs
    <3>3. InOrder(M.priority, s)
      BY <1>17, <3>1, <3>2 DEF InOrder
    <3>4. Before(M.priority, ToSet(context), Parts(k))
      BY <1>16, <1>17, <2>1 DEF Served, Before
    <3> QED BY <3>3, <3>4 DEF s
  <2>4. \A k, m \in 1..Len(inbox) : k < m => Before(M.priority, Parts(k), Parts(m))
    BY <1>16, <1>17, <2>1 DEF Served, Before
  <2>5. Before(M.priority, Handed, Live(M) \ Handed)
    BY <1>13, <1>15 DEF Before
  <2> QED BY <2>2, <2>3, <2>4, <2>5 DEF Served
<1>19. LineUp(M)
  BY <1>12, <1>13, OrderOne DEF LineUp, Before
<1>20. Rides(M)
  BY <1>12, <1>13, <1>14 DEF Rides
<1>21. Live(M) \subseteq ToSet(arrival) \union {i} /\ Handed \subseteq ToSet(arrival)
  BY <1>13 DEF OrderInv, Listed
<1>22. OrderInv(lane)'
  BY <1>4, <1>12, <1>18, <1>19, <1>20, <1>21, SubmitBooks DEF Arrivals, Ordered, M
<1> QED BY <1>13, <1>22 DEF M

\* submit() during a turn.
LEMMA SubmitNextOrder ==
  ASSUME Inv, Inv', Arrivals, OrderInv(lane), NEW i \in Inputs,
         lane.state[i] = "new", ~lane.closed, SubmitNext(i), arrival' = Append(arrival, i)
  PROVE  OrderInv(lane)' /\ i \in Live(lane')
<1> DEFINE L == [Accepted(i, "next") EXCEPT !.queued = Append(@, i)]
<1>1. lane \in Lane /\ HasTurn(lane) /\ lane' = Flush(L) /\ UNCHANGED providerVars
  BY DEF Inv, Shape, SubmitNext
<1>2. Joined(i, L)
  BY <1>1, JoinedIs
<1>3. \A x \in Inputs : x # i => L.priority[x] = lane.priority[x]
  BY <1>1 DEF Accepted, Lane
<1> HIDE DEF L
<1>4. L \in Lane /\ L.closed = lane.closed /\ TurnShape(L)
  BY <1>1, <1>2, JoinedInv DEF Joined, Shape
<1>5. Ordered(L) /\ Live(L) = Live(lane) \union {i}
  BY <1>1, <1>2, <1>3, JoinedOrder
<1>6. Ordered(Flush(L)) /\ Live(Flush(L)) = Live(L) /\ Flush(L).closed = L.closed
  BY <1>4, <1>5, FlushOrdered
<1>7. /\ Ordered(lane') /\ Live(lane') = Live(lane) \union {i} /\ ~lane'.closed
  BY <1>1, <1>4, <1>5, <1>6
<1>8. Live(lane') \subseteq ToSet(arrival) \union {i} /\ Handed \subseteq ToSet(arrival)
  BY <1>7 DEF OrderInv, Listed
<1> QED BY <1>1, <1>7, <1>8, SubmitBooks DEF Arrivals

\* submit() of an interrupting input.
LEMMA SubmitNowOrder ==
  ASSUME Inv, Inv', Arrivals, OrderInv(lane), NEW i \in Inputs,
         lane.state[i] = "new", ~lane.closed, SubmitNow(i), arrival' = Append(arrival, i)
  PROVE  OrderInv(lane)' /\ i \in Live(lane')
<1> DEFINE L == [Accepted(i, "now") EXCEPT !.queued = Append(@, i)]
           t == [lane.active EXCEPT !.superseded = TRUE, !.sealed = TRUE, !.interrupted = TRUE]
<1>1. lane \in Lane /\ HasTurn(lane)
  BY DEF Inv, Shape, SubmitNow
<1>2. Joined(i, L)
  BY <1>1, JoinedIs
<1>3. \A x \in Inputs : x # i => L.priority[x] = lane.priority[x]
  BY <1>1 DEF Accepted, Lane
<1>4. \/ lane' = L /\ UNCHANGED providerVars
      \/ /\ lane' = [L EXCEPT !.active = [@ EXCEPT !.superseded = TRUE,
                                             !.sealed = TRUE, !.interrupted = TRUE]]
         /\ InterruptProvider \/ UNCHANGED providerVars
  BY DEF SubmitNow
<1> HIDE DEF L
<1>5. /\ L \in Lane /\ L.active = lane.active /\ L.closed = lane.closed /\ HasTurn(L)
      /\ TurnShape(L) /\ L.queued # <<>>
  BY <1>1, <1>2, JoinedInv DEF Joined, Shape, HasTurn
<1>6. Ordered(L) /\ Live(L) = Live(lane) \union {i}
  BY <1>1, <1>2, <1>3, JoinedOrder
<1>7. CASE lane' = L /\ UNCHANGED providerVars
  <2>1. Live(lane') \subseteq ToSet(arrival) \union {i} /\ Handed \subseteq ToSet(arrival)
    BY <1>6, <1>7 DEF OrderInv, Listed
  <2> QED BY <1>5, <1>6, <1>7, <2>1, SubmitBooks DEF Arrivals
<1>8. CASE /\ lane' = [L EXCEPT !.active = [@ EXCEPT !.superseded = TRUE,
                                               !.sealed = TRUE, !.interrupted = TRUE]]
           /\ InterruptProvider \/ UNCHANGED providerVars
  <2> DEFINE M == [L EXCEPT !.active = t]
  <2>1. lane' = M
    BY <1>5, <1>8 DEF Lane
  <2>2. L.active \in Turn
    BY <1>5, LaneIs
  <2>3. Marked(L, t) /\ t \in Turn
    BY <1>5, <2>2 DEF Turn, Marked, TurnShape
  <2> HIDE DEF t
  <2>4. Turned(L, t, M)
    BY <1>5, <2>3, TurnedIs
  <2>5. M.priority = L.priority
    BY <1>5 DEF Lane
  <2> HIDE DEF M
  <2>6. Alike(L, M) /\ M.closed = L.closed
    BY <1>5, <2>3, <2>4, <2>5, AlikeMarked DEF Turned
  <2>7. Ordered(M)
    BY <1>6, <2>6, AlikeOrdered
  <2>8. Live(M) = Live(L)
    BY <1>5, <2>3, <2>4 DEF Turned, Marked, Live, Ridden, HasTurn
  <2>9. Live(lane') \subseteq ToSet(arrival) \union {i} /\ Handed \subseteq ToSet(arrival)
    BY <1>6, <2>1, <2>8 DEF OrderInv, Listed
  <2>10. i \in Live(lane') /\ Ordered(lane') /\ ~lane'.closed
    BY <1>5, <1>6, <2>1, <2>6, <2>7, <2>8
  <2> QED BY <1>8, <2>9, <2>10, SubmitBooks DEF Arrivals
<1> QED BY <1>4, <1>7, <1>8
-----------------------------------------------------------------------------
\* Every submit() keeps the order, and the lane has its input.
LEMMA SubmitOrder ==
  ASSUME Inv, Inv', Arrivals, OrderInv(lane), NEW i \in Inputs, NEW p \in Priorities, Submit(i, p)
  PROVE  OrderInv(lane)' /\ i \in Live(lane')
<1>1. /\ ~lane.closed /\ lane.state[i] = "new" /\ p \in {"next", "now"}
      /\ arrival' = Append(arrival, i)
      /\ SubmitFirst(i, p) \/ SubmitNext(i) \/ SubmitNow(i)
  BY LaneAssumption DEF Submit
<1>2. CASE SubmitFirst(i, p)
  BY <1>1, <1>2, SubmitFirstOrder
<1>3. CASE SubmitNext(i)
  BY <1>1, <1>3, SubmitNextOrder
<1>4. CASE SubmitNow(i)
  BY <1>1, <1>4, SubmitNowOrder
<1> QED BY <1>1, <1>2, <1>3, <1>4

\* What arrived was taken, and stays so.
LEMMA ArrivalsStay ==
  ASSUME Arrivals, Stays(lane, lane'), arrival' = arrival
  PROVE  Arrivals'
BY InSet DEF Arrivals, Stays

\* Every step keeps the order.
LEMMA NextOrder ==
  ASSUME LaneInv, LaneInv', Arrivals, OrderInv(lane), [Next]_vars
  PROVE  Arrivals' /\ OrderInv(lane)'
<1>1. Inv /\ Inv' /\ Stays(lane, lane')
  BY StatusStays DEF LaneInv
<1>2. CASE UNCHANGED vars
  BY <1>1, <1>2, SameStep, ArrivalsStay DEF vars, providerVars
<1>3. CASE CallerStep
  <2>1. CASE Stop
    <3>1. arrival' = arrival
      BY <2>1 DEF Stop
    <3> QED BY <1>1, <2>1, <3>1, StopOrder, ArrivalsStay
  <2>2. CASE Close
    <3>1. arrival' = arrival
      BY <2>2 DEF Close
    <3> QED BY <1>1, <2>2, <3>1, CloseOrder, ArrivalsStay
  <2>3. ASSUME NEW i \in Inputs, NEW p \in Priorities, Submit(i, p)
        PROVE  Arrivals' /\ OrderInv(lane)'
    <3>1. OrderInv(lane)' /\ i \in Live(lane')
      BY <1>1, <2>3, SubmitOrder
    <3>2. arrival' = Append(arrival, i) /\ arrival \in Seq(Inputs)
      BY <2>3 DEF Submit, Arrivals
    <3>3. arrival' \in Seq(Inputs) /\ ToSet(arrival') = ToSet(arrival) \union {i}
      BY <3>2, AppendIs
    <3>4. lane'.state[i] # "new"
      BY <1>1, <3>1 DEF Inv, Shape, QueueShape
    <3>5. ToSet(arrival) \subseteq Inputs
      BY <3>2, InSet
    <3> QED BY <1>1, <3>1, <3>3, <3>4, <3>5 DEF Arrivals, Stays
  <2> QED BY <1>3, <2>1, <2>2, <2>3 DEF CallerStep
<1>4. CASE TurnStep
  <2>1. arrival' = arrival
    BY <1>4 DEF TurnStep, TakeMutex, SkipModel, BeforeSend, BeforeSendSaved, SendInput, TurnFails,
                Ready, AnswerSaved, MiddlewareAnswers
  <2>2. OrderInv(lane)'
    BY <1>1, <1>4, TakeMutexOrder, SkipModelOrder, StagesOrder, SendInputOrder, TurnFailsOrder,
       ReadyOrder DEF TurnStep
  <2> QED BY <1>1, <2>1, <2>2, ArrivalsStay
<1>5. CASE LoopStep
  <2>1. arrival' = arrival
    BY <1>5 DEF LoopStep, TakeEvent, ObserveSaved, LoopFinishes, LoopEnds
  <2>2. OrderInv(lane)'
    BY <1>1, <1>5, TakeOrder, ObserveOrder, LoopFinishesOrder, LoopEndsOrder DEF LoopStep
  <2> QED BY <1>1, <2>1, <2>2, ArrivalsStay
<1>6. CASE ProviderStep
  <2>1. arrival' = arrival
    BY <1>6 DEF ProviderStep, ProviderReads, ProviderCompletes, ProviderErrs
  <2>2. OrderInv(lane)'
    BY <1>1, <1>6, ReadsOrder, CompletesOrder, ErrsOrder DEF ProviderStep
  <2> QED BY <1>1, <2>1, <2>2, ArrivalsStay
<1>7. ASSUME NEW i \in Inputs, DispatchStep(i) PROVE Arrivals' /\ OrderInv(lane)'
  <2>1. arrival' = arrival
    BY <1>7 DEF DispatchStep, DispatchSaved, DispatchRequeued, SteerDelivered, SteerDeferred,
                SteerAccepted, DispatchFails
  <2>2. OrderInv(lane)'
    BY <1>1, <1>7, DispatchOrder, SteerDeliveredOrder DEF DispatchStep
  <2> QED BY <1>1, <2>1, <2>2, ArrivalsStay
<1> QED BY <1>2, <1>3, <1>4, <1>5, <1>6, <1>7 DEF Next

\* Nothing is out of order at first.
LEMMA InitOrder == Init => Arrivals /\ OrderInv(lane)
<1> SUFFICES ASSUME Init PROVE Arrivals /\ OrderInv(lane)
  OBVIOUS
<1>1. PICK p \in Providers :
        lane = [provider |-> p, active |-> NoTurn, queued |-> <<>>, carried |-> <<>>,
                closed |-> FALSE, turns |-> 0,
                state |-> [i \in Inputs |-> "new"],
                priority |-> [i \in Inputs |-> "next"],
                dispatch |-> [i \in Inputs |-> "none"],
                owner |-> [i \in Inputs |-> 0],
                durable |-> {}, broken |-> {}, answered |-> {},
                doubtful |-> {}, stopped |-> {}]
  BY DEF Init
<1>2. /\ ~HasTurn(lane) /\ lane.queued = <<>> /\ lane.carried = <<>>
      /\ inbox = <<>> /\ context = <<>> /\ arrival = <<>>
  BY <1>1 DEF Init, HasTurn
<1>3. ToSet(lane.queued) = {} /\ ToSet(lane.carried) = {} /\ ToSet(context) = {} /\ ToSet(arrival) = {}
  BY <1>2, NoneIs
<1>4. Live(lane) = {} /\ Len(inbox) = 0 /\ Handed = {}
  <2>1. Len(inbox) = 0
    BY <1>2
  <2> QED BY <1>2, <1>3, <2>1 DEF Live, Ridden, Handed, HeldNow
<1>5. arrival \in Seq(Inputs)
  BY <1>2
<1>6. LineUp(lane) /\ Rides(lane)
  BY <1>2, OrderOne DEF LineUp, Rides
<1>7. Served(lane)
  <2>1. InOrder(lane.priority, context)
    BY <1>2, OrderOne
  <2>2. 1..Len(inbox) = {}
    BY <1>4
  <2>3. Before(lane.priority, Handed, Live(lane) \ Handed)
    BY <1>4 DEF Before
  <2> QED BY <2>1, <2>2, <2>3 DEF Served
<1> QED BY <1>3, <1>4, <1>5, <1>6, <1>7 DEF Arrivals, OrderInv, Listed

\* What the lane's order says of what the model has read.
LEMMA ReadInOrderIs ==
  ASSUME LaneInv, Arrivals, OrderInv(lane)
  PROVE  ReadInOrder
<1>1. context \in Seq(Inputs) /\ Distinct(context)
  BY DEF LaneInv, Inv, EnvType, Env, InboxInv
<1>2. InOrder(lane.priority, context) /\ ToSet(context) \subseteq ToSet(arrival)
  BY DEF OrderInv, Served, Listed
<1> SUFFICES ASSUME NEW k \in 1..Len(context), NEW m \in 1..Len(context), k < m,
                    {lane.priority[context[k]], lane.priority[context[m]]} = {"next"}
             PROVE  \E a, b \in 1..Len(arrival) :
                      a <= b /\ arrival[a] = context[k] /\ arrival[b] = context[m]
  BY DEF ReadInOrder
<1>3. context[k] # context[m] /\ Ranks(lane.priority, context[k], context[m])
  BY <1>1, <1>2 DEF Distinct, InOrder
<1>4. Arrived(context[k], context[m])
  BY <1>3 DEF Ranks
<1>5. context[m] \in ToSet(arrival)
  BY <1>1, <1>2, MemberIs
<1>6. PICK b \in 1..Len(arrival) : arrival[b] = context[m]
  BY <1>5, InSet DEF Arrivals
<1> QED BY <1>4, <1>6 DEF Arrived

\* Inputs without priority are read in the order they were submitted, whatever
\* the interrupts, the failing calls and the turns in between.
THEOREM LaneReadInOrder == Spec => []ReadInOrder
<1>1. Init => Arrivals /\ OrderInv(lane)
  BY InitOrder
<1>2. (LaneInv /\ LaneInv') /\ (Arrivals /\ OrderInv(lane)) /\ [Next]_vars
        => (Arrivals /\ OrderInv(lane))'
  BY NextOrder
<1>3. LaneInv /\ Arrivals /\ OrderInv(lane) => ReadInOrder
  BY ReadInOrderIs
<1> QED BY <1>1, <1>2, <1>3, LaneSafe, PTL DEF Spec
=============================================================================
